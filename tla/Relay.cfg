\* Two relays take the lock from each other while Redis keeps what it holds, or one
\* relay has Redis wiped under it (PairOrLone).
SPECIFICATION FairFirst
CONSTANTS
  r1 = r1
  r2 = r2
  m1 = m1
  m2 = m2
  Relays = {r1, r2}
  Messages = {m1, m2}
  Deadlines = {1}
  MaxRows = 3
  MaxTokens = 3
  MaxTroubles = 2
  MaxWipes = 2
CONSTRAINT PairOrLone
INVARIANTS TypeOK OneWriter NoLostSignal CooldownIsCurrent
PROPERTIES EveryMessageSignalled
CHECK_DEADLOCK FALSE
