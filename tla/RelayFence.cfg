\* Two relays, and a wipe that takes the fencing counter with it.
SPECIFICATION Spec
CONSTANTS
  r1 = r1
  r2 = r2
  m1 = m1
  m2 = m2
  Relays = {r1, r2}
  Messages = {m1}
  Deadlines = {}
  MaxRows = 1
  MaxTokens = 2
  MaxTroubles = 0
  MaxWipes = 1
INVARIANTS OneWriter
CHECK_DEADLOCK FALSE
