--------------------------- MODULE OutboxRelayProofs ---------------------------
(***************************************************************************)
(* Theorems about OutboxRelay, for every number of relays, messages, rows, *)
(* tokens and troubles.                                                    *)
(*                                                                         *)
(* What the fence is worth rests on its counter, which lives in the Redis  *)
(* it guards: a wipe lets two relays hold the same token (relay.go:6, the  *)
(* run relay_fence).  So the theorems are about a Redis that was not wiped *)
(* yet, or a relay that runs alone, however often it was.                  *)
(***************************************************************************)
EXTENDS OutboxRelay, NaturalSets, SequenceTheorems, TLAPS

\* No token was, or could be, given twice.
Fencing == wipes = 0 \/ \A r, s \in Relays : r = s

-----------------------------------------------------------------------------
(* The inductive invariant, in parts.                                      *)

\* A relay under way has a token, which no other has.
Tokens ==
  \A r \in Relays :
    /\ At(r, "idle") <=> relay[r].token = 0
    /\ wipes = 0 => relay[r].token <= redis.fence
    /\ \A s \in Relays : r # s /\ relay[r].token # 0 => relay[r].token # relay[s].token

\* The one relay whose writes go through.
Writes(r) == Holding(r) /\ FenceHolds(r)

\* Readers do not go by a Redis that is being rebuilt.
Rebuilds ==
  \A r \in Relays :
    Writes(r) /\ relay[r].at \in {"snapshot", "clear", "fill", "cool", "set_epoch", "unmark"} =>
      redis.rebuilding

\* A batch is of rows there are, and before its last one nothing waits that is not
\* in it.
Batches ==
  \A r \in Relays : relay[r].at \in {"send", "mark"} =>
    /\ relay[r].batch # {} /\ relay[r].batch \subseteq DOMAIN outbox
    /\ \A i \in relay[r].batch : \A j \in Pending \ relay[r].batch : i < j

\* Rows are delivered in their order.
DeliveredFirst == \A i \in Pending : \A j \in DOMAIN outbox \ Pending : j < i

\* A row that is delivered, or was sent by a relay that is about to mark it.
SentBy(r, i) == At(r, "mark") /\ i = First(relay[r].batch)
Sent(i) == outbox[i].delivered \/ \E r \in Relays : SentBy(r, i)

\* No row past the one the writer is at was sent.
InOrder ==
  \A r \in Relays : Writes(r) /\ relay[r].at \in {"send", "mark"} =>
    \A i \in DOMAIN outbox : Sent(i) => i <= First(relay[r].batch)

\* Message m is read or has a row that is still to be sent.
Waits(m) == message[m] = "unread" => \E i \in DOMAIN outbox : outbox[i].item = m /\ ~Sent(i)

\* What is neither in the mailbox, nor in the snapshot of its rebuild, has a row to
\* be sent.
Signals ==
  /\ Whole => \A m \in Messages : m \in redis.mbox \/ Waits(m)
  /\ \A r \in Relays : Writes(r) =>
       /\ At(r, "clear") => \A m \in Messages : m \in relay[r].unread \/ Waits(m)
       /\ relay[r].at \in {"fill", "cool", "set_epoch", "unmark"} =>
            \A m \in Messages : m \in relay[r].unread \/ m \in redis.mbox \/ Waits(m)
       /\ relay[r].at \in {"cool", "set_epoch", "unmark"} => relay[r].unread = {}

\* The rows about the pool, and what row p set it to; 0 stands for none yet.
CoolRows == {i \in DOMAIN outbox : outbox[i].item \notin Messages}
SetBy(p, until) == \/ p = 0 /\ until = Lifted
                   \/ p \in CoolRows /\ outbox[p].item = until

\* The pool is as its last row says.
PoolIsLast == \E p \in CoolRows \cup {0} : SetBy(p, pool) /\ \A i \in CoolRows : i <= p

\* No row was sent past the one that set the pool to until.
Reached(until) ==
  \E p \in CoolRows \cup {0} : SetBy(p, until) /\ \A i \in CoolRows : Sent(i) => i <= p

\* The cooldown in Redis is one no later row was sent after, or Redis has none yet;
\* the one a rebuild is about to write is such a one.
Cooldowns ==
  /\ Reached(redis.cooldown) \/ (redis.cooldown = Lifted /\ ~Whole)
  /\ \A r \in Relays : Writes(r) =>
       /\ relay[r].at \in {"clear", "fill", "cool"} => Reached(relay[r].until)
       /\ relay[r].at \in {"set_epoch", "unmark"} => Reached(redis.cooldown)

RowsTyped == TypeOK /\ Len(outbox) <= MaxRows /\ Batches
RelayInv ==
  /\ RowsTyped /\ DeliveredFirst /\ PoolIsLast
  /\ Fencing => Tokens /\ Rebuilds /\ InOrder /\ Signals /\ Cooldowns
Safe == Fencing => OneWriter /\ NoLostSignal /\ CooldownIsCurrent

-----------------------------------------------------------------------------
(* Types.                                                                  *)

RelayRow == [at: Steps, token: Nat, batch: SUBSET (1..MaxRows),
             unread: SUBSET Messages, until: Deadlines \cup {Lifted}]
RedisState == [fence: Nat, lock: Nat, epoch: BOOLEAN, rebuilding: BOOLEAN,
               mbox: SUBSET Messages, cooldown: Deadlines \cup {Lifted}]

\* The first row of a set of rows is one of them.
LEMMA FirstFacts ==
  ASSUME NEW S, S \subseteq Nat, S # {}
  PROVE  First(S) \in S /\ \A j \in S : First(S) <= j
BY Least DEF First

\* A row that is appended is the last, and the others stay.
LEMMA RowPosted ==
  ASSUME outbox \in Seq(Row), NEW v \in Row, outbox' = Append(outbox, v),
         NEW last, last = Len(outbox) + 1
  PROVE  /\ outbox' \in Seq(Row) /\ Len(outbox') = last
         /\ Len(outbox) \in Nat /\ DOMAIN outbox = 1..Len(outbox)
         /\ DOMAIN outbox' = 1..last /\ DOMAIN outbox' = DOMAIN outbox \cup {last}
         /\ \A i \in DOMAIN outbox : i < last /\ outbox'[i] = outbox[i]
         /\ outbox'[last] = v
<1>1. /\ outbox' \in Seq(Row) /\ Len(outbox') = last
      /\ Len(outbox) \in Nat /\ DOMAIN outbox = 1..Len(outbox)
      /\ DOMAIN outbox' = 1..last /\ outbox'[last] = v
  BY AppendProperties, LenProperties
<1>2. \A i \in DOMAIN outbox : outbox'[i] = outbox[i]
  BY <1>1, AppendProperties
<1> QED BY <1>1, <1>2

\* A row that is marked keeps its place and what it is about.
LEMMA RowMarked ==
  ASSUME outbox \in Seq(Row), NEW i \in DOMAIN outbox,
         outbox' = [outbox EXCEPT ![i].delivered = TRUE]
  PROVE  /\ outbox' \in Seq(Row) /\ Len(outbox') = Len(outbox) /\ DOMAIN outbox' = DOMAIN outbox
         /\ \A j \in DOMAIN outbox : /\ outbox'[j].item = outbox[j].item
                                     /\ outbox'[j].delivered = (outbox[j].delivered \/ j = i)
<1>1. /\ Len(outbox) \in Nat /\ DOMAIN outbox = 1..Len(outbox)
      /\ \A j \in DOMAIN outbox : outbox[j] \in Row
  BY LenProperties, ElementOfSeq
<1>2. [outbox[i] EXCEPT !.delivered = TRUE] \in Row
  BY <1>1 DEF Row
<1>3. outbox' = [outbox EXCEPT ![i] = [outbox[i] EXCEPT !.delivered = TRUE]]
  BY <1>1
<1>4. outbox' \in Seq(Row) /\ Len(outbox') = Len(outbox) /\ DOMAIN outbox' = DOMAIN outbox
  BY <1>2, <1>3, ExceptSeq
<1>5. \A j \in DOMAIN outbox : outbox'[j] = IF j = i THEN [outbox[i] EXCEPT !.delivered = TRUE] ELSE outbox[j]
  BY <1>3
<1>6. \A j \in DOMAIN outbox : outbox[j].delivered \in BOOLEAN
  BY <1>1 DEF Row
<1>7. [outbox[i] EXCEPT !.delivered = TRUE].delivered = TRUE
      /\ [outbox[i] EXCEPT !.delivered = TRUE].item = outbox[i].item
  BY <1>1 DEF Row
<1> QED BY <1>4, <1>5, <1>6, <1>7

\* A relay that goes to another step keeps the rest.
LEMMA GoTyped ==
  ASSUME relay \in [Relays -> RelayRow], NEW r \in Relays, NEW step \in Steps, Go(r, step)
  PROVE  /\ relay' \in [Relays -> RelayRow]
         /\ relay'[r] = [relay[r] EXCEPT !.at = step]
         /\ \A s \in Relays : s # r => relay'[s] = relay[s]
<1>1. [relay[r] EXCEPT !.at = step] \in RelayRow
  BY DEF RelayRow
<1>2. relay' = [relay EXCEPT ![r] = [relay[r] EXCEPT !.at = step]]
  BY DEF Go
<1> QED BY <1>1, <1>2

\* The first row of a batch is a row of the outbox, the lowest of the batch.
LEMMA BatchFacts ==
  ASSUME RowsTyped, NEW r \in Relays, relay[r].at \in {"send", "mark"}
  PROVE  /\ First(relay[r].batch) \in relay[r].batch /\ First(relay[r].batch) \in DOMAIN outbox
         /\ relay[r].batch \subseteq DOMAIN outbox
         /\ \A j \in relay[r].batch : First(relay[r].batch) <= j
         /\ outbox[First(relay[r].batch)] \in Row
<1>1. outbox \in Seq(Row) /\ relay[r].batch # {} /\ relay[r].batch \subseteq DOMAIN outbox
  BY DEF RowsTyped, TypeOK, Batches
<1>2. DOMAIN outbox = 1..Len(outbox) /\ Len(outbox) \in Nat
  BY <1>1, LenProperties
<1>3. relay[r].batch \subseteq Nat
  BY <1>1, <1>2
<1>4. First(relay[r].batch) \in relay[r].batch /\ \A j \in relay[r].batch : First(relay[r].batch) <= j
  BY <1>1, <1>3, FirstFacts
<1>5. outbox[First(relay[r].batch)] \in Row
  BY <1>1, <1>2, <1>4, ElementOfSeq
<1> QED BY <1>1, <1>4, <1>5

\* What a write makes of Redis is Redis.
LEMMA WritesTyped ==
  ASSUME redis \in RedisState
  PROVE  /\ \A n \in Nat : [redis EXCEPT !.fence = n] \in RedisState /\ [redis EXCEPT !.lock = n] \in RedisState
         /\ \A b \in BOOLEAN : [redis EXCEPT !.epoch = b] \in RedisState
                               /\ [redis EXCEPT !.rebuilding = b] \in RedisState
         /\ \A ms \in SUBSET Messages : [redis EXCEPT !.mbox = ms] \in RedisState
         /\ \A u \in Deadlines \cup {Lifted} : [redis EXCEPT !.cooldown = u] \in RedisState
         /\ \A item \in Items : Written(item) \in RedisState
         /\ redis.fence + 1 \in Nat /\ EmptyRedis \in RedisState
<1>1. /\ \A n \in Nat : [redis EXCEPT !.fence = n] \in RedisState /\ [redis EXCEPT !.lock = n] \in RedisState
      /\ \A b \in BOOLEAN : [redis EXCEPT !.epoch = b] \in RedisState
                            /\ [redis EXCEPT !.rebuilding = b] \in RedisState
      /\ \A ms \in SUBSET Messages : [redis EXCEPT !.mbox = ms] \in RedisState
      /\ \A u \in Deadlines \cup {Lifted} : [redis EXCEPT !.cooldown = u] \in RedisState
  BY DEF RedisState
<1>2. redis.mbox \in SUBSET Messages /\ redis.fence \in Nat
  BY DEF RedisState
<1>3. \A item \in Items : item \in Messages \/ item \in Deadlines \cup {Lifted}
  BY DEF Items
<1>4. ASSUME NEW item \in Items PROVE Written(item) \in RedisState
  <2>1. CASE item \in Messages
    <3>1. redis.mbox \cup {item} \in SUBSET Messages
      BY <1>2, <2>1
    <3>2. Written(item) = [redis EXCEPT !.mbox = redis.mbox \cup {item}]
      BY <2>1 DEF Written
    <3> QED BY <1>1, <3>1, <3>2
  <2>2. CASE item \notin Messages
    <3>1. Written(item) = [redis EXCEPT !.cooldown = item]
      BY <2>2 DEF Written
    <3> QED BY <1>1, <1>3, <2>2, <3>1
  <2> QED BY <2>1, <2>2
<1>5. EmptyRedis \in RedisState
  BY DEF EmptyRedis, RedisState
<1> QED BY <1>1, <1>2, <1>4, <1>5

\* A write of a relay, made or refused, keeps the types.
LEMMA FencedTyped ==
  ASSUME relay \in [Relays -> RelayRow], redis \in RedisState, NEW r \in Relays, NEW at,
         NEW written \in RedisState, NEW next \in Steps, Fenced(r, at, written, next)
  PROVE  relay' \in [Relays -> RelayRow] /\ redis' \in RedisState /\ UNCHANGED outbox
<1>1. "release" \in Steps
  BY DEF Steps
<1>2. Go(r, next) \/ Go(r, "release")
  BY DEF Fenced
<1>3. relay' \in [Relays -> RelayRow]
  BY <1>1, <1>2, GoTyped
<1> QED BY <1>3 DEF Fenced

\* Every step of a relay keeps the types.
LEMMA RunTyped ==
  ASSUME RowsTyped, NEW r \in Relays, RunStep(r)
  PROVE  /\ relay' \in [Relays -> RelayRow] /\ redis' \in RedisState
         /\ outbox' \in Seq(Row) /\ Len(outbox') <= MaxRows
<1> DEFINE G == /\ relay' \in [Relays -> RelayRow] /\ redis' \in RedisState
                /\ outbox' \in Seq(Row) /\ Len(outbox') <= MaxRows
<1>1. /\ relay \in [Relays -> RelayRow] /\ redis \in RedisState /\ outbox \in Seq(Row)
      /\ Len(outbox) <= MaxRows /\ relay[r] \in RelayRow /\ pool \in Deadlines \cup {Lifted}
  BY DEF RowsTyped, TypeOK, RelayRow, RedisState
<1>2. DOMAIN outbox = 1..Len(outbox) /\ Len(outbox) \in Nat /\ MaxRows \in Nat
  BY <1>1, LenProperties, RelayConstants
<1>3. ASSUME NEW k \in RelayRow, relay' = [relay EXCEPT ![r] = k], redis' \in RedisState, UNCHANGED outbox
      PROVE  G
  BY <1>1, <1>3
<1>4. ASSUME NEW step \in Steps, Go(r, step), redis' \in RedisState, UNCHANGED outbox PROVE G
  BY <1>1, <1>4, GoTyped
<1>5. ASSUME NEW at, NEW written \in RedisState, NEW next \in Steps, Fenced(r, at, written, next)
      PROVE  G
  BY <1>1, <1>5, FencedTyped
<1>6. Stopped \in RelayRow
  BY DEF Stopped, RelayRow, Steps
<1>7. \A step \in {"setnx", "epoch?", "flag?", "mark_rebuilding", "snapshot", "clear", "fill", "cool",
                   "set_epoch", "unmark", "deliver", "send", "mark", "release"} : step \in Steps
  BY DEF Steps
<1>8. TakeToken(r) => G
  <2>1. [relay[r] EXCEPT !.at = "setnx", !.token = redis.fence + 1] \in RelayRow
    BY <1>1, WritesTyped DEF RelayRow, Steps
  <2>2. TakeToken(r) => /\ relay' = [relay EXCEPT ![r] = [relay[r] EXCEPT !.at = "setnx", !.token = redis.fence + 1]]
                        /\ redis' = [redis EXCEPT !.fence = redis.fence + 1] /\ UNCHANGED outbox
    BY <1>1 DEF TakeToken
  <2> HIDE DEF G
  <2> QED BY <1>1, <1>3, <2>1, <2>2, WritesTyped
<1>9. TakeLock(r) => G
  <2>1. relay[r].token \in Nat
    BY <1>1 DEF RelayRow
  <2>2. [redis EXCEPT !.lock = relay[r].token] \in RedisState
    BY <1>1, <2>1, WritesTyped
  <2> HIDE DEF G
  <2> QED BY <1>1, <1>3, <1>4, <1>6, <1>7, <2>2 DEF TakeLock
<1>10. ReadEpoch(r) \/ ReadFlag(r) => G
  <2> HIDE DEF G
  <2> QED BY <1>1, <1>4, <1>7 DEF ReadEpoch, ReadFlag
<1>11. MarkRebuilding(r) \/ Clear(r) \/ SetEpoch(r) \/ Unmark(r) => G
  <2>1. /\ [redis EXCEPT !.rebuilding = TRUE] \in RedisState /\ [redis EXCEPT !.mbox = {}] \in RedisState
        /\ [redis EXCEPT !.epoch = TRUE] \in RedisState /\ [redis EXCEPT !.rebuilding = FALSE] \in RedisState
    BY <1>1, WritesTyped
  <2> HIDE DEF G
  <2> QED BY <1>5, <1>7, <2>1 DEF MarkRebuilding, Clear, SetEpoch, Unmark
<1>12. ReadSnapshot(r) => G
  <2> DEFINE k == [relay[r] EXCEPT !.at = "clear", !.until = pool,
                                   !.unread = {m \in Messages : message[m] = "unread"}]
  <2>1. k \in RelayRow
    BY <1>1 DEF RelayRow, Steps
  <2>2. ReadSnapshot(r) => relay' = [relay EXCEPT ![r] = k] /\ UNCHANGED <<redis, outbox>>
    BY <1>1 DEF ReadSnapshot
  <2> HIDE DEF k, G
  <2> QED BY <1>1, <1>3, <2>1, <2>2
<1>13. Fill(r) => G
  <2>1. ASSUME NEW m \in relay[r].unread, redis' = [redis EXCEPT !.mbox = redis.mbox \cup {m}],
               relay' = [relay EXCEPT ![r].unread = relay[r].unread \ {m}], UNCHANGED outbox
        PROVE  G
    <3>1. m \in Messages /\ redis.mbox \cup {m} \in SUBSET Messages
      BY <1>1 DEF RelayRow, RedisState
    <3>2. [relay[r] EXCEPT !.unread = relay[r].unread \ {m}] \in RelayRow
      BY <1>1 DEF RelayRow
    <3>3. relay' = [relay EXCEPT ![r] = [relay[r] EXCEPT !.unread = relay[r].unread \ {m}]]
      BY <1>1, <2>1
    <3>4. redis' \in RedisState
      BY <1>1, <2>1, <3>1, WritesTyped
    <3> HIDE DEF G
    <3> QED BY <1>3, <2>1, <3>2, <3>3, <3>4
  <2> HIDE DEF G
  <2> QED BY <1>1, <1>4, <1>7, <2>1 DEF Fill
<1>14. Cool(r) => G
  <2>1. relay[r].until \in Deadlines \cup {Lifted}
    BY <1>1 DEF RelayRow
  <2>2. [redis EXCEPT !.cooldown = relay[r].until] \in RedisState
    BY <1>1, <2>1, WritesTyped
  <2> HIDE DEF G
  <2> QED BY <1>1, <1>4, <1>5, <1>7, <2>2 DEF Cool
<1>15. ReadOutbox(r) => G
  <2> DEFINE k == [relay[r] EXCEPT !.at = "send", !.batch = Pending]
  <2>1. Pending \in SUBSET (1..MaxRows)
    BY <1>1, <1>2 DEF Pending
  <2>2. k \in RelayRow
    BY <1>1, <2>1 DEF RelayRow, Steps
  <2>3. ReadOutbox(r) => relay' = [relay EXCEPT ![r] = k] /\ UNCHANGED <<redis, outbox>>
    BY <1>1 DEF ReadOutbox
  <2> HIDE DEF k, G
  <2> QED BY <1>1, <1>3, <2>2, <2>3
<1>16. ASSUME Send(r) PROVE G
  <2>1. relay[r].at = "send" /\ Fenced(r, "send", Written(outbox[First(relay[r].batch)].item), "mark")
    BY <1>16 DEF Send, Fenced, At
  <2>2. outbox[First(relay[r].batch)].item \in Items
    BY <2>1, BatchFacts DEF Row
  <2>3. Written(outbox[First(relay[r].batch)].item) \in RedisState
    BY <1>1, <2>2, WritesTyped
  <2> HIDE DEF G
  <2> QED BY <1>5, <1>7, <2>1, <2>3
<1>17. ASSUME Mark(r) PROVE G
  <2>1. PICK i : i = First(relay[r].batch)
    OBVIOUS
  <2> DEFINE k == [relay[r] EXCEPT !.batch = relay[r].batch \ {i},
                                   !.at = IF relay[r].batch \ {i} = {} THEN "deliver" ELSE "send"]
  <2>2. k \in RelayRow
    BY <1>1 DEF RelayRow, Steps
  <2>3. relay' = [relay EXCEPT ![r] = k] /\ outbox' = [outbox EXCEPT ![i].delivered = TRUE] /\ UNCHANGED redis
    BY <1>1, <1>17, <2>1 DEF Mark
  <2>4. i \in DOMAIN outbox
    BY <1>17, <2>1, BatchFacts DEF Mark, At
  <2>5. outbox' \in Seq(Row) /\ Len(outbox') = Len(outbox)
    BY <1>1, <2>3, <2>4, RowMarked
  <2> HIDE DEF k
  <2> QED BY <1>1, <2>2, <2>3, <2>5
<1>18. Release(r) => G
  <2>1. [redis EXCEPT !.lock = 0] \in RedisState
    BY <1>1, WritesTyped
  <2> HIDE DEF G
  <2> QED BY <1>1, <1>3, <1>6, <2>1 DEF Release
<1> HIDE DEF G
<1>19. G
  BY <1>8, <1>9, <1>10, <1>11, <1>12, <1>13, <1>14, <1>15, <1>16, <1>17, <1>18 DEF RunStep
<1> QED BY <1>19 DEF G

\* Every step keeps the types, and no more rows are written than the bound allows.
LEMMA TypeStep ==
  ASSUME RowsTyped, [Next]_vars
  PROVE  TypeOK' /\ Len(outbox') <= MaxRows
<1> DEFINE Records == /\ message' \in [Messages -> {"none", "unread", "acked"}]
                      /\ pool' \in Deadlines \cup {Lifted}
                      /\ outbox' \in Seq(Row) /\ Len(outbox') <= MaxRows
           Stores  == relay' \in [Relays -> RelayRow] /\ redis' \in RedisState
           Counts  == troubles' \in 0..MaxTroubles /\ wipes' \in 0..MaxWipes
<1>1. /\ relay \in [Relays -> RelayRow] /\ redis \in RedisState /\ outbox \in Seq(Row)
      /\ Len(outbox) <= MaxRows /\ pool \in Deadlines \cup {Lifted}
      /\ message \in [Messages -> {"none", "unread", "acked"}]
      /\ troubles \in 0..MaxTroubles /\ wipes \in 0..MaxWipes
  BY DEF RowsTyped, TypeOK, RelayRow, RedisState
<1>2. MaxTroubles \in Nat /\ MaxWipes \in Nat /\ MaxRows \in Nat /\ Len(outbox) \in Nat
  BY <1>1, RelayConstants, LenProperties
<1>3. ASSUME WriterNext PROVE Records /\ Stores /\ Counts
  <2>1. ASSUME NEW item \in Items, outbox' = Append(outbox, [item |-> item, delivered |-> FALSE]),
               Len(outbox) < MaxRows
        PROVE  outbox' \in Seq(Row) /\ Len(outbox') <= MaxRows
    <3>1. [item |-> item, delivered |-> FALSE] \in Row
      BY DEF Row
    <3>2. outbox' \in Seq(Row) /\ Len(outbox') = Len(outbox) + 1
      BY <1>1, <2>1, <3>1, RowPosted
    <3> QED BY <1>2, <2>1, <3>2
  <2>2. ASSUME NEW m \in Messages, Post(m) PROVE Records /\ Stores /\ Counts
    <3>1. m \in Items
      BY DEF Items
    <3> QED BY <1>1, <2>1, <2>2, <3>1 DEF Post
  <2>3. ASSUME NEW m \in Messages, Ack(m) PROVE Records /\ Stores /\ Counts
    BY <1>1, <2>3 DEF Ack
  <2>4. ASSUME NEW until \in Deadlines \cup {Lifted}, SetCooldown(until) PROVE Records /\ Stores /\ Counts
    <3>1. until \in Items
      BY DEF Items
    <3> QED BY <1>1, <2>1, <2>4, <3>1 DEF SetCooldown
  <2> QED BY <1>3, <2>2, <2>3, <2>4 DEF WriterNext
<1>4. ASSUME NEW r \in Relays, RunStep(r) PROVE Records /\ Stores /\ Counts
  <2>1. UNCHANGED <<message, pool, troubles, wipes>>
    BY <1>4 DEF RunStep, TakeToken, TakeLock, ReadEpoch, ReadFlag, MarkRebuilding, ReadSnapshot, Clear, Fill,
                Cool, SetEpoch, Unmark, ReadOutbox, Send, Mark, Release, Fenced
  <2> QED BY <1>1, <1>4, <2>1, RunTyped
<1>5. ASSUME TroubleNext PROVE Records /\ Stores /\ Counts
  <2>1. UNCHANGED <<message, pool, outbox>>
    BY <1>5 DEF TroubleNext, GiveUp, Crash, NoticeLoss, Expire, Lapse, Wipe
  <2>2. Counts
    BY <1>1, <1>2, <1>5 DEF TroubleNext, GiveUp, Crash, NoticeLoss, Expire, Lapse, Wipe, Trouble
  <2>3. Stopped \in RelayRow /\ "release" \in Steps /\ 0 \in Nat
    BY DEF Stopped, RelayRow, Steps
  <2>4. \A r \in Relays : GiveUp(r) \/ Crash(r) \/ NoticeLoss(r) => Stores
    BY <1>1, <2>3, GoTyped DEF GiveUp, Crash, NoticeLoss
  <2>5. Expire \/ Lapse \/ Wipe => Stores
    BY <1>1, <2>3, WritesTyped DEF Expire, Lapse, Wipe
  <2>6. Stores
    BY <1>5, <2>4, <2>5 DEF TroubleNext
  <2> QED BY <1>1, <2>1, <2>2, <2>6
<1>6. ASSUME UNCHANGED vars PROVE Records /\ Stores /\ Counts
  BY <1>1, <1>6 DEF vars
<1>7. Records /\ Stores /\ Counts
  BY <1>3, <1>4, <1>5, <1>6 DEF Next
<1> QED BY <1>7 DEF TypeOK, RelayRow, RedisState

-----------------------------------------------------------------------------
(* Tokens.                                                                 *)

\* A step that takes no token leaves each relay its own, or ends its hold.
TokensKept ==
  /\ redis'.fence = redis.fence /\ UNCHANGED wipes
  /\ \A r \in Relays :
       \/ relay'[r] = Stopped
       \/ relay'[r].token = relay[r].token /\ (relay'[r].at = "idle" <=> relay[r].at = "idle")

\* Only TakeToken and a wipe do not keep the tokens.
LEMMA TokenShapes ==
  ASSUME RowsTyped, [Next]_vars
  PROVE  TokensKept \/ (UNCHANGED relay /\ wipes' # 0) \/ \E r \in Relays : TakeToken(r)
<1>1. /\ relay \in [Relays -> RelayRow] /\ redis \in RedisState /\ wipes \in Nat
  BY RelayConstants DEF RowsTyped, TypeOK, RelayRow, RedisState
<1>2. ASSUME NEW r \in Relays, NEW k, relay' = [relay EXCEPT ![r] = k],
             k = Stopped \/ (k.token = relay[r].token /\ (k.at = "idle" <=> relay[r].at = "idle")),
             redis'.fence = redis.fence, UNCHANGED wipes
      PROVE  TokensKept
  BY <1>1, <1>2 DEF TokensKept
<1>3. ASSUME NEW r \in Relays, NEW step \in Steps \ {"idle"}, Go(r, step), ~At(r, "idle"),
             redis'.fence = redis.fence, UNCHANGED wipes
      PROVE  TokensKept
  <2>1. [relay[r] EXCEPT !.at = step].token = relay[r].token /\ [relay[r] EXCEPT !.at = step].at = step
    BY <1>1 DEF RelayRow
  <2>2. relay' = [relay EXCEPT ![r] = [relay[r] EXCEPT !.at = step]]
    BY <1>3 DEF Go
  <2> QED BY <1>2, <1>3, <2>1, <2>2 DEF At
<1>4. ASSUME NEW r \in Relays, NEW at \in Steps \ {"idle"}, NEW next \in Steps \ {"idle"}, NEW written,
             written.fence = redis.fence, Fenced(r, at, written, next)
      PROVE  TokensKept
  <2>1. ~At(r, "idle") /\ "release" \in Steps \ {"idle"} /\ UNCHANGED wipes
    BY <1>4 DEF Fenced, At, Steps
  <2>2. redis'.fence = redis.fence /\ (Go(r, next) \/ Go(r, "release"))
    BY <1>4 DEF Fenced
  <2> QED BY <1>3, <1>4, <2>1, <2>2
<1>5. \A step \in {"setnx", "epoch?", "flag?", "mark_rebuilding", "snapshot", "clear", "fill", "cool",
                   "set_epoch", "unmark", "deliver", "send", "mark", "release"} : step \in Steps \ {"idle"}
  BY DEF Steps
<1>6. /\ \A n : [redis EXCEPT !.lock = n].fence = redis.fence
      /\ \A b : [redis EXCEPT !.epoch = b].fence = redis.fence /\ [redis EXCEPT !.rebuilding = b].fence = redis.fence
      /\ \A ms : [redis EXCEPT !.mbox = ms].fence = redis.fence
      /\ \A u : [redis EXCEPT !.cooldown = u].fence = redis.fence
  BY <1>1 DEF RedisState
<1>7. ASSUME NEW r \in Relays, RunStep(r), ~TakeToken(r) PROVE TokensKept
  <2>1. TakeLock(r) => TokensKept
    BY <1>2, <1>3, <1>5, <1>6 DEF TakeLock, At
  <2>2. ReadEpoch(r) \/ ReadFlag(r) => TokensKept
    BY <1>3, <1>5 DEF ReadEpoch, ReadFlag, At
  <2>3. MarkRebuilding(r) \/ Clear(r) \/ SetEpoch(r) \/ Unmark(r) => TokensKept
    BY <1>4, <1>5, <1>6 DEF MarkRebuilding, Clear, SetEpoch, Unmark
  <2>4. ReadSnapshot(r) => TokensKept
    <3> DEFINE k == [relay[r] EXCEPT !.at = "clear", !.until = pool,
                                     !.unread = {m \in Messages : message[m] = "unread"}]
    <3>1. k.token = relay[r].token /\ k.at = "clear"
      BY <1>1 DEF RelayRow
    <3>2. ReadSnapshot(r) => relay' = [relay EXCEPT ![r] = k] /\ UNCHANGED <<redis, wipes>> /\ relay[r].at = "snapshot"
      BY <1>1 DEF ReadSnapshot, At
    <3> HIDE DEF k
    <3> QED BY <1>2, <3>1, <3>2
  <2>5. ASSUME Fill(r) PROVE TokensKept
    <3>1. ASSUME NEW m \in relay[r].unread, redis' = [redis EXCEPT !.mbox = redis.mbox \cup {m}],
                 relay' = [relay EXCEPT ![r].unread = relay[r].unread \ {m}], UNCHANGED wipes
          PROVE  TokensKept
      <4> DEFINE k == [relay[r] EXCEPT !.unread = relay[r].unread \ {m}]
      <4>1. k.token = relay[r].token /\ k.at = relay[r].at /\ relay' = [relay EXCEPT ![r] = k]
        BY <1>1, <3>1 DEF RelayRow
      <4> HIDE DEF k
      <4> QED BY <1>2, <1>6, <3>1, <4>1
    <3> QED BY <1>3, <1>5, <2>5, <3>1 DEF Fill, At
  <2>6. Cool(r) => TokensKept
    BY <1>3, <1>4, <1>5, <1>6 DEF Cool, At
  <2>7. ReadOutbox(r) => TokensKept
    <3> DEFINE k == [relay[r] EXCEPT !.at = "send", !.batch = Pending]
    <3>1. k.token = relay[r].token /\ k.at = "send"
      BY <1>1 DEF RelayRow
    <3>2. ReadOutbox(r) => relay' = [relay EXCEPT ![r] = k] /\ UNCHANGED <<redis, wipes>> /\ relay[r].at = "deliver"
      BY <1>1 DEF ReadOutbox, At
    <3> HIDE DEF k
    <3> QED BY <1>2, <3>1, <3>2
  <2>8. Send(r) => TokensKept
    <3>1. \A item : Written(item).fence = redis.fence
      BY <1>6 DEF Written
    <3> QED BY <1>4, <1>5, <3>1 DEF Send
  <2>9. ASSUME Mark(r) PROVE TokensKept
    <3>1. PICK i : i = First(relay[r].batch)
      OBVIOUS
    <3> DEFINE k == [relay[r] EXCEPT !.batch = relay[r].batch \ {i},
                                     !.at = IF relay[r].batch \ {i} = {} THEN "deliver" ELSE "send"]
    <3>2. k.token = relay[r].token /\ k.at # "idle"
      BY <1>1 DEF RelayRow
    <3>3. relay' = [relay EXCEPT ![r] = k] /\ UNCHANGED <<redis, wipes>> /\ relay[r].at = "mark"
      BY <1>1, <2>9, <3>1 DEF Mark, At
    <3> HIDE DEF k
    <3> QED BY <1>2, <3>2, <3>3
  <2>10. Release(r) => TokensKept
    BY <1>2, <1>6 DEF Release
  <2> HIDE DEF TokensKept
  <2> QED BY <1>7, <2>1, <2>2, <2>3, <2>4, <2>5, <2>6, <2>7, <2>8, <2>9, <2>10 DEF RunStep
<1>8. ASSUME TroubleNext PROVE TokensKept \/ (UNCHANGED relay /\ wipes' # 0)
  <2>1. \A r \in Relays : GiveUp(r) \/ NoticeLoss(r) => TokensKept
    BY <1>3, <1>5 DEF GiveUp, NoticeLoss, Holding, At
  <2>2. \A r \in Relays : Crash(r) => TokensKept
    BY <1>2 DEF Crash
  <2>3. Expire \/ Lapse => TokensKept
    BY <1>6 DEF Expire, Lapse, TokensKept
  <2>4. Wipe => UNCHANGED relay /\ wipes' # 0
    BY <1>1 DEF Wipe
  <2> HIDE DEF TokensKept
  <2> QED BY <1>8, <2>1, <2>2, <2>3, <2>4 DEF TroubleNext
<1>9. WriterNext \/ UNCHANGED vars => TokensKept
  BY DEF WriterNext, Post, Ack, SetCooldown, vars, TokensKept
<1> QED BY <1>7, <1>8, <1>9 DEF Next

\* A step that finds the tokens apart leaves them so, in a Redis whose counter was
\* never lost: the next token is larger than all there were.
LEMMA TokensStep ==
  ASSUME RowsTyped, [Next]_vars, Fencing', Tokens
  PROVE  Tokens'
<1>1. /\ relay \in [Relays -> RelayRow] /\ redis \in RedisState
      /\ relay' \in [Relays -> RelayRow] /\ redis' \in RedisState
  BY TypeStep DEF RowsTyped, TypeOK, RelayRow, RedisState
<1>2. /\ redis.fence \in Nat /\ \A r \in Relays : relay[r].token \in Nat
  BY <1>1 DEF RedisState, RelayRow
<1>3. CASE TokensKept
  BY <1>2, <1>3 DEF TokensKept, Tokens, Stopped, At
<1>4. CASE UNCHANGED relay /\ wipes' # 0
  BY <1>4 DEF Tokens, Fencing, At
<1>5. ASSUME NEW r \in Relays, TakeToken(r) PROVE Tokens'
  <2>1. /\ relay[r].at = "idle" /\ UNCHANGED wipes
        /\ redis'.fence = redis.fence + 1
        /\ relay'[r].at = "setnx" /\ relay'[r].token = redis.fence + 1
        /\ \A s \in Relays : s # r => relay'[s] = relay[s]
    BY <1>1, <1>5 DEF TakeToken, At, RedisState, RelayRow
  <2>2. \A s \in Relays : s # r => wipes = 0
    BY <2>1 DEF Fencing
  <2>3. \A s \in Relays : wipes = 0 => relay[s].token < redis.fence + 1
    BY <1>2 DEF Tokens
  <2>4. ASSUME NEW s \in Relays PROVE /\ At(s, "idle")' <=> relay'[s].token = 0
                                      /\ wipes' = 0 => relay'[s].token <= redis'.fence
    BY <1>2, <2>1, <2>3 DEF Tokens, At
  <2>5. ASSUME NEW s \in Relays, NEW t \in Relays, s # t, relay'[s].token # 0
        PROVE  relay'[s].token # relay'[t].token
    <3>1. wipes = 0
      BY <2>2, <2>5
    <3>2. CASE s = r
      BY <1>2, <2>1, <2>3, <2>5, <3>1, <3>2
    <3>3. CASE t = r
      BY <1>2, <2>1, <2>3, <2>5, <3>1, <3>3
    <3>4. CASE s # r /\ t # r
      BY <2>1, <2>5, <3>4 DEF Tokens
    <3> QED BY <3>2, <3>3, <3>4
  <2> QED BY <2>4, <2>5 DEF Tokens
<1> QED BY <1>3, <1>4, <1>5, TokenShapes

-----------------------------------------------------------------------------
(* What a step does to the signals, whichever action it is of.             *)

\* The steps of a relay at which it holds nothing but its place.
Resting == {"idle", "setnx", "epoch?", "flag?", "mark_rebuilding", "deliver", "release"}

\* Relays go to rest or stay, and Redis holds what it held, under any lock.
Rests ==
  /\ UNCHANGED <<message, pool, outbox>>
  /\ \A s \in Relays : relay'[s] = relay[s] \/ relay'[s].at \in Resting
  /\ redis'.epoch = redis.epoch /\ redis'.rebuilding = redis.rebuilding
  /\ redis'.mbox = redis.mbox /\ redis'.cooldown = redis.cooldown
  /\ \/ redis'.lock \in {0, redis.lock}
     \/ \E r \in Relays : At(r, "setnx") /\ redis'.lock = relay[r].token

Wiped == redis' = EmptyRedis /\ UNCHANGED <<message, pool, outbox, relay>>

\* A row is written for an unread message, or for the pool.
Posts ==
  /\ UNCHANGED <<redis, relay>>
  /\ \/ \E m \in Messages : /\ message' = [message EXCEPT ![m] = "unread"] /\ UNCHANGED pool
                            /\ outbox' = Append(outbox, [item |-> m, delivered |-> FALSE])
     \/ \E u \in Deadlines \cup {Lifted} : /\ pool' = u /\ UNCHANGED message
                                           /\ outbox' = Append(outbox, [item |-> u, delivered |-> FALSE])

Acks ==
  /\ UNCHANGED <<redis, relay, outbox, pool>>
  /\ \E m \in Messages : message' = [message EXCEPT ![m] = "acked"]

\* Relay r moves from step at to step next, and writes if it does while the lock
\* holds its token.
Moves(r, at, next) ==
  /\ UNCHANGED <<message, pool, outbox>>
  /\ relay[r].at = at /\ relay'[r].at = next /\ relay'[r].token = relay[r].token
  /\ \A s \in Relays : s # r => relay'[s] = relay[s]

Keeps(r) == relay'[r].batch = relay[r].batch /\ relay'[r].unread = relay[r].unread /\ relay'[r].until = relay[r].until

Wrote(r, at, written, next) == Moves(r, at, next) /\ Keeps(r) /\ FenceHolds(r) /\ redis' = written

TakesSnapshot(r) ==
  /\ Moves(r, "snapshot", "clear") /\ UNCHANGED redis
  /\ relay'[r].until = pool /\ relay'[r].unread = {m \in Messages : message[m] = "unread"}

FillsOne(r, m) ==
  /\ Moves(r, "fill", "fill") /\ FenceHolds(r)
  /\ redis' = [redis EXCEPT !.mbox = redis.mbox \cup {m}]
  /\ relay'[r].until = relay[r].until /\ relay'[r].unread = relay[r].unread \ {m}

Filled(r) == Moves(r, "fill", "cool") /\ Keeps(r) /\ relay[r].unread = {} /\ UNCHANGED redis

NotCooled(r) == Moves(r, "cool", "set_epoch") /\ Keeps(r) /\ relay[r].until = Lifted /\ UNCHANGED redis

TakesBatch(r) ==
  /\ Moves(r, "deliver", "send") /\ UNCHANGED redis
  /\ Pending # {} /\ relay'[r].batch = Pending

\* The steps of a rebuild.
RebuildAct(r) ==
  \/ Wrote(r, "mark_rebuilding", [redis EXCEPT !.rebuilding = TRUE], "snapshot")
  \/ TakesSnapshot(r)
  \/ Wrote(r, "clear", [redis EXCEPT !.mbox = {}], "fill")
  \/ \E m \in relay[r].unread : FillsOne(r, m)
  \/ Filled(r)
  \/ NotCooled(r)
  \/ Wrote(r, "cool", [redis EXCEPT !.cooldown = relay[r].until], "set_epoch")
  \/ Wrote(r, "set_epoch", [redis EXCEPT !.epoch = TRUE], "unmark")
  \/ Wrote(r, "unmark", [redis EXCEPT !.rebuilding = FALSE], "deliver")

Sends(r) == Wrote(r, "send", Written(outbox[First(relay[r].batch)].item), "mark")

\* The mark moves a row of PostgreSQL.
Marks(r) ==
  LET i == First(relay[r].batch)
  IN  /\ UNCHANGED <<message, pool, redis>> /\ outbox' = [outbox EXCEPT ![i].delivered = TRUE]
      /\ relay[r].at = "mark" /\ relay'[r].token = relay[r].token
      /\ relay'[r].batch = relay[r].batch \ {i}
      /\ relay'[r].at = IF relay'[r].batch = {} THEN "deliver" ELSE "send"
      /\ \A s \in Relays : s # r => relay'[s] = relay[s]

Shaped ==
  \/ Rests \/ Wiped \/ Posts \/ Acks
  \/ \E r \in Relays : RebuildAct(r) \/ TakesBatch(r) \/ Sends(r) \/ Marks(r)

\* Every step of a relay has one of the shapes.
LEMMA RunShaped ==
  ASSUME RowsTyped, NEW r \in Relays, RunStep(r)
  PROVE  Rests \/ RebuildAct(r) \/ TakesBatch(r) \/ Sends(r) \/ Marks(r)
<1>1. relay \in [Relays -> RelayRow] /\ redis \in RedisState /\ relay[r] \in RelayRow
  BY DEF RowsTyped, TypeOK, RelayRow, RedisState
<1>2. ASSUME NEW step, NEW at, Go(r, step), relay[r].at = at, UNCHANGED <<message, pool, outbox>>
      PROVE  Moves(r, at, step) /\ Keeps(r)
  <2>1. relay' = [relay EXCEPT ![r] = [relay[r] EXCEPT !.at = step]]
    BY <1>2 DEF Go
  <2>2. relay'[r] = [relay[r] EXCEPT !.at = step] /\ \A s \in Relays : s # r => relay'[s] = relay[s]
    BY <1>1, <2>1
  <2> QED BY <1>1, <1>2, <2>2 DEF Moves, Keeps, RelayRow
<1>3. ASSUME NEW k, relay' = [relay EXCEPT ![r] = k], k.at \in Resting,
             UNCHANGED <<message, pool, outbox, redis>>
      PROVE  Rests
  BY <1>1, <1>3 DEF Rests
<1>4. ASSUME NEW step \in Resting, Go(r, step), UNCHANGED <<message, pool, outbox, redis>> PROVE Rests
  <2>1. [relay[r] EXCEPT !.at = step].at = step
    BY <1>1 DEF RelayRow
  <2>2. relay' = [relay EXCEPT ![r] = [relay[r] EXCEPT !.at = step]]
    BY <1>4 DEF Go
  <2> QED BY <1>3, <1>4, <2>1, <2>2
<1>5. ASSUME NEW at, NEW written, NEW next, Fenced(r, at, written, next)
      PROVE  Rests \/ Wrote(r, at, written, next)
  <2>1. relay[r].at = at /\ UNCHANGED <<message, pool, outbox>> /\ "release" \in Resting
    BY <1>5 DEF Fenced, At, Resting
  <2>2. CASE FenceHolds(r)
    BY <1>2, <1>5, <2>1, <2>2 DEF Fenced, Wrote
  <2>3. CASE ~FenceHolds(r)
    BY <1>4, <1>5, <2>1, <2>3 DEF Fenced
  <2> QED BY <2>2, <2>3
<1>6. TakeToken(r) => Rests
  <2> DEFINE k == [relay[r] EXCEPT !.at = "setnx", !.token = redis.fence + 1]
  <2>1. k.at \in Resting
    BY <1>1 DEF RelayRow, Resting
  <2>2. TakeToken(r) => /\ relay' = [relay EXCEPT ![r] = k] /\ UNCHANGED <<message, pool, outbox>>
                        /\ redis' = [redis EXCEPT !.fence = redis.fence + 1]
    BY <1>1 DEF TakeToken
  <2> HIDE DEF k
  <2> QED BY <1>1, <2>1, <2>2 DEF Rests, RedisState
<1>7. ASSUME TakeLock(r) PROVE Rests
  <2>1. CASE redis.lock = 0
    <3>1. Go(r, "epoch?") /\ redis' = [redis EXCEPT !.lock = relay[r].token] /\ relay[r].at = "setnx"
          /\ UNCHANGED <<message, pool, outbox>>
      BY <1>7, <2>1 DEF TakeLock, At
    <3>2. relay'[r].at = "epoch?" /\ \A s \in Relays : s # r => relay'[s] = relay[s]
      BY <1>2, <3>1 DEF Moves
    <3>3. redis'.epoch = redis.epoch /\ redis'.rebuilding = redis.rebuilding /\ redis'.lock = relay[r].token
          /\ redis'.mbox = redis.mbox /\ redis'.cooldown = redis.cooldown
      BY <1>1, <3>1 DEF RedisState
    <3> QED BY <3>1, <3>2, <3>3 DEF Rests, Resting, At
  <2>2. CASE redis.lock # 0
    BY <1>3, <1>7, <2>2 DEF TakeLock, Stopped, Resting
  <2> QED BY <2>1, <2>2
<1>8. ReadEpoch(r) => Rests
  BY <1>4 DEF ReadEpoch, Resting
<1>9. ReadFlag(r) => Rests
  BY <1>4 DEF ReadFlag, Resting
<1>10. MarkRebuilding(r) \/ Clear(r) \/ SetEpoch(r) \/ Unmark(r) => Rests \/ RebuildAct(r)
  BY <1>5 DEF MarkRebuilding, Clear, SetEpoch, Unmark, RebuildAct
<1>11. ReadSnapshot(r) => RebuildAct(r)
  <2> DEFINE k == [relay[r] EXCEPT !.at = "clear", !.until = pool,
                                   !.unread = {m \in Messages : message[m] = "unread"}]
  <2>1. k.at = "clear" /\ k.token = relay[r].token /\ k.until = pool
        /\ k.unread = {m \in Messages : message[m] = "unread"}
    BY <1>1 DEF RelayRow
  <2>2. ReadSnapshot(r) => relay' = [relay EXCEPT ![r] = k] /\ relay[r].at = "snapshot"
                           /\ UNCHANGED <<message, pool, outbox, redis>>
    BY <1>1 DEF ReadSnapshot, At
  <2> HIDE DEF k
  <2>3. ReadSnapshot(r) => TakesSnapshot(r)
    BY <1>1, <2>1, <2>2 DEF TakesSnapshot, Moves
  <2> QED BY <2>3 DEF RebuildAct
<1>12. ASSUME Fill(r) PROVE Rests \/ RebuildAct(r)
  <2>1. relay[r].at = "fill" /\ UNCHANGED <<message, pool, outbox>> /\ "release" \in Resting
    BY <1>12 DEF Fill, At, Resting
  <2>2. ASSUME relay[r].unread = {}, Go(r, "cool"), UNCHANGED redis PROVE Filled(r)
    BY <1>2, <2>1, <2>2 DEF Filled
  <2>3. ASSUME NEW m \in relay[r].unread, FenceHolds(r), redis' = [redis EXCEPT !.mbox = redis.mbox \cup {m}],
               relay' = [relay EXCEPT ![r].unread = relay[r].unread \ {m}]
        PROVE  FillsOne(r, m)
    <3> DEFINE k == [relay[r] EXCEPT !.unread = relay[r].unread \ {m}]
    <3>1. k.at = relay[r].at /\ k.token = relay[r].token /\ k.until = relay[r].until
          /\ k.unread = relay[r].unread \ {m} /\ relay' = [relay EXCEPT ![r] = k]
      BY <1>1, <2>3 DEF RelayRow
    <3> HIDE DEF k
    <3>2. relay'[r] = k /\ \A s \in Relays : s # r => relay'[s] = relay[s]
      BY <1>1, <3>1
    <3> QED BY <2>1, <2>3, <3>1, <3>2 DEF FillsOne, Moves
  <2>4. ASSUME Go(r, "release"), UNCHANGED redis PROVE Rests
    BY <1>4, <2>1, <2>4
  <2> QED BY <1>12, <2>2, <2>3, <2>4 DEF Fill, RebuildAct
<1>13. Cool(r) => Rests \/ RebuildAct(r)
  <2>1. relay[r].until = Lifted /\ Cool(r) => NotCooled(r)
    BY <1>2 DEF Cool, At, NotCooled
  <2> QED BY <1>5, <2>1 DEF Cool, RebuildAct
<1>14. ReadOutbox(r) => TakesBatch(r)
  <2> DEFINE k == [relay[r] EXCEPT !.at = "send", !.batch = Pending]
  <2>1. k.at = "send" /\ k.token = relay[r].token /\ k.batch = Pending
    BY <1>1 DEF RelayRow
  <2>2. ReadOutbox(r) => relay' = [relay EXCEPT ![r] = k] /\ relay[r].at = "deliver" /\ Pending # {}
                         /\ UNCHANGED <<message, pool, outbox, redis>>
    BY <1>1 DEF ReadOutbox, At
  <2> HIDE DEF k
  <2> QED BY <1>1, <2>1, <2>2 DEF TakesBatch, Moves
<1>15. Send(r) => Rests \/ Sends(r)
  BY <1>5 DEF Send, Sends
<1>16. ASSUME Mark(r) PROVE Marks(r)
  <2>1. PICK i : i = First(relay[r].batch)
    OBVIOUS
  <2> DEFINE k == [relay[r] EXCEPT !.batch = relay[r].batch \ {i},
                                   !.at = IF relay[r].batch \ {i} = {} THEN "deliver" ELSE "send"]
  <2>2. /\ k.token = relay[r].token /\ k.batch = relay[r].batch \ {i}
        /\ k.at = IF k.batch = {} THEN "deliver" ELSE "send"
    BY <1>1 DEF RelayRow
  <2>3. relay' = [relay EXCEPT ![r] = k] /\ outbox' = [outbox EXCEPT ![i].delivered = TRUE]
        /\ relay[r].at = "mark" /\ UNCHANGED <<message, pool, redis>>
    BY <1>1, <1>16, <2>1 DEF Mark, At
  <2> HIDE DEF k
  <2>4. relay'[r] = k /\ \A s \in Relays : s # r => relay'[s] = relay[s]
    BY <1>1, <2>3
  <2> QED BY <2>1, <2>2, <2>3, <2>4 DEF Marks
<1>17. ASSUME Release(r) PROVE Rests
  <2>1. relay'[r] = Stopped /\ \A s \in Relays : s # r => relay'[s] = relay[s]
    BY <1>1, <1>17 DEF Release
  <2>2. redis' = redis \/ redis' = [redis EXCEPT !.lock = 0]
    BY <1>17 DEF Release
  <2>3. redis'.epoch = redis.epoch /\ redis'.rebuilding = redis.rebuilding /\ redis'.lock \in {0, redis.lock}
        /\ redis'.mbox = redis.mbox /\ redis'.cooldown = redis.cooldown
    BY <1>1, <2>2 DEF RedisState
  <2>4. UNCHANGED <<message, pool, outbox>> /\ Stopped.at \in Resting
    BY <1>17 DEF Release, Stopped, Resting
  <2> QED BY <2>1, <2>3, <2>4 DEF Rests
<1> QED BY <1>6, <1>7, <1>8, <1>9, <1>10, <1>11, <1>12, <1>13, <1>14, <1>15, <1>16, <1>17 DEF RunStep

\* Every step has one of the shapes.
LEMMA StepShaped ==
  ASSUME RowsTyped, [Next]_vars
  PROVE  Shaped
<1>1. relay \in [Relays -> RelayRow] /\ redis \in RedisState
  BY DEF RowsTyped, TypeOK, RelayRow, RedisState
<1>2. WriterNext => Posts \/ Acks
  BY DEF WriterNext, Post, Ack, SetCooldown, Posts, Acks
<1>3. ASSUME NEW r \in Relays, NEW k, relay' = [relay EXCEPT ![r] = k], k.at \in Resting,
             UNCHANGED <<message, pool, outbox, redis>>
      PROVE  Rests
  BY <1>1, <1>3 DEF Rests
<1>4. ASSUME NEW r \in Relays, GiveUp(r) \/ NoticeLoss(r) PROVE Rests
  <2>1. [relay[r] EXCEPT !.at = "release"].at = "release"
    BY <1>1 DEF RelayRow
  <2>2. relay' = [relay EXCEPT ![r] = [relay[r] EXCEPT !.at = "release"]]
    BY <1>4 DEF GiveUp, NoticeLoss, Go
  <2> QED BY <1>3, <1>4, <2>1, <2>2 DEF GiveUp, NoticeLoss, Resting
<1>5. ASSUME NEW r \in Relays, Crash(r) PROVE Rests
  BY <1>3, <1>5 DEF Crash, Stopped, Resting
<1>6. Expire \/ Lapse => Rests
  BY <1>1 DEF Expire, Lapse, Rests, RedisState
<1>7. Wipe => Wiped
  BY DEF Wipe, Wiped
<1>8. TroubleNext => Rests \/ Wiped
  BY <1>4, <1>5, <1>6, <1>7 DEF TroubleNext
<1>9. UNCHANGED vars => Rests
  BY DEF vars, Rests
<1> QED BY <1>2, <1>8, <1>9, RunShaped DEF Next, Shaped

-----------------------------------------------------------------------------
(* What holds whatever becomes of Redis: the rows in PostgreSQL.           *)

RowsRight == Batches /\ DeliveredFirst /\ PoolIsLast

\* Rows that stay are right, with batches that stay.
LEMMA RowsStay ==
  ASSUME RelayInv, UNCHANGED <<outbox, pool>>,
         \A r \in Relays : relay'[r].at \in {"send", "mark"} =>
           relay[r].at \in {"send", "mark"} /\ relay'[r].batch = relay[r].batch
  PROVE  RowsRight'
<1>1. Pending' = Pending /\ CoolRows' = CoolRows
  BY DEF Pending, CoolRows
<1>2. Batches'
  BY <1>1 DEF RelayInv, RowsTyped, Batches
<1>3. DeliveredFirst'
  BY <1>1 DEF RelayInv, DeliveredFirst
<1>4. PoolIsLast'
  BY <1>1 DEF RelayInv, PoolIsLast, SetBy
<1> QED BY <1>2, <1>3, <1>4 DEF RowsRight

\* What is posted is a row that nobody delivered.
LEMMA PostedRow ==
  ASSUME Posts
  PROVE  \E v \in Row : /\ outbox' = Append(outbox, v) /\ v.delivered = FALSE
                         /\ \/ /\ v.item \in Messages /\ UNCHANGED pool
                               /\ message' = [message EXCEPT ![v.item] = "unread"]
                            \/ v.item \notin Messages /\ pool' = v.item /\ UNCHANGED message
<1> DEFINE V(item) == [item |-> item, delivered |-> FALSE]
<1>1. \A item \in Items : V(item) \in Row /\ V(item).item = item /\ V(item).delivered = FALSE
  BY DEF Row
<1>2. /\ \A u \in Deadlines \cup {Lifted} : u \notin Messages /\ u \in Items
      /\ \A m \in Messages : m \in Items
  <2>1. \A u \in Deadlines \cup {Lifted} : u \in Nat
    BY RelayConstants DEF Lifted
  <2> QED BY <2>1, RelayConstants DEF Items
<1>3. \/ \E m \in Messages : /\ message' = [message EXCEPT ![m] = "unread"] /\ UNCHANGED pool
                              /\ outbox' = Append(outbox, V(m))
      \/ \E u \in Deadlines \cup {Lifted} : /\ pool' = u /\ UNCHANGED message
                                             /\ outbox' = Append(outbox, V(u))
  BY DEF Posts
<1> HIDE DEF V
<1>4. CASE \E m \in Messages : /\ message' = [message EXCEPT ![m] = "unread"] /\ UNCHANGED pool
                                /\ outbox' = Append(outbox, V(m))
  <2>1. PICK m \in Messages : /\ message' = [message EXCEPT ![m] = "unread"] /\ UNCHANGED pool
                              /\ outbox' = Append(outbox, V(m))
    BY <1>4
  <2>2. V(m) \in Row /\ V(m).item = m /\ V(m).delivered = FALSE
    BY <1>1, <1>2
  <2> QED BY <2>1, <2>2
<1>5. CASE \E u \in Deadlines \cup {Lifted} : /\ pool' = u /\ UNCHANGED message
                                               /\ outbox' = Append(outbox, V(u))
  <2>1. PICK u \in Deadlines \cup {Lifted} : /\ pool' = u /\ UNCHANGED message
                                            /\ outbox' = Append(outbox, V(u))
    BY <1>5
  <2>2. V(u) \in Row /\ V(u).item = u /\ V(u).delivered = FALSE /\ u \notin Messages
    BY <1>1, <1>2
  <2> QED BY <2>1, <2>2
<1> QED BY <1>3, <1>4, <1>5

\* A row that is written comes last.
LEMMA PostsKeepsRows ==
  ASSUME RelayInv, Posts
  PROVE  RowsRight'
<1>1. PICK v \in Row : /\ outbox' = Append(outbox, v) /\ ~v.delivered
                       /\ \/ v.item \in Messages /\ UNCHANGED pool
                          \/ v.item \notin Messages /\ pool' = v.item
  BY PostedRow
<1>2. outbox \in Seq(Row) /\ UNCHANGED relay
  BY DEF RelayInv, RowsTyped, TypeOK, Posts
<1>3. PICK last : last = Len(outbox) + 1
  OBVIOUS
<1>4. /\ last \in Nat /\ DOMAIN outbox' = DOMAIN outbox \cup {last}
      /\ \A i \in DOMAIN outbox : i \in Nat /\ i < last /\ outbox'[i] = outbox[i]
      /\ outbox'[last] = v
  <2>1. /\ Len(outbox) \in Nat /\ DOMAIN outbox = 1..Len(outbox)
        /\ DOMAIN outbox' = DOMAIN outbox \cup {last}
        /\ \A i \in DOMAIN outbox : i < last /\ outbox'[i] = outbox[i]
        /\ outbox'[last] = v
    BY <1>1, <1>2, <1>3, RowPosted
  <2> QED BY <1>3, <2>1
<1>5. Pending' = Pending \cup {last} /\ Pending \subseteq DOMAIN outbox /\ last \notin DOMAIN outbox
  BY <1>1, <1>4 DEF Pending
<1>6. Batches'
  BY <1>2, <1>4, <1>5 DEF RelayInv, RowsTyped, Batches
<1>7. DeliveredFirst'
  BY <1>4, <1>5 DEF RelayInv, DeliveredFirst
<1>8. PoolIsLast'
  <2>1. CoolRows' = IF v.item \in Messages THEN CoolRows ELSE CoolRows \cup {last}
    BY <1>4 DEF CoolRows
  <2>2. CoolRows \subseteq DOMAIN outbox
    BY DEF CoolRows
  <2>3. CASE v.item \in Messages
    <3>1. pool' = pool /\ CoolRows' = CoolRows
      BY <1>1, <2>1, <2>3
    <3>2. PICK p \in CoolRows \cup {0} : SetBy(p, pool) /\ \A i \in CoolRows : i <= p
      BY DEF RelayInv, PoolIsLast
    <3>3. SetBy(p, pool)'
      BY <1>4, <2>2, <3>1, <3>2 DEF SetBy
    <3> QED BY <3>1, <3>2, <3>3 DEF PoolIsLast
  <2>4. CASE v.item \notin Messages
    <3>1. pool' = v.item /\ last \in CoolRows'
      BY <1>1, <2>1, <2>4
    <3>2. SetBy(last, pool)'
      BY <1>4, <3>1 DEF SetBy
    <3>3. \A i \in CoolRows' : i <= last
      BY <1>4, <2>1, <2>2
    <3> QED BY <3>1, <3>2, <3>3 DEF PoolIsLast
  <2> QED BY <2>3, <2>4
<1> QED BY <1>6, <1>7, <1>8 DEF RowsRight

\* The row that is marked is the first that waits.
LEMMA MarksKeepsRows ==
  ASSUME RelayInv, NEW r \in Relays, Marks(r)
  PROVE  RowsRight'
<1>1. PICK i : i = First(relay[r].batch)
  OBVIOUS
<1>2. /\ relay[r].at = "mark" /\ outbox' = [outbox EXCEPT ![i].delivered = TRUE] /\ UNCHANGED pool
      /\ relay'[r].batch = relay[r].batch \ {i}
      /\ relay'[r].at = IF relay'[r].batch = {} THEN "deliver" ELSE "send"
      /\ \A s \in Relays : s # r => relay'[s] = relay[s]
  BY <1>1 DEF Marks
<1>3. /\ i \in relay[r].batch /\ i \in DOMAIN outbox /\ relay[r].batch \subseteq DOMAIN outbox
      /\ \A j \in relay[r].batch : i <= j
  BY <1>1, <1>2, BatchFacts DEF RelayInv
<1>4. outbox \in Seq(Row) /\ RowsTyped
  BY DEF RelayInv, RowsTyped, TypeOK
<1>5. /\ DOMAIN outbox' = DOMAIN outbox
      /\ \A j \in DOMAIN outbox : /\ outbox'[j].item = outbox[j].item
                                  /\ outbox'[j].delivered = (outbox[j].delivered \/ j = i)
  BY <1>2, <1>3, <1>4, RowMarked
<1>6. DOMAIN outbox \subseteq Nat
  BY <1>4, LenProperties
<1>7. Pending' = Pending \ {i}
  BY <1>5 DEF Pending
<1>8. \A j \in Pending : i <= j
  BY <1>2, <1>3, <1>6, <1>4 DEF RowsTyped, Batches, Pending
<1>9. Batches'
  <2>1. ASSUME NEW s \in Relays, relay'[s].at \in {"send", "mark"}
        PROVE  /\ relay'[s].batch # {} /\ relay'[s].batch \subseteq DOMAIN outbox'
               /\ \A x \in relay'[s].batch : \A j \in Pending' \ relay'[s].batch : x < j
    <3>1. CASE s = r
      BY <1>2, <1>4, <1>5, <1>7, <2>1, <3>1 DEF RowsTyped, Batches
    <3>2. CASE s # r
      BY <1>2, <1>4, <1>5, <1>7, <2>1, <3>2 DEF RowsTyped, Batches
    <3> QED BY <3>1, <3>2
  <2> QED BY <2>1 DEF Batches
<1>10. DeliveredFirst'
  <2>1. ASSUME NEW a \in Pending', NEW b \in DOMAIN outbox' \ Pending' PROVE b < a
    <3>1. a \in Pending /\ a # i /\ i <= a /\ a \in Nat /\ i \in Nat
      BY <1>3, <1>6, <1>7, <1>8 DEF Pending
    <3>2. b = i \/ b \in DOMAIN outbox \ Pending
      BY <1>5, <1>7
    <3> QED BY <3>1, <3>2 DEF RelayInv, DeliveredFirst
  <2> QED BY <2>1 DEF DeliveredFirst
<1>11. CoolRows' = CoolRows
  BY <1>5 DEF CoolRows
<1>12. PoolIsLast'
  <2>1. PICK p \in CoolRows \cup {0} : SetBy(p, pool) /\ \A x \in CoolRows : x <= p
    BY DEF RelayInv, PoolIsLast
  <2>2. SetBy(p, pool)'
    <3>1. \A x \in CoolRows : x \in DOMAIN outbox
      BY DEF CoolRows
    <3> QED BY <1>2, <1>5, <1>11, <2>1, <3>1 DEF SetBy
  <2> QED BY <1>11, <2>1, <2>2 DEF PoolIsLast
<1> QED BY <1>9, <1>10, <1>12 DEF RowsRight

\* Every step leaves the rows right.
LEMMA RowsStep ==
  ASSUME RelayInv, [Next]_vars
  PROVE  RowsRight'
<1>1. CASE Rests
  BY <1>1, RowsStay DEF Rests, Resting
<1>2. CASE Wiped \/ Acks
  BY <1>2, RowsStay DEF Wiped, Acks
<1>3. ASSUME NEW r \in Relays, RebuildAct(r) PROVE RowsRight'
  <2>1. /\ UNCHANGED <<outbox, pool>> /\ relay'[r].at \notin {"send", "mark"}
        /\ \A s \in Relays : s # r => relay'[s] = relay[s]
    BY <1>3 DEF RebuildAct, Wrote, TakesSnapshot, FillsOne, Filled, NotCooled, Moves
  <2>2. \A s \in Relays : relay'[s].at \in {"send", "mark"} => relay'[s] = relay[s]
    BY <2>1
  <2> QED BY <2>1, <2>2, RowsStay
<1>4. ASSUME NEW r \in Relays, Sends(r) PROVE RowsRight'
  <2>1. /\ UNCHANGED <<outbox, pool>> /\ relay[r].at = "send" /\ relay'[r].batch = relay[r].batch
        /\ \A s \in Relays : s # r => relay'[s] = relay[s]
    BY <1>4 DEF Sends, Wrote, Moves, Keeps
  <2>2. \A s \in Relays : relay'[s].at \in {"send", "mark"} =>
           relay[s].at \in {"send", "mark"} /\ relay'[s].batch = relay[s].batch
    BY <2>1
  <2> QED BY <2>1, <2>2, RowsStay
<1>5. ASSUME NEW r \in Relays, TakesBatch(r) PROVE RowsRight'
  <2>1. /\ UNCHANGED <<outbox, pool>> /\ relay'[r].batch = Pending /\ Pending # {}
        /\ \A s \in Relays : s # r => relay'[s] = relay[s]
    BY <1>5 DEF TakesBatch, Moves
  <2>2. Pending' = Pending /\ CoolRows' = CoolRows /\ Pending \subseteq DOMAIN outbox
    BY <2>1 DEF Pending, CoolRows
  <2>3. Batches'
    BY <2>1, <2>2 DEF RelayInv, RowsTyped, Batches
  <2>4. DeliveredFirst'
    BY <2>1, <2>2 DEF RelayInv, DeliveredFirst
  <2>5. PoolIsLast'
    BY <2>1, <2>2 DEF RelayInv, PoolIsLast, SetBy
  <2> QED BY <2>3, <2>4, <2>5 DEF RowsRight
<1>6. Shaped
  BY StepShaped DEF RelayInv
<1> QED BY <1>1, <1>2, <1>3, <1>4, <1>5, <1>6, PostsKeepsRows, MarksKeepsRows DEF Shaped

-----------------------------------------------------------------------------
(* What holds while the tokens are apart: the signals in Redis.            *)

\* The parts that need the fence.
Carries == Rebuilds /\ InOrder /\ Signals /\ Cooldowns

\* A relay whose writes go through is the only one.
LEMMA OneWrites ==
  ASSUME RelayInv, Tokens, NEW r \in Relays, NEW s \in Relays, Writes(r), ~At(s, "idle"), FenceHolds(s)
  PROVE  r = s
BY DEF Tokens, Writes, Holding, FenceHolds, At

\* A row that waits to be sent goes on to while no row is sent anew.
LEMMA WaitsStays ==
  ASSUME NEW m \in Messages, Waits(m),
         message'[m] = "unread" => message[m] = "unread",
         \A i \in DOMAIN outbox : /\ i \in DOMAIN outbox' /\ outbox'[i].item = outbox[i].item
                                  /\ Sent(i)' => Sent(i)
  PROVE  Waits(m)'
BY DEF Waits

\* What the pool was set to and nothing was sent past stays so while no row is sent
\* anew.
LEMMA ReachedStays ==
  ASSUME NEW u, Reached(u),
         \A i \in DOMAIN outbox : i \in DOMAIN outbox' /\ outbox'[i].item = outbox[i].item,
         \A i \in CoolRows' : Sent(i)' => i \in DOMAIN outbox /\ Sent(i)
  PROVE  Reached(u)'
<1>1. PICK p \in CoolRows \cup {0} : SetBy(p, u) /\ \A i \in CoolRows : Sent(i) => i <= p
  BY DEF Reached
<1>2. CoolRows \subseteq CoolRows' /\ \A i \in CoolRows' : i \in DOMAIN outbox => i \in CoolRows
  BY DEF CoolRows
<1>3. SetBy(p, u)'
  BY <1>1, <1>2 DEF SetBy, CoolRows
<1>4. \A i \in CoolRows' : Sent(i)' => i <= p
  BY <1>1, <1>2
<1> QED BY <1>1, <1>2, <1>3, <1>4 DEF Reached

\* The signals are carried on by a step that sends nothing anew, moves no relay but
\* to rest, and leaves Redis, and what its one writer is, as they were.
LEMMA RestsKeeps ==
  ASSUME RelayInv, Tokens, Carries, Rests
  PROVE  Carries'
<1>1. /\ UNCHANGED <<message, pool, outbox>>
      /\ \A s \in Relays : relay'[s] = relay[s] \/ relay'[s].at \in Resting
      /\ redis'.epoch = redis.epoch /\ redis'.rebuilding = redis.rebuilding
      /\ redis'.mbox = redis.mbox /\ redis'.cooldown = redis.cooldown
  BY DEF Rests
<1>2. ASSUME NEW s \in Relays, Writes(s)', relay'[s].at \notin Resting
      PROVE  relay'[s] = relay[s] /\ Writes(s)
  <2>1. relay'[s] = relay[s] /\ Holding(s) /\ redis'.lock = relay[s].token
    BY <1>1, <1>2 DEF Writes, Holding, FenceHolds
  <2>2. redis'.lock # 0
    BY <2>1 DEF Tokens, Holding, At
  <2>3. ASSUME NEW r \in Relays, At(r, "setnx"), redis'.lock = relay[r].token PROVE FALSE
    BY <2>1, <2>2, <2>3 DEF Tokens, Holding, At
  <2>4. redis'.lock = redis.lock
    BY <2>2, <2>3 DEF Rests
  <2> QED BY <2>1, <2>4 DEF Writes, FenceHolds
<1>3. \A i \in DOMAIN outbox : Sent(i)' => Sent(i)
  BY <1>1 DEF Sent, SentBy, At, Resting
<1>4. \A m \in Messages : Waits(m) => Waits(m)'
  BY <1>1, <1>3, WaitsStays
<1>5. \A u : Reached(u) => Reached(u)'
  <2>1. \A i \in CoolRows' : i \in DOMAIN outbox
    BY <1>1 DEF CoolRows
  <2> QED BY <1>1, <1>3, <2>1, ReachedStays
<1>6. \A s \in {"snapshot", "clear", "fill", "cool", "set_epoch", "unmark", "send", "mark"} : s \notin Resting
  BY DEF Resting
<1>7. Rebuilds'
  BY <1>1, <1>2, <1>6 DEF Carries, Rebuilds
<1>8. InOrder'
  BY <1>1, <1>2, <1>3, <1>6 DEF Carries, InOrder
<1>9. Signals'
  <2>1. Whole' = Whole
    BY <1>1 DEF Whole
  <2>2. ASSUME NEW s \in Relays, Writes(s)', relay'[s].at \notin Resting
        PROVE  /\ At(s, "clear")' => \A m \in Messages : m \in relay'[s].unread \/ Waits(m)'
               /\ relay'[s].at \in {"fill", "cool", "set_epoch", "unmark"} =>
                    \A m \in Messages : m \in relay'[s].unread \/ m \in redis'.mbox \/ Waits(m)'
               /\ relay'[s].at \in {"cool", "set_epoch", "unmark"} => relay'[s].unread = {}
    BY <1>1, <1>2, <1>4, <2>2 DEF Carries, Signals, At
  <2> QED BY <1>1, <1>4, <1>6, <2>1, <2>2 DEF Carries, Signals, At
<1>10. Cooldowns'
  <2>1. Whole' = Whole
    BY <1>1 DEF Whole
  <2>2. Reached(redis.cooldown)' \/ (redis'.cooldown = Lifted /\ ~Whole')
    BY <1>1, <1>5, <2>1 DEF Carries, Cooldowns
  <2>3. ASSUME NEW s \in Relays, Writes(s)', relay'[s].at \notin Resting
        PROVE  /\ relay'[s].at \in {"clear", "fill", "cool"} => Reached(relay[s].until)'
               /\ relay'[s].at \in {"set_epoch", "unmark"} => Reached(redis.cooldown)'
    BY <1>1, <1>2, <1>5, <2>3 DEF Carries, Cooldowns
  <2> QED BY <1>6, <2>2, <2>3 DEF Cooldowns
<1> QED BY <1>7, <1>8, <1>9, <1>10 DEF Carries

\* After a wipe no relay holds the lock, and nobody goes by Redis.
LEMMA WipedKeeps ==
  ASSUME RelayInv, Tokens, Carries, Wiped
  PROVE  Carries'
<1>1. ~Whole' /\ redis'.cooldown = Lifted
  BY DEF Wiped, EmptyRedis, Whole
<1>2. \A s \in Relays : ~Writes(s)'
  BY DEF Wiped, EmptyRedis, Tokens, Writes, Holding, FenceHolds, At
<1> QED BY <1>1, <1>2 DEF Carries, Rebuilds, InOrder, Signals, Cooldowns

\* A row that is written waits to be sent.
LEMMA PostsKeeps ==
  ASSUME RelayInv, Tokens, Carries, Posts
  PROVE  Carries'
<1>1. PICK v \in Row : /\ outbox' = Append(outbox, v) /\ v.delivered = FALSE
                       /\ \/ /\ v.item \in Messages
                             /\ message' = [message EXCEPT ![v.item] = "unread"]
                          \/ v.item \notin Messages /\ UNCHANGED message
  BY PostedRow
<1>2. /\ outbox \in Seq(Row) /\ UNCHANGED <<relay, redis>> /\ RowsTyped
      /\ message \in [Messages -> {"none", "unread", "acked"}]
  BY DEF RelayInv, RowsTyped, TypeOK, Posts
<1>3. PICK last : last = Len(outbox) + 1
  OBVIOUS
<1>4. /\ DOMAIN outbox' = DOMAIN outbox \cup {last} /\ last \notin DOMAIN outbox
      /\ \A i \in DOMAIN outbox : outbox'[i] = outbox[i]
      /\ outbox'[last] = v
  <2>1. /\ Len(outbox) \in Nat /\ DOMAIN outbox = 1..Len(outbox)
        /\ DOMAIN outbox' = DOMAIN outbox \cup {last}
        /\ \A i \in DOMAIN outbox : i < last /\ outbox'[i] = outbox[i]
        /\ outbox'[last] = v
    BY <1>1, <1>2, <1>3, RowPosted
  <2> QED BY <1>3, <2>1
<1>5. \A r \in Relays : At(r, "mark") => First(relay[r].batch) \in DOMAIN outbox
  BY <1>2, BatchFacts DEF At
<1>6. ~Sent(last)'
  BY <1>1, <1>2, <1>4, <1>5 DEF Sent, SentBy, At
<1>7. \A i \in DOMAIN outbox : /\ i \in DOMAIN outbox' /\ outbox'[i].item = outbox[i].item
                               /\ Sent(i)' => Sent(i)
  BY <1>2, <1>4 DEF Sent, SentBy, At
<1>8. ASSUME NEW m \in Messages, Waits(m) PROVE Waits(m)'
  <2>1. CASE v.item = m
    <3>1. outbox'[last].item = m /\ last \in DOMAIN outbox'
      BY <1>4, <2>1
    <3> QED BY <1>6, <3>1 DEF Waits
  <2>2. CASE v.item # m
    <3>1. message'[m] = message[m]
      BY <1>1, <1>2, <2>2
    <3> QED BY <1>7, <1>8, <3>1, WaitsStays
  <2> QED BY <2>1, <2>2
<1>9. \A u : Reached(u) => Reached(u)'
  <2>1. \A i \in CoolRows' : Sent(i)' => i \in DOMAIN outbox /\ Sent(i)
    BY <1>4, <1>6, <1>7 DEF CoolRows
  <2> QED BY <1>7, <2>1, ReachedStays
<1>10. Rebuilds'
  BY <1>2 DEF Carries, Rebuilds, Writes, Holding, FenceHolds
<1>11. InOrder'
  <2>1. \A i \in DOMAIN outbox' : Sent(i)' => i \in DOMAIN outbox /\ Sent(i)
    BY <1>4, <1>6, <1>7
  <2> QED BY <1>2, <2>1 DEF Carries, InOrder, Writes, Holding, FenceHolds
<1>12. Signals'
  BY <1>2, <1>8 DEF Carries, Signals, Whole, Writes, Holding, FenceHolds, At
<1>13. Cooldowns'
  BY <1>2, <1>9 DEF Carries, Cooldowns, Whole, Writes, Holding, FenceHolds
<1> QED BY <1>10, <1>11, <1>12, <1>13 DEF Carries

\* A message that is acknowledged waits for nothing.
LEMMA AcksKeeps ==
  ASSUME RelayInv, Tokens, Carries, Acks
  PROVE  Carries'
<1>1. UNCHANGED <<relay, redis, outbox, pool>> /\ message \in [Messages -> {"none", "unread", "acked"}]
  BY DEF RelayInv, RowsTyped, TypeOK, Acks
<1>2. \A m \in Messages : message'[m] = "unread" => message[m] = "unread"
  BY <1>1 DEF Acks
<1>3. /\ \A i : Sent(i)' <=> Sent(i)
      /\ \A m \in Messages : Waits(m) => Waits(m)'
  <2>1. \A i : Sent(i)' <=> Sent(i)
    BY <1>1 DEF Sent, SentBy, At
  <2> QED BY <1>1, <1>2, <2>1, WaitsStays
<1>4. \A u : Reached(u) => Reached(u)'
  <2>1. \A i \in CoolRows' : i \in DOMAIN outbox
    BY <1>1 DEF CoolRows
  <2> QED BY <1>1, <1>3, <2>1, ReachedStays
<1>5. Rebuilds'
  BY <1>1 DEF Carries, Rebuilds, Writes, Holding, FenceHolds
<1>6. InOrder'
  BY <1>1, <1>3 DEF Carries, InOrder, Writes, Holding, FenceHolds
<1>7. Signals'
  BY <1>1, <1>3 DEF Carries, Signals, Whole, Writes, Holding, FenceHolds, At
<1>8. Cooldowns'
  BY <1>1, <1>4 DEF Carries, Cooldowns, Whole, Writes, Holding, FenceHolds
<1> QED BY <1>5, <1>6, <1>7, <1>8 DEF Carries

\* What the one writer must see to after its step.
LEMMA WriterKeeps ==
  ASSUME NEW r \in Relays, \A s \in Relays : Writes(s)' => s = r,
         relay'[r].at \in {"snapshot", "clear", "fill", "cool", "set_epoch", "unmark"} => redis'.rebuilding,
         relay'[r].at \in {"send", "mark"} =>
           \A i \in DOMAIN outbox' : Sent(i)' => i <= First(relay'[r].batch),
         Whole' => \A m \in Messages : m \in redis'.mbox \/ Waits(m)',
         relay'[r].at = "clear" => \A m \in Messages : m \in relay'[r].unread \/ Waits(m)',
         relay'[r].at \in {"fill", "cool", "set_epoch", "unmark"} =>
           \A m \in Messages : m \in relay'[r].unread \/ m \in redis'.mbox \/ Waits(m)',
         relay'[r].at \in {"cool", "set_epoch", "unmark"} => relay'[r].unread = {},
         Reached(redis.cooldown)' \/ (redis'.cooldown = Lifted /\ ~Whole'),
         relay'[r].at \in {"clear", "fill", "cool"} => Reached(relay[r].until)',
         relay'[r].at \in {"set_epoch", "unmark"} => Reached(redis.cooldown)'
  PROVE  Carries'
<1>1. Rebuilds'
  BY DEF Rebuilds
<1>2. InOrder'
  BY DEF InOrder
<1>3. Signals'
  BY DEF Signals, At
<1>4. Cooldowns'
  BY DEF Cooldowns
<1> QED BY <1>1, <1>2, <1>3, <1>4 DEF Carries

\* A relay that lost the lock moves on, or marks its row, without a trace in Redis.
LEMMA QuietKeeps ==
  ASSUME RelayInv, Tokens, Carries, NEW r \in Relays, ~FenceHolds(r),
         UNCHANGED <<message, redis>>, relay'[r].token = relay[r].token,
         \A s \in Relays : s # r => relay'[s] = relay[s],
         DOMAIN outbox' = DOMAIN outbox,
         \A i \in DOMAIN outbox : outbox'[i].item = outbox[i].item /\ (Sent(i)' => Sent(i))
  PROVE  Carries'
<1>1. \A s \in Relays : Writes(s)' => s # r /\ relay'[s] = relay[s] /\ Writes(s)
  BY DEF Writes, Holding, FenceHolds
<1>2. \A m \in Messages : Waits(m) => Waits(m)'
  BY WaitsStays
<1>3. \A u : Reached(u) => Reached(u)'
  <2>1. \A i \in CoolRows' : i \in DOMAIN outbox
    BY DEF CoolRows
  <2> QED BY <2>1, ReachedStays
<1>4. Whole' = Whole
  BY DEF Whole
<1>5. Rebuilds'
  BY <1>1 DEF Carries, Rebuilds
<1>6. InOrder'
  BY <1>1 DEF Carries, InOrder
<1>7. Signals'
  BY <1>1, <1>2, <1>4 DEF Carries, Signals, At
<1>8. Cooldowns'
  BY <1>1, <1>3, <1>4 DEF Carries, Cooldowns
<1> QED BY <1>5, <1>6, <1>7, <1>8 DEF Carries

\* A rebuild carries the signals on: it signals each message of its snapshot, and
\* readers do not go by Redis before.
LEMMA RebuildActKeeps ==
  ASSUME RelayInv, Tokens, Carries, NEW r \in Relays, RebuildAct(r)
  PROVE  Carries'
<1>1. redis \in RedisState /\ relay \in [Relays -> RelayRow]
  BY DEF RelayInv, RowsTyped, TypeOK, RelayRow, RedisState
<1>2. /\ UNCHANGED <<message, pool, outbox>> /\ relay'[r].token = relay[r].token
      /\ relay[r].at # "mark" /\ relay'[r].at \notin {"send", "mark"}
      /\ \A s \in Relays : s # r => relay'[s] = relay[s]
      /\ redis'.lock = redis.lock
  <2>1. /\ UNCHANGED <<message, pool, outbox>> /\ relay'[r].token = relay[r].token
        /\ relay[r].at # "mark" /\ relay'[r].at \notin {"send", "mark"}
        /\ \A s \in Relays : s # r => relay'[s] = relay[s]
    BY DEF RebuildAct, Wrote, TakesSnapshot, FillsOne, Filled, NotCooled, Moves
  <2>2. redis'.lock = redis.lock
    BY <1>1 DEF RebuildAct, Wrote, TakesSnapshot, FillsOne, Filled, NotCooled, RedisState
  <2> QED BY <2>1, <2>2
<1>3. \A i \in DOMAIN outbox : Sent(i)' => Sent(i)
  BY <1>2 DEF Sent, SentBy, At
<1>4. CASE ~FenceHolds(r)
  <2>1. UNCHANGED redis
    BY <1>4 DEF RebuildAct, Wrote, TakesSnapshot, FillsOne, Filled, NotCooled
  <2> QED BY <1>2, <1>3, <1>4, <2>1, QuietKeeps
<1>5. CASE FenceHolds(r)
  <2>1. Writes(r)
    BY <1>5 DEF RebuildAct, Wrote, TakesSnapshot, FillsOne, Filled, NotCooled, Moves, Writes, Holding
  <2>2. \A s \in Relays : Writes(s)' => s = r
    BY <1>2, <2>1, OneWrites DEF Writes, Holding, FenceHolds, At
  <2>3. \A m \in Messages : Waits(m) => Waits(m)'
    BY <1>2, <1>3, WaitsStays
  <2>4. \A u : Reached(u) => Reached(u)'
    <3>1. \A i \in CoolRows' : i \in DOMAIN outbox
      BY <1>2 DEF CoolRows
    <3> QED BY <1>2, <1>3, <3>1, ReachedStays
  <2>5. relay[r].at \in {"snapshot", "clear", "fill", "cool", "set_epoch", "unmark"} => redis.rebuilding
    BY <2>1 DEF Carries, Rebuilds
  <2>6. Reached(redis.cooldown) \/ redis.cooldown = Lifted
    BY DEF Carries, Cooldowns
  <2>7. CASE Wrote(r, "mark_rebuilding", [redis EXCEPT !.rebuilding = TRUE], "snapshot")
    <3>1. relay'[r].at = "snapshot" /\ redis' = [redis EXCEPT !.rebuilding = TRUE]
      BY <2>7 DEF Wrote, Moves
    <3>2. redis'.rebuilding /\ redis'.cooldown = redis.cooldown
      BY <1>1, <3>1 DEF RedisState
    <3>3. ~Whole'
      BY <3>2 DEF Whole
    <3> QED BY <2>2, <2>4, <2>6, <3>1, <3>2, <3>3, WriterKeeps
  <2>8. CASE TakesSnapshot(r)
    <3>1. /\ relay[r].at = "snapshot" /\ relay'[r].at = "clear" /\ UNCHANGED redis
          /\ relay'[r].until = pool /\ relay'[r].unread = {m \in Messages : message[m] = "unread"}
      BY <2>8 DEF TakesSnapshot, Moves
    <3>2. redis'.rebuilding /\ ~Whole'
      BY <2>5, <3>1 DEF Whole
    <3>3. \A m \in Messages : m \in relay'[r].unread \/ Waits(m)'
      BY <1>2, <3>1 DEF Waits
    <3>4. Reached(pool)
      BY DEF RelayInv, PoolIsLast, Reached
    <3>5. Reached(relay[r].until)'
      BY <2>4, <3>1, <3>4
    <3> QED BY <2>2, <2>4, <2>6, <3>1, <3>2, <3>3, <3>5, WriterKeeps
  <2>9. CASE Wrote(r, "clear", [redis EXCEPT !.mbox = {}], "fill")
    <3>1. relay[r].at = "clear" /\ relay'[r].at = "fill" /\ redis' = [redis EXCEPT !.mbox = {}] /\ Keeps(r)
      BY <2>9 DEF Wrote, Moves
    <3>2. redis'.rebuilding /\ redis'.cooldown = redis.cooldown
      BY <1>1, <2>5, <3>1 DEF RedisState
    <3>3. \A m \in Messages : m \in relay'[r].unread \/ Waits(m)'
      BY <2>1, <2>3, <3>1 DEF Keeps, Carries, Signals, At
    <3>4. Reached(relay[r].until)'
      BY <2>1, <2>4, <3>1 DEF Keeps, Carries, Cooldowns
    <3>5. ~Whole'
      BY <3>2 DEF Whole
    <3> QED BY <2>2, <2>4, <2>6, <3>1, <3>2, <3>3, <3>4, <3>5, WriterKeeps
  <2>10. ASSUME NEW m \in relay[r].unread, FillsOne(r, m) PROVE Carries'
    <3>1. /\ relay[r].at = "fill" /\ relay'[r].at = "fill"
          /\ redis' = [redis EXCEPT !.mbox = redis.mbox \cup {m}]
          /\ relay'[r].until = relay[r].until /\ relay'[r].unread = relay[r].unread \ {m}
      BY <2>10 DEF FillsOne, Moves
    <3>2. redis'.rebuilding /\ redis'.cooldown = redis.cooldown /\ redis'.mbox = redis.mbox \cup {m}
      BY <1>1, <2>5, <3>1 DEF RedisState
    <3>3. \A n \in Messages : n \in relay'[r].unread \/ n \in redis'.mbox \/ Waits(n)'
      BY <2>1, <2>3, <3>1, <3>2 DEF Carries, Signals, At
    <3>4. Reached(relay[r].until)'
      BY <2>1, <2>4, <3>1 DEF Carries, Cooldowns
    <3>5. ~Whole'
      BY <3>2 DEF Whole
    <3> QED BY <2>2, <2>4, <2>6, <3>1, <3>2, <3>3, <3>4, <3>5, WriterKeeps
  <2>11. CASE Filled(r)
    <3>1. relay[r].at = "fill" /\ relay'[r].at = "cool" /\ UNCHANGED redis /\ Keeps(r) /\ relay[r].unread = {}
      BY <2>11 DEF Filled, Moves
    <3>2. redis'.rebuilding /\ ~Whole'
      BY <2>5, <3>1 DEF Whole
    <3>3. \A n \in Messages : n \in relay'[r].unread \/ n \in redis'.mbox \/ Waits(n)'
      BY <2>1, <2>3, <3>1 DEF Keeps, Carries, Signals
    <3>4. Reached(relay[r].until)'
      BY <2>1, <2>4, <3>1 DEF Keeps, Carries, Cooldowns
    <3> QED BY <2>2, <2>4, <2>6, <3>1, <3>2, <3>3, <3>4, WriterKeeps DEF Keeps
  <2>12. CASE NotCooled(r) \/ Wrote(r, "cool", [redis EXCEPT !.cooldown = relay[r].until], "set_epoch")
    <3>1. /\ relay[r].at = "cool" /\ relay'[r].at = "set_epoch" /\ Keeps(r)
          /\ \/ UNCHANGED redis /\ relay[r].until = Lifted
             \/ redis' = [redis EXCEPT !.cooldown = relay[r].until]
      BY <2>12 DEF NotCooled, Wrote, Moves
    <3>2. redis'.rebuilding /\ redis'.mbox = redis.mbox
          /\ (redis'.cooldown = relay[r].until \/ (redis'.cooldown = redis.cooldown /\ relay[r].until = Lifted))
      BY <1>1, <2>5, <3>1 DEF RedisState
    <3>3. relay'[r].unread = {} /\ \A n \in Messages : n \in redis'.mbox \/ Waits(n)'
      BY <2>1, <2>3, <3>1, <3>2 DEF Keeps, Carries, Signals
    <3>4. Reached(relay[r].until)
      BY <2>1, <3>1 DEF Carries, Cooldowns
    <3>5. Reached(redis.cooldown)'
      BY <2>4, <2>6, <3>2, <3>4
    <3>6. ~Whole'
      BY <3>2 DEF Whole
    <3> QED BY <2>2, <3>1, <3>2, <3>3, <3>5, <3>6, WriterKeeps
  <2>13. CASE Wrote(r, "set_epoch", [redis EXCEPT !.epoch = TRUE], "unmark")
    <3>1. relay[r].at = "set_epoch" /\ relay'[r].at = "unmark" /\ Keeps(r) /\ redis' = [redis EXCEPT !.epoch = TRUE]
      BY <2>13 DEF Wrote, Moves
    <3>2. redis'.rebuilding /\ redis'.mbox = redis.mbox /\ redis'.cooldown = redis.cooldown
      BY <1>1, <2>5, <3>1 DEF RedisState
    <3>3. relay'[r].unread = {} /\ \A n \in Messages : n \in redis'.mbox \/ Waits(n)'
      BY <2>1, <2>3, <3>1, <3>2 DEF Keeps, Carries, Signals
    <3>4. Reached(redis.cooldown)'
      BY <2>1, <2>4, <3>1, <3>2 DEF Carries, Cooldowns
    <3>5. ~Whole'
      BY <3>2 DEF Whole
    <3> QED BY <2>2, <3>1, <3>2, <3>3, <3>4, <3>5, WriterKeeps
  <2>14. CASE Wrote(r, "unmark", [redis EXCEPT !.rebuilding = FALSE], "deliver")
    <3>1. relay[r].at = "unmark" /\ relay'[r].at = "deliver" /\ redis' = [redis EXCEPT !.rebuilding = FALSE]
      BY <2>14 DEF Wrote, Moves
    <3>2. redis'.mbox = redis.mbox /\ redis'.cooldown = redis.cooldown
      BY <1>1, <3>1 DEF RedisState
    <3>3. \A n \in Messages : n \in redis'.mbox \/ Waits(n)'
      BY <2>1, <2>3, <3>1, <3>2 DEF Carries, Signals
    <3>4. Reached(redis.cooldown)'
      BY <2>1, <2>4, <3>1, <3>2 DEF Carries, Cooldowns
    <3> QED BY <2>2, <3>1, <3>2, <3>3, <3>4, WriterKeeps
  <2> QED BY <2>7, <2>8, <2>9, <2>10, <2>11, <2>12, <2>13, <2>14 DEF RebuildAct
<1> QED BY <1>4, <1>5

\* The rows that wait come after every one that was sent.
LEMMA TakesBatchKeeps ==
  ASSUME RelayInv, Tokens, Carries, NEW r \in Relays, TakesBatch(r)
  PROVE  Carries'
<1>1. /\ UNCHANGED <<message, pool, outbox, redis>> /\ relay'[r].token = relay[r].token
      /\ relay[r].at = "deliver" /\ relay'[r].at = "send" /\ relay'[r].batch = Pending /\ Pending # {}
      /\ \A s \in Relays : s # r => relay'[s] = relay[s]
  BY DEF TakesBatch, Moves
<1>2. \A i \in DOMAIN outbox : Sent(i)' => Sent(i)
  BY <1>1 DEF Sent, SentBy, At
<1>3. CASE ~FenceHolds(r)
  BY <1>1, <1>2, <1>3, QuietKeeps
<1>4. CASE FenceHolds(r)
  <2>1. Writes(r)
    BY <1>1, <1>4 DEF Writes, Holding
  <2>2. \A s \in Relays : Writes(s)' => s = r
    BY <1>1, <2>1, OneWrites DEF Writes, Holding, FenceHolds, At
  <2>3. \A m \in Messages : Waits(m) => Waits(m)'
    BY <1>1, <1>2, WaitsStays
  <2>4. \A u : Reached(u) => Reached(u)'
    <3>1. \A i \in CoolRows' : i \in DOMAIN outbox
      BY <1>1 DEF CoolRows
    <3> QED BY <1>1, <1>2, <3>1, ReachedStays
  <2>5. Whole' = Whole
    BY <1>1 DEF Whole
  <2>6. First(Pending) \in Pending /\ \A j \in Pending : First(Pending) <= j
    <3>1. Pending \subseteq Nat
      BY LenProperties DEF RelayInv, RowsTyped, TypeOK, Pending
    <3> QED BY <1>1, <3>1, FirstFacts
  <2>7. ASSUME NEW i \in DOMAIN outbox, Sent(i) PROVE i <= First(Pending)
    <3>1. DOMAIN outbox \subseteq Nat /\ First(Pending) \in DOMAIN outbox
      BY <2>6, LenProperties DEF RelayInv, RowsTyped, TypeOK, Pending
    <3>2. CASE outbox[i].delivered
      <4>1. i \in DOMAIN outbox \ Pending
        BY <3>2 DEF Pending
      <4>2. i < First(Pending)
        BY <2>6, <4>1 DEF RelayInv, DeliveredFirst
      <4> QED BY <3>1, <4>2
    <3>3. ASSUME NEW s \in Relays, SentBy(s, i) PROVE i <= First(Pending)
      <4>1. relay[s].at = "mark" /\ i \in relay[s].batch /\ \A j \in relay[s].batch : i <= j
        BY <3>3, BatchFacts DEF SentBy, At, RelayInv
      <4>2. \A j \in Pending \ relay[s].batch : i < j
        BY <4>1 DEF RelayInv, RowsTyped, Batches
      <4> QED BY <2>6, <3>1, <4>1, <4>2
    <3> QED BY <2>7, <3>2, <3>3 DEF Sent
  <2>8. \A i \in DOMAIN outbox' : Sent(i)' => i <= First(relay'[r].batch)
    BY <1>1, <1>2, <2>7
  <2>9. Whole' => \A m \in Messages : m \in redis'.mbox \/ Waits(m)'
    BY <1>1, <2>3, <2>5 DEF Carries, Signals
  <2>10. Reached(redis.cooldown)' \/ (redis'.cooldown = Lifted /\ ~Whole')
    BY <1>1, <2>4, <2>5 DEF Carries, Cooldowns
  <2> QED BY <1>1, <2>2, <2>8, <2>9, <2>10, WriterKeeps
<1> QED BY <1>3, <1>4

\* The row that is sent signals its message, or sets the cooldown, past which
\* nothing was sent.
LEMMA SendsKeeps ==
  ASSUME RelayInv, Tokens, Carries, NEW r \in Relays, Sends(r)
  PROVE  Carries'
<1>1. PICK i : i = First(relay[r].batch)
  OBVIOUS
<1>2. PICK item : item = outbox[i].item
  OBVIOUS
<1>3. /\ UNCHANGED <<message, pool, outbox>> /\ FenceHolds(r) /\ redis' = Written(item)
      /\ relay[r].at = "send" /\ relay'[r].at = "mark" /\ relay'[r].token = relay[r].token
      /\ relay'[r].batch = relay[r].batch
      /\ \A s \in Relays : s # r => relay'[s] = relay[s]
  BY <1>1, <1>2 DEF Sends, Wrote, Moves, Keeps
<1>4. i \in DOMAIN outbox /\ i \in Nat
  <2>1. DOMAIN outbox \subseteq Nat
    BY LenProperties DEF RelayInv, RowsTyped, TypeOK
  <2> QED BY <1>1, <1>3, <2>1, BatchFacts DEF RelayInv
<1>5. redis'.lock = redis.lock /\ redis'.epoch = redis.epoch /\ redis'.rebuilding = redis.rebuilding
      /\ redis'.mbox = (IF item \in Messages THEN redis.mbox \cup {item} ELSE redis.mbox)
      /\ redis'.cooldown = (IF item \in Messages THEN redis.cooldown ELSE item)
  <2>1. redis \in RedisState
    BY DEF RelayInv, RowsTyped, TypeOK, RedisState
  <2> QED BY <1>3, <2>1 DEF Written, RedisState
<1>6. Writes(r)
  BY <1>3 DEF Writes, Holding
<1>7. \A s \in Relays : Writes(s)' => s = r
  BY <1>3, <1>5, <1>6, OneWrites DEF Writes, Holding, FenceHolds, At
<1>8. \A j : Sent(j)' => Sent(j) \/ j = i
  BY <1>1, <1>3 DEF Sent, SentBy, At
<1>9. \A j \in DOMAIN outbox : Sent(j)' => j <= i
  <2>1. \A j \in DOMAIN outbox : Sent(j) => j <= i
    BY <1>1, <1>3, <1>6 DEF Carries, InOrder
  <2> QED BY <1>4, <1>8, <2>1
<1>10. Whole' => \A m \in Messages : m \in redis'.mbox \/ Waits(m)'
  <2>1. ASSUME Whole', NEW m \in Messages PROVE m \in redis'.mbox \/ Waits(m)'
    <3>1. m \in redis.mbox \/ Waits(m)
      BY <1>5, <2>1 DEF Carries, Signals, Whole
    <3>2. CASE m = item \/ m \in redis.mbox
      BY <1>5, <3>2
    <3>3. CASE m # item /\ Waits(m)
      BY <1>2, <1>3, <1>8, <3>3 DEF Waits
    <3> QED BY <3>1, <3>2, <3>3
  <2> QED BY <2>1
<1>11. Reached(redis.cooldown)' \/ (redis'.cooldown = Lifted /\ ~Whole')
  <2>1. Whole' = Whole
    BY <1>5 DEF Whole
  <2>2. CASE item \in Messages
    <3>1. \A j \in CoolRows' : Sent(j)' => j \in DOMAIN outbox /\ Sent(j)
      BY <1>2, <1>3, <1>8, <2>2 DEF CoolRows
    <3>2. \A u : Reached(u) => Reached(u)'
      BY <1>3, <3>1, ReachedStays
    <3> QED BY <1>5, <2>1, <2>2, <3>2 DEF Carries, Cooldowns
  <2>3. CASE item \notin Messages
    <3>1. i \in CoolRows' /\ outbox'[i].item = redis'.cooldown
      BY <1>2, <1>3, <1>4, <1>5, <2>3 DEF CoolRows
    <3>2. SetBy(i, redis.cooldown)'
      BY <3>1 DEF SetBy
    <3>3. \A j \in CoolRows' : Sent(j)' => j <= i
      BY <1>3, <1>9 DEF CoolRows
    <3> QED BY <3>1, <3>2, <3>3 DEF Reached
  <2> QED BY <2>2, <2>3
<1>12. \A j \in DOMAIN outbox' : Sent(j)' => j <= First(relay'[r].batch)
  BY <1>1, <1>3, <1>9
<1> QED BY <1>3, <1>7, <1>10, <1>11, <1>12, WriterKeeps

\* The mark is of a row that was sent already.
LEMMA MarksKeeps ==
  ASSUME RelayInv, Tokens, Carries, NEW r \in Relays, Marks(r)
  PROVE  Carries'
<1>1. PICK i : i = First(relay[r].batch)
  OBVIOUS
<1>2. /\ UNCHANGED <<message, pool, redis>> /\ outbox' = [outbox EXCEPT ![i].delivered = TRUE]
      /\ relay[r].at = "mark" /\ relay'[r].token = relay[r].token
      /\ relay'[r].batch = relay[r].batch \ {i}
      /\ relay'[r].at = IF relay'[r].batch = {} THEN "deliver" ELSE "send"
      /\ \A s \in Relays : s # r => relay'[s] = relay[s]
  BY <1>1 DEF Marks
<1>3. /\ i \in relay[r].batch /\ i \in DOMAIN outbox /\ relay[r].batch \subseteq DOMAIN outbox
      /\ \A j \in relay[r].batch : i <= j
  BY <1>1, <1>2, BatchFacts DEF RelayInv
<1>4. outbox \in Seq(Row) /\ DOMAIN outbox \subseteq Nat
  BY LenProperties DEF RelayInv, RowsTyped, TypeOK
<1>5. /\ DOMAIN outbox' = DOMAIN outbox
      /\ \A j \in DOMAIN outbox : /\ outbox'[j].item = outbox[j].item
                                  /\ outbox'[j].delivered = (outbox[j].delivered \/ j = i)
  BY <1>2, <1>3, <1>4, RowMarked
<1>6. Sent(i)
  BY <1>1, <1>2 DEF Sent, SentBy, At
<1>7. \A j \in DOMAIN outbox : Sent(j)' => Sent(j)
  BY <1>2, <1>5, <1>6 DEF Sent, SentBy, At
<1>8. CASE ~FenceHolds(r)
  BY <1>2, <1>5, <1>7, <1>8, QuietKeeps
<1>9. CASE FenceHolds(r)
  <2>1. Writes(r)
    BY <1>2, <1>9 DEF Writes, Holding
  <2>2. \A s \in Relays : Writes(s)' => s = r
    BY <1>2, <2>1, OneWrites DEF Writes, Holding, FenceHolds, At
  <2>3. \A m \in Messages : Waits(m) => Waits(m)'
    BY <1>2, <1>5, <1>7, WaitsStays
  <2>4. \A u : Reached(u) => Reached(u)'
    <3>1. \A j \in CoolRows' : j \in DOMAIN outbox
      BY <1>5 DEF CoolRows
    <3> QED BY <1>5, <1>7, <3>1, ReachedStays
  <2>5. Whole' = Whole
    BY <1>2 DEF Whole
  <2>6. ASSUME relay'[r].at = "send", NEW j \in DOMAIN outbox', Sent(j)' PROVE j <= First(relay'[r].batch)
    <3>1. relay'[r].batch # {} /\ relay'[r].batch \subseteq relay[r].batch /\ relay'[r].batch \subseteq Nat
      BY <1>2, <1>3, <1>4, <2>6
    <3>2. First(relay'[r].batch) \in relay'[r].batch
      BY <3>1, FirstFacts
    <3>3. i <= First(relay'[r].batch)
      BY <1>3, <3>1, <3>2
    <3>4. j <= i
      BY <1>1, <1>2, <1>5, <1>7, <2>1, <2>6 DEF Carries, InOrder
    <3> QED BY <1>3, <1>4, <1>5, <3>1, <3>2, <3>3, <3>4
  <2>7. Whole' => \A m \in Messages : m \in redis'.mbox \/ Waits(m)'
    BY <1>2, <2>3, <2>5 DEF Carries, Signals
  <2>8. Reached(redis.cooldown)' \/ (redis'.cooldown = Lifted /\ ~Whole')
    BY <1>2, <2>4, <2>5 DEF Carries, Cooldowns
  <2>9. relay'[r].at \in {"deliver", "send"}
    BY <1>2
  <2> QED BY <2>2, <2>6, <2>7, <2>8, <2>9, WriterKeeps
<1> QED BY <1>8, <1>9
-----------------------------------------------------------------------------
(* The invariant, and what it gives.                                       *)

\* Every step finds a Redis that is right and leaves one.
LEMMA RelayInvStep ==
  ASSUME RelayInv, [Next]_vars
  PROVE  RelayInv'
<1>1. RowsTyped /\ (Fencing => Tokens /\ Carries)
  BY DEF RelayInv, Carries
<1>2. TypeOK' /\ Len(outbox')<= MaxRows
  BY <1>1, TypeStep
<1>3. RowsRight'
  BY RowsStep
<1>4. ASSUME Fencing' PROVE Tokens' /\ Carries'
  <2>1. Fencing
    <3>1. wipes' = 0 => wipes = 0
      <4>1. wipes' = wipes \/ wipes' = wipes + 1
        BY DEF Next, WriterNext, RunStep, TroubleNext, Post, Ack, SetCooldown, TakeToken, TakeLock, ReadEpoch,
               ReadFlag, MarkRebuilding, ReadSnapshot, Clear, Fill, Cool, SetEpoch, Unmark, ReadOutbox, Send,
               Mark, Release, Fenced, GiveUp, Crash, NoticeLoss, Expire, Lapse, Wipe, vars
      <4>2. wipes \in Nat
        BY <1>1, RelayConstants DEF RowsTyped, TypeOK
      <4> QED BY <4>1, <4>2
    <3> QED BY <1>4, <3>1 DEF Fencing
  <2>2. Tokens /\ Carries
    BY <1>1, <2>1
  <2>3. Tokens'
    BY <1>1, <1>4, <2>2, TokensStep
  <2>4. Carries'
    <3>1. Shaped
      BY <1>1, StepShaped
    <3> QED BY <2>2, <3>1, RestsKeeps, WipedKeeps, PostsKeeps, AcksKeeps, RebuildActKeeps, TakesBatchKeeps,
               SendsKeeps, MarksKeeps DEF Shaped
  <2> QED BY <2>3, <2>4
<1>5. (Fencing => Tokens /\ Rebuilds /\ InOrder /\ Signals /\ Cooldowns)'
  BY <1>4 DEF Carries
<1> QED BY <1>2, <1>3, <1>5 DEF RelayInv, RowsTyped, RowsRight

\* A relay that starts, over an empty Redis and no rows, is right.
LEMMA RelayInvStarts ==
  ASSUME Init
  PROVE  RelayInv
<1>1. /\ outbox = <<>> /\ pool = Lifted /\ redis = EmptyRedis /\ wipes = 0 /\ troubles = 0
      /\ message = [m \in Messages |-> "none"] /\ relay = [r \in Relays |-> Stopped]
  BY DEF Init
<1>2. outbox \in Seq(Row) /\ Len(outbox) = 0 /\ DOMAIN outbox = {}
  <2>1. outbox \in Seq(Row) /\ Len(outbox) = 0
    BY <1>1, EmptySeq
  <2>2. DOMAIN outbox = 1..0
    BY <2>1, LenProperties
  <2> QED BY <2>1, <2>2
<1>3. TypeOK /\ Len(outbox) <= MaxRows
  <2>1. EmptyRedis \in RedisState /\ Stopped \in RelayRow
    BY DEF EmptyRedis, RedisState, Stopped, RelayRow, Steps
  <2>2. relay \in [Relays -> RelayRow] /\ redis \in RedisState
    BY <1>1, <2>1
  <2>3. MaxTroubles \in Nat /\ MaxWipes \in Nat /\ MaxRows \in Nat
    BY RelayConstants
  <2>4. troubles \in 0..MaxTroubles /\ wipes \in 0..MaxWipes /\ Len(outbox) <= MaxRows
    BY <1>1, <1>2, <2>3
  <2>5. message \in [Messages -> {"none", "unread", "acked"}] /\ pool \in Deadlines \cup {Lifted}
    BY <1>1
  <2> QED BY <1>2, <2>2, <2>4, <2>5 DEF TypeOK, RelayRow, RedisState
<1>4. \A r \in Relays : relay[r].at = "idle" /\ relay[r].token = 0 /\ ~Writes(r)
  BY <1>1 DEF Stopped, Writes, Holding
<1>5. Batches /\ DeliveredFirst /\ PoolIsLast
  <2>1. Pending = {} /\ CoolRows = {}
    BY <1>2 DEF Pending, CoolRows
  <2>2. SetBy(0, pool)
    BY <1>1 DEF SetBy
  <2> QED BY <1>4, <2>1, <2>2 DEF Batches, DeliveredFirst, PoolIsLast
<1>6. Tokens
  <2>1. redis.fence = 0
    BY <1>1 DEF EmptyRedis
  <2>2. \A r \in Relays : (At(r, "idle") <=> relay[r].token = 0) /\ relay[r].token <= redis.fence
    <3>1. ASSUME NEW r \in Relays PROVE relay[r].at = "idle" /\ relay[r].token = 0 /\ relay[r].token <= redis.fence
      BY <1>4, <2>1
    <3> QED BY <3>1 DEF At
  <2> QED BY <1>4, <2>2 DEF Tokens
<1>7. ~Whole /\ redis.cooldown = Lifted
  BY <1>1 DEF Whole, EmptyRedis
<1>8. Rebuilds /\ InOrder /\ Signals /\ Cooldowns
  BY <1>4, <1>7 DEF Rebuilds, InOrder, Signals, Cooldowns
<1> QED BY <1>3, <1>5, <1>6, <1>8 DEF RelayInv, RowsTyped

\* What a right relay promises, as long as the fence is worth its name.
LEMMA RelayInvSafe ==
  ASSUME RelayInv, Fencing
  PROVE  OneWriter /\ NoLostSignal /\ CooldownIsCurrent
<1>1. Tokens /\ Signals /\ Cooldowns
  BY DEF RelayInv
<1>2. OneWriter
  BY <1>1 DEF OneWriter, Tokens, Holding, FenceHolds, At
<1>3. NoLostSignal
  <2>1. \A i \in DOMAIN outbox : ~Sent(i) => i \in Pending
    BY DEF Sent, Pending
  <2> QED BY <1>1, <2>1 DEF NoLostSignal, Signals, Waits
<1>4. ASSUME Whole, \A i \in Pending : outbox[i].item \in Messages PROVE redis.cooldown = pool
  <2>1. PICK p \in CoolRows \cup {0} : /\ SetBy(p, redis.cooldown)
                                       /\ \A i \in CoolRows : Sent(i) => i <= p
    BY <1>1, <1>4 DEF Cooldowns, Reached
  <2>2. PICK q \in CoolRows \cup {0} : SetBy(q, pool) /\ \A i \in CoolRows : i <= q
    BY DEF RelayInv, PoolIsLast
  <2>3. CoolRows \subseteq Nat \ {0}
    BY LenProperties DEF CoolRows, RelayInv, RowsTyped, TypeOK
  <2>4. \A i \in CoolRows : Sent(i)
    BY <1>4 DEF Pending, Sent, CoolRows
  <2>5. p = q
    BY <2>1, <2>2, <2>3, <2>4
  <2> QED BY <2>1, <2>2, <2>3, <2>5 DEF SetBy
<1>5. CooldownIsCurrent
  BY <1>4 DEF CooldownIsCurrent
<1> QED BY <1>2, <1>3, <1>5

\* The relays, the record and Redis stay right, whatever relays, writers, expiries
\* and crashes do between the calls (relay.go, rebuild.go, run.go).
THEOREM RelayIsRight == Spec => []RelayInv
<1>1. Init => RelayInv
  BY RelayInvStarts
<1>2. RelayInv /\ [Next]_vars => RelayInv'
  BY RelayInvStep
<1> QED BY <1>1, <1>2, PTL DEF Spec

\* Every variable has its type.
THEOREM RelayTypeCorrect == Spec => []TypeOK
<1>1. RelayInv => TypeOK
  BY DEF RelayInv, RowsTyped
<1> QED BY <1>1, RelayIsRight, PTL

\* While no token is given twice, of two relays that both think they hold the lock
\* the fence lets one through: one that was paused past the lock's expiry cannot
\* write after its successor took over (relay.go, fenced writes).
THEOREM WritesOneAtATime == Spec => [](Fencing => OneWriter)
<1>1. RelayInv => (Fencing => OneWriter)
  BY RelayInvSafe
<1> QED BY <1>1, RelayIsRight, PTL

\* While no token is given twice, a message that is unread is signalled in its
\* mailbox, or has a row that waits to be sent, whenever readers may go by Redis.
THEOREM KeepsSignals == Spec => [](Fencing => NoLostSignal)
<1>1. RelayInv => (Fencing => NoLostSignal)
  BY RelayInvSafe
<1> QED BY <1>1, RelayIsRight, PTL

\* While no token is given twice, the cooldown in Redis is the recorded one once its
\* rows are delivered, whoever delivered them and however often.
THEOREM KeepsCooldown == Spec => [](Fencing => CooldownIsCurrent)
<1>1. RelayInv => (Fencing => CooldownIsCurrent)
  BY RelayInvSafe
<1> QED BY <1>1, RelayIsRight, PTL
=============================================================================
