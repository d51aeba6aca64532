----------------------------- MODULE OutboxRelay -----------------------------
(***************************************************************************)
(* The outbox relay (agentrt/relay: relay.go, rebuild.go, run.go; the rows *)
(* it carries are written by store/signals.go).                            *)
(*                                                                         *)
(* PostgreSQL is the record: unread messages, the cooldown of a vendor     *)
(* pool, and the outbox rows written with them.  A relay carries the rows  *)
(* to Redis and rebuilds Redis from the record when it was wiped or a      *)
(* rebuild was left unfinished.  Several relays run (a deploy overlaps);   *)
(* one holds the lock, and every write to Redis is fenced by its token.    *)
(* Each action is one call to PostgreSQL or Redis; the steps of relays,    *)
(* writers and the lock's expiry interleave freely between them.           *)
(*                                                                         *)
(* A mailbox is the set of messages signalled (trimming, order and         *)
(* duplicates cost a reader one query, never a fact); the wake and stop    *)
(* streams are rebuilt and appended to as a mailbox is.  The natural end   *)
(* of a cooldown, at the same time in both stores, is left out.            *)
(***************************************************************************)
EXTENDS Integers, Sequences

CONSTANTS
  Relays,       \* the relay instances
  Messages,     \* the messages of one mailbox
  Deadlines,    \* the times a pool may cool down until
  MaxRows,      \* BOUND: outbox rows
  MaxTokens,    \* BOUND: fencing tokens taken while the lock is held
  MaxTroubles,  \* BOUND: crashes, failed calls and expiries of a lock in use
  MaxWipes      \* BOUND: times Redis loses everything

Lifted == 0     \* a cooldown whose time is past

ASSUME RelayConstants ==
  /\ Deadlines \subseteq Nat \ {Lifted}
  /\ Messages \cap Nat = {}
  /\ MaxRows \in Nat /\ MaxTokens \in Nat /\ MaxTroubles \in Nat /\ MaxWipes \in Nat

VARIABLES
  message,   \* PostgreSQL: state of each message
  pool,      \* PostgreSQL: until when the pool cools down
  outbox,    \* PostgreSQL: the outbox rows in order of their id
  redis,     \* what Redis holds
  relay,     \* where each relay is in Run
  troubles, wipes

pgVars == <<message, pool, outbox>>
vars   == <<message, pool, outbox, redis, relay, troubles, wipes>>

Items == Messages \cup Deadlines \cup {Lifted}
Row   == [item: Items, delivered: BOOLEAN]

EmptyRedis == [fence |-> 0, lock |-> 0, epoch |-> FALSE, rebuilding |-> FALSE,
               mbox |-> {}, cooldown |-> Lifted]

\* A relay outside Run's hold has no token; batch and unread, until are what
\* it read of the outbox and in the snapshot of a rebuild.
Steps == {"idle", "setnx", "epoch?", "flag?", "mark_rebuilding", "snapshot", "clear", "fill",
          "cool", "set_epoch", "unmark", "deliver", "send", "mark", "release"}
Stopped == [at |-> "idle", token |-> 0, batch |-> {}, unread |-> {}, until |-> Lifted]

Pending == {i \in DOMAIN outbox : ~outbox[i].delivered}
First(S) == CHOOSE i \in S : \A j \in S : i <= j

-----------------------------------------------------------------------------
(* The writers: each row is written with what it is about.                 *)

Post(m) ==
  /\ message[m] = "none" /\ Len(outbox) < MaxRows
  /\ message' = [message EXCEPT ![m] = "unread"]
  /\ outbox' = Append(outbox, [item |-> m, delivered |-> FALSE])
  /\ UNCHANGED <<pool, redis, relay, troubles, wipes>>

\* An acknowledgement is PostgreSQL's alone.
Ack(m) ==
  /\ message[m] = "unread"
  /\ message' = [message EXCEPT ![m] = "acked"]
  /\ UNCHANGED <<pool, outbox, redis, relay, troubles, wipes>>

SetCooldown(until) ==
  /\ until # pool /\ Len(outbox) < MaxRows
  /\ pool' = until
  /\ outbox' = Append(outbox, [item |-> until, delivered |-> FALSE])
  /\ UNCHANGED <<message, redis, relay, troubles, wipes>>

-----------------------------------------------------------------------------
(* The steps of a relay.                                                   *)

Go(r, step) == relay' = [relay EXCEPT ![r].at = step]

At(r, step) == relay[r].at = step

FenceHolds(r) == redis.lock = relay[r].token

\* MUTANT of Fenced: the write goes through whoever holds the lock.
Unfenced(r, at, written, next) ==
  /\ At(r, at)
  /\ redis' = written /\ Go(r, next)
  /\ UNCHANGED <<message, pool, outbox, troubles, wipes>>

\* One write of relay r, made only while the lock holds its token; refused, it
\* stops holding.
Fenced(r, at, written, next) ==
  /\ At(r, at)
  /\ IF FenceHolds(r) THEN redis' = written /\ Go(r, next)
                      ELSE Go(r, "release") /\ UNCHANGED redis
  /\ UNCHANGED <<message, pool, outbox, troubles, wipes>>

\* MUTANT of TakeToken: the counter is read and not advanced.
TokenReused(r) ==
  /\ At(r, "idle")
  /\ redis.lock = 0 \/ redis.fence < MaxTokens
  /\ redis' = [redis EXCEPT !.fence = 1]
  /\ relay' = [relay EXCEPT ![r].at = "setnx", ![r].token = 1]
  /\ UNCHANGED <<message, pool, outbox, troubles, wipes>>

\* Acquire: a fresh token, then the lock if nobody holds it.
TakeToken(r) ==
  /\ At(r, "idle")
  /\ redis.lock = 0 \/ redis.fence < MaxTokens
  /\ redis' = [redis EXCEPT !.fence = @ + 1]
  /\ relay' = [relay EXCEPT ![r].at = "setnx", ![r].token = redis.fence + 1]
  /\ UNCHANGED <<message, pool, outbox, troubles, wipes>>

TakeLock(r) ==
  /\ At(r, "setnx")
  /\ IF redis.lock = 0
     THEN redis' = [redis EXCEPT !.lock = relay[r].token] /\ Go(r, "epoch?")
     ELSE relay' = [relay EXCEPT ![r] = Stopped] /\ UNCHANGED redis
  /\ UNCHANGED <<message, pool, outbox, troubles, wipes>>

\* hold: rebuild when the epoch is missing or a rebuild was left unfinished.
ReadEpoch(r) ==
  /\ At(r, "epoch?")
  /\ Go(r, IF redis.epoch THEN "flag?" ELSE "mark_rebuilding")
  /\ UNCHANGED <<message, pool, outbox, redis, troubles, wipes>>

\* MUTANT of ReadFlag: an unfinished rebuild is not redone.
FlagIgnored(r) ==
  /\ At(r, "flag?")
  /\ Go(r, "deliver")
  /\ UNCHANGED <<message, pool, outbox, redis, troubles, wipes>>

ReadFlag(r) ==
  /\ At(r, "flag?")
  /\ Go(r, IF redis.rebuilding THEN "mark_rebuilding" ELSE "deliver")
  /\ UNCHANGED <<message, pool, outbox, redis, troubles, wipes>>

MarkRebuilding(r) == Fenced(r, "mark_rebuilding", [redis EXCEPT !.rebuilding = TRUE], "snapshot")

\* One consistent snapshot of PostgreSQL.
ReadSnapshot(r) ==
  /\ At(r, "snapshot")
  /\ relay' = [relay EXCEPT ![r].at = "clear", ![r].until = pool,
                            ![r].unread = {m \in Messages : message[m] = "unread"}]
  /\ UNCHANGED <<message, pool, outbox, redis, troubles, wipes>>

Clear(r) == Fenced(r, "clear", [redis EXCEPT !.mbox = {}], "fill")

\* The messages of the snapshot, one write each.
Fill(r) ==
  /\ At(r, "fill")
  /\ \/ /\ relay[r].unread = {}
        /\ Go(r, "cool")
        /\ UNCHANGED redis
     \/ /\ ~FenceHolds(r) /\ relay[r].unread # {}
        /\ Go(r, "release")
        /\ UNCHANGED redis
     \/ /\ FenceHolds(r)
        /\ \E m \in relay[r].unread :
             /\ redis' = [redis EXCEPT !.mbox = @ \cup {m}]
             /\ relay' = [relay EXCEPT ![r].unread = @ \ {m}]
  /\ UNCHANGED <<message, pool, outbox, troubles, wipes>>

\* A cooldown in force is written; one that is lifted is not in the snapshot.
Cool(r) ==
  IF relay[r].until = Lifted
  THEN At(r, "cool") /\ Go(r, "set_epoch")
       /\ UNCHANGED <<message, pool, outbox, redis, troubles, wipes>>
  ELSE Fenced(r, "cool", [redis EXCEPT !.cooldown = relay[r].until], "set_epoch")

SetEpoch(r) == Fenced(r, "set_epoch", [redis EXCEPT !.epoch = TRUE], "unmark")

Unmark(r) == Fenced(r, "unmark", [redis EXCEPT !.rebuilding = FALSE], "deliver")

\* DeliverOnce: the rows not delivered, oldest first; each is written to
\* Redis, then marked.
ReadOutbox(r) ==
  /\ At(r, "deliver") /\ Pending # {}
  /\ relay' = [relay EXCEPT ![r].at = "send", ![r].batch = Pending]
  /\ UNCHANGED <<message, pool, outbox, redis, troubles, wipes>>

\* MUTANT of Written: the topic is not looked at.
TopicIgnored(item) == [redis EXCEPT !.cooldown = item]

Written(item) ==
  IF item \in Messages THEN [redis EXCEPT !.mbox = @ \cup {item}]
                       ELSE [redis EXCEPT !.cooldown = item]

Send(r) == relay[r].batch # {} /\ Fenced(r, "send", Written(outbox[First(relay[r].batch)].item), "mark")

\* MUTANT of Mark: the whole batch is marked once its first row is written.
BatchMarked(r) ==
  /\ At(r, "mark")
  /\ outbox' = [i \in DOMAIN outbox |-> [outbox[i] EXCEPT !.delivered = @ \/ i \in relay[r].batch]]
  /\ relay' = [relay EXCEPT ![r].batch = {}, ![r].at = "deliver"]
  /\ UNCHANGED <<message, pool, redis, troubles, wipes>>

\* The mark is PostgreSQL's, and no fence guards it.
Mark(r) ==
  /\ At(r, "mark")
  /\ LET i == First(relay[r].batch)  rest == relay[r].batch \ {i} IN
       /\ outbox' = [outbox EXCEPT ![i].delivered = TRUE]
       /\ relay' = [relay EXCEPT ![r].batch = rest, ![r].at = IF rest = {} THEN "deliver" ELSE "send"]
  /\ UNCHANGED <<message, pool, redis, troubles, wipes>>

Release(r) ==
  /\ At(r, "release")
  /\ redis' = IF FenceHolds(r) THEN [redis EXCEPT !.lock = 0] ELSE redis
  /\ relay' = [relay EXCEPT ![r] = Stopped]
  /\ UNCHANGED <<message, pool, outbox, troubles, wipes>>

-----------------------------------------------------------------------------
(* What goes wrong.                                                        *)

Trouble == troubles < MaxTroubles /\ troubles' = troubles + 1

Holding(r) == relay[r].at \notin {"idle", "setnx", "release"}

\* A renewal or another call fails, or the process is asked to stop.  (A call
\* whose answer is lost was made: the step is taken, then this one.)
GiveUp(r) ==
  /\ Trouble /\ Holding(r)
  /\ Go(r, "release")
  /\ UNCHANGED <<message, pool, outbox, redis, wipes>>

Crash(r) ==
  /\ Trouble /\ ~At(r, "idle")
  /\ relay' = [relay EXCEPT ![r] = Stopped]
  /\ UNCHANGED <<message, pool, outbox, redis, wipes>>

\* keepAlive: the next renewal finds the lock gone, and the hold ends.
NoticeLoss(r) ==
  /\ Holding(r) /\ ~FenceHolds(r)
  /\ Go(r, "release")
  /\ UNCHANGED <<message, pool, outbox, redis, troubles, wipes>>

\* The lock expires: its holder is gone, or was too slow to renew it.
NoHolder == \A r \in Relays : ~(Holding(r) \/ At(r, "release")) \/ ~FenceHolds(r)
Expire ==
  /\ redis.lock # 0 /\ NoHolder
  /\ redis' = [redis EXCEPT !.lock = 0]
  /\ UNCHANGED <<message, pool, outbox, relay, troubles, wipes>>
Lapse ==
  /\ Trouble /\ redis.lock # 0 /\ ~NoHolder
  /\ redis' = [redis EXCEPT !.lock = 0]
  /\ UNCHANGED <<message, pool, outbox, relay, wipes>>

\* Redis is replaced by an empty one, the fencing counter included.
Wipe ==
  /\ wipes < MaxWipes /\ wipes' = wipes + 1
  /\ redis' = EmptyRedis
  /\ UNCHANGED <<message, pool, outbox, relay, troubles>>

-----------------------------------------------------------------------------
Init ==
  /\ message = [m \in Messages |-> "none"]
  /\ pool = Lifted
  /\ outbox = <<>>
  /\ redis = EmptyRedis
  /\ relay = [r \in Relays |-> Stopped]
  /\ troubles = 0 /\ wipes = 0

WriterNext ==
  \/ \E m \in Messages : Post(m) \/ Ack(m)
  \/ \E until \in Deadlines \cup {Lifted} : SetCooldown(until)

RunStep(r) ==
  \/ TakeToken(r)
  \/ TakeLock(r)
  \/ ReadEpoch(r)
  \/ ReadFlag(r)
  \/ MarkRebuilding(r)
  \/ ReadSnapshot(r)
  \/ Clear(r)
  \/ Fill(r)
  \/ Cool(r)
  \/ SetEpoch(r)
  \/ Unmark(r)
  \/ ReadOutbox(r)
  \/ Send(r)
  \/ Mark(r)
  \/ Release(r)

TroubleNext ==
  \/ \E r \in Relays : GiveUp(r) \/ Crash(r) \/ NoticeLoss(r)
  \/ Expire
  \/ Lapse
  \/ Wipe

Next == WriterNext \/ (\E r \in Relays : RunStep(r)) \/ TroubleNext

Spec == Init /\ [][Next]_vars

\* Run loops until its process stops, a lease in use is renewed every third of
\* its TTL, and a lock nobody renews expires.
FairSpec ==
  /\ Spec
  /\ \A r \in Relays : WF_vars(RunStep(r)) /\ WF_vars(NoticeLoss(r))
  /\ WF_vars(Expire)

-----------------------------------------------------------------------------
(* Properties.                                                             *)

\* Every variable has its type.
TypeOK ==
  /\ message \in [Messages -> {"none", "unread", "acked"}]
  /\ pool \in Deadlines \cup {Lifted}
  /\ outbox \in Seq(Row)
  /\ redis \in [fence: Nat, lock: Nat, epoch: BOOLEAN, rebuilding: BOOLEAN,
                mbox: SUBSET Messages, cooldown: Deadlines \cup {Lifted}]
  /\ relay \in [Relays -> [at: Steps, token: Nat, batch: SUBSET (1..MaxRows),
                           unread: SUBSET Messages, until: Deadlines \cup {Lifted}]]
  /\ troubles \in 0..MaxTroubles /\ wipes \in 0..MaxWipes

\* A relay that lost the lock cannot write after a newer one took over: of two
\* relays that both think they hold the lock, the fence lets one through.
OneWriter ==
  \A r, s \in Relays : r # s /\ Holding(r) /\ Holding(s) => ~(FenceHolds(r) /\ FenceHolds(s))

\* The readers' view is whole: no rebuild is due or under way.
Whole == redis.epoch /\ ~redis.rebuilding

\* No signal is lost: while Redis is whole, each unread message is signalled
\* in its mailbox or its row still waits in the outbox, whatever the crashes,
\* takeovers and rebuilds before.
NoLostSignal ==
  Whole => \A m \in Messages : message[m] = "unread" =>
             m \in redis.mbox \/ \E i \in Pending : outbox[i].item = m

\* Once its rows are delivered the cooldown in Redis is the recorded one: no
\* late or repeated write, and no snapshot, leaves an older one behind.
CooldownIsCurrent ==
  Whole /\ (\A i \in Pending : outbox[i].item \in Messages) => redis.cooldown = pool

\* Every message is acknowledged or signalled in the end, in a Redis that
\* readers may go by.
EveryMessageSignalled ==
  \A m \in Messages : message[m] = "unread" ~> (message[m] = "acked" \/ (Whole /\ m \in redis.mbox))
=============================================================================
