----------------------------- MODULE MissionWork -----------------------------
(***************************************************************************)
(* The transactions of api/internal/agentrt/store that meet on the rows of *)
(* one mission: claims, controls, dispatch, verification, cards, landing   *)
(* and the closing of the mission.  A transaction is a list of statements; *)
(* a statement takes its row locks one by one (PostgreSQL, READ COMMITTED) *)
(* and then the code decides on what it reads.  Its writes appear at the   *)
(* commit, which lets go of the locks.  The row of the mission's event     *)
(* stream, which Append locks, is a row as the others; a transaction that  *)
(* asks for nothing after it takes it in the step of its commit.           *)
(*                                                                         *)
(* The lease of an attempt is AttemptLease's and the rounds of a check are *)
(* Acceptance's: here an attempt is live while its task is "leased", and   *)
(* one task name stands for the check of every round.                      *)
(***************************************************************************)
EXTENDS Naturals, Sequences, FiniteSets, Functions

CONSTANTS
  Sessions,      \* database sessions: each runs one transaction at a time
  Controllers,   \* the sessions that may run the controller's facts loop
  Tasks,         \* the mission's tasks
  ById,          \* ById[S]: the tasks of the set S in the order of their ids
  None,          \* no task
  Work,          \* the tasks the mission starts with
  InRepo,        \* the tasks whose repository the landing loop serves
  Shapes,        \* the possible bindings of checks to the work they check
  Edges,         \* the dependencies that may be added: <<dependent, waited for>>
  Stoppable,     \* bound: the rows a stop may name
  MaxStops       \* bound: stop controls in force at once

VARIABLES
  subject,   \* subject[t]: the task t checks, or None (task.subject_task_id)
  task,      \* task[t]: task.state; "dropped" is cancelled as close.go's `dropped`
  mission,   \* mission.state
  onCard,    \* the mission was closed on the Owner's card (closedOnCard)
  stops,     \* the rows a stop control in force names, Global included
  deps,      \* task_dependency
  landing,   \* landing[t]: the latest landing operation of root t
  reworked,  \* the roots a red landing CI sent back (landing_ci failures)
  tx         \* tx[s]: the transaction session s runs

rows == <<subject, task, mission, onCard, stops, deps, landing, reworked>>
vars == <<rows, tx>>

Ended    == {"accepted", "cancelled", "dropped"}
States   == {"absent", "proposed", "ready", "leased", "submitted", "verifying", "blocked"}
            \cup Ended
Open(t)  == task[t] \notin Ended \cup {"absent"}
Root(t)  == subject[t] = None
Lands(t) == Root(t) /\ t \in InRepo
Checks(t) == {v \in Tasks : subject[v] = t}
Waited(t) == {d[2] : d \in {e \in deps : e[1] = t}}

-----------------------------------------------------------------------------
(* Rows and locks. *)

Global     == <<"global">>       \* advisory lock 742105
Mission    == <<"mission">>
Events     == <<"events">>       \* the mission's event stream
Stream     == <<"stream">>       \* the repository's landing stream
Task(t)    == <<"task", t>>
Attempt(t) == <<"attempt", t>>   \* the latest attempt of t
Scopes     == {Global, Mission} \cup {Task(t) : t \in Tasks}
AllRows    == Scopes \cup {Events, Stream} \cup {Attempt(t) : t \in Tasks}

(* What is checked is work; ordering a set of tasks loses none; a stop     *)
(* names a row that claims look at.                                        *)
ASSUME MissionConstants ==
  /\ Controllers \subseteq Sessions
  /\ None \notin Tasks
  /\ Work \subseteq Tasks /\ InRepo \subseteq Tasks
  /\ Shapes \subseteq [Tasks -> Tasks \cup {None}]
  /\ \A f \in Shapes, t \in Tasks : f[t] # None => f[f[t]] = None
  /\ Edges \subseteq Tasks \X Tasks
  /\ \A S \in SUBSET Tasks : ById[S] \in Seq(S) /\ S \subseteq Range(ById[S])
  /\ Stoppable \subseteq Scopes

Shared(r)    == [row |-> r, mode |-> "share", how |-> "wait"]
Alone(r)     == [row |-> r, mode |-> "alone", how |-> "wait"]
\* MUTANT of OrLeave: a row locked elsewhere is waited for.
WaitFor(l)   == l
OrLeave(l)   == [l EXCEPT !.how = "leave"]       \* SKIP LOCKED, NOWAIT

Sorted(S)    == ById[S]          \* ORDER BY task_id
\* unfinishedOf: the work before its checks, then by id.
WorkFirst(S) == Sorted({t \in S : Root(t)}) \o Sorted({t \in S : ~Root(t)})
Each(f(_), q) == [i \in DOMAIN q |-> f(q[i])]
OfSubject(t, f(_)) == IF Root(t) THEN <<>> ELSE <<f(subject[t])>>

Live == {t \in Tasks : task[t] = "leased"}

\* retryReworkedLanding: the root's operation ended with a red landing CI.
RetryDue(t) == t \in reworked /\ landing[t] = "failed"
\* reworkRedLanding: what a red landing asks of its root, to send it back.
Reworks(t) == task[t] = "accepted" /\ mission = "active" /\ Task(t) \notin stops
\* Accepted roots of the landing handoff without an operation.
Unclaimed == {t \in Tasks : Lands(t) /\ task[t] = "accepted" /\ landing[t] = "none"}

\* The attempt a check is of, or the live one, which a salvaged result would end.
Judged(t) == IF t \in Live THEN Alone(Attempt(t)) ELSE Shared(Attempt(t))

(* The statements that lock, of each kind of transaction, in their order.  *)
(* The rows a statement names are read when it starts.  A check of a root  *)
(* to be landed again asks for both streams whatever its verdict, which is *)
(* only chosen at its commit.                                              *)
Statements(op, t) ==
  CASE op = "claim" -> <<
         <<Shared(Global)>>,
         <<OrLeave(Alone(Task(t)))>> \o OfSubject(t, LAMBDA s : OrLeave(Shared(Task(s)))),
         <<Alone(Mission)>> >>
    [] op = "stop"     -> << <<Alone(t)>> >>
    [] op = "dispatch" -> <<
         <<Alone(Task(t))>>,
         Each(LAMBDA d : Shared(Task(d)), Sorted(Waited(t))),
         <<Shared(Mission)>> >>
    [] op = "depend"   -> << <<Alone(Task(t[1]))>> >>
    [] op = "propose"  -> << OfSubject(t, LAMBDA s : Shared(Task(s))) >>
    [] op = "submit"   -> << <<Alone(Attempt(t)), Alone(Task(t))>> >>
    [] op = "sweep"    -> << <<OrLeave(Alone(Attempt(t))), Alone(Task(t))>> >>
    [] op = "verify"   -> <<
         <<Shared(Attempt(t)), Alone(Task(t))>>,
         IF Checks(t) = {} /\ RetryDue(t) THEN <<Alone(Events), Alone(Stream)>> ELSE <<>> >>
    [] op = "salvage"  -> <<
         IF t \in Live THEN <<Alone(Task(t))>> ELSE <<Shared(Attempt(t)), Alone(Task(t))>> >>
    [] op = "conclude" -> <<
         <<Alone(Attempt(t)), Judged(subject[t]), Alone(Task(subject[t]))>>,
         <<Alone(Task(t))>>,
         IF RetryDue(subject[t]) THEN <<Alone(Events), Alone(Stream)>> ELSE <<>> >>
    [] op = "decide"   -> <<
         OfSubject(t, LAMBDA s : Alone(Task(s))) \o <<Alone(Task(t)), Shared(Mission)>> >>
    [] op = "uncheck"  -> << <<Shared(Task(subject[t])), Alone(Task(t))>> >>
    [] op = "card"     -> <<
         Each(LAMBDA u : Alone(Attempt(u)), Sorted(Live)),
         Each(LAMBDA u : OrLeave(Alone(Task(u))), WorkFirst({u \in Tasks : Open(u)})),
         <<Alone(Mission)>> >>
    [] op = "late"     -> <<
         IF t \in Live THEN <<Alone(Attempt(t))>> ELSE <<>>,
         <<Alone(Task(t)), Shared(Mission)>> >>
    [] op = "close"    -> <<
         <<Alone(Mission)>>, <<>>, IF Unclaimed = {} THEN <<>> ELSE <<Alone(Stream)>> >>
    [] op \in {"land", "push"} -> << <<Shared(Task(t)), Shared(Mission), Alone(Stream)>> >>
    [] op = "red"      -> <<
         <<Alone(Task(t))>>,
         IF Reworks(t) THEN <<Alone(Events), Alone(Stream)>> ELSE <<Alone(Stream)>> >>
    [] op = "settle"   -> << <<Alone(Stream)>> >>

\* MUTANT of Stopped: a stop of the task it checks is not looked for.
StoppedItself(t) == \E r \in stops : r \in {Mission, Task(t)}

\* A stop of the task, of the task it checks or of its mission: what a claim
\* asks for.
Stopped(t) == \E r \in stops : r \in {Mission, Task(t)} \cup {Task(s) : s \in {subject[t]} \ {None}}

\* A stop of the task or of its mission: what the Owner's answers ask for.
StopHolds(t) == \E r \in stops : r \in {Mission, Task(t)}

Delivered == \E t \in Tasks : Root(t) /\ task[t] = "accepted"
\* salvagedOpen: the salvaged result of an earlier attempt, if it has one, may
\* still be checked.
SalvagedOpen(t) ==
  Root(t) /\ task[t] \in {"ready", "leased"} /\ Checks(t) # {} /\ \A v \in Checks(t) : ~Open(v)

\* MUTANT of Closable: what the goal asked for is enough.
ClosableOnDelivery == mission = "active" /\ Delivered

\* close.go's closable.
Closable ==
  /\ mission = "active"
  /\ Delivered \/ \E t \in Tasks : task[t] = "dropped"
  /\ \A t \in Tasks : task[t] \in {"absent", "accepted", "dropped"}
\* MUTANT of Holds: the time limit releases a root at main too.
HoldsUntilLimit(late) ==
  ~late /\ \E t \in Tasks : Lands(t) /\ (landing[t] \in {"main", "claimed", "retried"} \/ t \in Unclaimed)

\* landingHolds, with its time limits over or not.
Holds(late) ==
  \E t \in Tasks : Lands(t) /\ (\/ landing[t] = "main"
                                \/ ~late /\ (landing[t] \in {"claimed", "retried"} \/ t \in Unclaimed))

\* MUTANT of Readiness: a dependency not accepted yet does not keep the task waiting.
ReadinessEager(t) ==
  IF \E d \in Waited(t) : task[d] \in {"cancelled", "dropped"} THEN "blocked" ELSE "ready"

\* What the states of its dependencies say of a proposed task.
Readiness(t) ==
  IF \E d \in Waited(t) : task[d] \in {"cancelled", "dropped"} THEN "blocked"
  ELSE IF \A d \in Waited(t) : task[d] = "accepted" THEN "ready" ELSE "waiting"

Locked(x, f(_)) == {u \in Tasks : <<f(u), "alone">> \in x.held}

\* MUTANT of Unmoved: only the unfinished tasks are read again.
UnmovedTasks(x) == Locked(x, Task) = {u \in Tasks : Open(u)}

\* The card's close read again what it locked, under the mission's lock.
Unmoved(x) == Locked(x, Attempt) = Live /\ Locked(x, Task) = {u \in Tasks : Open(u)}

(* What the code decides after statement x.at: to leave without a write,   *)
(* or what to do next.                                                     *)
Leave == "leave"
If(c, says) == IF c THEN says ELSE Leave

Decides(x) ==
  LET t == x.on
      n == x.at
  IN
  CASE x.op = "claim" /\ n = 1 -> If(Global \notin stops, "go")
    [] x.op = "claim" /\ n = 2 -> If(task[t] = "ready", "go")
    [] x.op = "claim" /\ n = 3 -> If(mission = "active" /\ ~Stopped(t), "go")
    [] x.op = "dispatch" /\ n = 1 -> If(task[t] = "proposed", "go")
    [] x.op = "dispatch" /\ n = 2 -> Readiness(t)
    [] x.op = "dispatch" /\ n = 3 -> If(mission = "active" /\ x.says # "waiting", x.says)
    [] x.op = "depend" -> If(task[t[1]] = "proposed", "go")
    [] x.op \in {"submit", "sweep"} -> If(task[t] = "leased", "go")
    [] x.op = "verify" /\ n = 1 -> If(task[t] = "submitted", "go")
    [] x.op = "salvage" -> If(SalvagedOpen(t), "go")
    [] x.op = "conclude" /\ n = 1 -> If(Task(subject[t]) \notin stops, "go")
    [] x.op = "conclude" /\ n = 2 -> If(task[t] = "submitted", "go")
    [] x.op = "decide" -> If(task[t] = "blocked" /\ mission = "active" /\ ~StopHolds(t), "go")
    [] x.op = "uncheck" ->
         If(task[subject[t]] \in {"blocked", "cancelled", "dropped"} /\ task[t] \in {"proposed", "ready", "blocked"}, "go")
    [] x.op = "card" /\ n = 3 ->
         If(Unmoved(x) /\ mission = "active" /\ task[t] = "blocked" /\ ~StopHolds(t), "go")
    [] x.op = "late" /\ n = 2 -> If(Open(t) /\ onCard, "go")
    [] x.op = "close" /\ n = 1 -> If(mission = "active", x.says)
    [] x.op = "close" /\ n = 2 -> If(~Holds(t = "late"), x.says)
    [] x.op = "land" ->
         If(/\ task[t] = "accepted"
            /\ landing[t] = "none" \/ (mission = "active" /\ landing[t] = "retried"), "go")
    [] x.op = "push" -> If(mission = "active" /\ task[t] = "accepted" /\ landing[t] = "claimed", "go")
    [] x.op = "red" /\ n = 1 ->
         IF Reworks(t) THEN "rework" ELSE "fail"
    [] x.op = "red" /\ n = 2 -> If(landing[t] = "claimed", x.says)
    [] OTHER -> x.says

-----------------------------------------------------------------------------
(* Running a transaction. *)

Idle == [op |-> "none", on |-> None, at |-> 0, need |-> <<>>, held |-> {}, says |-> "go"]

(* What each pass or call picks before its transaction starts. *)
Starts(op, t) ==
  CASE op = "claim"    -> task[t] = "ready" /\ mission = "active"
    [] op = "dispatch" -> task[t] = "proposed" /\ mission = "active"
    [] op = "propose"  -> task[t] = "absent" /\ mission = "active" /\ Root(t)
    [] op \in {"submit", "sweep"} -> task[t] = "leased"
    [] op = "verify"   -> task[t] = "submitted" /\ Root(t)
    [] op = "salvage"  -> SalvagedOpen(t)
    [] op = "conclude" -> task[t] = "submitted" /\ ~Root(t)
    [] op \in {"decide", "card"} -> task[t] = "blocked" /\ mission = "active"
    [] op = "uncheck"  -> ~Root(t) /\ task[t] \in {"proposed", "ready", "blocked"}
                          /\ task[subject[t]] \in {"blocked", "cancelled", "dropped"}
    [] op = "late"     -> Open(t) /\ onCard
    [] op = "land"     -> Lands(t) /\ task[t] = "accepted" /\ landing[t] \in {"none", "retried"}
    [] op \in {"push", "red"} -> landing[t] = "claimed"
    [] op = "settle"   -> landing[t] \in {"claimed", "main"}

(* The controller's facts loop runs its passes one after the other; the    *)
(* routes, the sweep and the landing loops run beside it.                  *)
LoopOps == {"verify", "salvage", "conclude", "decide", "card", "late", "uncheck", "dispatch"}
OtherOps == {"claim", "propose", "submit", "sweep", "land", "push", "red", "settle"}

Started(s, op, t, says) ==
  /\ tx[s] = Idle
  /\ tx' = [tx EXCEPT ![s] = [op |-> op, on |-> t, at |-> 1, need |-> Statements(op, t)[1],
                              held |-> {}, says |-> says]]
  /\ UNCHANGED rows

Begin(s) ==
  \/ \E op \in OtherOps \cup (IF s \in Controllers THEN LoopOps ELSE {}), t \in Tasks :
        Starts(op, t) /\ Started(s, op, t, "go")
  \/ \E r \in Stoppable \ stops : Cardinality(stops) < MaxStops /\ Started(s, "stop", r, "go")
  \/ \E e \in Edges \ deps :
        Root(e[2]) /\ task[e[1]] = "proposed" /\ task[e[2]] # "absent" /\ Started(s, "depend", e, "go")
  \/ /\ s \in Controllers /\ Closable
     /\ \E limits \in {"early", "late"} : Started(s, "close", limits, IF Delivered THEN "done" ELSE "stopped")

Conflicts(u, l) == \E m \in {"share", "alone"} :
  <<l.row, m>> \in tx[u].held /\ "alone" \in {m, l.mode}
Free(s, l) == \A u \in Sessions \ {s} : ~Conflicts(u, l)

Length(x) == Len(Statements(x.op, x.on))
AtCommit(x) == x.op # "none" /\ x.need = <<>> /\ x.at > Length(x)

(* The kinds whose last act is an Append to the mission's stream.  A stop's *)
(* and the landing's records have streams of their own, and a red landing  *)
(* has appended before it asks for its stream.                             *)
Appends == (LoopOps \cup OtherOps \cup {"depend", "close"}) \ {"land", "push", "red", "settle"}

(* The row a session needs now, if it needs one: the next of its statement, *)
(* or the mission's stream for what it appends before it commits.          *)
Needs(s) ==
  IF tx[s].need # <<>> THEN {Head(tx[s].need)}
  ELSE IF AtCommit(tx[s]) /\ tx[s].op \in Appends THEN {Alone(Events)} ELSE {}
Waits(s, u) == u # s /\ \E l \in Needs(s) : l.how = "wait" /\ Conflicts(u, l)

\* Sessions that wait for one another, with no smaller circle among them.
Circle(C) == C # {} /\ \A s \in C : \E u \in C : Waits(s, u)
Smallest(C) == Circle(C) /\ \A D \in SUBSET C : Circle(D) => D = C

(* A row the waiting card close asked for that has meanwhile ended is read *)
(* again, and left out.                                                    *)
NoLongerAsked(x, row) ==
  x.op = "card" /\ \E u \in Tasks : row = Attempt(u) /\ u \notin Live

\* Transaction x, further on.
Further(x, at, need, held, says) ==
  [op |-> x.op, on |-> x.on, at |-> at, need |-> need, held |-> held, says |-> says]

Take(s) ==
  LET x == tx[s]
      l == Head(x.need)
  IN /\ x.need # <<>> /\ Free(s, l)
     /\ tx' = [tx EXCEPT ![s] =
          Further(x, x.at, Tail(x.need),
                  IF NoLongerAsked(x, l.row) THEN x.held ELSE x.held \cup {<<l.row, l.mode>>}, x.says)]
     /\ UNCHANGED rows

Refused(s) ==
  /\ tx[s].need # <<>> /\ ~Free(s, Head(tx[s].need)) /\ Head(tx[s].need).how = "leave"
  /\ tx' = [tx EXCEPT ![s] = Idle]
  /\ UNCHANGED rows

(* PostgreSQL ends a deadlock by aborting one of the circle; its pass or   *)
(* call returns the error, and a later one starts anew.                    *)
Aborted(s) ==
  /\ \E C \in SUBSET Sessions : s \in C /\ Smallest(C)
  /\ tx' = [tx EXCEPT ![s] = Idle]
  /\ UNCHANGED rows

Step(s) ==
  LET x == tx[s]
      d == Decides(x)
  IN /\ x.op # "none" /\ x.need = <<>> /\ x.at <= Length(x)
     /\ tx' = [tx EXCEPT ![s] =
          IF d = Leave THEN Idle
          ELSE Further(x, x.at + 1, IF x.at < Length(x) THEN Statements(x.op, x.on)[x.at + 1] ELSE <<>>,
                       x.held, d)]
     /\ UNCHANGED rows

Commits(s, op) ==
  /\ tx[s].op = op /\ AtCommit(tx[s])
  /\ op \in Appends => Free(s, Alone(Events))
  /\ tx' = [tx EXCEPT ![s] = Idle]
  /\ UNCHANGED subject

-----------------------------------------------------------------------------
(* The commits.  Each is the whole write of its function. *)

\* Or blocked, when it could not be prepared time and again (preparesFailed).
Leased(s) ==
  /\ Commits(s, "claim")
  /\ \E to \in {"leased", "blocked"} : task' = [task EXCEPT ![tx[s].on] = to]
  /\ UNCHANGED <<mission, onCard, stops, deps, landing, reworked>>

ControlSet(s) ==
  /\ Commits(s, "stop")
  /\ stops' = stops \cup {tx[s].on}
  /\ UNCHANGED <<task, mission, onCard, deps, landing, reworked>>

(* LiftControl takes only the control's own row. *)
ControlLifted(r) ==
  /\ r \in stops
  /\ stops' = stops \ {r}
  /\ UNCHANGED <<subject, task, mission, onCard, deps, landing, reworked, tx>>

Dispatched(s) ==
  /\ Commits(s, "dispatch")
  /\ task' = [task EXCEPT ![tx[s].on] = tx[s].says]
  /\ UNCHANGED <<mission, onCard, stops, deps, landing, reworked>>

DependencyAdded(s) ==
  /\ Commits(s, "depend")
  /\ deps' = deps \cup {tx[s].on}
  /\ UNCHANGED <<task, mission, onCard, stops, landing, reworked>>

(* The proposal read the mission's state before, without its lock. *)
Proposed(s) ==
  /\ Commits(s, "propose")
  /\ task' = [task EXCEPT ![tx[s].on] = IF @ = "absent" THEN "proposed" ELSE @]
  /\ UNCHANGED <<mission, onCard, stops, deps, landing, reworked>>

Submitted(s) ==
  /\ Commits(s, "submit")
  /\ task' = [task EXCEPT ![tx[s].on] = "submitted"]
  /\ UNCHANGED <<mission, onCard, stops, deps, landing, reworked>>

(* The attempt is lost: releaseTask, of work that is not external. *)
Swept(s) ==
  /\ Commits(s, "sweep")
  /\ task' = [task EXCEPT ![tx[s].on] = "ready"]
  /\ UNCHANGED <<mission, onCard, stops, deps, landing, reworked>>

(* Accepted on submission, its landing CI being its check, or verifying    *)
(* with a check made ready, beside one that is still open.                 *)
VerificationStarted(s) ==
  LET t == tx[s].on IN
  /\ Commits(s, "verify")
  /\ IF Checks(t) = {}
     THEN /\ task' = [task EXCEPT ![t] = "accepted"]
          /\ landing' = [landing EXCEPT ![t] = IF RetryDue(t) THEN "retried" ELSE @]
     ELSE /\ \E v \in Checks(t) :
               task' = [task EXCEPT ![t] = "verifying", ![v] = IF Open(v) THEN @ ELSE "ready"]
          /\ UNCHANGED landing
  /\ UNCHANGED <<mission, onCard, stops, deps, reworked>>

(* A result salvaged from an attempt that was lost gets its check.          *)
SalvageCheckStarted(s) ==
  /\ Commits(s, "salvage")
  /\ task' = [u \in Tasks |-> IF u \in Checks(tx[s].on) THEN "ready" ELSE task[u]]
  /\ UNCHANGED <<mission, onCard, stops, deps, landing, reworked>>

(* The check's verdict on the round under verification; a check of         *)
(* anything else closes and moves nothing.                                 *)
Concluded(s) ==
  LET v == tx[s].on
      t == subject[v]
  IN
  /\ Commits(s, "conclude")
  /\ \E verdict \in {"accepted", "ready", "blocked"} :
       /\ task' = [task EXCEPT ![v] = "accepted", ![t] = IF @ = "verifying" THEN verdict ELSE @]
       /\ landing' = [landing EXCEPT ![t] =
            IF task[t] = "verifying" /\ verdict = "accepted" /\ RetryDue(t) THEN "retried" ELSE @]
  /\ UNCHANGED <<mission, onCard, stops, deps, reworked>>

\* MUTANT of DecidedBlocked: the card's outcome is stored as the task's state.
DecidedByOutcome(s) ==
  /\ Commits(s, "decide")
  /\ \E outcome \in {"retried", "dropped"} : task' = [task EXCEPT ![tx[s].on] = outcome]
  /\ UNCHANGED <<mission, onCard, stops, deps, landing, reworked>>

(* One more round, or not: without its check the work under verification   *)
(* is blocked, to wait on a card of its own.                               *)
DecidedBlocked(s) ==
  LET t == tx[s].on IN
  /\ Commits(s, "decide")
  /\ \/ task' = [task EXCEPT ![t] = "ready"]
     \/ task' = [u \in Tasks |-> IF u = t THEN "dropped"
                                 ELSE IF u = subject[t] /\ task[u] = "verifying" THEN "blocked" ELSE task[u]]
  /\ UNCHANGED <<mission, onCard, stops, deps, landing, reworked>>

StoppedCheckClosed(s) ==
  /\ Commits(s, "uncheck")
  /\ task' = [task EXCEPT ![tx[s].on] = "dropped"]
  /\ UNCHANGED <<mission, onCard, stops, deps, landing, reworked>>

(* cancelAll: what was locked. *)
ClosedOnCard(s) ==
  /\ Commits(s, "card")
  /\ task' = [t \in Tasks |-> IF <<Task(t), "alone">> \in tx[s].held THEN "cancelled" ELSE task[t]]
  /\ mission' = IF Delivered THEN "done" ELSE "stopped"
  /\ onCard' = TRUE
  /\ UNCHANGED <<stops, deps, landing, reworked>>

CancelledAfterClose(s) ==
  /\ Commits(s, "late")
  /\ task' = [task EXCEPT ![tx[s].on] = "cancelled"]
  /\ UNCHANGED <<mission, onCard, stops, deps, landing, reworked>>

(* CloseMissions; a root whose window ended unclaimed is failed{bound}. *)
MissionClosed(s) ==
  /\ Commits(s, "close")
  /\ mission' = tx[s].says
  /\ landing' = [t \in Tasks |-> IF t \in Unclaimed /\ <<Stream, "alone">> \in tx[s].held THEN "failed" ELSE landing[t]]
  /\ UNCHANGED <<task, onCard, stops, deps, reworked>>

(* A root of a mission that has ended is recorded as never to be claimed. *)
LandingClaimed(s) ==
  /\ Commits(s, "land")
  /\ landing' = [landing EXCEPT ![tx[s].on] = IF mission = "active" THEN "claimed" ELSE "failed"]
  /\ UNCHANGED <<task, mission, onCard, stops, deps, reworked>>

PushAuthorized(s) ==
  /\ Commits(s, "push")
  /\ landing' = [landing EXCEPT ![tx[s].on] = "main"]
  /\ UNCHANGED <<task, mission, onCard, stops, deps, reworked>>

LandingRed(s) ==
  LET t == tx[s].on IN
  /\ Commits(s, "red")
  /\ landing' = [landing EXCEPT ![t] = "failed"]
  /\ IF tx[s].says = "rework"
     THEN task' = [task EXCEPT ![t] = "ready"] /\ reworked' = reworked \cup {t}
     ELSE UNCHANGED <<task, reworked>>
  /\ UNCHANGED <<mission, onCard, stops, deps>>

(* What main shows of the push, or the end of an operation not yet there. *)
LandingSettled(s) ==
  /\ Commits(s, "settle")
  /\ \E to \in (CASE landing[tx[s].on] = "main"    -> {"landed", "retried", "failed"}
                  [] landing[tx[s].on] = "claimed" -> {"failed"}
                  [] OTHER -> {landing[tx[s].on]}) :
       landing' = [landing EXCEPT ![tx[s].on] = to]
  /\ UNCHANGED <<task, mission, onCard, stops, deps, reworked>>

-----------------------------------------------------------------------------
Init ==
  /\ subject \in Shapes
  /\ task = [t \in Tasks |-> IF t \in Work /\ Root(t) THEN "proposed" ELSE "absent"]
  /\ mission = "active" /\ onCard = FALSE
  /\ stops = {} /\ deps = {}
  /\ landing = [t \in Tasks |-> "none"] /\ reworked = {}
  /\ tx = [s \in Sessions |-> Idle]

Next ==
  \/ \E s \in Sessions :
       \/ Begin(s) \/ Take(s) \/ Refused(s) \/ Aborted(s) \/ Step(s)
       \/ Leased(s) \/ ControlSet(s) \/ Dispatched(s) \/ DependencyAdded(s) \/ Proposed(s)
       \/ Submitted(s) \/ Swept(s) \/ VerificationStarted(s) \/ SalvageCheckStarted(s) \/ Concluded(s)
       \/ DecidedBlocked(s) \/ StoppedCheckClosed(s) \/ ClosedOnCard(s) \/ CancelledAfterClose(s)
       \/ MissionClosed(s) \/ LandingClaimed(s) \/ PushAuthorized(s) \/ LandingRed(s) \/ LandingSettled(s)
  \/ \E r \in Stoppable : ControlLifted(r)

Spec == Init /\ [][Next]_vars

-----------------------------------------------------------------------------
(* Types of the variables (the rows' CHECK constraints). *)
MissionTypeOK ==
  /\ subject \in [Tasks -> Tasks \cup {None}]
  /\ task \in [Tasks -> States]
  /\ mission \in {"active", "done", "stopped"} /\ onCard \in BOOLEAN
  /\ stops \subseteq Stoppable
  /\ deps \subseteq Edges
  /\ landing \in [Tasks -> {"none", "claimed", "main", "landed", "retried", "failed"}]
  /\ reworked \subseteq Tasks
  /\ \A s \in Sessions : /\ tx[s].at \in 0 .. 4
                         /\ \A l \in tx[s].held : l[1] \in AllRows /\ l[2] \in {"share", "alone"}

(* close.go:236, landing_drill.go:320, kernel.go:19: every write takes its *)
(* rows in one order and the streams last, so that no transactions wait    *)
(* for one another in a circle.                                            *)
NoWaitCycle == \A C \in SUBSET Sessions : ~Circle(C)

(* There is one exception to that order.  CloseMissions holds the landing  *)
(* stream, for a root nobody claimed, when it appends the mission's end to *)
(* the mission's stream; a red landing holds the mission's stream, for the *)
(* root it sends back, when it appends to the landing's.  Any circle there *)
(* is runs through these two.                                              *)
OnlyCloseAndRed ==
  \A C \in SUBSET Sessions : Circle(C) =>
    \E s, u \in C : tx[s].op = "close" /\ tx[u].op = "red" /\ Waits(s, u) /\ Waits(u, s)

(* A stop either comes before a claim and is seen by it, or after it       *)
(* (take, setControl): nothing is leased under a stop or in a mission that *)
(* has ended.                                                              *)
LeasedUnheld ==
  [][\A t \in Tasks : task'[t] = "leased" /\ task[t] # "leased" =>
       mission = "active" /\ stops \cap {Global, Mission, Task(t), Task(subject[t])} = {}]_vars

(* Dispatch readies a task when everything it waits for is accepted and    *)
(* its mission is active, as they are at its commit (dispatchOne).         *)
ReadiedOnAccepted ==
  [][\A t \in Tasks : task[t] = "proposed" /\ task'[t] = "ready" =>
       mission = "active" /\ \A d \in Waited(t) : task[d] = "accepted"]_vars

(* The Owner's close leaves nothing behind that runs or may be run, whoever *)
(* was writing then (closeOnCardOnce reads again under the mission's lock): *)
(* it cancels every live attempt, and leaves only a proposal that came too *)
(* late, or a root a red landing CI sent back, with the check a salvaged   *)
(* result of it got then, for cancelAfterClose to end.                     *)
CardLeavesNothing ==
  [][onCard' =>
       /\ \A t \in Tasks : \/ task'[t] \in Ended \cup {"absent", "proposed"}
                           \/ task'[t] = "ready" /\ {t, subject[t]} \cap reworked' # {}
       /\ ~onCard => \A t \in Live : \E s \in Sessions : <<Attempt(t), "alone">> \in tx[s].held]_vars

(* CloseMissions lets go of no root that is at main, and of none of the    *)
(* work it read without a landing record (landingHolds, and the locks of   *)
(* the landing claim and gate on the mission).                             *)
ClosedOffMain ==
  [][mission = "active" /\ mission' # "active" /\ ~onCard' =>
       \A t \in Tasks : Lands(t) /\ task'[t] = "accepted" =>
         landing'[t] # "main" /\ (t \in Work => landing'[t] # "none")]_vars

(* A mission the controller closed has ended all the work it was proposed  *)
(* with, but for a root a red landing CI sent back while the close was     *)
(* running (close.go's closable).                                          *)
DoneButForRework ==
  mission # "active" /\ ~onCard => \A t \in Work \ reworked : Root(t) => task[t] \in Ended

(* close.go: the mission is done once every one of its tasks is accepted   *)
(* or dropped, read again under its lock; only a late proposal may land in *)
(* a done mission.                                                         *)
DoneIsFinished ==
  mission # "active" /\ ~onCard => \A t \in Tasks : task[t] \in Ended \cup {"absent", "proposed"}
=============================================================================
