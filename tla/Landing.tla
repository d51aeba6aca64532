------------------------------- MODULE Landing -------------------------------
(***************************************************************************)
(* The live landing of accepted work (agentrt/landing, landinggit, and the *)
(* landing_*.go files of store and controller) on one repository.  An      *)
(* accepted change, a root, is landed by operations, one after the other:  *)
(* an operation is claimed, replayed on the head of main (M0) as one       *)
(* commit R, tested on a branch of its own, let through the second gate,   *)
(* pushed to main once, and ended by what main shows.                      *)
(*                                                                         *)
(* The operations are folded from records on the repository's stream,      *)
(* whose lock orders every record.  Main is outside it: people commit to   *)
(* it, a push takes time and its answer can be lost, and whatever was read *)
(* of main may be old when it is used.                                     *)
(*                                                                         *)
(* A landing branch and its CI are the answers they give.  Batches, the    *)
(* S5 lane, the daily quota, rehearsals and grants' digests are left out.  *)
(***************************************************************************)
EXTENDS Integers, Sequences, FiniteSets, SequencesExt

CONSTANTS
  Roots,        \* accepted changes that want to land
  MaxOps,       \* operations a root may have: eight
  PushTimeout,  \* ticks a push may take from its main_intent
  MainFence,    \* ticks after which a missing R was never sent
  Worlds        \* what happens around the landings: see World

Nobody == "nobody"
NoGate == [root |-> Nobody, history |-> "never"]

Histories == {"never", "effective", "reverted"}
Readings == {"none", "decided", "eligible"} \cup Histories
Answers == {"ok", "non_ff", "denied", "unknown"}
Outcomes == Answers \cup
  {"", "bound", "stale", "ci_red", "conflict", "in_main", "reverted",
   "main_changed", "branch_collision", "declined", "main_lost"}
\* RetryableReasons; "bound" stands for approval_expired, too, the end of the
\* wait for a grant.
Retryable == {"bound", "stale", "ci_red"}

\* The phases of an operation that has not asked for main.
BeforeMain ==
  {"claimed", "prepared", "branch_intent", "branch_pushed", "parked", "awaiting_grant"}

Phases == BeforeMain \cup
  {"main_intent", "main_result", "landed", "reverted", "failed", "discarded"}

\* n tells the commits of a root, or of other people, apart.
Commits == [kind : {"landed", "hand", "revert", "other"},
            root : Roots \cup {Nobody}, n : Nat]

\* What the world may do: roots in play, events around them (commits of other
\* people, a window that ends), answers of the Owner; whether main is ever
\* rewound, and whether the remote may apply a push after the fence.
World == [roots : SUBSET Roots, moves : Nat, answers : Nat,
          rewinds : BOOLEAN, slow : BOOLEAN]

ASSUME LandingAssumption ==
  /\ Nobody \notin Roots
  /\ MaxOps \in Nat \ {0}
  /\ PushTimeout \in Nat \ {0}
  /\ MainFence \in Nat /\ PushTimeout < MainFence
  /\ Worlds \subseteq World

VARIABLES
  main,      \* the commits of main; a prefix of it stands for a commit's id
  ops,       \* the operations of every root, as the stream folds them
  hand,      \* what a step of a root has read and not yet used
  gate,      \* the root whose second gate holds the stream's lock
  wire,      \* pushes of main sent, which the remote may still apply
  evidence,  \* what the main reconciler has read and not yet recorded
  due,       \* the roots whose six hours are over
  stopped,   \* a denied push stopped the repository
  left       \* what the world may still do

vars == <<main, ops, hand, gate, wire, evidence, due, stopped, left>>

-----------------------------------------------------------------------------
(* Operations and main.                                                    *)

\* base is M0, and <<>> with it R, until the operation is prepared; resume is
\* what a parked operation goes back to; age counts from main_intent; push is
\* the controller's own push of it.
NewOp ==
  [phase |-> "claimed", outcome |-> "", base |-> <<>>, resume |-> "",
   rerun |-> FALSE, granted |-> FALSE, age |-> -1, push |-> "none",
   retried |-> FALSE, late |-> FALSE, missing |-> FALSE]

BornFailed(why) == [NewOp EXCEPT !.phase = "failed", !.outcome = why]

Ops == UNION {{<<r, k>> : k \in DOMAIN ops[r]} : r \in Roots}
Number(r) == Len(ops[r])
Latest(r) == ops[r][Number(r)]
In(r, phases) == Number(r) > 0 /\ Latest(r).phase \in phases

Terminal(o) ==
  \/ o.phase \in {"landed", "reverted", "failed", "discarded"}
  \/ o.phase = "main_result" /\ o.outcome = "non_ff"

AtMain(o) ==
  o.phase = "main_intent" \/ (o.phase = "main_result" /\ o.outcome # "non_ff")

HoldsSlot(o) == o.phase \notin {"parked", "awaiting_grant"} /\ ~Terminal(o)

BlocksClaim(o) ==
  o.phase \in {"landed", "reverted"} \/ (o.phase = "failed" /\ ~o.retried)

AwaitsNext(r) == Number(r) > 0 /\ Terminal(Latest(r)) /\ ~BlocksClaim(Latest(r))

\* MUTANT of BoundForNext: the operation after the last may still be opened.
OneMoreOperation(r) == r \in due \/ Number(r) > MaxOps

\* The root's budget is spent: its six hours, or its operations. Operation
\* MaxOps may finish; the one after it may not be opened.
BoundForNext(r) == r \in due \/ Number(r) >= MaxOps
BoundForThis(r) == r \in due \/ Number(r) > MaxOps

\* What main's history says of a root's change, whoever committed it.
HistoryOf(r, commits) ==
  LET about == {i \in DOMAIN commits : commits[i].root = r}
  IN  IF about = {} THEN "never"
      ELSE IF commits[Max(about)].kind = "revert" THEN "reverted" ELSE "effective"

Landing(r, k) == [kind |-> "landed", root |-> r, n |-> k]
R(r, k) == Append(ops[r][k].base, Landing(r, k))
InMain(r, k) == IsPrefix(R(r, k), main)

OthersHoldSlot(r) == \E s \in Roots \ {r} : Number(s) > 0 /\ HoldsSlot(Latest(s))
OthersAtMain(r) == \E s \in Roots \ {r} : Number(s) > 0 /\ AtMain(Latest(s))
GrantWaits == \E r \in Roots : In(r, {"awaiting_grant"}) /\ Latest(r).granted

-----------------------------------------------------------------------------
(* Steps write the stream under its lock, which a second gate keeps while  *)
(* it reads.                                                               *)

Unlocked == gate = NoGate

\* The last operation of r becomes o.
Becomes(r, o) == ops' = [ops EXCEPT ![r] = Append(Front(@), o)]
Moves(r, phase) == Becomes(r, [Latest(r) EXCEPT !.phase = phase])
Ends(r, phase, why) == Becomes(r, [Latest(r) EXCEPT !.phase = phase, !.outcome = why])
Opens(r, o) == ops' = [ops EXCEPT ![r] = Append(@, o)]
Uses(r) == hand' = [hand EXCEPT ![r] = "none"]
Holds(r, what) == hand' = [hand EXCEPT ![r] = what]

\* Main moved under the operation: a new one replays, if the root may have it.
Discard(r, why) ==
  IF Number(r) >= MaxOps THEN Ends(r, "failed", "bound") ELSE Ends(r, "discarded", why)

Init ==
  /\ main = <<>>
  /\ ops = [r \in Roots |-> <<>>]
  /\ hand = [r \in Roots |-> "none"]
  /\ gate = NoGate
  /\ wire = {}
  /\ evidence = {}
  /\ due = {}
  /\ stopped = FALSE
  /\ left \in Worlds

-----------------------------------------------------------------------------
(* Claims: evidence is read with no lock held, then the claim is written.  *)

MayBind(r) ==
  /\ r \in left.roots /\ Unlocked /\ ~stopped
  /\ ~BoundForNext(r)
  /\ Number(r) = 0 \/ AwaitsNext(r)

ClaimRead(r) ==
  /\ hand[r] = "none" /\ MayBind(r)
  /\ Holds(r, HistoryOf(r, main))
  /\ UNCHANGED <<main, ops, gate, wire, evidence, due, stopped, left>>

Claim(r) ==
  /\ hand[r] = "never" /\ MayBind(r)
  /\ ~OthersHoldSlot(r) /\ ~GrantWaits
  /\ Opens(r, NewOp)
  /\ Uses(r)
  /\ UNCHANGED <<main, gate, wire, evidence, due, stopped, left>>

\* The change is in main already, or was and was reverted: a root never
\* claimed ends; one that awaits its next operation ends if it is in effect.
ClaimRefused(r) ==
  /\ hand[r] \in {"effective", "reverted"} /\ MayBind(r)
  /\ hand[r] = "effective" \/ Number(r) = 0
  /\ Opens(r, BornFailed(IF hand[r] = "effective" THEN "in_main" ELSE "reverted"))
  /\ Uses(r)
  /\ UNCHANGED <<main, gate, wire, evidence, due, stopped, left>>

\* A step refuses, fails or dies with what it had read.
Forget(r) ==
  /\ hand[r] # "none"
  /\ Uses(r)
  /\ UNCHANGED <<main, ops, gate, wire, evidence, due, stopped, left>>

\* Six hours and never claimed: the root ends before a claim of it.
SettleUnclaimed(r) ==
  /\ Unlocked /\ r \in left.roots /\ r \in due /\ Number(r) = 0
  /\ Opens(r, BornFailed("bound"))
  /\ UNCHANGED <<main, hand, gate, wire, evidence, due, stopped, left>>

\* A root whose budget is spent ends, unless its operation asked for main.
SettleBound(r) ==
  /\ Unlocked
  /\ \/ AwaitsNext(r) /\ BoundForNext(r) /\ Opens(r, BornFailed("bound"))
     \/ In(r, BeforeMain) /\ BoundForThis(r) /\ Ends(r, "failed", "bound")
  /\ UNCHANGED <<main, hand, gate, wire, evidence, due, stopped, left>>

-----------------------------------------------------------------------------
(* Preparation and CI: decided on what was read with no lock held.         *)

PrepareDecide(r) ==
  /\ In(r, {"claimed"}) /\ hand[r] = "none" /\ ~BoundForThis(r)
  /\ HistoryOf(r, main) = "never" /\ ~OthersHoldSlot(r)
  /\ Holds(r, "decided")
  /\ UNCHANGED <<main, ops, gate, wire, evidence, due, stopped, left>>

\* Replayed on main as it is now. A change main has is an empty commit, an
\* error; one main had and reverted replays; any may conflict.
Prepare(r) ==
  /\ Unlocked /\ In(r, {"claimed"}) /\ hand[r] = "decided"
  /\ HistoryOf(r, main) # "effective"
  /\ \/ Becomes(r, [Latest(r) EXCEPT !.phase = "prepared", !.base = main])
     \/ main # <<>> /\ Ends(r, "failed", "conflict")
  /\ Uses(r)
  /\ UNCHANGED <<main, gate, wire, evidence, due, stopped, left>>

Branch(r) ==
  /\ Unlocked
  /\ \/ In(r, {"prepared"}) /\ Moves(r, "branch_intent")
     \/ In(r, {"branch_intent"}) /\ Moves(r, "branch_pushed")
     \/ In(r, {"branch_intent"}) /\ Discard(r, "branch_collision")
  /\ UNCHANGED <<main, hand, gate, wire, evidence, due, stopped, left>>

\* Refused for now: the slot, the rule, a window, or a CI that takes long.
Park(r) ==
  /\ Unlocked /\ In(r, {"claimed", "prepared", "branch_pushed"})
  /\ Becomes(r, [Latest(r) EXCEPT !.phase = "parked", !.resume = Latest(r).phase])
  /\ Uses(r)
  /\ UNCHANGED <<main, gate, wire, evidence, due, stopped, left>>

\* The facts that end a parked operation's wait are read, and used later.
UnparkDecide(r) ==
  /\ In(r, {"parked"}) /\ hand[r] = "none" /\ ~BoundForThis(r)
  /\ HistoryOf(r, main) = "never" /\ ~OthersHoldSlot(r)
  /\ Latest(r).resume = "branch_pushed" => main = Latest(r).base
  /\ Holds(r, "eligible")
  /\ UNCHANGED <<main, ops, gate, wire, evidence, due, stopped, left>>

Unpark(r) ==
  /\ Unlocked /\ In(r, {"parked"}) /\ hand[r] = "eligible"
  /\ Becomes(r, [Latest(r) EXCEPT !.phase = Latest(r).resume, !.resume = ""])
  /\ Uses(r)
  /\ UNCHANGED <<main, gate, wire, evidence, due, stopped, left>>

\* It was prepared and waits for its CI, a window or its grant.
Tested(r) ==
  \/ In(r, {"branch_pushed", "awaiting_grant"})
  \/ In(r, {"parked"}) /\ Latest(r).resume = "branch_pushed"

Replay(r) ==
  /\ Unlocked /\ Tested(r) /\ main # Latest(r).base
  /\ Discard(r, "main_changed")
  /\ UNCHANGED <<main, hand, gate, wire, evidence, due, stopped, left>>

\* Main has the change without the landing, or had it and reverted it.
Stale(r) ==
  /\ Unlocked /\ HistoryOf(r, main) # "never"
  /\ \/ In(r, {"claimed", "prepared"})
     \/ In(r, {"parked"}) /\ Latest(r).resume # "branch_pushed"
     \/ In(r, {"branch_pushed", "parked"}) /\ main = Latest(r).base
  /\ Ends(r, "failed", "stale")
  /\ UNCHANGED <<main, hand, gate, wire, evidence, due, stopped, left>>

\* A red CI runs once more, then ends the operation.
CIRed(r) ==
  /\ Unlocked /\ In(r, {"branch_pushed"}) /\ main = Latest(r).base
  /\ IF Latest(r).rerun
     THEN Ends(r, "failed", "ci_red")
     ELSE Becomes(r, [Latest(r) EXCEPT !.rerun = TRUE])
  /\ UNCHANGED <<main, hand, gate, wire, evidence, due, stopped, left>>

-----------------------------------------------------------------------------
(* The second gate keeps the stream's lock over its reads of main.         *)

GateOpen(r) ==
  /\ Unlocked /\ ~stopped
  /\ In(r, {"branch_pushed", "awaiting_grant"})
  /\ gate' = [root |-> r, history |-> HistoryOf(r, main)]
  /\ UNCHANGED <<main, ops, hand, wire, evidence, due, stopped, left>>

\* MUTANT of SlotFree: a grant passes one that asked for main, too.
GrantPassesAll(r) == ~Latest(r).granted => ~OthersHoldSlot(r)

\* A granted operation yields only to one that asked for main, any other to
\* every one that is active.
SlotFree(r) ==
  IF Latest(r).granted THEN ~OthersAtMain(r) ELSE ~OthersHoldSlot(r)

GateAllows(r) ==
  /\ gate.root = r /\ gate.history = "never"
  /\ SlotFree(r) /\ ~BoundForThis(r)
  /\ main = Latest(r).base

\* Nothing to waive, or a grant waives it: the grant is used up.
Intend(r) ==
  /\ GateAllows(r)
  /\ Becomes(r, [Latest(r) EXCEPT !.phase = "main_intent", !.age = 0,
                                  !.push = "licensed", !.granted = FALSE])
  /\ gate' = NoGate
  /\ UNCHANGED <<main, hand, wire, evidence, due, stopped, left>>

\* A policy fails it: it waits for the Owner's grant.
AwaitGrant(r) ==
  /\ GateAllows(r) /\ In(r, {"branch_pushed"})
  /\ Moves(r, "awaiting_grant")
  /\ gate' = NoGate
  /\ UNCHANGED <<main, hand, wire, evidence, due, stopped, left>>

\* The gate refuses, or dies. One that waits for a moved main is spent.
GateRefuse(r) ==
  /\ gate.root = r
  /\ \/ UNCHANGED ops
     \/ In(r, {"awaiting_grant"}) /\ main # Latest(r).base
        /\ Ends(r, "discarded", "main_changed")
  /\ gate' = NoGate
  /\ UNCHANGED <<main, hand, wire, evidence, due, stopped, left>>

\* The Owner's grant of a waiting operation; it expires, is revoked or spent.
Grant(r) ==
  /\ Unlocked /\ In(r, {"awaiting_grant"})
  /\ Becomes(r, [Latest(r) EXCEPT !.granted = ~@])
  /\ UNCHANGED <<main, hand, gate, wire, evidence, due, stopped, left>>

-----------------------------------------------------------------------------
(* One push of an intent, once, and its answer.                            *)

\* The push of operation k of r gets to p.
Pushes(r, k, p) == ops' = [ops EXCEPT ![r][k].push = p]

\* The intent is read again, open and in time, just before it is sent.
Send(r, k) ==
  /\ ops[r][k].push = "licensed"
  /\ ops[r][k].phase = "main_intent" /\ ops[r][k].age < PushTimeout
  /\ Pushes(r, k, "sent")
  /\ wire' = wire \cup {<<r, k>>}
  /\ UNCHANGED <<main, hand, gate, evidence, due, stopped, left>>

\* The answer reaches the controller, unless it gave the push up.
Answered(r, k, answer) ==
  IF ops[r][k].push = "sent" THEN Pushes(r, k, answer) ELSE UNCHANGED ops

\* MUTANT of FastForwards: the push is forced.
Forced(r, k) == TRUE

\* Nothing forces it: main takes R as a fast-forward only.
FastForwards(r, k) == IsPrefix(main, ops[r][k].base)

RemoteTakes(r, k) ==
  /\ <<r, k>> \in wire /\ FastForwards(r, k)
  /\ main' = Append(ops[r][k].base, Landing(r, k))
  /\ wire' = wire \ {<<r, k>>}
  /\ \E answer \in {"ok", "unknown"} : Answered(r, k, answer)
  /\ UNCHANGED <<hand, gate, evidence, due, stopped, left>>

RemoteRefuses(r, k) ==
  /\ <<r, k>> \in wire
  /\ wire' = wire \ {<<r, k>>}
  /\ \E answer \in (Answers \ {"ok"}) :
       /\ answer = "non_ff" => ~FastForwards(r, k)
       /\ Answered(r, k, answer)
  /\ UNCHANGED <<main, hand, gate, evidence, due, stopped, left>>

\* Past its deadline, cut off, or not started: nothing is known of it.
GiveUp(r, k) ==
  /\ \/ ops[r][k].push = "sent"
     \/ ops[r][k].push = "licensed" /\ ops[r][k].phase = "main_intent"
  /\ Pushes(r, k, "unknown")
  /\ UNCHANGED <<main, hand, gate, wire, evidence, due, stopped, left>>

\* RecordPushResult: the answer counts while the intent stands.
Record(r, k) ==
  /\ Unlocked
  /\ ops[r][k].push \in Answers /\ ops[r][k].phase = "main_intent"
  /\ ops' = [ops EXCEPT ![r][k].phase = "main_result",
                        ![r][k].outcome = ops[r][k].push, ![r][k].push = "none"]
  /\ UNCHANGED <<main, hand, gate, wire, evidence, due, stopped, left>>

\* The controller dies with the push, is late for it, or was overtaken.
Abandon(r, k) ==
  /\ ops[r][k].push # "none"
  /\ Pushes(r, k, "none")
  /\ UNCHANGED <<main, hand, gate, wire, evidence, due, stopped, left>>

\* Time passes for what asked for main. A push is not waited for past its
\* deadline, nor applied past the fence by a remote that is not slow.
Tick ==
  /\ \E p \in Ops : AtMain(ops[p[1]][p[2]]) /\ ops[p[1]][p[2]].age < MainFence
  /\ \A p \in Ops : LET o == ops[p[1]][p[2]] IN
       /\ ~(o.push = "sent" /\ o.age = PushTimeout)
       /\ ~(p \in wire /\ o.age = MainFence - 1 /\ ~left.slow)
  /\ ops' = [r \in Roots |-> [k \in DOMAIN ops[r] |->
       IF AtMain(ops[r][k]) /\ ops[r][k].age < MainFence
       THEN [ops[r][k] EXCEPT !.age = @ + 1] ELSE ops[r][k]]]
  /\ UNCHANGED <<main, hand, gate, wire, evidence, due, stopped, left>>

-----------------------------------------------------------------------------
(* The main reconciler: evidence is read with no lock held, for operations *)
(* listed before, and written only if the operation is still as listed.    *)

ReconcileDenied(r) ==
  /\ Unlocked /\ In(r, {"main_result"}) /\ Latest(r).outcome = "denied"
  /\ Ends(r, "failed", "denied")
  /\ stopped' = TRUE
  /\ UNCHANGED <<main, hand, gate, wire, evidence, due, left>>

\* MUTANT of Fenced: absence counts from the push's deadline on.
DeadlineOver(o) == o.age >= PushTimeout

\* Whether main may still get R: no push is sent this long after its intent.
Fenced(o) == o.age >= MainFence

\* MUTANT of Unsettled: main is read for intents only.
Asked(o) == o.phase = "main_intent"

\* What to read main for: a push not settled, a landing that may have been
\* reverted, and one that ended as never sent and may land late.
Unsettled(o) ==
  o.phase = "main_intent" \/ (o.phase = "main_result" /\ o.outcome \in {"ok", "unknown"})
EndedUnsent(o) ==
  o.phase = "failed" /\ o.age >= 0 /\ o.outcome \in {"bound", "declined"} /\ ~o.late
Candidate(o) == Unsettled(o) \/ o.phase = "landed" \/ EndedUnsent(o)

ReadEvidence(r, k) ==
  [of |-> <<r, k>>, phase |-> ops[r][k].phase, outcome |-> ops[r][k].outcome,
   has |-> InMain(r, k), still |-> main = ops[r][k].base,
   reverted |-> HistoryOf(r, main) = "reverted", fenced |-> Fenced(ops[r][k])]

\* What evidence e makes of operation o; o itself when it proves nothing.
Reconciled(o, e) ==
  IF Unsettled(o) /\ e.has
  THEN [o EXCEPT !.phase = IF e.reverted THEN "reverted" ELSE "landed"]
  ELSE IF o.phase = "landed" /\ e.has /\ e.reverted
  THEN [o EXCEPT !.phase = "reverted"]
  ELSE IF EndedUnsent(o) /\ e.has
  THEN [o EXCEPT !.late = TRUE]
  ELSE IF o.outcome = "ok" /\ ~e.has
  THEN [o EXCEPT !.missing = TRUE]
  ELSE IF Unsettled(o) /\ o.outcome # "ok" /\ e.fenced
  THEN IF e.still THEN [o EXCEPT !.phase = "failed", !.outcome = "bound"]
                  ELSE [o EXCEPT !.phase = "main_result", !.outcome = "non_ff"]
  ELSE o

\* A read that proves nothing now is not kept.
ReadMain(r, k) ==
  LET e == ReadEvidence(r, k)
  IN  /\ Candidate(ops[r][k]) /\ Reconciled(ops[r][k], e) # ops[r][k]
      /\ \A read \in evidence : read.of # <<r, k>>
      /\ evidence' = evidence \cup {e}
      /\ UNCHANGED <<main, ops, hand, gate, wire, due, stopped, left>>

WriteEvidence(e) ==
  LET r == e.of[1]
      k == e.of[2]
      fresh == ops[r][k].phase = e.phase /\ ops[r][k].outcome = e.outcome
  IN  /\ Unlocked /\ e \in evidence
      /\ ops' = IF fresh THEN [ops EXCEPT ![r][k] = Reconciled(@, e)] ELSE ops
      /\ evidence' = evidence \ {e}
      /\ UNCHANGED <<main, hand, gate, wire, due, stopped, left>>

-----------------------------------------------------------------------------
(* The Owner's answers, and the world.                                     *)

Answering ==
  /\ Unlocked /\ left.answers > 0
  /\ left' = [left EXCEPT !.answers = @ - 1]

\* A retry starts the root's six hours again, never its count of operations.
TryAgain(r) ==
  /\ Answering
  /\ In(r, {"failed"}) /\ ~Latest(r).retried /\ Latest(r).outcome \in Retryable
  /\ Becomes(r, [Latest(r) EXCEPT !.retried = TRUE])
  /\ due' = due \ {r}
  /\ UNCHANGED <<main, hand, gate, wire, evidence, stopped>>

\* The card of a failed root; one that found its change in main gets another.
DoNotMerge(r) ==
  /\ Answering
  /\ In(r, {"failed"}) /\ ~Latest(r).retried
  /\ Latest(r).outcome \notin {"declined", "main_lost", "in_main", "reverted"}
  /\ Ends(r, "failed", "declined")
  /\ UNCHANGED <<main, hand, gate, wire, evidence, due, stopped>>

\* The grant it waits for is refused.
Reject(r) ==
  /\ Answering
  /\ In(r, {"awaiting_grant"})
  /\ Ends(r, "failed", "declined")
  /\ UNCHANGED <<main, hand, gate, wire, evidence, due, stopped>>

ConfirmLost(r) ==
  /\ Answering
  /\ In(r, {"main_result"}) /\ Latest(r).outcome = "ok" /\ Latest(r).missing
  /\ Ends(r, "failed", "main_lost")
  /\ UNCHANGED <<main, hand, gate, wire, evidence, due, stopped>>

Resume ==
  /\ Answering /\ stopped
  /\ stopped' = FALSE
  /\ UNCHANGED <<main, ops, hand, gate, wire, evidence, due>>

\* People commit to main: the change of a root by hand, its reversal, other
\* work; somebody rewinds main.
WorldMoves ==
  /\ left.moves > 0
  /\ left' = [left EXCEPT !.moves = @ - 1]
  /\ UNCHANGED <<ops, hand, gate, wire, evidence, stopped>>

Commit(kind, r) == [kind |-> kind, root |-> r, n |-> left.moves]

HandMerge(r) ==
  /\ WorldMoves /\ r \in left.roots /\ HistoryOf(r, main) # "effective"
  /\ main' = Append(main, Commit("hand", r))
  /\ UNCHANGED due

RevertChange(r) ==
  /\ WorldMoves /\ HistoryOf(r, main) = "effective"
  /\ main' = Append(main, Commit("revert", r))
  /\ UNCHANGED due

OtherCommit ==
  /\ WorldMoves
  /\ main' = Append(main, Commit("other", Nobody))
  /\ UNCHANGED due

Rewind ==
  /\ WorldMoves /\ left.rewinds /\ main # <<>>
  /\ main' = Front(main)
  /\ UNCHANGED due

\* The six hours of a root are over.
WindowEnds(r) ==
  /\ WorldMoves /\ r \in left.roots \ due
  /\ due' = due \cup {r}
  /\ UNCHANGED main

-----------------------------------------------------------------------------

Next ==
  \/ \E r \in Roots :
       \/ ClaimRead(r) \/ Claim(r) \/ ClaimRefused(r) \/ Forget(r)
       \/ SettleUnclaimed(r) \/ SettleBound(r)
       \/ PrepareDecide(r) \/ Prepare(r) \/ Branch(r)
       \/ Park(r) \/ UnparkDecide(r) \/ Unpark(r)
       \/ Replay(r) \/ Stale(r) \/ CIRed(r)
       \/ GateOpen(r) \/ Intend(r) \/ AwaitGrant(r) \/ GateRefuse(r) \/ Grant(r)
       \/ ReconcileDenied(r)
       \/ TryAgain(r) \/ DoNotMerge(r) \/ Reject(r) \/ ConfirmLost(r)
       \/ HandMerge(r) \/ RevertChange(r) \/ WindowEnds(r)
  \/ \E p \in Ops : LET r == p[1]
                        k == p[2] IN
       \/ Send(r, k) \/ RemoteTakes(r, k) \/ RemoteRefuses(r, k)
       \/ GiveUp(r, k) \/ Record(r, k) \/ Abandon(r, k)
       \/ ReadMain(r, k)
  \/ \E e \in evidence : WriteEvidence(e)
  \/ Tick \/ Resume \/ OtherCommit \/ Rewind

\* Time passes, the remote answers or drops what it was sent, a gate's reads
\* end, and the reconciler's passes go on and in the end read main; it gets
\* the stream's lock, which is given in turn. Nothing is assumed of claims, of
\* CI, of a push being recorded, or of people.
Fairness ==
  /\ WF_vars(Tick)
  /\ WF_vars(\E p \in Ops : GiveUp(p[1], p[2]) \/ RemoteTakes(p[1], p[2])
                            \/ RemoteRefuses(p[1], p[2]))
  /\ WF_vars(\E r \in Roots : Intend(r) \/ AwaitGrant(r) \/ GateRefuse(r))
  /\ WF_vars(\E p \in Ops : Unsettled(ops[p[1]][p[2]]) /\ ReadMain(p[1], p[2]))
  /\ SF_vars((\E e \in evidence : WriteEvidence(e)) \/ (\E r \in Roots : ReconcileDenied(r)))

LandingSpec == Init /\ [][Next]_vars /\ Fairness

-----------------------------------------------------------------------------
(* What the landing must keep.                                             *)

Operation ==
  [phase : Phases, outcome : Outcomes, base : Seq(Commits), resume : BeforeMain \cup {""},
   rerun : BOOLEAN, granted : BOOLEAN, age : (-1)..MainFence,
   push : {"none", "licensed", "sent"} \cup Answers,
   retried : BOOLEAN, late : BOOLEAN, missing : BOOLEAN]

\* Born as an ending, never claimed.
Unclaimed(o) == o.phase = "failed" /\ o.base = <<>>

\* The type invariant. A root is claimed eight times at most, and an ending
\* opened past its last claim is one of its bound or of its retries
\* (drill.go:198, waiting.go:124).
LandingTypeOK ==
  /\ main \in Seq(Commits)
  /\ \A r \in Roots : ops[r] \in Seq(Operation)
  /\ \A r \in Roots : \A k \in DOMAIN ops[r] :
       k > MaxOps => Unclaimed(ops[r][k])
  /\ hand \in [Roots -> Readings]
  /\ gate \in [root : Roots \cup {Nobody}, history : Histories]
  /\ wire \subseteq Ops
  /\ \A e \in evidence : e.of \in Ops
  /\ due \subseteq Roots
  /\ stopped \in BOOLEAN
  /\ left \in World

\* However late the remote applies it, a push takes no commit off main and
\* lands a change that is not in effect there; unless main is rewound, one that
\* main never had, neither by an earlier operation nor by hand, whenever the
\* gate read it (pushmain.go:49).
LandedOnce ==
  [][\A p \in wire \ wire' :
       main' # main =>
         LET before == Front(main')
         IN  /\ IsPrefix(main, main')
             /\ HistoryOf(p[1], before) # "effective"
             /\ ~left.rewinds => HistoryOf(p[1], before) = "never"]_main

\* Unless main was rewound, the records say what main has: what is recorded
\* landed is in main; what ended otherwise is not in main and, if the remote
\* applies nothing past the fence, will not come (landing_reconcile.go:200).
RecordsTellMain ==
  \A p \in Ops :
    LET o == ops[p[1]][p[2]]
    IN  /\ o.phase \in {"landed", "reverted"} /\ ~left.rewinds => InMain(p[1], p[2])
        /\ Terminal(o) /\ o.phase \notin {"landed", "reverted"}
             /\ o.base # <<>> /\ ~left.slow /\ ~left.rewinds
           => ~InMain(p[1], p[2]) /\ p \notin wire

\* One landing at a time asks for main, although a parked operation may take
\* the slot back on what it read before another took it, and a granted one
\* passes those still in CI (landingfacts.go:89, protocol.go:710).
OneAtMain ==
  Cardinality({r \in Roots : Number(r) > 0 /\ AtMain(Latest(r))}) <= 1

\* What asked for main is settled from main again and again, crash or no crash
\* and whatever the remote answered: no landing keeps main for good. Only a push
\* reported ok that main no longer shows waits, for the Owner
\* (landing_reconcile.go:318).
MainSettled ==
  []<>(\A r \in Roots : Number(r) > 0 => ~AtMain(Latest(r)) \/ Latest(r).missing)

=============================================================================
