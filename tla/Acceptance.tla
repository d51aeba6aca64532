----------------------------- MODULE Acceptance -----------------------------
(***************************************************************************)
(* How one implementation task is accepted (agentrt/store: accept.go,      *)
(* adopt.go, precheck.go, with the cards and cancels of blockedcard.go,    *)
(* stoppedchecks.go and withdraw.go that touch its checks).                *)
(*                                                                         *)
(* The task's attempts hand in results; the controller has each result     *)
(* checked by a task of its own (a check), pinned to an attempt and a      *)
(* round, and uses the check's verdict.  A check takes any time: meanwhile *)
(* attempts are lost, salvaged and replaced, rounds pass, the Owner stops  *)
(* the task or answers cards, checks are proposed by hand, and the         *)
(* controller restarts with another AGENTRT_PRECHECK.                      *)
(*                                                                         *)
(* Leases are those of AttemptLease: of an attempt only what the           *)
(* acceptance reads is kept here (task leased and running are both         *)
(* "running", an attempt leased, running or stale is "live").  Each action *)
(* is one transaction holding the step, the attempts and the tasks it      *)
(* reads.                                                                  *)
(***************************************************************************)
EXTENDS Integers, Sequences, FiniteSets

CONSTANTS
  MaxAttempts,  \* BOUND: attempts of the task; the code has none
  MaxChecks,    \* BOUND: checks of the task; the code has none
  MaxRounds,    \* the rounds the task is proposed with
  RoundBound,   \* BOUND: rounds past MaxRounds (the landing's own bound ends these)
  Prechecks,    \* the AGENTRT_PRECHECK values the controller runs with, over time
  ByHand,       \* may an actor propose a check of the task itself
  Withdrawals   \* may a proposer withdraw a check that has not run

ASSUME AcceptanceConstants ==
  /\ MaxAttempts \in Nat \ {0}
  /\ MaxChecks \in Nat \ {0}
  /\ MaxRounds \in Nat \ {0}
  /\ RoundBound \in Nat
  /\ Prechecks \subseteq {"ci", "verify"}
  /\ ByHand \in BOOLEAN /\ Withdrawals \in BOOLEAN

VARIABLES
  task,          \* state of the task
  round,         \* round_no
  maxRounds,     \* max_rounds
  failed,        \* the task was blocked for failing its last round
  stop,          \* the Owner's stop holds on the task
  attempt,       \* state of each attempt
  salvaged,      \* the attempts whose result was salvaged
  check,         \* the checks of the task, in the order they were proposed
  verification   \* the verification rows, in order

vars == <<task, round, maxRounds, failed, stop, attempt, salvaged, check, verification>>

Attempts == 1..MaxAttempts
Checks   == 1..MaxChecks
TaskStates == {"ready", "running", "submitted", "verifying", "accepted", "blocked", "cancelled"}
AttemptStates == {"none", "live", "submitted", "lost", "failed", "cancelled"}
CheckStates == {"none", "ready", "running", "submitted", "blocked", "accepted", "cancelled"}

\* attempt 0 of a check: it pins none.  chain is the row of the deterministic
\* pass a review goes by, 0 for none.
CheckRow == [state: CheckStates, role: {"verify", "review"}, attempt: 0..MaxAttempts, round: Nat,
             salvage: BOOLEAN, chain: Nat, pass: BOOLEAN, tried: BOOLEAN]
Row == [attempt: Attempts, method: {"deterministic", "review", "landing_ci"},
        pass: BOOLEAN, accepts: BOOLEAN]

NoCheck == [state |-> "none", role |-> "verify", attempt |-> 0, round |-> 0, salvage |-> FALSE,
            chain |-> 0, pass |-> FALSE, tried |-> FALSE]

-----------------------------------------------------------------------------
(* Reading the rows.                                                       *)

\* submittedAttempt: the latest submitted attempt, 0 for none.
Submitted == {n \in Attempts : attempt[n] = "submitted"}
EarliestSubmitted == IF Submitted = {} THEN 0
                     ELSE CHOOSE n \in Submitted : \A m \in Submitted : n <= m   \* MUTANT of Latest
Latest == IF Submitted = {} THEN 0
          ELSE CHOOSE n \in Submitted : \A m \in Submitted : m <= n

Rows(n) == {i \in DOMAIN verification : verification[i].attempt = n}
DeterministicPass(i) == verification[i].method = "deterministic" /\ verification[i].pass
Passed(n) == \E i \in Rows(n) : DeterministicPass(i)

Accepting == {i \in DOMAIN verification : verification[i].accepts}
AcceptedAttempt == verification[CHOOSE i \in Accepting : \A j \in Accepting : j <= i].attempt

OpenCheck == {"ready", "running", "submitted", "blocked"}
Open(c)   == check[c].state \in OpenCheck
OtherOpen(c) == \E d \in Checks \ {c} : Open(d)

\* droppedPin: the Owner chose not to do a check that pins n.
DroppedPin(n) == \E c \in Checks : check[c].state = "cancelled" /\ check[c].attempt = n

\* salvagedOpen: the salvaged result of n is still to be checked.
SalvagedOpen(n) ==
  /\ attempt[n] = "lost" /\ n \in salvaged
  /\ task \in {"ready", "running"}
  /\ \A m \in Submitted : m < n
  /\ Rows(n) = {}
  /\ ~\E c \in Checks : Open(c)

\* A check of a salvaged result is still about what the task can accept (the
\* negation of salvageStale).
SalvageCurrent(c) ==
  LET k == check[c] IN
    /\ attempt[k.attempt] = "lost" /\ k.attempt \in salvaged
    /\ task \in {"ready", "running"}
    /\ \A m \in Submitted : m <= k.attempt
    /\ ~OtherOpen(c)
    /\ k.role = "verify" => Rows(k.attempt) = {}
    /\ k.role = "review" => Rows(k.attempt) = {k.chain} /\ DeterministicPass(k.chain)

\* MUTANT of Current: any check of the round counts, as before the pins.
AnyOfTheRound(c) == check[c].round = round /\ task = "verifying"

\* The check is about the attempt under verification, in this round.  (One
\* that ran on another version of the attempt is one that pins none here.)
Current(c) ==
  LET k == check[c] IN
    /\ k.attempt # 0 /\ k.round = round
    /\ IF k.salvage THEN SalvageCurrent(c)
       ELSE attempt[k.attempt] = "submitted" /\ k.attempt = Latest /\ task = "verifying"
    /\ k.role = "review" => Passed(k.attempt)

\* MUTANT of StillChecked: a check that is over counts too.
OnceChecked(c) ==
  \E d \in Checks \ {c} :
    /\ check[d].state # "none"
    /\ ~check[d].salvage /\ check[d].attempt = Latest /\ check[d].round = round

\* stillChecked: an open check other than c can still accept the task.
StillChecked(c) ==
  \E d \in Checks \ {c} :
    /\ Open(d)
    /\ ~check[d].salvage /\ check[d].attempt = Latest /\ check[d].round = round
    /\ check[d].role = "review" => Passed(Latest)

\* proposeChecker: the checks with one more, ready to claim.
Room(f) == \E c \in Checks : f[c].state = "none"
Proposed(f, k) ==
  LET c == CHOOSE c \in Checks : f[c].state = "none" /\ \A d \in 1..(c - 1) : f[d].state # "none"
  IN  [f EXCEPT ![c] = k]
Verify(n)        == [NoCheck EXCEPT !.state = "ready", !.attempt = n, !.round = round]
VerifySalvage(n) == [Verify(n) EXCEPT !.salvage = TRUE]
Review(c)        == [check[c] EXCEPT !.state = "ready", !.role = "review", !.pass = FALSE,
                                     !.tried = FALSE, !.chain = Len(verification) + 1]

Used(c) == [check EXCEPT ![c].state = "accepted"]

AllKept == attempt   \* MUTANT of LiveCancelled

\* The live attempt, if there is one, is cancelled.
LiveCancelled == [n \in Attempts |-> IF attempt[n] = "live" THEN "cancelled" ELSE attempt[n]]

-----------------------------------------------------------------------------
(* The attempts of the task: what AttemptLease's handlers do to it.        *)

Claim ==
  /\ task = "ready" /\ ~stop
  /\ \E n \in Attempts :
       /\ attempt[n] = "none" /\ (n > 1 => attempt[n - 1] # "none")
       /\ attempt' = [attempt EXCEPT ![n] = "live"]
  /\ task' = "running"
  /\ UNCHANGED <<round, maxRounds, failed, stop, salvaged, check, verification>>

Submit(n) ==
  /\ attempt[n] = "live"
  /\ attempt' = [attempt EXCEPT ![n] = "submitted"]
  /\ task' = "submitted"
  /\ UNCHANGED <<round, maxRounds, failed, stop, salvaged, check, verification>>

\* Lost by the lease loop, or ended on its host.
Gone(n) ==
  /\ attempt[n] = "live"
  /\ \E s \in {"lost", "failed"} : attempt' = [attempt EXCEPT ![n] = s]
  /\ task' = "ready"
  /\ UNCHANGED <<round, maxRounds, failed, stop, salvaged, check, verification>>

\* (A result salvaged while its attempt still counts as live is one salvaged
\* here once it is gone: nothing reads the mark before.)
Salvage(n) ==
  /\ attempt[n] \in {"lost", "failed", "cancelled"} /\ n \notin salvaged
  /\ salvaged' = salvaged \cup {n}
  /\ UNCHANGED <<task, round, maxRounds, failed, stop, attempt, check, verification>>

\* A ready task no executor may take, or whose preparation failed too often.
BlockTask ==
  /\ task = "ready"
  /\ task' = "blocked" /\ failed' = FALSE
  /\ UNCHANGED <<round, maxRounds, stop, attempt, salvaged, check, verification>>

-----------------------------------------------------------------------------
(* The Owner and other proposers.                                          *)

ToggleStop ==
  /\ stop' = ~stop
  /\ UNCHANGED <<task, round, maxRounds, failed, attempt, salvaged, check, verification>>

\* The card of the blocked task: one more round, or not to do it.  An answer
\* while a stop holds is moot.
RetryTask ==
  /\ task = "blocked" /\ ~stop
  /\ failed => round < MaxRounds + RoundBound
  /\ task' = "ready"
  /\ round' = IF failed THEN round + 1 ELSE round
  /\ maxRounds' = IF round' > maxRounds THEN round' ELSE maxRounds
  /\ failed' = FALSE
  /\ UNCHANGED <<stop, attempt, salvaged, check, verification>>

DropTask ==
  /\ task = "blocked" /\ ~stop
  /\ task' = "cancelled" /\ failed' = FALSE
  /\ UNCHANGED <<round, maxRounds, stop, attempt, salvaged, check, verification>>

\* The card of a blocked check: one more round, or not to do it.  Not doing
\* it blocks the task it checks, unless another check can still accept it.
RetryCheck(c) ==
  /\ check[c].state = "blocked"
  /\ check' = [check EXCEPT ![c].state = "ready"]
  /\ UNCHANGED <<task, round, maxRounds, failed, stop, attempt, salvaged, verification>>

DropCheck(c) ==
  /\ check[c].state = "blocked"
  /\ check' = [check EXCEPT ![c].state = "cancelled"]
  /\ IF task = "verifying" /\ ~StillChecked(c)
     THEN task' = "blocked" /\ failed' = FALSE
     ELSE UNCHANGED <<task, failed>>
  /\ UNCHANGED <<round, maxRounds, stop, attempt, salvaged, verification>>

\* A check put in the database by hand, or by a controller of before the pins:
\* its spec pins nothing (readCheckSpec: ok is false), whatever its role; a
\* review here, the role that must never be used by itself.
ProposeCheck ==
  /\ ByHand /\ Room(check)
  /\ check' = Proposed(check, [Verify(0) EXCEPT !.role = "review"])
  /\ UNCHANGED <<task, round, maxRounds, failed, stop, attempt, salvaged, verification>>

\* The proposer of the check, or of its mission, withdraws it: it is waiting
\* to run and never had an attempt (withdrawTx).
WithdrawCheck(c) ==
  /\ Withdrawals
  /\ check[c].state \in {"ready", "blocked"} /\ ~check[c].tried
  /\ check' = [check EXCEPT ![c].state = "cancelled"]
  /\ UNCHANGED <<task, round, maxRounds, failed, stop, attempt, salvaged, verification>>

\* ... or withdraws the task itself before any attempt, and its checks with it.
WithdrawTask ==
  /\ Withdrawals
  /\ task \in {"ready", "blocked"} /\ \A n \in Attempts : attempt[n] = "none"
  /\ \A c \in Checks : check[c].state \notin {"running", "submitted"}
  /\ task' = "cancelled" /\ failed' = FALSE
  /\ check' = [c \in Checks |-> IF Open(c) THEN [check[c] EXCEPT !.state = "cancelled"] ELSE check[c]]
  /\ UNCHANGED <<round, maxRounds, stop, attempt, salvaged, verification>>

-----------------------------------------------------------------------------
(* The checks run like any task; a lost one is claimed again.              *)

ClaimCheck(c) ==
  /\ check[c].state = "ready" /\ ~stop
  /\ check' = [check EXCEPT ![c].state = "running", ![c].tried = TRUE]
  /\ UNCHANGED <<task, round, maxRounds, failed, stop, attempt, salvaged, verification>>

EndCheck(c) ==
  /\ check[c].state = "running"
  /\ \/ \E pass \in BOOLEAN :
          check' = [check EXCEPT ![c].state = "submitted", ![c].pass = pass]
     \/ check' = [check EXCEPT ![c].state = "ready"]
  /\ UNCHANGED <<task, round, maxRounds, failed, stop, attempt, salvaged, verification>>

BlockCheck(c) ==
  /\ check[c].state = "ready"
  /\ check' = [check EXCEPT ![c].state = "blocked"]
  /\ UNCHANGED <<task, round, maxRounds, failed, stop, attempt, salvaged, verification>>

-----------------------------------------------------------------------------
(* The controller's acceptance pass.                                       *)

\* StartVerificationWith: a submitted implementation is accepted at once when
\* its landing runs a CI (precheck ci), else it gets its deterministic check.
AcceptOnSubmission ==
  /\ task = "submitted" /\ "ci" \in Prechecks /\ Latest # 0
  /\ verification' = Append(verification, [attempt |-> Latest, method |-> "landing_ci",
                                           pass |-> TRUE, accepts |-> TRUE])
  /\ task' = "accepted"
  /\ UNCHANGED <<round, maxRounds, failed, stop, attempt, salvaged, check>>

StartVerification ==
  /\ task = "submitted" /\ Latest # 0 /\ Room(check)
  /\ task' = "verifying"
  /\ check' = Proposed(check, Verify(Latest))
  /\ UNCHANGED <<round, maxRounds, failed, stop, attempt, salvaged, verification>>

StartSalvageCheck(n) ==
  /\ SalvagedOpen(n) /\ ~DroppedPin(n) /\ Room(check)
  /\ check' = Proposed(check, VerifySalvage(n))
  /\ UNCHANGED <<task, round, maxRounds, failed, stop, attempt, salvaged, verification>>

\* Conclude of check c, whose result is in.  It waits while the task is
\* stopped.
ConcludesStopped(c) == check[c].state = "submitted"   \* MUTANT of Concludes
Concludes(c) == check[c].state = "submitted" /\ ~stop

\* ... a result that is not about the attempt under verification closes the
\* check; a task left with no open check gets a new one (ensureCheck).
CloseCheck(c) ==
  /\ Concludes(c) /\ ~Current(c)
  /\ IF task = "verifying" /\ ~OtherOpen(c) /\ Latest # 0
     THEN Room(check) /\ check' = Proposed(Used(c), Verify(Latest))
     ELSE check' = Used(c)
  /\ UNCHANGED <<task, round, maxRounds, failed, stop, attempt, salvaged, verification>>

\* ... any other is recorded, and the check is done with.
Record(c, accepts) ==
  /\ Concludes(c) /\ Current(c)
  /\ verification' = Append(verification,
       [attempt |-> check[c].attempt, pass |-> check[c].pass, accepts |-> accepts,
        method  |-> IF check[c].role = "review" THEN "review" ELSE "deterministic"])

Accepts(c, precheck) == check[c].pass /\ (check[c].role = "review" \/ precheck = "ci")

\* A pass that accepts: the attempt verified, or (adopt) the salvaged one,
\* whose task may be running a new attempt: that one is cancelled.
AcceptResult(c, precheck) ==
  /\ Accepts(c, precheck)
  /\ Record(c, TRUE)
  /\ check' = Used(c)
  /\ attempt' = IF check[c].salvage THEN LiveCancelled ELSE attempt
  /\ task' = "accepted"
  /\ UNCHANGED <<round, maxRounds, failed, stop, salvaged>>

\* A deterministic pass that a review follows.
AskReview(c, precheck) ==
  /\ check[c].pass /\ ~Accepts(c, precheck) /\ Room(check)
  /\ Record(c, FALSE)
  /\ check' = Proposed(Used(c), Review(c))
  /\ UNCHANGED <<task, round, maxRounds, failed, stop, attempt, salvaged>>

\* The round that failed was the task's last.
PastLastRound == round > maxRounds   \* MUTANT of LastRound
LastRound == round + 1 > maxRounds

\* A failure: the next round, or the block after the last.  A salvaged result
\* that fails moves nothing.
FailResult(c) ==
  /\ ~check[c].pass
  /\ Record(c, FALSE)
  /\ check' = Used(c)
  /\ IF check[c].salvage THEN UNCHANGED <<task, round, failed>>
     ELSE IF LastRound
     THEN task' = "blocked" /\ failed' = TRUE /\ UNCHANGED round
     ELSE task' = "ready" /\ round' = round + 1 /\ UNCHANGED failed
  /\ UNCHANGED <<maxRounds, stop, attempt, salvaged>>

\* The landing of the accepted attempt went red: the task goes back for its
\* next round, its bound raised with it (reworkRedLanding).  An operation
\* lands one accepted attempt and fails once.
RedLanding ==
  /\ task = "accepted" /\ ~stop /\ "ci" \in Prechecks
  /\ round < MaxRounds + RoundBound
  /\ ~\E i \in Rows(AcceptedAttempt) : verification[i].method = "landing_ci" /\ ~verification[i].pass
  /\ verification' = Append(verification, [attempt |-> AcceptedAttempt, method |-> "landing_ci",
                                           pass |-> FALSE, accepts |-> FALSE])
  /\ task' = "ready"
  /\ round' = round + 1
  /\ maxRounds' = IF round + 1 > maxRounds THEN round + 1 ELSE maxRounds
  /\ UNCHANGED <<failed, stop, attempt, salvaged, check>>

\* CloseStoppedChecks: a check whose task is blocked or cancelled, and that is
\* not running, is cancelled.
CloseStoppedCheck(c) ==
  /\ task \in {"blocked", "cancelled"}
  /\ check[c].state \in {"ready", "blocked"}
  /\ check' = [check EXCEPT ![c].state = "cancelled"]
  /\ UNCHANGED <<task, round, maxRounds, failed, stop, attempt, salvaged, verification>>

-----------------------------------------------------------------------------
Init ==
  /\ task = "ready" /\ round = 1 /\ maxRounds = MaxRounds
  /\ failed = FALSE /\ stop = FALSE
  /\ attempt = [n \in Attempts |-> "none"]
  /\ salvaged = {}
  /\ check = [c \in Checks |-> NoCheck]
  /\ verification = <<>>

AttemptNext ==
  \/ Claim
  \/ BlockTask
  \/ \E n \in Attempts : Submit(n) \/ Gone(n) \/ Salvage(n)

OwnerNext ==
  \/ ToggleStop
  \/ RetryTask
  \/ DropTask
  \/ ProposeCheck
  \/ WithdrawTask
  \/ \E c \in Checks : RetryCheck(c) \/ DropCheck(c) \/ WithdrawCheck(c)

CheckNext == \E c \in Checks : ClaimCheck(c) \/ EndCheck(c) \/ BlockCheck(c)

ControllerNext ==
  \/ AcceptOnSubmission
  \/ StartVerification
  \/ RedLanding
  \/ \E n \in Attempts : StartSalvageCheck(n)
  \/ \E c \in Checks :
       \/ CloseCheck(c)
       \/ \E precheck \in Prechecks : AcceptResult(c, precheck) \/ AskReview(c, precheck)
       \/ FailResult(c)
       \/ CloseStoppedCheck(c)

Next == AttemptNext \/ OwnerNext \/ CheckNext \/ ControllerNext

Spec == Init /\ [][Next]_vars

-----------------------------------------------------------------------------
(* Properties.                                                             *)

\* Every variable has its type; a round is never past the task's bound.
TypeOK ==
  /\ task \in TaskStates
  /\ maxRounds \in MaxRounds..(MaxRounds + RoundBound) /\ round \in 1..maxRounds
  /\ failed \in BOOLEAN /\ stop \in BOOLEAN
  /\ attempt \in [Attempts -> AttemptStates] /\ salvaged \subseteq Attempts
  /\ check \in [Checks -> CheckRow]
  /\ verification \in Seq(Row)

\* A task under verification always has an open check: with none it could
\* never be accepted, and no pass of the controller looks at it again.
VerifyingIsChecked == task = "verifying" => \E c \in Checks : Open(c)

\* ... and only a withdrawal of the check may leave it with none: no verdict, no
\* card and no replaced attempt does.
KeptChecked ==
  [][VerifyingIsChecked => VerifyingIsChecked' \/ \E c \in Checks : WithdrawCheck(c)]_vars

\* An accepted task was accepted for an attempt whose result it has: submitted,
\* or lost and salvaged; no later attempt was submitted before it, and none is
\* left running for the task.
AcceptedHasResult ==
  task = "accepted" =>
    /\ Accepting # {}
    /\ attempt[AcceptedAttempt] = "submitted"
         \/ (attempt[AcceptedAttempt] = "lost" /\ AcceptedAttempt \in salvaged)
    /\ \A m \in Submitted : m <= AcceptedAttempt
    /\ \A n \in Attempts : attempt[n] # "live"

\* An attempt is accepted once: the unique index verification_one_accept,
\* which would fail the controller's pass for good, never fires.
AcceptedOnce ==
  \A i, j \in Accepting : verification[i].attempt = verification[j].attempt => i = j

\* A review is used only after a deterministic pass of the same attempt.
ReviewAfterPass ==
  \A i \in DOMAIN verification : verification[i].method = "review" =>
    \E j \in 1..(i - 1) : DeterministicPass(j) /\ verification[j].attempt = verification[i].attempt

\* While the Owner's stop holds no verdict is used: a task under verification
\* is not accepted and gets no next round, an accepted one is not sent back, a
\* salvaged result is not adopted.
StopHoldsVerdicts ==
  [][stop => /\ round' = round
             /\ task' = "accepted" => task \in {"accepted", "submitted"}
             /\ task = "accepted" => task' = "accepted"]_vars
=============================================================================
