---------------------------- MODULE AttemptLease ----------------------------
(***************************************************************************)
(* The lease kernel of the agent runtime: the tasks of one mission, the    *)
(* attempts that work on them, and the leases that fence those attempts    *)
(* (agentrt/store: kernel.go, claim.go, attempt.go, blockedclose.go).      *)
(*                                                                         *)
(* Every handler below is one database transaction that holds the rows it  *)
(* reads, so it is one action.  The interleavings are those of the callers:*)
(* a host may send any call, for any attempt, with any epoch, at any time  *)
(* (late, repeated, after a restart, or not at all), while the lease loop, *)
(* the controller and the Owner's cards act on the same rows.              *)
(*                                                                         *)
(* Time is kept relative: attempt[a].left is lease_expires_at minus the    *)
(* database clock.  It stops falling at -Grace: every comparison the code  *)
(* makes has the same outcome from there on.                               *)
(***************************************************************************)
EXTENDS Integers, FiniteSets

CONSTANTS
  Tasks,        \* the tasks of the mission
  Hosts,        \* the agent hosts
  NoHost,       \* the host of an attempt that was never leased
  External,     \* the tasks of effect class external
  Dispatched,   \* the tasks of an effect class claims hand out (claim.go: dispatched)
  MaxAttempts,  \* BOUND: attempts per task; the code has none
  Slots,        \* the concurrency rule's slots per host
  LeaseTTL,     \* ticks a lease lasts from the last heartbeat
  Grace         \* ticks past the expiry in which the host may still renew

ASSUME LeaseConstants ==
  /\ NoHost \notin Hosts
  /\ External \subseteq Tasks
  /\ Dispatched \subseteq Tasks
  /\ MaxAttempts \in Nat \ {0}
  /\ Slots \in Nat
  /\ LeaseTTL \in Nat \ {0}
  /\ Grace \in Nat \ {0}

VARIABLES
  mission,   \* state of the mission: "ended" is done, stopped or expired, and
             \* "closed" is ended by the Owner's answer on a card
  task,      \* state of each task; "absent" before it is proposed
  attempt,   \* the attempt rows, by task and attempt number
  epochSeq   \* agentrt.lease_epoch_seq

leaseVars == <<mission, task, attempt, epochSeq>>

Attempts == Tasks \X (1..MaxAttempts)

TaskStates == {"absent", "proposed", "awaiting_owner", "ready", "leased", "running",
               "submitted", "verifying", "rework", "blocked", "paused",
               "accepted", "rejected", "cancelled"}
EndedTask  == {"accepted", "rejected", "cancelled"}
LiveStates == {"leased", "running", "stale"}
MissionStates == {"active", "paused", "ended", "closed"}
AttemptStates == LiveStates \cup {"none", "submitted", "lost", "cancelled", "failed"}

AttemptRow == [state: AttemptStates, host: Hosts \cup {NoHost}, epoch: Nat,
               left: (-Grace)..LeaseTTL, started: BOOLEAN, computed: BOOLEAN,
               persisted: BOOLEAN, salvaged: BOOLEAN, ended: BOOLEAN]

NoAttempt == [state |-> "none", host |-> NoHost, epoch |-> 0, left |-> 0, started |-> FALSE,
              computed |-> FALSE, persisted |-> FALSE, salvaged |-> FALSE, ended |-> FALSE]

-----------------------------------------------------------------------------
(* Reading the rows.                                                       *)

Live(a)     == attempt[a].state \in LiveStates
LiveOf(t)   == {a \in Attempts : a[1] = t /\ Live(a)}
LiveOn(h)   == {a \in Attempts : Live(a) /\ attempt[a].host = h}
Lapsed(a)   == attempt[a].left <= 0        \* the clock is not before lease_expires_at
PastGrace(a) == attempt[a].left <= -Grace  \* nor before lease_expires_at plus the grace

\* MUTANT of Fence: it forgets the clock.
FenceWithoutClock(a, h, e) ==
  /\ attempt[a].host = h
  /\ attempt[a].epoch = e
  /\ Live(a)

\* The write-time fence (lockLive): the caller's host and epoch, a live state,
\* and a clock before the expiry plus the grace.
Fence(a, h, e) ==
  /\ attempt[a].host = h
  /\ attempt[a].epoch = e
  /\ Live(a)
  /\ ~PastGrace(a)

\* MUTANT of Sweepable: it forgets the leases that are stale already.
SweepableOnce(a) == attempt[a].state \in {"leased", "running"} /\ attempt[a].left < 0

\* What the lease loop selects: a lease past its expiry, or a stale one past
\* the grace.
Sweepable(a) ==
  \/ attempt[a].state \in {"leased", "running"} /\ attempt[a].left < 0
  \/ attempt[a].state = "stale" /\ PastGrace(a)

\* The tables of task moves.
TaskMove(from, to) ==
  \/ from = "proposed"       /\ to \in {"ready", "awaiting_owner", "blocked", "cancelled"}
  \/ from = "awaiting_owner" /\ to \in {"ready", "cancelled"}
  \/ from = "ready"          /\ to \in {"leased", "paused", "blocked", "cancelled"}
  \/ from = "leased"         /\ to \in {"running", "ready", "blocked"}
  \/ from = "running"        /\ to \in {"submitted", "ready", "blocked"}
  \/ from = "submitted"      /\ to \in {"verifying", "accepted", "blocked"}
  \/ from = "verifying"      /\ to \in {"accepted", "rework", "rejected", "blocked"}
  \/ from = "rework"         /\ to \in {"ready", "cancelled"}
  \/ from = "blocked"        /\ to \in {"ready", "cancelled"}
  \/ from = "paused"         /\ to \in {"ready", "cancelled"}

ControllerMove(from, to) ==
  \/ from = "proposed"       /\ to \in {"ready", "awaiting_owner", "blocked", "cancelled"}
  \/ from = "awaiting_owner" /\ to \in {"ready", "cancelled"}
  \/ from = "ready"          /\ to \in {"paused", "blocked", "cancelled"}
  \/ from = "rework"         /\ to \in {"ready", "cancelled"}
  \/ from = "blocked"        /\ to \in {"ready", "cancelled"}
  \/ from = "paused"         /\ to \in {"ready", "cancelled"}

\* MUTANTS of Released: a leased task is left as it is; external work is
\* handed out again.
ReleasedRunning(t) ==
  IF task[t] # "running" THEN task[t] ELSE IF t \in External THEN "blocked" ELSE "ready"
ReleasedToReady(t) == IF task[t] \notin {"leased", "running"} THEN task[t] ELSE "ready"

\* releaseTask: where a task goes whose live attempt is gone.
Released(t) ==
  IF task[t] \notin {"leased", "running"} THEN task[t]
  ELSE IF t \in External THEN "blocked" ELSE "ready"

\* The number the next attempt of t gets: one more than the last.
NextNo(t, n) ==
  /\ attempt[<<t, n>>].state = "none"
  /\ n > 1 => attempt[<<t, n - 1>>].state # "none"

-----------------------------------------------------------------------------
(* Claims.                                                                 *)

\* The concurrency rule: stale attempts count, since they may still run.
OneSlotTooMany(h) == Cardinality(LiveOn(h)) <= Slots   \* MUTANT of HasSlot
HasSlot(h) == Cardinality(LiveOn(h)) < Slots

\* The row of a new lease, under the next epoch of the sequence.
SameEpoch(h)  == [NoAttempt EXCEPT !.state = "leased", !.host = h, !.epoch = 1,
                                   !.left = LeaseTTL]   \* MUTANT of LeasedRow
LeasedRow(h) == [NoAttempt EXCEPT !.state = "leased", !.host = h, !.epoch = epochSeq + 1,
                                  !.left = LeaseTTL]

\* A host's poll takes a ready task of an active mission (claimIn, take,
\* lease).  Routing, pools, budgets and controls only withhold a claim, and no
\* fairness is assumed of this action, so they are left out here.
Claim(h, t) ==
  /\ task[t] = "ready" /\ t \in Dispatched
  /\ mission = "active"
  /\ HasSlot(h)
  /\ \E n \in 1..MaxAttempts :
       /\ NextNo(t, n)
       /\ attempt' = [attempt EXCEPT ![<<t, n>>] = LeasedRow(h)]
  /\ epochSeq' = epochSeq + 1
  /\ task' = [task EXCEPT ![t] = "leased"]
  /\ UNCHANGED mission

-----------------------------------------------------------------------------
(* The attempt routes.  Each is refused, changing nothing, where its guard *)
(* is false.                                                               *)

\* MUTANT of Heartbeat: it extends the lease from its expiry, not from now.
HeartbeatAdds(a, h, e) ==
  /\ Fence(a, h, e)
  /\ attempt' = [attempt EXCEPT ![a] = [@ EXCEPT !.left = attempt[a].left + LeaseTTL]]
  /\ UNCHANGED <<mission, task, epochSeq>>

\* A lapsed lease is renewed with an event and goes back to leased or running;
\* one that has not lapsed is only extended.
Heartbeat(a, h, e) ==
  /\ Fence(a, h, e)
  /\ attempt' = [attempt EXCEPT ![a] = [@ EXCEPT
       !.left  = LeaseTTL,
       !.state = IF attempt[a].state # "stale" /\ ~Lapsed(a) THEN attempt[a].state
                 ELSE IF attempt[a].started THEN "running" ELSE "leased"]]
  /\ UNCHANGED <<mission, task, epochSeq>>

Start(a, h, e) ==
  /\ Fence(a, h, e)
  /\ ~attempt[a].started /\ attempt[a].state = "leased"
  /\ TaskMove(task[a[1]], "running")
  /\ attempt' = [attempt EXCEPT ![a] = [@ EXCEPT !.state = "running", !.started = TRUE]]
  /\ task' = [task EXCEPT ![a[1]] = "running"]
  /\ UNCHANGED <<mission, epochSeq>>

\* The executor ended (ComputedWith).
Computed(a, h, e) ==
  /\ Fence(a, h, e)
  /\ attempt[a].started /\ ~attempt[a].computed
  /\ attempt' = [attempt EXCEPT ![a] = [@ EXCEPT !.computed = TRUE]]
  /\ UNCHANGED <<mission, task, epochSeq>>

\* The result has left the host (PersistChecked).
Persist(a, h, e) ==
  /\ Fence(a, h, e)
  /\ attempt[a].computed /\ ~attempt[a].persisted
  /\ attempt' = [attempt EXCEPT ![a] = [@ EXCEPT !.persisted = TRUE]]
  /\ UNCHANGED <<mission, task, epochSeq>>

\* MUTANT of Submit: the result may still be on the host.
SubmitComputed(a, h, e) ==
  /\ Fence(a, h, e)
  /\ attempt[a].computed
  /\ TaskMove(task[a[1]], "submitted")
  /\ attempt' = [attempt EXCEPT ![a] = [@ EXCEPT !.state = "submitted"]]
  /\ task' = [task EXCEPT ![a[1]] = "submitted"]
  /\ UNCHANGED <<mission, epochSeq>>

\* The task waits for its verdict.
Submit(a, h, e) ==
  /\ Fence(a, h, e)
  /\ attempt[a].persisted
  /\ TaskMove(task[a[1]], "submitted")
  /\ attempt' = [attempt EXCEPT ![a] = [@ EXCEPT !.state = "submitted"]]
  /\ task' = [task EXCEPT ![a[1]] = "submitted"]
  /\ UNCHANGED <<mission, epochSeq>>

\* MUTANT of Salvage: it goes by the expiry, without the grace.
SalvageLapsed(a, h) ==
  /\ attempt[a].host = h /\ ~attempt[a].salvaged
  /\ attempt[a].state \notin {"none", "submitted"}
  /\ Lapsed(a)
  /\ attempt' = [attempt EXCEPT ![a] = [@ EXCEPT !.salvaged = TRUE, !.persisted = TRUE]]
  /\ UNCHANGED <<mission, task, epochSeq>>

\* The result of an attempt past its grace is kept, whatever its state, unless
\* it was submitted (SalvageChecked).  A repeated call gets the first answer.
Salvage(a, h) ==
  /\ attempt[a].host = h /\ ~attempt[a].salvaged
  /\ attempt[a].state \notin {"none", "submitted"}
  /\ PastGrace(a)
  /\ attempt' = [attempt EXCEPT ![a] = [@ EXCEPT !.salvaged = TRUE, !.persisted = TRUE]]
  /\ UNCHANGED <<mission, task, epochSeq>>

\* MUTANT of Ended: every attempt fails, one that was submitted too.
EndedAlwaysFails(a, h) ==
  /\ attempt[a].host = h /\ ~attempt[a].ended
  /\ attempt[a].state # "none"
  /\ attempt' = [attempt EXCEPT ![a] = [@ EXCEPT !.ended = TRUE, !.state = "failed"]]
  /\ task' = [task EXCEPT ![a[1]] = IF Live(a) THEN Released(a[1]) ELSE @]
  /\ UNCHANGED <<mission, epochSeq>>

\* The attempt's process group is gone on its host: a live attempt fails and
\* its task is released; one that already ended keeps its state.  A repeated
\* call gets the first answer.
Ended(a, h) ==
  /\ attempt[a].host = h /\ ~attempt[a].ended
  /\ attempt[a].state # "none"
  /\ attempt' = [attempt EXCEPT ![a] = [@ EXCEPT
       !.ended = TRUE,
       !.state = IF Live(a) THEN "failed" ELSE attempt[a].state]]
  /\ task' = [task EXCEPT ![a[1]] = IF Live(a) THEN Released(a[1]) ELSE @]
  /\ UNCHANGED <<mission, epochSeq>>

-----------------------------------------------------------------------------
(* The lease loop, the controller and the Owner.                           *)

\* One attempt of a pass of the lease loop (sweepOne): past the grace it is
\* lost and its task released, before that it is stale.
Sweep(a) ==
  /\ Sweepable(a)
  /\ IF PastGrace(a)
     THEN /\ attempt' = [attempt EXCEPT ![a] = [@ EXCEPT !.state = "lost"]]
          /\ task' = [task EXCEPT ![a[1]] = Released(a[1])]
     ELSE /\ attempt' = [attempt EXCEPT ![a] = [@ EXCEPT !.state = "stale"]]
          /\ UNCHANGED task
  /\ UNCHANGED <<mission, epochSeq>>

\* A proposal reads the mission without its lock, so a task may land in a
\* mission that was closed meanwhile.
ProposeTask(t) ==
  /\ task[t] = "absent"
  /\ task' = [task EXCEPT ![t] = "proposed"]
  /\ UNCHANGED <<mission, attempt, epochSeq>>

MoveTask(t, to) ==
  /\ ControllerMove(task[t], to)
  /\ task' = [task EXCEPT ![t] = to]
  /\ UNCHANGED <<mission, attempt, epochSeq>>

MoveMission ==
  /\ mission \in {"active", "paused"}
  /\ mission' \in {"active", "paused", "ended"} \ {mission}
  /\ UNCHANGED <<task, attempt, epochSeq>>

\* cancelAll: the live attempts of the tasks S are cancelled, then the tasks.
CancelAll(S) ==
  /\ attempt' = [a \in Attempts |-> IF a[1] \in S /\ Live(a)
                                    THEN [attempt[a] EXCEPT !.state = "cancelled"]
                                    ELSE attempt[a]]
  /\ task' = [t \in Tasks |-> IF t \in S THEN "cancelled" ELSE task[t]]

Unfinished == {t \in Tasks : task[t] \notin EndedTask \cup {"absent"}}

\* The Owner closes the mission on the card of a blocked task: everything
\* unfinished is cancelled with it (closeOnCardOnce).  An answer that comes
\* when the mission has ended or the task left the block moves nothing.
CloseOnCard(t) ==
  /\ task[t] = "blocked" /\ mission \in {"active", "paused"}
  /\ CancelAll(Unfinished)
  /\ mission' = "closed"
  /\ UNCHANGED epochSeq

\* MUTANT of CancelAfterClose: only what was proposed meanwhile is cancelled.
CancelProposed(t) ==
  /\ mission = "closed" /\ task[t] = "proposed"
  /\ CancelAll({t})
  /\ UNCHANGED <<mission, epochSeq>>

\* What landed in the mission after the close is cancelled by a later pass.
CancelAfterClose(t) ==
  /\ mission = "closed" /\ t \in Unfinished
  /\ CancelAll({t})
  /\ UNCHANGED <<mission, epochSeq>>

Tick ==
  /\ \E a \in Attempts : attempt[a].state # "none" /\ ~PastGrace(a)
  /\ attempt' = [a \in Attempts |-> IF attempt[a].state # "none" /\ ~PastGrace(a)
                                    THEN [attempt[a] EXCEPT !.left = @ - 1]
                                    ELSE attempt[a]]
  /\ UNCHANGED <<mission, task, epochSeq>>

-----------------------------------------------------------------------------
Init ==
  /\ mission = "active"
  /\ task = [t \in Tasks |-> "absent"]
  /\ attempt = [a \in Attempts |-> NoAttempt]
  /\ epochSeq = 0

\* Any host may call for any attempt, with any epoch handed out so far.
HostCall ==
  \E a \in Attempts, h \in Hosts :
    \/ \E e \in 1..epochSeq : \/ Heartbeat(a, h, e)
                              \/ Start(a, h, e)
                              \/ Computed(a, h, e)
                              \/ Persist(a, h, e)
                              \/ Submit(a, h, e)
    \/ Salvage(a, h)
    \/ Ended(a, h)

LeaseNext ==
  \/ \E h \in Hosts, t \in Tasks : Claim(h, t)
  \/ HostCall
  \/ \E a \in Attempts : Sweep(a)
  \/ \E t \in Tasks : \/ ProposeTask(t)
                      \/ \E to \in TaskStates : MoveTask(t, to)
                      \/ CloseOnCard(t)
                      \/ CancelAfterClose(t)
  \/ MoveMission
  \/ Tick

Spec == Init /\ [][LeaseNext]_leaseVars

\* Time passes, and the controller's loops run: the lease loop every LeaseEvery
\* (10 s), the cancelling of what landed after a close in every pass.  Nothing
\* is assumed of the hosts, the Owner or claims.
LoopFairness ==
  /\ WF_leaseVars(Tick)
  /\ \A a \in Attempts : WF_leaseVars(Sweep(a))
  /\ \A t \in Tasks : WF_leaseVars(CancelAfterClose(t))

FairSpec == Spec /\ LoopFairness

-----------------------------------------------------------------------------
(* Properties.                                                             *)

\* Every variable has its type.
TypeOK ==
  /\ mission \in MissionStates
  /\ task \in [Tasks -> TaskStates]
  /\ attempt \in [Attempts -> AttemptRow]
  /\ epochSeq \in Nat

\* A task has at most one live attempt, and the task's state says exactly
\* whether it has one and whether that one started: so no handler's task move
\* is ever refused by the table, and the unique index attempt_one_live, which
\* would fail a claim, never fires.
OneLiveAttempt ==
  \A a, b \in Attempts : a[1] = b[1] /\ Live(a) /\ Live(b) => a = b
TaskSaysLive ==
  \A t \in Tasks :
    /\ (task[t] = "leased")  <=> (\E a \in LiveOf(t) : ~attempt[a].started)
    /\ (task[t] = "running") <=> (\E a \in LiveOf(t) : attempt[a].started)
LiveMatchesTask == OneLiveAttempt /\ TaskSaysLive

\* A later attempt of a task holds a larger epoch, no two attempts share one,
\* and none is ahead of the sequence: an epoch names one lease for good.
FreshEpochs ==
  \A a, b \in Attempts :
    /\ attempt[a].state # "none" => attempt[a].epoch \in 1..epochSeq
    /\ attempt[a].state # "none" /\ attempt[b].state # "none" /\ a # b
         => attempt[a].epoch # attempt[b].epoch
    /\ attempt[b].state # "none" /\ a[1] = b[1] /\ a[2] < b[2]
         => attempt[a].epoch < attempt[b].epoch

\* A task that waits for its verdict has a result to judge: its last attempt
\* was submitted, computed, and has left the host.
HandedOver ==
  \A t \in Tasks : task[t] \in {"submitted", "verifying"} =>
    \E n \in 1..MaxAttempts :
      /\ attempt[<<t, n>>].state = "submitted"
      /\ attempt[<<t, n>>].computed /\ attempt[<<t, n>>].persisted
      /\ \A m \in (n + 1)..MaxAttempts : attempt[<<t, m>>].state = "none"

\* A host never runs more attempts than the rule gives it, stale ones included.
SlotsHold == \A h \in Hosts : Cardinality(LiveOn(h)) <= Slots

\* A result is persisted before it is computed only by a salvage, and a
\* salvage comes only after the lease and its grace ran out: no write of the
\* host that held the lease can follow it.
SalvageClosesLease ==
  \A a \in Attempts : attempt[a].salvaged => PastGrace(a) /\ attempt[a].state # "submitted"

\* Once its grace has passed, or once it is no longer live, an attempt never
\* works again: whatever calls arrive late, it does not start, compute or
\* submit, and it never becomes live.  It need not wait for the lease loop.
NoLateWork ==
  [][\A a \in Attempts :
       attempt[a].state # "none" /\ (PastGrace(a) \/ ~Live(a)) =>
         /\ \/ attempt'[a].state = attempt[a].state
            \/ Live(a) /\ attempt'[a].state \in {"stale", "lost", "failed", "cancelled"}
         /\ attempt'[a].started = attempt[a].started
         /\ attempt'[a].computed = attempt[a].computed]_leaseVars

\* External work whose attempt is gone is never handed out again by itself: it
\* waits, blocked, for a decision.
ExternalNotRedispatched ==
  [][\A t \in External :
       task[t] \in {"leased", "running"} /\ task'[t] # task[t]
         => task'[t] \in {"running", "submitted", "blocked", "cancelled"}]_leaseVars

\* In a mission the Owner closed every task ends, the ones that landed after
\* the close included, and no attempt is left running for it.
ClosedMissionEmpties ==
  \A t \in Tasks : (mission = "closed" /\ t \in Unfinished)
                     ~> (task[t] \in EndedTask /\ LiveOf(t) = {})

\* The kernel implements the fenced work of FencedWork: a task is held under
\* the epoch of its live attempt, and handed over by a submit.
Epochs(t, S) == {attempt[<<t, n>>].epoch : n \in {m \in 1..MaxAttempts : attempt[<<t, m>>].state \in S}}
Held   == [t \in Tasks |-> Epochs(t, LiveStates)]
Handed == [t \in Tasks |-> Epochs(t, {"submitted"})]
Fenced == INSTANCE FencedWork WITH Work <- Tasks, last <- epochSeq, held <- Held, handed <- Handed
ImplementsFencedWork == Fenced!Spec

\* adopt.go: an attempt that lost its lease stays lost, and the controller
\* checks its salvaged result.  So an attempt whose result was salvaged while
\* the lease loop had not come to it yet ends as lost (or is cancelled), the
\* one state whose result is checked.
SalvagedLeaseIsLost ==
  [][\A a \in Attempts :
       attempt[a].salvaged /\ Live(a) /\ attempt'[a].state \notin LiveStates
         => attempt'[a].state \in {"lost", "cancelled"}]_leaseVars
=============================================================================
