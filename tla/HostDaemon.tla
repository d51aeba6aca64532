------------------------------ MODULE HostDaemon ------------------------------
(***************************************************************************)
(* agentd, the daemon of one agent host (agentd: run.go, deliver.go,       *)
(* launch.go), with the lease kernel it calls (AttemptLease).  It takes    *)
(* attempts, runs the executor of each in a process group of its own, hands*)
(* the result over step by step from a journal on disk, and after a restart*)
(* goes on from that journal.                                              *)
(*                                                                         *)
(* A call and its answer are one step when the answer comes back.  A call  *)
(* whose answer does not come back stays on its way and may still reach the*)
(* platform at any later time, beside its own retry, or never.  The daemon *)
(* may crash between any two steps; what is in memory is lost with it and  *)
(* what an executor started goes on running.                               *)
(*                                                                         *)
(* Every attempt here has the host to itself, as one without a write wall  *)
(* has (share.go).                                                         *)
(***************************************************************************)
EXTENDS AttemptLease

CONSTANTS
  Host,        \* the daemon's host
  NoOne,       \* nobody holds the host
  MaxCrashes,  \* BOUND: crashes of the daemon
  MaxOnItsWay  \* BOUND: unanswered calls on their way at one time

ASSUME HostConstants ==
  /\ Host \in Hosts
  /\ NoOne \notin Attempts
  /\ MaxCrashes \in Nat
  /\ MaxOnItsWay \in Nat

VARIABLES
  journal,    \* the registry on disk: the entry of each attempt
  proc,       \* the attempt's process group
  step,       \* where this process is with the attempt; "idle": it holds it no more
  lostLease,  \* the attempts whose keeper gave the lease up
  holder,     \* the attempt that has the host
  onItsWay,   \* calls sent and not answered: any of them may still arrive
  answered,   \* agentrt.idempotency_key: the calls whose answer is stored
  crashes

memory   == <<step, lostLease, holder>>
hostVars == <<journal, proc, memory, onItsWay, answered, crashes>>
allVars  == <<leaseVars, hostVars>>

Routes == {"heartbeat", "start", "computed", "persist", "submit", "salvage", "ended"}
Phases == {"none", "launching", "running", "restarted", "exited", "computed", "persisted",
           "submitting", "submitted", "lost", "ending", "uncleared"}
Entry  == [phase: Phases, group: {"unseen", "cleared", "remains"}, prepared: BOOLEAN]
NoEntry == [phase |-> "none", group |-> "cleared", prepared |-> FALSE]

Phase(a)  == journal[a].phase
EpochOf(a) == attempt[a].epoch
Write(a, entry) == journal' = [journal EXCEPT ![a] = entry]
To(a, phase)    == [journal[a] EXCEPT !.phase = phase]

-----------------------------------------------------------------------------
(* The platform's side of a call.                                          *)

\* MUTANT of Known: the lease is looked at before the stored answer.
KnownWhileLive(a, r) ==
  /\ <<a, r>> \in answered
  /\ r \in {"computed", "persist", "submit"} => Fence(a, Host, EpochOf(a))

\* The call was taken before, and its answer is stored.
Known(a, r) == <<a, r>> \in answered

\* The platform takes the call: one whose answer is stored gets it again,
\* before the lease is looked at; a start made already does nothing; any other
\* does its work and stores its answer in the same transaction.
Takes(a, r) ==
  \/ Known(a, r) /\ UNCHANGED <<leaseVars, answered>>
  \/ /\ <<a, r>> \notin answered /\ answered' = answered \cup {<<a, r>>}
     /\ \/ r = "computed" /\ Computed(a, Host, EpochOf(a))
        \/ r = "persist"  /\ Persist(a, Host, EpochOf(a))
        \/ r = "submit"   /\ Submit(a, Host, EpochOf(a))
        \/ r = "salvage"  /\ Salvage(a, Host)
        \/ r = "ended"    /\ Ended(a, Host)
  \/ /\ r = "start" /\ UNCHANGED answered
     /\ \/ Start(a, Host, EpochOf(a))
        \/ Fence(a, Host, EpochOf(a)) /\ attempt[a].started /\ UNCHANGED leaseVars

\* The platform refuses the call since the lease is gone.
Fenced409(a, r) ==
  /\ r \in {"start", "computed", "persist", "submit"}
  /\ ~Known(a, r) /\ ~Fence(a, Host, EpochOf(a))

\* It refuses the call for another reason: its token, an attempt not started
\* or submitted, a result it does not take.
Refuses(a, r) == r \in {"computed", "persist", "submit", "salvage"}

\* The call is sent and not answered.
OnItsWay(a, r) ==
  /\ <<a, r>> \notin onItsWay /\ Cardinality(onItsWay) < MaxOnItsWay
  /\ onItsWay' = onItsWay \cup {<<a, r>>}

\* A call on its way arrives with nobody waiting for the answer.
Arrive(a, r) ==
  /\ <<a, r>> \in onItsWay
  /\ onItsWay' = onItsWay \ {<<a, r>>}
  /\ IF r = "heartbeat" THEN Heartbeat(a, Host, EpochOf(a)) /\ UNCHANGED answered
                        ELSE Takes(a, r)
  /\ UNCHANGED <<journal, proc, memory, crashes>>

\* It is refused there, or lost on its way.
Drop(a, r) ==
  /\ <<a, r>> \in onItsWay
  /\ onItsWay' = onItsWay \ {<<a, r>>}
  /\ UNCHANGED <<leaseVars, journal, proc, memory, answered, crashes>>

-----------------------------------------------------------------------------
(* Taking an attempt and starting its executor (Run).                      *)

Left(a) == step[a] = "idle" /\ Phase(a) # "none"   \* no Run of this process has it

\* MUTANT of LookedThrough: it does not wait for the groups of a previous run.
NotLookedThrough == TRUE

\* Recover's first pass is through: every group a previous run left was ended,
\* or is known to remain.
LookedThrough == \A a \in Attempts : Left(a) => Phase(a) \notin {"launching", "running"}

\* The daemon asks for work once Recover is through, and no more once a group is
\* known to remain; a claim that was waiting then may still be answered.  The
\* answer may get lost: then the lease is held by nobody.
Take(t) ==
  /\ LookedThrough
  /\ Claim(Host, t)
  /\ \E n \in 1..MaxAttempts :
       /\ NextNo(t, n)
       /\ step' \in {step, [step EXCEPT ![<<t, n>>] = "claimed"]}
  /\ UNCHANGED <<journal, proc, lostLease, holder, onItsWay, answered, crashes>>

\* Run is over: it holds the attempt and the host no more.
Leave(a) ==
  /\ step' = [step EXCEPT ![a] = "idle"]
  /\ lostLease' = lostLease \ {a}
  /\ holder' = IF holder = a THEN NoOne ELSE holder

\* The task cannot be read: nothing is registered, the lease will lapse.
Unreadable(a) ==
  /\ step[a] = "claimed"
  /\ Leave(a)
  /\ UNCHANGED <<leaseVars, journal, proc, onItsWay, answered, crashes>>

\* Registered before anything is written on the host.
Register(a) ==
  /\ step[a] = "claimed"
  /\ Write(a, [NoEntry EXCEPT !.phase = "launching"])
  /\ step' = [step EXCEPT ![a] = "waiting"]
  /\ UNCHANGED <<leaseVars, proc, lostLease, holder, onItsWay, answered, crashes>>

\* Before its executor is released an attempt ends here as what came first: a
\* lost lease is salvaged, a stopped one handed over as cancelled, any other
\* only ended.  A stop may have come with any heartbeat.
EndsBefore(a) ==
  /\ \E phase \in IF a \in lostLease THEN {"lost"} ELSE {"exited", "ending"} :
       Write(a, [journal[a] EXCEPT !.phase = phase,
                                   !.group = IF phase = "ending" THEN "cleared" ELSE @])
  /\ step' = [step EXCEPT ![a] = "handing"]

\* A lost lease or a stop ends the wait for the host.
GiveUpWaiting(a) ==
  /\ step[a] = "waiting"
  /\ EndsBefore(a) /\ journal'[a].phase # "ending"
  /\ UNCHANGED <<leaseVars, proc, lostLease, holder, onItsWay, answered, crashes>>

Blocked == \E a \in Attempts : journal[a].group = "remains"

\* The attempt has the host to itself; nothing starts beside a group that is
\* not gone.
TakeHost(a) ==
  /\ step[a] = "waiting" /\ holder = NoOne
  /\ holder' = a
  /\ IF Blocked THEN EndsBefore(a)
     ELSE step' = [step EXCEPT ![a] = "preparing"] /\ UNCHANGED journal
  /\ UNCHANGED <<leaseVars, proc, lostLease, onItsWay, answered, crashes>>

\* The workspace cannot be made, or a lost lease or a stop came meanwhile.
NotPrepared(a) ==
  /\ step[a] = "preparing"
  /\ EndsBefore(a)
  /\ UNCHANGED <<leaseVars, proc, lostLease, holder, onItsWay, answered, crashes>>

\* The launcher cannot be started: the entry is left for Recover.
NotStarted(a) ==
  /\ step[a] = "preparing"
  /\ Leave(a)
  /\ UNCHANGED <<leaseVars, journal, proc, onItsWay, answered, crashes>>

\* The launcher is started, held back, and its group recorded.
Launch(a) ==
  /\ step[a] = "preparing" /\ a \notin lostLease
  /\ proc' = [proc EXCEPT ![a] = "held"]
  /\ Write(a, [journal[a] EXCEPT !.phase = "running", !.group = "unseen"])
  /\ step' = [step EXCEPT ![a] = "launching"]
  /\ UNCHANGED <<leaseVars, lostLease, holder, onItsWay, answered, crashes>>

\* MUTANT of Release: the start may still be on its way to the platform.
ReleaseUnreported(a) ==
  /\ step[a] = "launching" /\ a \notin lostLease
  /\ proc' = [proc EXCEPT ![a] = "alive"]
  /\ step' = [step EXCEPT ![a] = "watching"]
  /\ UNCHANGED <<leaseVars, journal, lostLease, holder, onItsWay, answered, crashes>>

\* The start is taken and no lost lease or stop came: the executor is released.
Release(a) ==
  /\ step[a] = "launching" /\ a \notin lostLease
  /\ Takes(a, "start")
  /\ proc' = [proc EXCEPT ![a] = "alive"]
  /\ step' = [step EXCEPT ![a] = "watching"]
  /\ UNCHANGED <<journal, lostLease, holder, onItsWay, crashes>>

\* The start was refused or not answered, or the lease was lost or a stop
\* came: the launcher is killed before it ran anything.  Its start may have been taken, or may
\* still be.
NotReleased(a) ==
  /\ step[a] = "launching"
  /\ proc' = [proc EXCEPT ![a] = "gone"]
  /\ \/ /\ Fenced409(a, "start")
        /\ Write(a, To(a, "lost"))
        /\ step' = [step EXCEPT ![a] = "handing"]
        /\ UNCHANGED onItsWay
     \/ /\ EndsBefore(a)
        /\ UNCHANGED onItsWay \/ OnItsWay(a, "start")
  /\ UNCHANGED <<leaseVars, lostLease, holder, answered, crashes>>

-----------------------------------------------------------------------------
(* The lease and the executor.                                             *)

Early(a)   == step[a] \in {"claimed", "waiting", "preparing", "launching", "watching"}
Delivery   == {"exited", "computed", "persisted", "submitting"}
\* MUTANT of Recovering: only what was to be delivered is gone on with.
RecoveringDelivery(a) == Left(a) /\ LookedThrough /\ Phase(a) \in Delivery
Recovering(a) == Left(a) /\ LookedThrough
Handing(a) == step[a] = "handing" \/ Recovering(a)

\* The keeper heartbeats until the hand-over or the end of the attempt here.
Beat(a) ==
  /\ \/ Early(a) /\ a \notin lostLease
     \/ Handing(a) /\ Phase(a) \in Delivery
  /\ Heartbeat(a, Host, EpochOf(a))
  /\ UNCHANGED hostVars

\* The keeper is refused, or cannot reach the platform three times in a row:
\* the lease counts as lost.  Once the executor has exited it gives up no
\* more: the calls of the hand-over say whether the lease is gone.
GiveUpLease(a) ==
  /\ Early(a) /\ a \notin lostLease
  /\ lostLease' = lostLease \cup {a}
  /\ UNCHANGED onItsWay \/ OnItsWay(a, "heartbeat")
  /\ UNCHANGED <<leaseVars, journal, proc, step, holder, answered, crashes>>

\* Ending the attempt's group: it is gone, or some of it remains or cannot be
\* told (ClearGroup).
Clear(a, g) ==
  \/ g = "cleared" /\ proc' = [proc EXCEPT ![a] = IF @ = "none" THEN "none" ELSE "gone"]
  \/ g = "remains" /\ proc[a] = "alive" /\ UNCHANGED proc

\* The executor ends, by itself, at its hard limit, by a stop or a lost lease, and its
\* group is ended with it.
ExecutorEnds(a) ==
  /\ step[a] = "watching"
  /\ \E g \in {"cleared", "remains"} :
       /\ Clear(a, g)
       /\ Write(a, [journal[a] EXCEPT !.group = g,
            !.phase = IF a \in lostLease THEN "lost" ELSE "exited"])
  /\ step' = [step EXCEPT ![a] = "handing"]
  /\ UNCHANGED <<leaseVars, lostLease, holder, onItsWay, answered, crashes>>

-----------------------------------------------------------------------------
(* Handing the result over (deliver, lost, end), by the Run that has the   *)
(* attempt or by Recover.                                                  *)

\* The call a journal sends next.
NextCall(a) ==
  CASE Phase(a) = "exited"     -> "computed"
    [] Phase(a) = "computed"   -> "persist"
    [] Phase(a) = "submitting" -> "submit"
    [] Phase(a) = "lost"       -> "salvage"
    [] Phase(a) = "ending"     -> "ended"
    [] OTHER                   -> "none"

Sends(a) == /\ Handing(a) /\ NextCall(a) # "none"
            /\ Phase(a) \in {"computed", "lost"} => journal[a].prepared

\* The report is uploaded, the commit made and pushed, once.
Prepare(a) ==
  /\ Handing(a) /\ Phase(a) \in {"computed", "lost"} /\ ~journal[a].prepared
  /\ Write(a, [journal[a] EXCEPT !.prepared = TRUE])
  /\ UNCHANGED <<leaseVars, proc, memory, onItsWay, answered, crashes>>

\* The ended request is written, once the group was ended.
BeginEnd(a) ==
  \E g \in {"cleared", "remains"} :
    /\ IF journal[a].group = "cleared" THEN g = "cleared" /\ UNCHANGED proc ELSE Clear(a, g)
    /\ Write(a, [journal[a] EXCEPT !.phase = "ending", !.group = g])

\* MUTANT of Delivered: the next phase is written when the call is sent.
DeliveredUnanswered(a) ==
  /\ Sends(a) /\ Phase(a) \in {"exited", "computed", "submitting"}
  /\ Takes(a, NextCall(a)) \/ UNCHANGED <<leaseVars, answered>>
  /\ Write(a, To(a, CASE Phase(a) = "exited"   -> "computed"
                      [] Phase(a) = "computed" -> "persisted"
                      [] OTHER                 -> "submitted"))
  /\ UNCHANGED <<proc, memory, onItsWay, crashes>>

\* Taken: the next phase is written.
Delivered(a) ==
  /\ Sends(a) /\ Phase(a) \in {"exited", "computed", "submitting"}
  /\ Takes(a, NextCall(a))
  /\ Write(a, To(a, CASE Phase(a) = "exited"   -> "computed"
                      [] Phase(a) = "computed" -> "persisted"
                      [] OTHER                 -> "submitted"))
  /\ UNCHANGED <<proc, memory, onItsWay, crashes>>

\* The submit is journalled before it is sent.
Submitting(a) ==
  /\ Handing(a) /\ Phase(a) = "persisted"
  /\ Write(a, To(a, "submitting"))
  /\ UNCHANGED <<leaseVars, proc, memory, onItsWay, answered, crashes>>

\* The platform's own refusal of the call says that the lease is gone.
LeaseGone(a) == Fenced409(a, NextCall(a))

FencedOff(a) ==
  /\ Sends(a) /\ Phase(a) \in Delivery /\ LeaseGone(a)
  /\ Write(a, To(a, "lost"))
  /\ UNCHANGED <<leaseVars, proc, memory, onItsWay, answered, crashes>>

\* The result of a lost lease is kept.  While the platform answers that its
\* grace is not over, it waits.
Salvaged(a) ==
  /\ Sends(a) /\ Phase(a) = "lost"
  /\ Takes(a, "salvage")
  /\ BeginEnd(a)
  /\ UNCHANGED <<memory, onItsWay, crashes>>

\* The attempt is only ended: its result was refused, it changed nothing, it
\* was submitted, or a restart cut it short.
EndsHere(a) ==
  /\ Handing(a)
  /\ \/ Sends(a) /\ Refuses(a, NextCall(a))
     \/ Phase(a) \in {"computed", "lost"} /\ ~journal[a].prepared
     \/ Phase(a) \in {"submitted", "restarted"}
  /\ BeginEnd(a)
  /\ UNCHANGED <<leaseVars, memory, onItsWay, answered, crashes>>

\* An entry is forgotten once its group is gone, and kept while it is not.
Settled(a, g) == IF g = "cleared" THEN NoEntry
                 ELSE [journal[a] EXCEPT !.phase = "uncleared", !.group = g]

\* Ended is taken, or refused for good, for whatever reason: the daemon only
\* logs a refusal that is no outage.  Either way the entry is settled.
EndAnswered(a) ==
  /\ Sends(a) /\ Phase(a) = "ending"
  /\ Takes(a, "ended") \/ UNCHANGED <<leaseVars, answered>>
  /\ \E g \in {"cleared", "remains"} :
       /\ IF journal[a].group = "cleared" THEN g = "cleared" /\ UNCHANGED proc ELSE Clear(a, g)
       /\ Write(a, Settled(a, g))
  /\ Leave(a)
  /\ UNCHANGED <<onItsWay, crashes>>

\* No answer: the call may still arrive.  It is sent again, by this Run, or by
\* the next Recover when the Run gives up.
Unanswered(a) ==
  /\ Sends(a)
  /\ OnItsWay(a, NextCall(a))
  /\ \/ UNCHANGED memory
     \/ step[a] = "handing" /\ Leave(a)
  /\ UNCHANGED <<leaseVars, journal, proc, answered, crashes>>

\* A push that fails, or a salvage while the lease may still be renewed, is left
\* for the next Recover.
PutOff(a) ==
  /\ step[a] = "handing" /\ Phase(a) \in {"computed", "lost"}
  /\ Leave(a)
  /\ UNCHANGED <<leaseVars, journal, proc, onItsWay, answered, crashes>>

-----------------------------------------------------------------------------
(* Crashes and Recover.                                                    *)

\* The process ends.  A launcher that is held back ends with it.
Crash ==
  /\ crashes < MaxCrashes
  /\ crashes' = crashes + 1
  /\ step' = [a \in Attempts |-> "idle"]
  /\ lostLease' = {}
  /\ holder' = NoOne
  /\ proc' = [a \in Attempts |-> IF proc[a] = "held" THEN "gone" ELSE proc[a]]
  /\ UNCHANGED <<leaseVars, journal, onItsWay, answered>>

\* Recover's first pass over one entry: what a previous run left running is
\* ended, and a group that was not gone is looked at again.
LookAt(a) ==
  /\ Left(a)
  /\ \E g \in {"cleared", "remains"} :
       /\ Clear(a, g)
       /\ \/ /\ Phase(a) \in {"launching", "running"}
             /\ Write(a, [journal[a] EXCEPT !.phase = "restarted", !.group = g])
          \/ /\ Phase(a) \notin {"launching", "running"} /\ journal[a].group = "remains"
             /\ Write(a, IF Phase(a) = "uncleared" THEN Settled(a, g)
                         ELSE [journal[a] EXCEPT !.group = g])
  /\ UNCHANGED <<leaseVars, memory, onItsWay, answered, crashes>>

-----------------------------------------------------------------------------
HostInit ==
  /\ Init
  /\ journal = [a \in Attempts |-> NoEntry]
  /\ proc = [a \in Attempts |-> "none"]
  /\ step = [a \in Attempts |-> "idle"]
  /\ lostLease = {}
  /\ holder = NoOne
  /\ onItsWay = {} /\ answered = {}
  /\ crashes = 0

\* The rest of the kernel: the lease loop, the controller, time.
PlatformStep ==
  /\ \/ \E a \in Attempts : Sweep(a)
     \/ \E t \in Tasks : ProposeTask(t) \/ MoveTask(t, "ready")
     \/ Tick
  /\ UNCHANGED hostVars

RunStep(a) ==
  \/ Unreadable(a) \/ Register(a) \/ GiveUpWaiting(a) \/ TakeHost(a) \/ NotPrepared(a) \/ NotStarted(a)
  \/ Launch(a) \/ Release(a) \/ NotReleased(a)
  \/ ExecutorEnds(a)

HandOverStep(a) ==
  \/ Prepare(a) \/ Delivered(a) \/ Submitting(a) \/ FencedOff(a) \/ Salvaged(a)
  \/ EndsHere(a) \/ EndAnswered(a)

HostNext ==
  \/ PlatformStep
  \/ \E t \in Tasks : Take(t)
  \/ \E a \in Attempts : \/ RunStep(a) \/ HandOverStep(a)
                         \/ Beat(a) \/ GiveUpLease(a) \/ Unanswered(a) \/ PutOff(a) \/ LookAt(a)
                         \/ \E r \in Routes : Arrive(a, r) \/ Drop(a, r)
  \/ Crash

HostSpec == HostInit /\ [][HostNext]_allVars

\* The daemon goes on with what it has: a Run with its attempt (an executor
\* ends at its hard limit at the latest), Recover, between two claims, with
\* every entry nobody runs.  The platform is reached in the end.  Nothing is
\* assumed of claims, heartbeats, or a group that will not die.
HostFairness ==
  /\ LoopFairness
  /\ \A a \in Attempts : /\ WF_allVars(RunStep(a))
                         /\ WF_allVars(HandOverStep(a))
                         /\ WF_allVars(Left(a) /\ Phase(a) \in {"launching", "running"} /\ LookAt(a))

FairHostSpec == HostSpec /\ HostFairness

-----------------------------------------------------------------------------
(* Properties.                                                             *)

\* Every variable of the daemon has its type.
HostTypeOK ==
  /\ TypeOK
  /\ journal \in [Attempts -> Entry]
  /\ proc \in [Attempts -> {"none", "held", "alive", "gone"}]
  /\ step \in [Attempts -> {"idle", "claimed", "waiting", "preparing", "launching", "watching", "handing"}]
  /\ lostLease \subseteq Attempts
  /\ holder \in Attempts \cup {NoOne}
  /\ onItsWay \subseteq Attempts \X Routes
  /\ answered \subseteq Attempts \X Routes
  /\ crashes \in 0..MaxCrashes

\* An executor never runs unrecorded, nor before the platform knows that it
\* started: whatever crashes, its group can be found again from the journal.
NoneRunsUnrecorded ==
  \A a \in Attempts : proc[a] = "alive" => Phase(a) # "none" /\ attempt[a].started

\* Nothing is launched beside the group of another attempt, one that a crashed
\* daemon or a lost lease left behind included.
NothingBeside ==
  \A a, b \in Attempts :
    a # b /\ proc[a] = "alive" => proc[b] \notin {"held", "alive"}

\* The journal is never ahead of the platform: a phase is written once the
\* platform has taken what it stands for, whatever was sent again, came late,
\* was salvaged or was cut off by a crash.  A Run or a Recover that goes on
\* from it leaves out nothing of the hand-over.
JournalNotAhead ==
  \A a \in Attempts :
    /\ Phase(a) \in Delivery \ {"exited"} => attempt[a].computed
    /\ Phase(a) \in {"persisted", "submitting"} => attempt[a].persisted
    /\ Phase(a) = "submitted" => attempt[a].state = "submitted"

\* A submit whose answer got lost does not make the attempt a lost one: its
\* journal stays on the way to submitted, whatever its heartbeats were told.
SubmittedStays ==
  \A a \in Attempts : attempt[a].state = "submitted"
    => Phase(a) \in {"submitting", "submitted", "ending", "uncleared", "none"}

\* Every lease ends: whichever answer got lost, and at whichever step the
\* daemon crashed, no attempt stays live for ever.
EveryLeaseEnds == \A a \in Attempts : Live(a) ~> ~Live(a)

\* What is in the journal is handed over or ended, and only a group that will
\* not die keeps an entry there.
JournalSettles ==
  \A a \in Attempts : Phase(a) # "none" ~> (Phase(a) = "none" \/ journal[a].group = "remains")
=============================================================================
