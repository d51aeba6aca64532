-------------------------- MODULE HostDaemonProofs --------------------------
(***************************************************************************)
(* Theorems about HostDaemon, the daemon of a host with the lease kernel it*)
(* calls, for every set of tasks, every number of attempts, slots, crashes *)
(* and calls on their way.                                                 *)
(***************************************************************************)
EXTENDS HostDaemon, AttemptLeaseProofs

-----------------------------------------------------------------------------
(* The inductive invariant, in parts, for attempt a.                       *)

\* A call that was sent and not answered, or was taken.
Sent(a, r) == <<a, r>> \in onItsWay \cup answered

\* What nobody claimed left no trace on the host.
Untouched(a) ==
  attempt[a].state = "none" =>
    /\ step[a] = "idle" /\ Phase(a) = "none" /\ proc[a] = "none"
    /\ \A r \in Routes : ~Sent(a, r)

\* What the journal and the process group are at each step of Run.
Place(entry, p, s) ==
  /\ s = "claimed" => entry.phase = "none" /\ p = "none"
  /\ s \in {"waiting", "preparing"} => entry.phase = "launching" /\ p = "none"
  /\ s = "launching" => entry.phase = "running" /\ entry.group = "unseen"
  /\ s = "watching" => entry.phase = "running"
  /\ s = "handing" => entry.phase \notin {"none", "launching", "running"}
  /\ p = "held" <=> s = "launching"
Placed(a) ==
  /\ Place(journal[a], proc[a], step[a])
  /\ step[a] = "claimed" => ~Sent(a, "submit")

\* The attempt that is being launched or watched has the host, and no group of
\* another runs.
OnHost == {"preparing", "launching", "watching"}
Running == {"held", "alive"}
HasHost(a) ==
  step[a] \in OnHost => holder = a /\ \A b \in Attempts : b # a => proc[b] \notin Running

\* A group that runs is recorded as not gone: it is watched, it is known to remain,
\* or it is one a crash left, and then nothing was taken up since.
Accounted(a) ==
  proc[a] = "alive" =>
    /\ Phase(a) # "none" /\ attempt[a].started /\ journal[a].group # "cleared"
    /\ \/ step[a] = "watching"
       \/ journal[a].group = "remains"
       \/ Phase(a) = "running" /\ \A b \in Attempts : step[b] = "idle"

\* A submit is sent from its journalled phase on, and one that is still on its way
\* past it finds its lease gone.
Through == {"submitting", "submitted", "ending", "uncleared", "none"}
Followed(a) ==
  /\ attempt[a].state = "submitted" => <<a, "submit">> \in answered
  /\ <<a, "submit">> \in answered => Phase(a) \in Through
  /\ <<a, "submit">> \in onItsWay =>
       Phase(a) \in Through \/ (Phase(a) = "lost" /\ ~Fence(a, Host, EpochOf(a)))
  /\ <<a, "start">> \notin answered

Fits(a) == Untouched(a) /\ Placed(a) /\ HasHost(a) /\ Accounted(a) /\ Followed(a)

HostInv == IInv /\ HostTypeOK /\ NothingBeside /\ \A a \in Attempts : Fits(a)

-----------------------------------------------------------------------------
(* The daemon calls the kernel as any host may.                            *)

\* The epoch of a live attempt was given out.
LEMMA LiveEpoch ==
  ASSUME IInv, NEW a \in Attempts, Fence(a, Host, EpochOf(a))
  PROVE  EpochOf(a) \in 1..epochSeq /\ attempt[a].state # "none"
BY DEF IInv, FreshEpochs, Fence, Live, LiveStates, EpochOf

\* A call that is taken is a step of the kernel.
LEMMA TakesIsLease ==
  ASSUME IInv, NEW a \in Attempts, NEW r, Takes(a, r)
  PROVE  [LeaseNext]_leaseVars
<1>1. Host \in Hosts
  BY HostConstants
<1>2. ASSUME \/ Computed(a, Host, EpochOf(a)) \/ Persist(a, Host, EpochOf(a))
             \/ Submit(a, Host, EpochOf(a)) \/ Start(a, Host, EpochOf(a))
      PROVE  LeaseNext
  <2>1. Fence(a, Host, EpochOf(a))
    BY <1>2 DEF Computed, Persist, Submit, Start
  <2>2. EpochOf(a) \in 1..epochSeq
    BY <2>1, LiveEpoch
  <2> QED BY <1>1, <1>2, <2>2 DEF LeaseNext, HostCall
<1>3. Salvage(a, Host) \/ Ended(a, Host) => LeaseNext
  BY <1>1 DEF LeaseNext, HostCall
<1> QED BY <1>2, <1>3 DEF Takes

\* So every step of the daemon and its platform is a step of the kernel, or none.
LEMMA HostIsLease ==
  ASSUME IInv, [HostNext]_allVars
  PROVE  [LeaseNext]_leaseVars
<1> DEFINE G == [LeaseNext]_leaseVars
<1>1. Host \in Hosts
  BY HostConstants
<1>2. PlatformStep => G
  BY DEF PlatformStep, LeaseNext, TaskStates
<1>3. ASSUME NEW t \in Tasks, Take(t) PROVE G
  BY <1>1, <1>3 DEF Take, LeaseNext
<1>4. ASSUME NEW a \in Attempts, Heartbeat(a, Host, EpochOf(a)) PROVE G
  <2>1. EpochOf(a) \in 1..epochSeq
    BY <1>4, LiveEpoch DEF Heartbeat
  <2> QED BY <1>1, <1>4, <2>1 DEF LeaseNext, HostCall
<1>5. \A a \in Attempts : \A r : Takes(a, r) => G
  BY TakesIsLease
<1> HIDE DEF G
<1>6. UNCHANGED leaseVars => G
  BY DEF G
<1>7. ASSUME NEW a \in Attempts, RunStep(a) PROVE G
  BY <1>5, <1>6, <1>7 DEF RunStep, Unreadable, Register, GiveUpWaiting, TakeHost, NotPrepared, NotStarted,
     Launch, Release, NotReleased, ExecutorEnds
<1>8. ASSUME NEW a \in Attempts, HandOverStep(a) PROVE G
  BY <1>5, <1>6, <1>8 DEF HandOverStep, Prepare, Delivered, Submitting, FencedOff, Salvaged, EndsHere, EndAnswered
<1>9. ASSUME NEW a \in Attempts,
             Beat(a) \/ GiveUpLease(a) \/ Unanswered(a) \/ PutOff(a) \/ LookAt(a)
      PROVE  G
  BY <1>4, <1>6, <1>9 DEF Beat, GiveUpLease, Unanswered, PutOff, LookAt
<1>10. ASSUME NEW a \in Attempts, NEW r \in Routes, Arrive(a, r) \/ Drop(a, r) PROVE G
  BY <1>4, <1>5, <1>6, <1>10 DEF Arrive, Drop
<1>11. Crash \/ UNCHANGED allVars => G
  BY <1>6 DEF Crash, allVars
<1>12. G
  BY <1>2, <1>3, <1>7, <1>8, <1>9, <1>10, <1>11 DEF HostNext
<1> QED BY <1>12 DEF G

-----------------------------------------------------------------------------
(* What the kernel does to the attempts of the daemon.                     *)

\* A row that is there stays there; what was started, computed, persisted or submitted
\* stays so, and a lease once gone stays gone.
LEMMA RowsLast ==
  ASSUME TypeOK, [LeaseNext]_leaseVars, NEW a \in Attempts, attempt[a].state # "none"
  PROVE  /\ attempt'[a].state # "none"
         /\ attempt[a].started => attempt'[a].started
         /\ attempt[a].computed => attempt'[a].computed
         /\ attempt[a].persisted => attempt'[a].persisted
         /\ attempt[a].state = "submitted" => attempt'[a].state = "submitted"
         /\ ~Fence(a, Host, EpochOf(a)) => ~Fence(a, Host, EpochOf(a))'
<1>0. attempt \in [Attempts -> AttemptRow] /\ attempt' \in [Attempts -> AttemptRow]
  BY TypeStep DEF TypeOK
<1>1. attempt'[a].state # "none" /\ attempt'[a].host = attempt[a].host /\ (Live(a)' => Live(a))
  <2>1. CASE Keeps
    BY <2>1 DEF Keeps
  <2>2. ASSUME NEW h \in Hosts, NEW t \in Tasks, Claim(h, t)
        PROVE  attempt'[a] = attempt[a]
    <3>1. PICK n \in 1..MaxAttempts : ClaimRow(h, t, n)
      BY <2>2, ClaimMakesRow
    <3> QED BY <1>0, <3>1 DEF ClaimRow, NextNo
  <2> QED BY <2>1, <2>2, ClaimOrKeeps DEF Live
<1> DEFINE Keep == /\ attempt[a].started => attempt'[a].started
                   /\ attempt[a].computed => attempt'[a].computed
                   /\ attempt[a].persisted => attempt'[a].persisted
                   /\ attempt[a].state = "submitted" => attempt'[a].state = "submitted"
                   /\ PastGrace(a) /\ Live(a) => PastGrace(a)'
<1>2. ASSUME NEW h \in Hosts, NEW t \in Tasks, Claim(h, t) PROVE Keep
  <2>1. PICK n \in 1..MaxAttempts : ClaimRow(h, t, n)
    BY <1>2, ClaimMakesRow
  <2>2. attempt'[a] = attempt[a]
    BY <1>0, <2>1 DEF ClaimRow, NextNo
  <2> QED BY <2>2 DEF PastGrace
<1>3. ASSUME NEW b \in Attempts, NEW h \in Hosts, NEW e \in 1..epochSeq, Heartbeat(b, h, e) PROVE Keep
  BY <1>0, <1>3 DEF Heartbeat, Fence, Live, LiveStates, PastGrace, AttemptRow
<1>4. ASSUME NEW b \in Attempts, NEW h \in Hosts, NEW e \in 1..epochSeq, Start(b, h, e) PROVE Keep
  BY <1>0, <1>4 DEF Start, Fence, Live, LiveStates, PastGrace, AttemptRow
<1>5. ASSUME NEW b \in Attempts, NEW h \in Hosts, NEW e \in 1..epochSeq, Computed(b, h, e) PROVE Keep
  BY <1>0, <1>5 DEF Computed, Fence, Live, LiveStates, PastGrace, AttemptRow
<1>6. ASSUME NEW b \in Attempts, NEW h \in Hosts, NEW e \in 1..epochSeq, Persist(b, h, e) PROVE Keep
  BY <1>0, <1>6 DEF Persist, Fence, Live, LiveStates, PastGrace, AttemptRow
<1>7. ASSUME NEW b \in Attempts, NEW h \in Hosts, NEW e \in 1..epochSeq, Submit(b, h, e) PROVE Keep
  BY <1>0, <1>7 DEF Submit, Fence, Live, LiveStates, PastGrace, AttemptRow
<1>8. ASSUME NEW b \in Attempts, NEW h \in Hosts, Salvage(b, h) PROVE Keep
  BY <1>0, <1>8 DEF Salvage, PastGrace, AttemptRow
<1>9. ASSUME NEW b \in Attempts, NEW h \in Hosts, Ended(b, h) PROVE Keep
  BY <1>0, <1>9 DEF Ended, Live, LiveStates, PastGrace, AttemptRow
<1>10. ASSUME NEW b \in Attempts, Sweep(b) PROVE Keep
  BY <1>0, <1>10 DEF Sweep, Sweepable, PastGrace, AttemptRow
<1>11. ASSUME UNCHANGED attempt PROVE Keep
  BY <1>11 DEF PastGrace
<1>12. ASSUME NEW S, CancelAll(S) PROVE Keep
  <2>1. \/ attempt'[a] = attempt[a]
        \/ attempt[a].state # "submitted" /\ attempt'[a] = [attempt[a] EXCEPT !.state = "cancelled"]
    BY <1>12 DEF CancelAll, Live, LiveStates
  <2> QED BY <1>0, <2>1 DEF PastGrace, AttemptRow
<1>13. ASSUME Tick PROVE Keep
  <2>1. attempt'[a] = attempt[a] \/ (~PastGrace(a) /\ attempt'[a] = [attempt[a] EXCEPT !.left = attempt[a].left - 1])
    BY <1>13 DEF Tick
  <2> QED BY <1>0, <2>1 DEF PastGrace, AttemptRow
<1> HIDE DEF Keep
<1>14. Keep
  BY <1>2, <1>3, <1>4, <1>5, <1>6, <1>7, <1>8, <1>9, <1>10, <1>11, <1>12, <1>13
     DEF LeaseNext, HostCall, ProposeTask, MoveTask, CloseOnCard, CancelAfterClose, MoveMission, leaseVars
<1>15. EpochOf(a)' = attempt'[a].epoch /\ EpochOf(a) = attempt[a].epoch
  BY DEF EpochOf
<1> QED BY <1>1, <1>14, <1>15 DEF Keep, Fence

\* What a call does: it is a step of the kernel, submits what it is for, starts what
\* it is for, and is answered, unless it is a start.
LEMMA TakesFacts ==
  ASSUME IInv, NEW a \in Attempts, NEW r \in Routes, Takes(a, r), <<a, "start">> \notin answered
  PROVE  /\ answered \subseteq answered' /\ answered' \subseteq answered \cup {<<a, r>>}
         /\ <<a, "start">> \notin answered'
         /\ r = "start" => attempt'[a].started
         /\ r # "start" => <<a, r>> \in answered'
         /\ attempt[a].state # "none" \/ <<a, r>> \in answered
         /\ \A b \in Attempts : attempt'[b].state = "submitted" =>
              attempt[b].state = "submitted" \/ (b = a /\ r = "submit")
         /\ r = "submit" => Known(a, r) \/ Fence(a, Host, EpochOf(a))
<1>1. attempt \in [Attempts -> AttemptRow]
  BY DEF IInv, TypeOK
<1>2. CASE Known(a, r) /\ UNCHANGED <<leaseVars, answered>>
  BY <1>2 DEF Known, leaseVars
<1>3. CASE r = "start" /\ UNCHANGED answered /\ Start(a, Host, EpochOf(a))
  <2>1. Fence(a, Host, EpochOf(a)) /\ attempt' = [attempt EXCEPT ![a] = [attempt[a] EXCEPT !.state = "running", !.started = TRUE]]
    BY <1>3 DEF Start
  <2>2. attempt[a].state # "none"
    BY <2>1 DEF Fence, Live, LiveStates
  <2> QED BY <1>1, <1>3, <2>1, <2>2 DEF AttemptRow
<1>4. CASE r = "start" /\ UNCHANGED answered /\ Fence(a, Host, EpochOf(a)) /\ attempt[a].started /\ UNCHANGED leaseVars
  BY <1>4 DEF leaseVars, Fence, Live, LiveStates
<1>5. ASSUME answered' = answered \cup {<<a, r>>}, r # "start",
             \/ r = "computed" /\ Computed(a, Host, EpochOf(a))
             \/ r = "persist"  /\ Persist(a, Host, EpochOf(a))
             \/ r = "submit"   /\ Submit(a, Host, EpochOf(a))
             \/ r = "salvage"  /\ Salvage(a, Host)
             \/ r = "ended"    /\ Ended(a, Host)
      PROVE  /\ attempt[a].state # "none"
             /\ \A b \in Attempts : attempt'[b].state = "submitted" =>
                  attempt[b].state = "submitted" \/ (b = a /\ r = "submit")
             /\ r = "submit" => Fence(a, Host, EpochOf(a))
  <2>1. CASE r = "computed" /\ Computed(a, Host, EpochOf(a))
    BY <1>1, <2>1 DEF Computed, Fence, Live, LiveStates, AttemptRow
  <2>2. CASE r = "persist" /\ Persist(a, Host, EpochOf(a))
    BY <1>1, <2>2 DEF Persist, Fence, Live, LiveStates, AttemptRow
  <2>3. CASE r = "submit" /\ Submit(a, Host, EpochOf(a))
    BY <1>1, <2>3 DEF Submit, Fence, Live, LiveStates, AttemptRow
  <2>4. CASE r = "salvage" /\ Salvage(a, Host)
    BY <1>1, <2>4 DEF Salvage, AttemptRow
  <2>5. CASE r = "ended" /\ Ended(a, Host)
    BY <1>1, <2>5 DEF Ended, AttemptRow
  <2> QED BY <1>5, <2>1, <2>2, <2>3, <2>4, <2>5
<1>6. CASE answered' = answered \cup {<<a, r>>} /\ ~(\E x : x = "start" /\ r = x)
           /\ \/ r = "computed" /\ Computed(a, Host, EpochOf(a))
              \/ r = "persist"  /\ Persist(a, Host, EpochOf(a))
              \/ r = "submit"   /\ Submit(a, Host, EpochOf(a))
              \/ r = "salvage"  /\ Salvage(a, Host)
              \/ r = "ended"    /\ Ended(a, Host)
  <2>1. r # "start"
    BY <1>6
  <2> QED BY <1>5, <1>6, <2>1
<1> QED BY <1>2, <1>3, <1>4, <1>6 DEF Takes

-----------------------------------------------------------------------------
(* Steps that concern one attempt.                                         *)

Procs == {"none", "held", "alive", "gone"}
StepNames == {"idle", "claimed", "waiting", "preparing", "launching", "watching", "handing"}

\* Attempt a gets a new entry, process and step; the host is taken, or left, by
\* nobody but a; the calls are its own.
Turns(a, entry, p, s) ==
  /\ journal' = [journal EXCEPT ![a] = entry]
  /\ proc' = [proc EXCEPT ![a] = p]
  /\ step' = [step EXCEPT ![a] = s]
  /\ \/ holder' = holder
     \/ holder = a /\ holder' = NoOne
     \/ holder = NoOne /\ holder' = a
  /\ lostLease' \subseteq lostLease \cup {a} /\ UNCHANGED crashes
  /\ onItsWay' \subseteq onItsWay \cup ({a} \X Routes)
  /\ answered \subseteq answered' /\ answered' \subseteq answered \cup ({a} \X Routes)

\* Such a step leaves every attempt right when it leaves a right.
LEMMA TurnFits ==
  ASSUME HostInv, [HostNext]_allVars, NEW a \in Attempts, attempt[a].state # "none",
         NEW entry \in Entry, NEW p \in Procs, NEW s \in StepNames, Turns(a, entry, p, s),
         \A b \in Attempts : b # a /\ attempt'[b].state = "submitted" => attempt[b].state = "submitted",
         step[a] = "idle" => s = "idle",
         p \in Running => p = proc[a] \/ step[a] \in OnHost,
         Place(entry, p, s),
         s = "claimed" => ~Sent(a, "submit")',
         s \in OnHost => holder' = a /\ \A b \in Attempts : b # a => proc[b] \notin Running,
         p = "alive" =>
           /\ entry.phase # "none" /\ attempt'[a].started /\ entry.group # "cleared"
           /\ \/ s = "watching" \/ entry.group = "remains"
              \/ entry.phase = "running" /\ s = "idle" /\ \A b \in Attempts : step[b] = "idle",
         Followed(a)'
  PROVE  HostInv'
<1>1. IInv /\ HostTypeOK /\ NothingBeside /\ (\A b \in Attempts : Fits(b)) /\ TypeOK
  BY DEF HostInv, IInv
<1>2. [LeaseNext]_leaseVars /\ IInv'
  BY <1>1, HostIsLease, IInvStep
<1>3. /\ journal \in [Attempts -> Entry] /\ proc \in [Attempts -> Procs] /\ step \in [Attempts -> StepNames]
      /\ lostLease \subseteq Attempts /\ holder \in Attempts \cup {NoOne}
      /\ onItsWay \subseteq Attempts \X Routes /\ answered \subseteq Attempts \X Routes
      /\ crashes \in 0..MaxCrashes
  BY <1>1 DEF HostTypeOK, Procs, StepNames
<1>4. /\ journal' \in [Attempts -> Entry] /\ proc' \in [Attempts -> Procs] /\ step' \in [Attempts -> StepNames]
      /\ journal'[a] = entry /\ proc'[a] = p /\ step'[a] = s
      /\ \A b \in Attempts : b # a => journal'[b] = journal[b] /\ proc'[b] = proc[b] /\ step'[b] = step[b]
  BY <1>3 DEF Turns
<1>5. HostTypeOK'
  <2>1. lostLease' \subseteq Attempts /\ holder' \in Attempts \cup {NoOne} /\ crashes' \in 0..MaxCrashes
    BY <1>3 DEF Turns
  <2>2. onItsWay' \subseteq Attempts \X Routes /\ answered' \subseteq Attempts \X Routes
    BY <1>3 DEF Turns
  <2>3. TypeOK'
    BY <1>2 DEF IInv
  <2> QED BY <1>4, <2>1, <2>2, <2>3 DEF HostTypeOK, Procs, StepNames
<1>6. \A b \in Attempts : b # a => \A r : /\ <<b, r>> \in onItsWay' => <<b, r>> \in onItsWay
                                          /\ <<b, r>> \in answered' <=> <<b, r>> \in answered
  BY DEF Turns
<1>7. attempt'[a].state # "none"
  BY <1>1, <1>2, RowsLast
<1>8. Fits(a)'
  <2>1. Untouched(a)'
    BY <1>7 DEF Untouched
  <2>2. Placed(a)'
    BY <1>4 DEF Placed
  <2>3. HasHost(a)'
    BY <1>4 DEF HasHost
  <2>4. Accounted(a)'
    <3>1. s = "idle" /\ (\A b \in Attempts : step[b] = "idle") => \A b \in Attempts : step'[b] = "idle"
      BY <1>4
    <3> QED BY <1>4, <3>1 DEF Accounted, Phase
  <2> QED BY <2>1, <2>2, <2>3, <2>4 DEF Fits
<1>9. ASSUME NEW b \in Attempts, b # a PROVE Fits(b)'
  <2>1. Fits(b) /\ Fits(a) /\ journal'[b] = journal[b] /\ proc'[b] = proc[b] /\ step'[b] = step[b]
    BY <1>1, <1>4, <1>9
  <2>2. \A r : Sent(b, r)' => Sent(b, r)
    BY <1>6, <1>9 DEF Sent
  <2>3. attempt[b].state # "none" =>
          /\ attempt'[b].state # "none"
          /\ attempt[b].started => attempt'[b].started
          /\ ~Fence(b, Host, EpochOf(b)) => ~Fence(b, Host, EpochOf(b))'
    BY <1>1, <1>2, RowsLast
  <2>4. Untouched(b)'
    BY <2>1, <2>2, <2>3 DEF Fits, Untouched, Phase
  <2>5. Placed(b)'
    BY <2>1, <2>2 DEF Fits, Placed
  <2>6. HasHost(b)'
    <3>1. ASSUME step[b] \in OnHost PROVE holder' = b /\ \A c \in Attempts : c # b => proc'[c] \notin Running
      <4>1. holder = b /\ \A c \in Attempts : c # b => proc[c] \notin Running
        BY <2>1, <3>1 DEF Fits, HasHost
      <4>2. holder' = b
        BY <1>9, <4>1, HostConstants DEF Turns
      <4>3. step[a] \notin OnHost
        BY <1>9, <2>1, <4>1 DEF Fits, HasHost
      <4>4. p \notin Running
        BY <1>9, <4>1, <4>3
      <4> QED BY <1>4, <4>1, <4>2, <4>4
    <3> QED BY <2>1, <3>1 DEF HasHost
  <2>7. Accounted(b)'
    <3>1. proc[b] = "alive" => attempt[b].state # "none"
      BY <2>1 DEF Fits, Untouched
    <3>2. (\A c \in Attempts : step[c] = "idle") => \A c \in Attempts : step'[c] = "idle"
      BY <1>4
    <3>3. proc[b] = "alive" => attempt'[b].started
      BY <2>1, <2>3, <3>1 DEF Fits, Accounted
    <3> QED BY <2>1, <3>2, <3>3 DEF Fits, Accounted, Phase
  <2>8. Followed(b)'
    <3>1. <<b, "submit">> \in onItsWay => attempt[b].state # "none"
      BY <2>1 DEF Fits, Untouched, Sent, Routes
    <3>2. Followed(b) /\ Phase(b)' = Phase(b)
      BY <2>1 DEF Fits, Phase
    <3>3. <<b, "submit">> \in onItsWay' =>
            Phase(b) \in Through \/ (Phase(b) = "lost" /\ ~Fence(b, Host, EpochOf(b))')
      BY <1>6, <1>9, <2>3, <3>1, <3>2 DEF Followed
    <3>4. attempt'[b].state = "submitted" => <<b, "submit">> \in answered'
      BY <1>6, <1>9, <3>2 DEF Followed
    <3> QED BY <1>6, <1>9, <3>2, <3>3, <3>4 DEF Followed
  <2> QED BY <2>4, <2>5, <2>6, <2>7, <2>8 DEF Fits
<1>10. NothingBeside'
  <2>1. ASSUME NEW b \in Attempts, b # a
        PROVE  /\ p = "alive" => proc[b] \notin Running
               /\ proc[b] = "alive" => p \notin Running
    <3>1. step[a] \in OnHost => proc[b] \notin Running
      BY <1>1, <2>1 DEF Fits, HasHost
    <3>2. p = proc[a] => /\ p = "alive" => proc[b] \notin Running
                         /\ proc[b] = "alive" => p \notin Running
      BY <1>1, <2>1 DEF NothingBeside, Running
    <3> QED BY <3>1, <3>2 DEF Running
  <2>2. ASSUME NEW b \in Attempts, NEW c \in Attempts, b # c, proc'[b] = "alive" PROVE proc'[c] \notin Running
    <3>1. CASE b = a
      <4>1. p = "alive" /\ proc'[c] = proc[c] /\ c # a
        BY <1>4, <2>2, <3>1
      <4> QED BY <2>1, <4>1
    <3>2. CASE c = a
      <4>1. proc[b] = "alive" /\ proc'[c] = p /\ b # a
        BY <1>4, <2>2, <3>2
      <4> QED BY <2>1, <4>1
    <3>3. CASE b # a /\ c # a
      BY <1>1, <1>4, <2>2, <3>3 DEF NothingBeside, Running
    <3> QED BY <3>1, <3>2, <3>3
  <2> QED BY <2>2 DEF NothingBeside, Running
<1> QED BY <1>2, <1>5, <1>8, <1>9, <1>10 DEF HostInv

\* The parts of the invariant a step of attempt a starts from.
LEMMA HostTypes ==
  ASSUME HostInv
  PROVE  /\ IInv /\ TypeOK /\ NothingBeside
         /\ journal \in [Attempts -> Entry] /\ proc \in [Attempts -> Procs] /\ step \in [Attempts -> StepNames]
         /\ lostLease \subseteq Attempts
         /\ \A a \in Attempts : /\ Fits(a) /\ journal[a] \in Entry /\ proc[a] \in Procs /\ step[a] \in StepNames
                                /\ <<a, "start">> \notin answered
                                /\ journal = [journal EXCEPT ![a] = journal[a]]
                                /\ proc = [proc EXCEPT ![a] = proc[a]]
                                /\ step = [step EXCEPT ![a] = step[a]]
<1>1. /\ IInv /\ TypeOK /\ NothingBeside /\ \A a \in Attempts : Fits(a)
      /\ journal \in [Attempts -> Entry] /\ proc \in [Attempts -> Procs] /\ step \in [Attempts -> StepNames]
      /\ lostLease \subseteq Attempts
  BY DEF HostInv, IInv, HostTypeOK, Procs, StepNames
<1>2. \A a \in Attempts : <<a, "start">> \notin answered
  BY <1>1 DEF Fits, Followed
<1> QED BY <1>1, <1>2

-----------------------------------------------------------------------------
(* The steps of Run.                                                       *)

\* Before its hand-over an attempt was not submitted.
LEMMA NotSentEarly ==
  ASSUME HostInv, NEW a \in Attempts, step[a] \notin {"idle", "handing"}
  PROVE  /\ attempt[a].state # "none" /\ attempt[a].state # "submitted" /\ ~Sent(a, "submit")
         /\ proc[a] = "held" <=> step[a] = "launching"
         /\ proc[a] = "alive" => step[a] = "watching" \/ journal[a].group = "remains"
<1>1. Fits(a) /\ step[a] \in StepNames
  BY HostTypes
<1>2. ~Sent(a, "submit")
  <2>1. step[a] = "claimed" \/ Phase(a) \in {"launching", "running"}
    BY <1>1 DEF Fits, Placed, Place, StepNames, Phase
  <2> QED BY <1>1, <2>1 DEF Fits, Placed, Followed, Sent, Through
<1> QED BY <1>1, <1>2 DEF Fits, Untouched, Followed, Sent, Placed, Place, Accounted

\* Such a step leaves the attempt right if it puts it where it belongs.
LEMMA EarlyTurn ==
  ASSUME HostInv, [HostNext]_allVars, NEW a \in Attempts, step[a] \notin {"idle", "handing"},
         NEW entry \in Entry, NEW p \in Procs, NEW s \in StepNames, Turns(a, entry, p, s),
         \A b \in Attempts : attempt'[b].state = "submitted" => attempt[b].state = "submitted",
         <<a, "submit">> \notin onItsWay' \cup answered', <<a, "start">> \notin answered',
         p \in Running => p = proc[a] \/ step[a] \in OnHost,
         Place(entry, p, s),
         s \in OnHost => holder' = a /\ \A b \in Attempts : b # a => proc[b] \notin Running,
         p = "alive" => /\ entry.phase # "none" /\ attempt'[a].started /\ entry.group # "cleared"
                        /\ s = "watching" \/ entry.group = "remains"
  PROVE  HostInv'
<1>1. attempt[a].state # "none" /\ attempt[a].state # "submitted"
  BY NotSentEarly
<1>2. Phase(a)' = entry.phase
  BY HostTypes DEF Turns, Phase
<1>3. Followed(a)'
  BY <1>1, <1>2 DEF Followed
<1>4. s = "claimed" => ~Sent(a, "submit")'
  BY DEF Sent
<1> QED BY <1>1, <1>3, <1>4, TurnFits

\* Before its executor is released an attempt ends with nothing running.
LEMMA EndsEarly ==
  ASSUME HostInv, [HostNext]_allVars, NEW a \in Attempts, step[a] \in {"waiting", "preparing", "launching"},
         NEW entry \in Entry, entry.phase \in {"lost", "exited", "ending"}, NEW p \in {"none", "gone"},
         Turns(a, entry, p, "handing"), UNCHANGED <<leaseVars, answered>>,
         onItsWay' \subseteq onItsWay \cup {<<a, "start">>}
  PROVE  HostInv'
<1>1. ~Sent(a, "submit") /\ <<a, "start">> \notin answered
  BY NotSentEarly, HostTypes
<1>2. /\ p \in Procs /\ p \notin Running /\ p # "alive" /\ "handing" \in StepNames /\ "handing" \notin OnHost
      /\ Place(entry, p, "handing")
  BY DEF Procs, Running, StepNames, OnHost, Place
<1>3. <<a, "submit">> \notin onItsWay' \cup answered' /\ <<a, "start">> \notin answered'
  BY <1>1 DEF Sent
<1>4. UNCHANGED attempt
  BY DEF leaseVars
<1> QED BY <1>2, <1>3, <1>4, EarlyTurn

\* What EndsBefore writes.
LEMMA EndsBeforeEntry ==
  ASSUME HostInv, NEW a \in Attempts, EndsBefore(a)
  PROVE  \E entry \in Entry : /\ entry.phase \in {"lost", "exited", "ending"}
                              /\ journal' = [journal EXCEPT ![a] = entry]
                              /\ step' = [step EXCEPT ![a] = "handing"]
<1>0. journal[a] \in Entry
  BY HostTypes
<1>1. PICK phase \in {"lost", "exited", "ending"} :
        journal' = [journal EXCEPT ![a] = [journal[a] EXCEPT !.phase = phase,
                      !.group = IF phase = "ending" THEN "cleared" ELSE journal[a].group]]
  BY DEF EndsBefore, Write
<1>2. PICK g : g = IF phase = "ending" THEN "cleared" ELSE journal[a].group
  OBVIOUS
<1>3. g \in {"unseen", "cleared", "remains"} /\ phase \in Phases
  BY <1>2, HostTypes DEF Entry, Phases
<1>4. [journal[a] EXCEPT !.phase = phase, !.group = g] \in Entry
      /\ [journal[a] EXCEPT !.phase = phase, !.group = g].phase = phase
  BY <1>3, <1>0 DEF Entry
<1>5. step' = [step EXCEPT ![a] = "handing"]
  BY DEF EndsBefore
<1> QED BY <1>1, <1>2, <1>4, <1>5

\* Whatever Run leaves, it leaves the host.
LEMMA LeaveTurns ==
  ASSUME NEW a \in Attempts, Leave(a)
  PROVE  /\ step' = [step EXCEPT ![a] = "idle"] /\ lostLease' \subseteq lostLease \cup {a}
         /\ holder' = holder \/ (holder = a /\ holder' = NoOne)
BY DEF Leave

\* Every step of Run keeps the invariant.
LEMMA RunStepFits ==
  ASSUME HostInv, [HostNext]_allVars, NEW a \in Attempts, RunStep(a)
  PROVE  HostInv'
<1>0. /\ journal[a] \in Entry /\ proc[a] \in Procs /\ Fits(a) /\ <<a, "start">> \notin answered
      /\ journal = [journal EXCEPT ![a] = journal[a]] /\ proc = [proc EXCEPT ![a] = proc[a]]
      /\ step = [step EXCEPT ![a] = step[a]]
  BY HostTypes
<1>1. Place(journal[a], proc[a], step[a])
  BY <1>0 DEF Fits, Placed
<1>2. step[a] \notin {"idle", "handing"} => ~Sent(a, "submit") /\ <<a, "submit">> \notin onItsWay \cup answered
  BY NotSentEarly DEF Sent
<1>3. ASSUME step[a] \in {"claimed", "preparing"}, Leave(a),
             UNCHANGED <<leaseVars, journal, proc, onItsWay, answered, crashes>>
      PROVE  HostInv'
  <2>1. Turns(a, journal[a], proc[a], "idle")
    BY <1>0, <1>3, LeaveTurns DEF Turns
  <2>2. /\ proc[a] = "none" /\ proc[a] \notin Running /\ "idle" \in StepNames /\ "idle" \notin OnHost
        /\ Place(journal[a], proc[a], "idle")
    BY <1>1, <1>3 DEF Running, StepNames, OnHost, Place
  <2>3. UNCHANGED <<attempt, onItsWay, answered>>
    BY <1>3 DEF leaseVars
  <2>4. proc[a] # "alive"
    BY <2>2
  <2> QED BY <1>0, <1>2, <1>3, <2>1, <2>2, <2>3, <2>4, EarlyTurn
<1>4. Unreadable(a) \/ NotStarted(a) => HostInv'
  BY <1>3 DEF Unreadable, NotStarted
<1>5. ASSUME Register(a) PROVE HostInv'
  <2> DEFINE entry == [NoEntry EXCEPT !.phase = "launching"]
  <2>1. entry \in Entry /\ entry.phase = "launching"
    BY DEF NoEntry, Entry, Phases
  <2>2. step[a] = "claimed" /\ journal' = [journal EXCEPT ![a] = entry] /\ step' = [step EXCEPT ![a] = "waiting"]
        /\ UNCHANGED <<leaseVars, proc, lostLease, holder, onItsWay, answered, crashes>>
    BY <1>5 DEF Register, Write
  <2> HIDE DEF entry
  <2>3. Turns(a, entry, proc[a], "waiting")
    BY <1>0, <2>2 DEF Turns
  <2>4. /\ proc[a] = "none" /\ proc[a] \notin Running /\ "waiting" \in StepNames /\ "waiting" \notin OnHost
        /\ Place(entry, proc[a], "waiting")
    BY <1>1, <2>1, <2>2 DEF Running, StepNames, OnHost, Place
  <2>5. UNCHANGED attempt /\ proc[a] # "alive"
    BY <2>2, <2>4 DEF leaseVars
  <2> QED BY <1>0, <1>2, <2>1, <2>2, <2>3, <2>4, <2>5, EarlyTurn
<1>6. ASSUME step[a] \in {"waiting", "preparing"}, EndsBefore(a),
             UNCHANGED <<leaseVars, proc, lostLease, onItsWay, answered, crashes>>,
             holder' = holder \/ (holder = NoOne /\ holder' = a)
      PROVE  HostInv'
  <2>1. PICK entry \in Entry : /\ entry.phase \in {"lost", "exited", "ending"}
                               /\ journal' = [journal EXCEPT ![a] = entry]
                               /\ step' = [step EXCEPT ![a] = "handing"]
    BY <1>6, EndsBeforeEntry
  <2>2. proc[a] = "none"
    BY <1>1, <1>6 DEF Place
  <2>3. Turns(a, entry, proc[a], "handing")
    BY <1>0, <1>6, <2>1 DEF Turns
  <2>4. UNCHANGED <<leaseVars, answered>> /\ onItsWay' \subseteq onItsWay \cup {<<a, "start">>}
    BY <1>6
  <2> QED BY <1>6, <2>1, <2>2, <2>3, <2>4, EndsEarly
<1>7. GiveUpWaiting(a) \/ NotPrepared(a) => HostInv'
  BY <1>6 DEF GiveUpWaiting, NotPrepared
<1>8. ASSUME TakeHost(a) PROVE HostInv'
  <2>1. CASE Blocked
    BY <1>6, <1>8, <2>1 DEF TakeHost
  <2>2. CASE ~Blocked
    <3>1. /\ step[a] = "waiting" /\ holder = NoOne /\ holder' = a /\ step' = [step EXCEPT ![a] = "preparing"]
          /\ UNCHANGED <<leaseVars, journal, proc, lostLease, onItsWay, answered, crashes>>
      BY <1>8, <2>2 DEF TakeHost
    <3>2. Turns(a, journal[a], proc[a], "preparing")
      BY <1>0, <3>1 DEF Turns
    <3>3. /\ proc[a] = "none" /\ proc[a] \notin Running /\ "preparing" \in StepNames
          /\ Place(journal[a], proc[a], "preparing")
      BY <1>1, <3>1 DEF Running, StepNames, Place
    <3>4. ASSUME NEW b \in Attempts, b # a PROVE proc[b] \notin Running
      <4>1. Fits(b) /\ holder # b
        BY <3>1, HostTypes, HostConstants
      <4>2. step[b] \notin OnHost
        BY <4>1 DEF Fits, HasHost
      <4>3. proc[b] # "held"
        BY <4>1, <4>2 DEF Fits, Placed, Place, OnHost
      <4>4. journal[b].group # "remains"
        BY <2>2 DEF Blocked
      <4>5. step[a] # "idle" /\ step[b] # "watching"
        BY <3>1, <4>2 DEF OnHost
      <4>6. proc[b] # "alive"
        BY <4>1, <4>4, <4>5 DEF Fits, Accounted
      <4> QED BY <4>3, <4>6 DEF Running
    <3>5. UNCHANGED attempt /\ proc[a] # "alive"
      BY <3>1, <3>3 DEF leaseVars
    <3> QED BY <1>0, <1>2, <3>1, <3>2, <3>3, <3>4, <3>5, EarlyTurn
  <2> QED BY <2>1, <2>2
<1>9. ASSUME Launch(a) PROVE HostInv'
  <2> DEFINE entry == [journal[a] EXCEPT !.phase = "running", !.group = "unseen"]
  <2>1. entry \in Entry /\ entry.phase = "running" /\ entry.group = "unseen"
    <3>1. "running" \in Phases /\ "unseen" \in {"unseen", "cleared", "remains"}
      BY DEF Phases
    <3> QED BY <1>0, <3>1 DEF Entry
  <2>2. /\ step[a] = "preparing" /\ journal' = [journal EXCEPT ![a] = entry]
        /\ proc' = [proc EXCEPT ![a] = "held"] /\ step' = [step EXCEPT ![a] = "launching"]
        /\ UNCHANGED <<leaseVars, lostLease, holder, onItsWay, answered, crashes>>
    BY <1>9 DEF Launch, Write
  <2> HIDE DEF entry
  <2>3. Turns(a, entry, "held", "launching")
    BY <2>2 DEF Turns
  <2>4. /\ "held" \in Procs /\ "launching" \in StepNames /\ step[a] \in OnHost /\ Place(entry, "held", "launching")
    BY <2>1, <2>2 DEF Procs, StepNames, OnHost, Place
  <2>5. holder' = a /\ \A b \in Attempts : b # a => proc[b] \notin Running
    BY <1>0, <2>2, <2>4 DEF Fits, HasHost
  <2>6. UNCHANGED attempt
    BY <2>2 DEF leaseVars
  <2> QED BY <1>0, <1>2, <2>1, <2>2, <2>3, <2>4, <2>5, <2>6, EarlyTurn
<1>10. ASSUME Release(a) PROVE HostInv'
  <2>1. /\ step[a] = "launching" /\ Takes(a, "start")
        /\ proc' = [proc EXCEPT ![a] = "alive"] /\ step' = [step EXCEPT ![a] = "watching"]
        /\ UNCHANGED <<journal, lostLease, holder, onItsWay, crashes>>
    BY <1>10 DEF Release
  <2>2. /\ answered \subseteq answered' /\ answered' \subseteq answered \cup {<<a, "start">>}
        /\ <<a, "start">> \notin answered' /\ attempt'[a].started
        /\ \A b \in Attempts : attempt'[b].state = "submitted" => attempt[b].state = "submitted"
    BY <1>0, <2>1, TakesFacts, HostTypes DEF Routes
  <2>3. Turns(a, journal[a], "alive", "watching")
    BY <1>0, <2>1, <2>2 DEF Turns, Routes
  <2>4. /\ "alive" \in Procs /\ "watching" \in StepNames /\ step[a] \in OnHost
        /\ journal[a].phase = "running" /\ journal[a].group = "unseen" /\ Place(journal[a], "alive", "watching")
    BY <1>1, <2>1 DEF Procs, StepNames, OnHost, Place
  <2>5. holder' = a /\ \A b \in Attempts : b # a => proc[b] \notin Running
    BY <1>0, <2>1, <2>4 DEF Fits, HasHost
  <2>6. <<a, "submit">> \notin onItsWay' \cup answered'
    BY <1>2, <2>1, <2>2
  <2> QED BY <1>0, <2>1, <2>2, <2>3, <2>4, <2>5, <2>6, EarlyTurn
<1>11. ASSUME NotReleased(a) PROVE HostInv'
  <2>1. /\ step[a] = "launching" /\ proc' = [proc EXCEPT ![a] = "gone"]
        /\ UNCHANGED <<leaseVars, lostLease, holder, answered, crashes>>
        /\ onItsWay' \subseteq onItsWay \cup {<<a, "start">>}
    BY <1>11 DEF NotReleased, OnItsWay
  <2>2. PICK entry \in Entry : /\ entry.phase \in {"lost", "exited", "ending"}
                               /\ journal' = [journal EXCEPT ![a] = entry]
                               /\ step' = [step EXCEPT ![a] = "handing"]
    <3>1. CASE EndsBefore(a)
      BY <3>1, EndsBeforeEntry
    <3>2. CASE Write(a, To(a, "lost")) /\ step' = [step EXCEPT ![a] = "handing"]
      <4>1. To(a, "lost") \in Entry /\ To(a, "lost").phase = "lost"
        <5>1. "lost" \in Phases /\ "unseen" \in {"unseen", "cleared", "remains"}
          BY DEF Phases
        <5> QED BY <1>0, <5>1 DEF To, Entry
      <4> QED BY <3>2, <4>1 DEF Write
    <3> QED BY <1>11, <3>1, <3>2 DEF NotReleased
  <2>3. Turns(a, entry, "gone", "handing")
    BY <2>1, <2>2 DEF Turns, Routes
  <2>4. UNCHANGED <<leaseVars, answered>>
    BY <2>1
  <2> QED BY <2>1, <2>2, <2>3, <2>4, EndsEarly
<1>12. ASSUME ExecutorEnds(a) PROVE HostInv'
  <2>1. PICK g \in {"cleared", "remains"} :
          /\ Clear(a, g)
          /\ Write(a, [journal[a] EXCEPT !.group = g, !.phase = IF a \in lostLease THEN "lost" ELSE "exited"])
    BY <1>12 DEF ExecutorEnds
  <2>2. PICK phase \in {"lost", "exited"} : phase = IF a \in lostLease THEN "lost" ELSE "exited"
    OBVIOUS
  <2> DEFINE entry == [journal[a] EXCEPT !.phase = phase, !.group = g]
  <2>3. entry \in Entry /\ entry.phase = phase /\ entry.group = g
    <3>1. phase \in Phases /\ g \in {"unseen", "cleared", "remains"}
      BY DEF Phases
    <3> QED BY <1>0, <3>1 DEF Entry
  <2>4. /\ step[a] = "watching" /\ journal' = [journal EXCEPT ![a] = entry] /\ step' = [step EXCEPT ![a] = "handing"]
        /\ UNCHANGED <<leaseVars, lostLease, holder, onItsWay, answered, crashes>>
    BY <1>0, <1>12, <2>1, <2>2 DEF ExecutorEnds, Write, Entry
  <2> HIDE DEF entry
  <2>5. PICK p \in Procs : /\ proc' = [proc EXCEPT ![a] = p]
                           /\ p \in {"none", "gone"} \/ (p = "alive" /\ proc[a] = "alive" /\ g = "remains")
    BY <1>0, <2>1 DEF Clear, Procs
  <2>6. Turns(a, entry, p, "handing")
    BY <2>4, <2>5 DEF Turns
  <2>7. /\ "handing" \in StepNames /\ "handing" \notin OnHost /\ step[a] \in OnHost
        /\ entry.phase # "none" /\ Place(entry, p, "handing")
    BY <2>2, <2>3, <2>4, <2>5 DEF StepNames, OnHost, Place
  <2>8. UNCHANGED attempt
    BY <2>4 DEF leaseVars
  <2>9. p = "alive" => attempt[a].started /\ entry.group = "remains"
    BY <1>0, <2>3, <2>5 DEF Fits, Accounted
  <2>10. p = "alive" => proc[a] = "alive"
    BY <2>5
  <2>11. p \in Running => p = proc[a] \/ step[a] \in OnHost
    BY <2>7
  <2>12. /\ step[a] \notin {"idle", "handing"}
         /\ <<a, "submit">> \notin onItsWay' \cup answered' /\ <<a, "start">> \notin answered'
    BY <1>0, <1>2, <2>4
  <2>13. p = "alive" => /\ entry.phase # "none" /\ attempt'[a].started /\ entry.group # "cleared"
                        /\ "handing" = "watching" \/ entry.group = "remains"
    BY <2>7, <2>8, <2>9
  <2> QED BY <2>3, <2>6, <2>7, <2>8, <2>11, <2>12, <2>13, EarlyTurn
<1> HIDE DEF HostInv
<1> QED BY <1>4, <1>5, <1>7, <1>8, <1>9, <1>10, <1>11, <1>12 DEF RunStep

-----------------------------------------------------------------------------
(* The steps of the hand-over.                                             *)

\* What is handed over was launched, or never will be: no launcher is held back for
\* it, and what still runs of it is known to remain.
LEMMA HandingFacts ==
  ASSUME HostInv, NEW a \in Attempts, Handing(a)
  PROVE  /\ step[a] \in {"idle", "handing"} /\ attempt[a].state # "none"
         /\ Phase(a) \notin {"none", "launching", "running"}
         /\ proc[a] # "held"
         /\ proc[a] = "alive" => journal[a].group = "remains"
<1>1. Fits(a) /\ step[a] \in {"idle", "handing"}
  BY HostTypes DEF Handing, Recovering, Left
<1>2. Phase(a) \notin {"none", "launching", "running"}
  <2>1. CASE step[a] = "handing"
    BY <1>1, <2>1 DEF Fits, Placed, Place, Phase
  <2>2. CASE Recovering(a)
    BY <2>2 DEF Recovering, LookedThrough, Left
  <2> QED BY <2>1, <2>2 DEF Handing
<1>3. attempt[a].state # "none"
  BY <1>1, <1>2 DEF Fits, Untouched
<1>4. proc[a] # "held" /\ step[a] # "watching"
  BY <1>1 DEF Fits, Placed, Place
<1>5. proc[a] = "alive" => journal[a].group = "remains"
  BY <1>1, <1>2, <1>4 DEF Fits, Accounted
<1> QED BY <1>1, <1>2, <1>3, <1>4, <1>5

\* Such a step ends the attempt's group or leaves it as it was.
LEMMA HandTurn ==
  ASSUME HostInv, [HostNext]_allVars, NEW a \in Attempts, step[a] \in {"idle", "handing"},
         attempt[a].state # "none", NEW entry \in Entry, NEW p \in Procs, NEW s \in {"idle", "handing"},
         s = step[a] \/ s = "idle", Turns(a, entry, p, s),
         \A b \in Attempts : b # a /\ attempt'[b].state = "submitted" => attempt[b].state = "submitted",
         p # "held",
         s = "handing" => entry.phase \notin {"none", "launching", "running"},
         p = "alive" => proc[a] = "alive" /\ entry.group = "remains" /\ entry.phase # "none",
         Followed(a)'
  PROVE  HostInv'
<1>1. /\ s \in StepNames /\ s # "claimed" /\ s \notin OnHost /\ (step[a] = "idle" => s = "idle")
      /\ Place(entry, p, s)
  BY DEF StepNames, OnHost, Place
<1>2. p \in Running => p = proc[a]
  BY DEF Running
<1>3. ASSUME p = "alive" PROVE attempt'[a].started
  <2>1. attempt[a].started
    BY <1>3, HostTypes DEF Fits, Accounted
  <2>2. [LeaseNext]_leaseVars
    BY HostTypes, HostIsLease
  <2> QED BY <2>1, <2>2, RowsLast, HostTypes
<1> QED BY <1>1, <1>2, <1>3, TurnFits

\* What Clear makes of the group.
LEMMA ClearTurns ==
  ASSUME HostInv, NEW a \in Attempts, NEW g, Clear(a, g)
  PROVE  \E p \in Procs : /\ proc' = [proc EXCEPT ![a] = p] /\ p # "held" /\ g \in {"cleared", "remains"}
                          /\ p = "alive" => proc[a] = "alive" /\ g = "remains"
<1>1. proc[a] \in Procs /\ proc = [proc EXCEPT ![a] = proc[a]]
  BY HostTypes
<1>2. CASE g = "cleared" /\ proc' = [proc EXCEPT ![a] = IF proc[a] = "none" THEN "none" ELSE "gone"]
  <2>1. PICK p \in {"none", "gone"} : p = IF proc[a] = "none" THEN "none" ELSE "gone"
    OBVIOUS
  <2>2. p \in Procs /\ p # "held" /\ p # "alive"
    BY DEF Procs
  <2> QED BY <1>2, <2>1, <2>2
<1>3. CASE g = "remains" /\ proc[a] = "alive" /\ UNCHANGED proc
  <2>1. proc[a] # "held" /\ proc' = [proc EXCEPT ![a] = proc[a]]
    BY <1>1, <1>3
  <2> QED BY <1>1, <1>3, <2>1
<1> QED BY <1>2, <1>3 DEF Clear

\* What ending the group of a handed-over attempt makes of it, where nothing is done
\* about one that was ended.
LEMMA EndGroupTurns ==
  ASSUME HostInv, NEW a \in Attempts, Handing(a), NEW g \in {"cleared", "remains"},
         IF journal[a].group = "cleared" THEN g = "cleared" /\ UNCHANGED proc ELSE Clear(a, g)
  PROVE  \E p \in Procs : /\ proc' = [proc EXCEPT ![a] = p] /\ p # "held"
                          /\ p = "alive" => proc[a] = "alive" /\ g = "remains"
<1>1. CASE journal[a].group = "cleared"
  <2>1. proc[a] \in Procs /\ proc[a] # "held" /\ proc[a] # "alive" /\ proc' = [proc EXCEPT ![a] = proc[a]]
    BY <1>1, HostTypes, HandingFacts
  <2> QED BY <2>1
<1>2. CASE journal[a].group # "cleared"
  BY <1>2, ClearTurns
<1> QED BY <1>1, <1>2

\* A step that hands over, when no call of it is answered by it, leaves the attempt right
\* if its new phase fits the calls sent.
LEMMA StillFollowed ==
  ASSUME HostInv, [HostNext]_allVars, NEW a \in Attempts, attempt[a].state # "none",
         <<a, "submit">> \in onItsWay' => <<a, "submit">> \in onItsWay,
         answered \subseteq answered', <<a, "start">> \notin answered',
         attempt'[a].state = "submitted" => attempt[a].state = "submitted" \/ <<a, "submit">> \in answered',
         <<a, "submit">> \in answered' => Phase(a)' \in Through,
         <<a, "submit">> \in onItsWay => \/ Phase(a)' \in Through
                                         \/ Phase(a)' = "lost" /\ ~Fence(a, Host, EpochOf(a))
                                         \/ Phase(a)' = "lost" /\ Phase(a) \notin Through \cup {"lost"}
  PROVE  Followed(a)'
<1>1. Followed(a)
  BY HostTypes DEF Fits
<1>2. ~Fence(a, Host, EpochOf(a)) => ~Fence(a, Host, EpochOf(a))'
  <2>1. [LeaseNext]_leaseVars
    BY HostTypes, HostIsLease
  <2> QED BY <2>1, RowsLast, HostTypes
<1>3. <<a, "submit">> \in onItsWay' => Phase(a)' \in Through \/ (Phase(a)' = "lost" /\ ~Fence(a, Host, EpochOf(a))')
  BY <1>1, <1>2 DEF Followed
<1>4. attempt'[a].state = "submitted" => <<a, "submit">> \in answered'
  BY <1>1 DEF Followed
<1> QED BY <1>3, <1>4 DEF Followed

\* A step of the hand-over writes an entry; a call is answered by it; the entry fits the calls
\* sent.
Writes(a, entry) ==
  /\ journal' = [journal EXCEPT ![a] = entry]
  /\ \E p \in Procs : /\ proc' = [proc EXCEPT ![a] = p] /\ p # "held"
                      /\ p = "alive" => proc[a] = "alive" /\ entry.group = "remains"
  /\ \/ UNCHANGED memory /\ entry.phase \notin {"launching", "running", "none"}
     \/ Leave(a) /\ (entry.group = "cleared" \/ entry.phase # "none")
  /\ UNCHANGED <<onItsWay, crashes>>
Answers(a, r) ==
  /\ answered \subseteq answered' /\ answered' \subseteq answered \cup {<<a, r>>}
  /\ <<a, "start">> \notin answered'
  /\ \A b \in Attempts : attempt'[b].state = "submitted" =>
       attempt[b].state = "submitted" \/ (b = a /\ <<a, "submit">> \in answered')
Suits(a, entry) ==
  /\ <<a, "submit">> \in answered' => entry.phase \in Through
  /\ <<a, "submit">> \in onItsWay => \/ entry.phase \in Through
                                     \/ entry.phase = "lost" /\ ~Fence(a, Host, EpochOf(a))
                                     \/ entry.phase = "lost" /\ Phase(a) \notin Through \cup {"lost"}

\* Such a step keeps the invariant.
LEMMA HandOverTurn ==
  ASSUME HostInv, [HostNext]_allVars, NEW a \in Attempts, Handing(a), NEW entry \in Entry,
         NEW r \in Routes, Writes(a, entry), Answers(a, r), Suits(a, entry)
  PROVE  HostInv'
<1>h. /\ journal' = [journal EXCEPT ![a] = entry]
      /\ \E p \in Procs : /\ proc' = [proc EXCEPT ![a] = p] /\ p # "held"
                          /\ p = "alive" => proc[a] = "alive" /\ entry.group = "remains"
      /\ \/ UNCHANGED memory /\ entry.phase \notin {"launching", "running", "none"}
         \/ Leave(a) /\ (entry.group = "cleared" \/ entry.phase # "none")
      /\ UNCHANGED <<onItsWay, crashes>>
      /\ answered \subseteq answered' /\ answered' \subseteq answered \cup {<<a, r>>}
      /\ \A b \in Attempts : attempt'[b].state = "submitted" =>
           attempt[b].state = "submitted" \/ (b = a /\ <<a, "submit">> \in answered')
  BY DEF Writes, Answers, Suits
<1>1. /\ step[a] \in {"idle", "handing"} /\ attempt[a].state # "none"
      /\ step = [step EXCEPT ![a] = step[a]]
      /\ journal \in [Attempts -> Entry]
  BY HandingFacts, HostTypes
<1>2. Phase(a)' = entry.phase
  BY <1>h, <1>1 DEF Phase
<1>3. Followed(a)'
  BY <1>1, <1>2, StillFollowed DEF Writes, Answers, Suits
<1>4. PICK p \in Procs : /\ proc' = [proc EXCEPT ![a] = p] /\ p # "held"
                         /\ p = "alive" => proc[a] = "alive" /\ entry.group = "remains"
  BY <1>h
<1>5. answered' \subseteq answered \cup ({a} \X Routes)
  BY <1>h
<1>6. CASE UNCHANGED memory /\ entry.phase \notin {"launching", "running", "none"}
  <2>1. Turns(a, entry, p, step[a])
    BY <1>h, <1>1, <1>4, <1>5, <1>6 DEF Turns, memory
  <2> QED BY <1>h, <1>1, <1>3, <1>4, <1>6, <2>1, HandTurn
<1>7. CASE Leave(a) /\ (entry.group = "cleared" \/ entry.phase # "none")
  <2>1. Turns(a, entry, p, "idle")
    BY <1>h, <1>4, <1>5, <1>7, LeaveTurns DEF Turns
  <2>2. p = "alive" => proc[a] = "alive" /\ entry.group = "remains" /\ entry.phase # "none"
    BY <1>4, <1>7
  <2> QED BY <1>h, <1>1, <1>3, <1>4, <2>1, <2>2, HandTurn
<1> QED BY <1>h, <1>6, <1>7

\* A step that only writes the next phase.
Journals(a, entry) ==
  /\ journal' = [journal EXCEPT ![a] = entry]
  /\ entry.group = journal[a].group /\ entry.phase \notin {"none", "launching", "running"}
  /\ UNCHANGED <<leaseVars, proc, memory, onItsWay, answered, crashes>>
  /\ Phase(a) \in Through => \/ entry.phase \in Through
                             \/ /\ entry.phase = "lost"
                                /\ <<a, "submit">> \notin answered /\ ~Fence(a, Host, EpochOf(a))
  /\ Phase(a) = "lost" => entry.phase = "lost"

\* It keeps the invariant.
LEMMA JournalTurn ==
  ASSUME HostInv, [HostNext]_allVars, NEW a \in Attempts, Handing(a), NEW entry \in Entry, Journals(a, entry)
  PROVE  HostInv'
<1>1. /\ Fits(a) /\ proc[a] \in Procs /\ <<a, "start">> \notin answered
      /\ proc = [proc EXCEPT ![a] = proc[a]] /\ proc[a] # "held"
      /\ proc[a] = "alive" => journal[a].group = "remains"
  BY HandingFacts, HostTypes
<1>2. \E p \in Procs : /\ proc' = [proc EXCEPT ![a] = p] /\ p # "held"
                       /\ p = "alive" => proc[a] = "alive" /\ entry.group = "remains"
  BY <1>1 DEF Journals
<1>3. Followed(a) /\ UNCHANGED attempt /\ answered' = answered
  BY <1>1 DEF Fits, leaseVars, Journals
<1>4. \A b \in Attempts : attempt'[b].state = "submitted" => attempt[b].state = "submitted"
  BY <1>3
<1>5. <<a, "submit">> \in answered' => entry.phase \in Through
  BY <1>3 DEF Followed, Journals
<1>6. ASSUME <<a, "submit">> \in onItsWay, entry.phase \notin Through
      PROVE  entry.phase = "lost" /\ ~Fence(a, Host, EpochOf(a))
  <2>1. CASE Phase(a) \in Through
    BY <1>6, <2>1 DEF Journals
  <2>2. CASE Phase(a) = "lost" /\ ~Fence(a, Host, EpochOf(a))
    BY <2>2 DEF Journals
  <2> QED BY <1>3, <1>6, <2>1, <2>2 DEF Followed
<1>7. "ended" \in Routes /\ answered' \subseteq answered \cup {<<a, "ended">>}
  BY <1>3 DEF Routes
<1>8. Writes(a, entry)
  BY <1>2 DEF Journals, Writes
<1>9. Answers(a, "ended")
  BY <1>1, <1>3, <1>4 DEF Answers
<1>10. Suits(a, entry)
  BY <1>5, <1>6 DEF Journals, Suits
<1> QED BY <1>7, <1>8, <1>9, <1>10, HandOverTurn

\* Every step of the hand-over keeps the invariant.
LEMMA HandOverFits ==
  ASSUME HostInv, [HostNext]_allVars, NEW a \in Attempts, HandOverStep(a)
  PROVE  HostInv'
<1>0. /\ Handing(a)
      /\ journal[a] \in Entry /\ Fits(a) /\ Followed(a) /\ <<a, "start">> \notin answered /\ IInv
  BY HostTypes DEF HandOverStep, Prepare, Delivered, Submitting, FencedOff, Salvaged, EndsHere, EndAnswered, Sends, Fits
<1>ty. Phase(a) = journal[a].phase /\ Phase(a) \in Phases /\ Phase(a) \notin {"none", "launching", "running"}
  BY <1>0, HandingFacts DEF Phase, Entry
<1>1. ASSUME Prepare(a) PROVE HostInv'
  <2>1. PICK entry : entry = [journal[a] EXCEPT !.prepared = TRUE]
    OBVIOUS
  <2>2. entry \in Entry /\ entry.phase = Phase(a) /\ entry.group = journal[a].group
    BY <1>0, <2>1 DEF Entry, Phase
  <2>3. /\ journal' = [journal EXCEPT ![a] = entry] /\ Phase(a) \in {"computed", "lost"}
        /\ UNCHANGED <<leaseVars, proc, memory, onItsWay, answered, crashes>>
    BY <1>1, <2>1 DEF Prepare, Write
  <2>4. /\ entry.phase \notin {"none", "launching", "running"}
        /\ Phase(a) \in Through => entry.phase \in Through
        /\ Phase(a) = "lost" => entry.phase = "lost"
    BY <2>2, <2>3
  <2>5. Journals(a, entry)
    BY <2>2, <2>3, <2>4 DEF Journals
  <2> QED BY <1>0, <2>2, <2>5, JournalTurn
<1>2. ASSUME Submitting(a) PROVE HostInv'
  <2>1. PICK entry : entry = [journal[a] EXCEPT !.phase = "submitting"]
    OBVIOUS
  <2>2. entry \in Entry /\ entry.phase = "submitting" /\ entry.group = journal[a].group
    BY <1>0, <2>1 DEF Entry, Phases
  <2>3. /\ journal' = [journal EXCEPT ![a] = entry] /\ Phase(a) = "persisted"
        /\ UNCHANGED <<leaseVars, proc, memory, onItsWay, answered, crashes>>
    BY <1>2, <2>1 DEF Submitting, Write, To
  <2>4. /\ entry.phase \notin {"none", "launching", "running"}
        /\ entry.phase \in Through /\ Phase(a) # "lost"
    BY <2>2, <2>3 DEF Through
  <2>5. Journals(a, entry)
    BY <2>2, <2>3, <2>4 DEF Journals
  <2> QED BY <1>0, <2>2, <2>5, JournalTurn
<1>3. ASSUME FencedOff(a) PROVE HostInv'
  <2>1. PICK entry : entry = [journal[a] EXCEPT !.phase = "lost"]
    OBVIOUS
  <2>2. entry \in Entry /\ entry.phase = "lost" /\ entry.group = journal[a].group
    BY <1>0, <2>1 DEF Entry, Phases
  <2>3. /\ journal' = [journal EXCEPT ![a] = entry] /\ Phase(a) \in Delivery /\ LeaseGone(a)
        /\ UNCHANGED <<leaseVars, proc, memory, onItsWay, answered, crashes>>
    BY <1>3, <2>1 DEF FencedOff, Write, To
  <2>4. Phase(a) \in Through => <<a, "submit">> \notin answered /\ ~Fence(a, Host, EpochOf(a))
    BY <2>3 DEF Delivery, Through, LeaseGone, Fenced409, Known, NextCall
  <2>5. Journals(a, entry)
    BY <2>2, <2>3, <2>4 DEF Journals
  <2> QED BY <1>0, <2>2, <2>5, JournalTurn
<1>4. ASSUME Delivered(a) PROVE HostInv'
  <2>1. PICK r : r = NextCall(a)
    OBVIOUS
  <2>2. PICK next : next = CASE Phase(a) = "exited"   -> "computed"
                             [] Phase(a) = "computed" -> "persisted"
                             [] OTHER                 -> "submitted"
    OBVIOUS
  <2>3. \/ Phase(a) = "exited" /\ r = "computed" /\ next = "computed"
        \/ Phase(a) = "computed" /\ r = "persist" /\ next = "persisted"
        \/ Phase(a) = "submitting" /\ r = "submit" /\ next = "submitted"
    BY <1>4, <2>1, <2>2 DEF Delivered, NextCall
  <2>4. PICK entry : entry = [journal[a] EXCEPT !.phase = next]
    OBVIOUS
  <2>5. entry \in Entry /\ entry.phase = next /\ entry.group = journal[a].group
    BY <1>0, <2>3, <2>4 DEF Entry, Phases
  <2>6. /\ Takes(a, r) /\ journal' = [journal EXCEPT ![a] = entry]
        /\ UNCHANGED <<proc, memory, onItsWay, crashes>>
    BY <1>4, <2>1, <2>2, <2>4 DEF Delivered, Write, To
  <2>7. r \in Routes /\ r # "start"
    BY <2>3 DEF Routes
  <2>8. /\ answered \subseteq answered' /\ answered' \subseteq answered \cup {<<a, r>>}
        /\ <<a, "start">> \notin answered' /\ <<a, r>> \in answered'
        /\ \A b \in Attempts : attempt'[b].state = "submitted" =>
             attempt[b].state = "submitted" \/ (b = a /\ r = "submit")
    BY <1>0, <2>6, <2>7, TakesFacts
  <2>9. \E p \in Procs : /\ proc' = [proc EXCEPT ![a] = p] /\ p # "held"
                         /\ p = "alive" => proc[a] = "alive" /\ entry.group = "remains"
    BY <1>0, <2>5, <2>6, HandingFacts, HostTypes
  <2>10. <<a, "submit">> \in answered' \/ <<a, "submit">> \in onItsWay => entry.phase \in Through
    <3>1. CASE r = "submit"
      BY <2>3, <2>5, <3>1 DEF Through
    <3>2. CASE r # "submit"
      <4>1. Phase(a) \notin Through /\ Phase(a) # "lost"
        BY <2>3, <3>2 DEF Through
      <4> QED BY <1>0, <2>8, <3>2, <4>1 DEF Followed
    <3> QED BY <3>1, <3>2
  <2>11. entry.phase \notin {"none", "launching", "running"}
    BY <2>3, <2>5
  <2>12. Writes(a, entry)
    BY <2>6, <2>9, <2>11 DEF Writes
  <2>13. Answers(a, r)
    BY <2>8 DEF Answers
  <2>14. Suits(a, entry)
    BY <2>6, <2>10, <2>11 DEF Suits
  <2> QED BY <1>0, <2>5, <2>7, <2>12, <2>13, <2>14, HandOverTurn
<1>5. ASSUME NEW g \in {"cleared", "remains"},
             IF journal[a].group = "cleared" THEN g = "cleared" /\ UNCHANGED proc ELSE Clear(a, g),
             Write(a, [journal[a] EXCEPT !.phase = "ending", !.group = g]),
             UNCHANGED <<memory, onItsWay, crashes>>,
             \/ UNCHANGED <<leaseVars, answered>>
             \/ Takes(a, "salvage")
      PROVE  HostInv'
  <2>1. PICK entry : entry = [journal[a] EXCEPT !.phase = "ending", !.group = g]
    OBVIOUS
  <2>2. entry \in Entry /\ entry.phase = "ending" /\ entry.group = g
    BY <1>0, <2>1 DEF Entry, Phases
  <2>3. journal' = [journal EXCEPT ![a] = entry]
    BY <1>5, <2>1 DEF Write
  <2>4. \E p \in Procs : /\ proc' = [proc EXCEPT ![a] = p] /\ p # "held"
                         /\ p = "alive" => proc[a] = "alive" /\ entry.group = "remains"
    BY <1>0, <1>5, <2>2, EndGroupTurns
  <2>5. "salvage" \in Routes /\ entry.phase \in Through /\ entry.phase \notin {"none", "launching", "running"}
    BY <2>2 DEF Routes, Through
  <2>6. /\ answered \subseteq answered' /\ answered' \subseteq answered \cup {<<a, "salvage">>}
        /\ <<a, "start">> \notin answered'
        /\ \A b \in Attempts : attempt'[b].state = "submitted" => attempt[b].state = "submitted"
    <3>1. CASE UNCHANGED <<leaseVars, answered>>
      BY <1>0, <3>1 DEF leaseVars
    <3>2. CASE Takes(a, "salvage")
      <4>1. PICK r \in Routes : r = "salvage"
        BY <2>5
      <4>2. Takes(a, r) /\ r # "start" /\ r # "submit"
        BY <3>2, <4>1
      <4>3. r \in Routes /\ IInv /\ <<a, "start">> \notin answered
        BY <1>0, <4>1
      <4>4. /\ answered \subseteq answered' /\ answered' \subseteq answered \cup {<<a, r>>}
            /\ <<a, "start">> \notin answered'
        BY <4>2, <4>3, TakesFacts
      <4>5. \A b \in Attempts : attempt'[b].state = "submitted" => attempt[b].state = "submitted"
        BY <4>2, <4>3, TakesFacts
      <4> QED BY <4>1, <4>4, <4>5
    <3> QED BY <1>5, <3>1, <3>2
  <2>7. UNCHANGED memory /\ UNCHANGED <<onItsWay, crashes>>
    BY <1>5
  <2>8. Writes(a, entry)
    BY <2>3, <2>4, <2>5, <2>7 DEF Writes
  <2>9. Answers(a, "salvage")
    BY <2>6 DEF Answers
  <2>10. Suits(a, entry)
    BY <2>5 DEF Suits
  <2> QED BY <1>0, <2>2, <2>5, <2>8, <2>9, <2>10, HandOverTurn
<1>6. Salvaged(a) \/ EndsHere(a) => HostInv'
  BY <1>5 DEF Salvaged, EndsHere, BeginEnd
<1>7. ASSUME EndAnswered(a) PROVE HostInv'
  <2>1. PICK g \in {"cleared", "remains"} :
          /\ IF journal[a].group = "cleared" THEN g = "cleared" /\ UNCHANGED proc ELSE Clear(a, g)
          /\ Write(a, Settled(a, g))
    BY <1>7 DEF EndAnswered
  <2>2. /\ Takes(a, "ended") \/ UNCHANGED <<leaseVars, answered>>
        /\ Leave(a) /\ UNCHANGED <<onItsWay, crashes>>
    BY <1>7 DEF EndAnswered
  <2>3. PICK entry : entry = Settled(a, g)
    OBVIOUS
  <2>4. /\ entry \in Entry /\ entry.phase \in {"none", "uncleared"} /\ entry.group = g
        /\ entry.phase = "none" => g = "cleared"
    BY <1>0, <2>3 DEF Settled, NoEntry, Entry, Phases
  <2>5. journal' = [journal EXCEPT ![a] = entry]
    BY <2>1, <2>3 DEF Write
  <2>6. \E p \in Procs : /\ proc' = [proc EXCEPT ![a] = p] /\ p # "held"
                         /\ p = "alive" => proc[a] = "alive" /\ entry.group = "remains"
    BY <1>0, <2>1, <2>4, EndGroupTurns
  <2>7. "ended" \in Routes /\ entry.phase \in Through
    BY <2>4 DEF Routes, Through
  <2>8. /\ answered \subseteq answered' /\ answered' \subseteq answered \cup {<<a, "ended">>}
        /\ <<a, "start">> \notin answered'
        /\ \A b \in Attempts : attempt'[b].state = "submitted" => attempt[b].state = "submitted"
    <3>1. CASE UNCHANGED <<leaseVars, answered>>
      BY <1>0, <3>1 DEF leaseVars
    <3>2. CASE Takes(a, "ended")
      <4>1. PICK r \in Routes : r = "ended"
        BY <2>7
      <4>2. Takes(a, r) /\ r # "start" /\ r # "submit"
        BY <3>2, <4>1
      <4>3. r \in Routes /\ IInv /\ <<a, "start">> \notin answered
        BY <1>0, <4>1
      <4>4. /\ answered \subseteq answered' /\ answered' \subseteq answered \cup {<<a, r>>}
            /\ <<a, "start">> \notin answered'
        BY <4>2, <4>3, TakesFacts
      <4>5. \A b \in Attempts : attempt'[b].state = "submitted" => attempt[b].state = "submitted"
        BY <4>2, <4>3, TakesFacts
      <4> QED BY <4>1, <4>4, <4>5
    <3> QED BY <2>2, <3>1, <3>2
  <2>9. Writes(a, entry)
    BY <2>2, <2>4, <2>5, <2>6 DEF Writes
  <2>10. Answers(a, "ended")
    BY <2>8 DEF Answers
  <2>11. Suits(a, entry)
    BY <2>7 DEF Suits
  <2> QED BY <1>0, <2>4, <2>7, <2>9, <2>10, <2>11, HandOverTurn
<1> HIDE DEF HostInv
<1> QED BY <1>1, <1>2, <1>3, <1>4, <1>6, <1>7 DEF HandOverStep

-----------------------------------------------------------------------------
(* Calls on their way, the lease, and what a crash left.                   *)

\* A step that leaves the entry and the group alone, and may leave the Run.
LEMMA CallTurn ==
  ASSUME HostInv, [HostNext]_allVars, NEW a \in Attempts, attempt[a].state # "none",
         NEW s \in StepNames, s = step[a] \/ (step[a] = "handing" /\ s = "idle"),
         Turns(a, journal[a], proc[a], s), s = step[a] => UNCHANGED holder,
         \A b \in Attempts : b # a /\ attempt'[b].state = "submitted" => attempt[b].state = "submitted",
         s = "claimed" => ~Sent(a, "submit")',
         Followed(a)'
  PROVE  HostInv'
<1>1. /\ journal[a] \in Entry /\ proc[a] \in Procs /\ Fits(a)
      /\ Place(journal[a], proc[a], step[a])
  BY HostTypes DEF Fits, Placed
<1>2. Place(journal[a], proc[a], s)
  BY <1>1 DEF Place
<1>3. step[a] = "idle" => s = "idle"
  OBVIOUS
<1>4. proc[a] \in Running => step[a] \in OnHost \/ proc[a] = proc[a]
  OBVIOUS
<1>5. s \in OnHost => holder' = a /\ \A b \in Attempts : b # a => proc[b] \notin Running
  BY <1>1 DEF Fits, HasHost, OnHost
<1>6. ASSUME proc[a] = "alive"
      PROVE  /\ journal[a].phase # "none" /\ attempt'[a].started /\ journal[a].group # "cleared"
             /\ \/ s = "watching" \/ journal[a].group = "remains"
                \/ journal[a].phase = "running" /\ s = "idle" /\ \A b \in Attempts : step[b] = "idle"
  <2>1. attempt[a].started
    BY <1>1, <1>6 DEF Fits, Accounted
  <2>2. [LeaseNext]_leaseVars
    BY HostTypes, HostIsLease
  <2>3. attempt'[a].started
    BY <2>1, <2>2, RowsLast, HostTypes
  <2>4. step[a] = "watching" => s = "watching"
    OBVIOUS
  <2>5. (\A b \in Attempts : step[b] = "idle") => s = "idle"
    OBVIOUS
  <2> QED BY <1>1, <1>6, <2>3, <2>4, <2>5 DEF Fits, Accounted, Phase
<1> QED BY <1>1, <1>2, <1>3, <1>4, <1>5, <1>6, TurnFits

\* The calls of a step of a: those on their way, and those answered.
LEMMA CallsTurn ==
  ASSUME HostInv, NEW a \in Attempts, NEW s, step' = [step EXCEPT ![a] = s], UNCHANGED <<journal, proc, crashes>>,
         \/ UNCHANGED holder \/ (holder = a /\ holder' = NoOne),
         lostLease' \subseteq lostLease \cup {a},
         \A c \in onItsWay' : c \in onItsWay \/ (\E r \in Routes : c = <<a, r>>),
         answered \subseteq answered', \A c \in answered' : c \in answered \/ (\E r \in Routes : c = <<a, r>>)
  PROVE  Turns(a, journal[a], proc[a], s)
<1>1. journal = [journal EXCEPT ![a] = journal[a]] /\ proc = [proc EXCEPT ![a] = proc[a]]
  BY HostTypes
<1> QED BY <1>1 DEF Turns

\* A step that sends a call, gives the lease up, or leaves the Run.
LEMMA SendFits ==
  ASSUME HostInv, [HostNext]_allVars, NEW a \in Attempts,
         GiveUpLease(a) \/ Unanswered(a) \/ PutOff(a)
  PROVE  HostInv'
<1>1. /\ Fits(a) /\ step[a] \in StepNames /\ step = [step EXCEPT ![a] = step[a]] /\ <<a, "start">> \notin answered
      /\ UNCHANGED <<leaseVars, journal, proc, answered, crashes>>
  BY HostTypes DEF GiveUpLease, Unanswered, PutOff
<1>2. attempt[a].state # "none"
  BY <1>1, HandingFacts DEF GiveUpLease, Early, Unanswered, Sends, PutOff, Handing, Fits, Untouched
<1>3. PICK r \in Routes : onItsWay' \subseteq onItsWay \cup {<<a, r>>} /\ (r = "submit" => Phase(a) = "submitting")
  <2>1. CASE GiveUpLease(a)
    BY <2>1 DEF GiveUpLease, OnItsWay, Routes
  <2>2. CASE PutOff(a)
    BY <2>2 DEF PutOff, Routes
  <2>3. CASE Unanswered(a)
    <3>1. PICK q : q = NextCall(a)
      OBVIOUS
    <3>2. q \in Routes /\ (q = "submit" => Phase(a) = "submitting")
      BY <2>3, <3>1 DEF Unanswered, Sends, NextCall, Routes
    <3> QED BY <2>3, <3>1, <3>2 DEF Unanswered, OnItsWay
  <2> QED BY <2>1, <2>2, <2>3
<1>4. Followed(a)'
  <2>1. Followed(a) /\ UNCHANGED attempt /\ Phase(a)' = Phase(a)
    BY <1>1 DEF Fits, leaseVars, Phase
  <2>2. Fence(a, Host, EpochOf(a))' <=> Fence(a, Host, EpochOf(a))
    BY <2>1 DEF Fence, EpochOf, Live, PastGrace
  <2>3. <<a, "submit">> \in onItsWay' => <<a, "submit">> \in onItsWay \/ Phase(a) = "submitting"
    BY <1>3
  <2>4. "submitting" \in Through
    BY DEF Through
  <2> QED BY <1>1, <2>1, <2>2, <2>3, <2>4 DEF Followed
<1>5. /\ \A c \in onItsWay' : c \in onItsWay \/ (\E q \in Routes : c = <<a, q>>)
      /\ answered \subseteq answered' /\ \A c \in answered' : c \in answered \/ (\E q \in Routes : c = <<a, q>>)
  BY <1>1, <1>3
<1>6. \A b \in Attempts : attempt'[b].state = "submitted" => attempt[b].state = "submitted"
  BY <1>1 DEF leaseVars
<1>7. step[a] = "claimed" => ~Sent(a, "submit")'
  <2>1. step[a] = "claimed" => Phase(a) = "none" /\ ~Sent(a, "submit")
    BY <1>1 DEF Fits, Placed, Place, Phase
  <2> QED BY <1>1, <1>3, <2>1 DEF Sent
<1>8. CASE UNCHANGED <<step, holder>> /\ lostLease' \subseteq lostLease \cup {a}
  <2>1. Turns(a, journal[a], proc[a], step[a])
    BY <1>1, <1>5, <1>8, CallsTurn
  <2> QED BY <1>1, <1>2, <1>4, <1>6, <1>7, <1>8, <2>1, CallTurn
<1>9. CASE step[a] = "handing" /\ Leave(a)
  <2>1. Turns(a, journal[a], proc[a], "idle")
    BY <1>1, <1>5, <1>9, CallsTurn, LeaveTurns
  <2>2. "idle" \in StepNames
    BY DEF StepNames
  <2> QED BY <1>2, <1>4, <1>6, <1>9, <2>1, <2>2, CallTurn
<1> QED BY <1>8, <1>9 DEF GiveUpLease, Unanswered, PutOff, memory

\* A call that arrives late, or never.
LEMMA ArriveFits ==
  ASSUME HostInv, [HostNext]_allVars, NEW a \in Attempts, NEW r \in Routes, Arrive(a, r) \/ Drop(a, r)
  PROVE  HostInv'
<1>1. /\ Fits(a) /\ step[a] \in StepNames /\ step = [step EXCEPT ![a] = step[a]] /\ <<a, "start">> \notin answered /\ IInv
      /\ <<a, r>> \in onItsWay /\ onItsWay' = onItsWay \ {<<a, r>>}
      /\ UNCHANGED <<journal, proc, memory, crashes>>
  BY HostTypes DEF Arrive, Drop
<1>2. attempt[a].state # "none"
  BY <1>1 DEF Fits, Untouched, Sent
<1>3. /\ answered \subseteq answered' /\ answered' \subseteq answered \cup {<<a, r>>} /\ <<a, "start">> \notin answered'
      /\ \A b \in Attempts : attempt'[b].state = "submitted" =>
           attempt[b].state = "submitted" \/ (b = a /\ <<a, "submit">> \in answered')
      /\ r = "submit" => answered' = answered \/ <<a, "submit">> \in answered \/ Fence(a, Host, EpochOf(a))
  <2>1. CASE Drop(a, r)
    BY <1>1, <2>1 DEF Drop, leaseVars
  <2>2. CASE Heartbeat(a, Host, EpochOf(a)) /\ UNCHANGED answered
    <3>1. attempt \in [Attempts -> AttemptRow]
      BY HostTypes DEF TypeOK
    <3>2. \A b \in Attempts : attempt'[b].state = "submitted" => attempt[b].state = "submitted"
      BY <2>2, <3>1 DEF Heartbeat, AttemptRow
    <3> QED BY <1>1, <2>2, <3>2
  <2>3. CASE Takes(a, r)
    <3>1. /\ answered \subseteq answered' /\ answered' \subseteq answered \cup {<<a, r>>}
          /\ <<a, "start">> \notin answered'
          /\ r # "start" => <<a, r>> \in answered'
          /\ \A b \in Attempts : attempt'[b].state = "submitted" =>
               attempt[b].state = "submitted" \/ (b = a /\ r = "submit")
          /\ r = "submit" => Known(a, r) \/ Fence(a, Host, EpochOf(a))
      BY <1>1, <2>3, TakesFacts
    <3> QED BY <3>1 DEF Known
  <2> QED BY <2>1, <2>2, <2>3 DEF Arrive
<1>4. Followed(a)'
  <2>1. Followed(a) /\ Phase(a)' = Phase(a)
    BY <1>1 DEF Fits, Phase
  <2>2. <<a, "submit">> \in answered' => Phase(a) \in Through
    <3>1. CASE <<a, "submit">> \in answered
      BY <2>1, <3>1 DEF Followed
    <3>2. CASE <<a, "submit">> \in answered' /\ <<a, "submit">> \notin answered
      <4>1. r = "submit"
        BY <1>3, <3>2
      <4>2. Fence(a, Host, EpochOf(a)) /\ <<a, "submit">> \in onItsWay
        BY <1>1, <1>3, <3>2, <4>1
      <4> QED BY <2>1, <4>2 DEF Followed
    <3> QED BY <3>1, <3>2
  <2>3. <<a, "submit">> \in onItsWay' => <<a, "submit">> \in onItsWay
    BY <1>1
  <2>4. ~Fence(a, Host, EpochOf(a)) => ~Fence(a, Host, EpochOf(a))'
    <3>1. [LeaseNext]_leaseVars
      BY HostTypes, HostIsLease
    <3> QED BY <1>2, <3>1, RowsLast, HostTypes
  <2>5. attempt'[a].state = "submitted" => <<a, "submit">> \in answered'
    BY <1>3, <2>1 DEF Followed
  <2>6. <<a, "submit">> \in onItsWay' => Phase(a) \in Through \/ (Phase(a) = "lost" /\ ~Fence(a, Host, EpochOf(a))')
    BY <2>1, <2>3, <2>4 DEF Followed
  <2> QED BY <1>3, <2>1, <2>2, <2>5, <2>6 DEF Followed
<1>5. /\ \A c \in onItsWay' : c \in onItsWay \/ (\E q \in Routes : c = <<a, q>>)
      /\ \A c \in answered' : c \in answered \/ (\E q \in Routes : c = <<a, q>>)
  BY <1>1, <1>3
<1>6. \A b \in Attempts : b # a /\ attempt'[b].state = "submitted" => attempt[b].state = "submitted"
  BY <1>3
<1>7. step[a] = "claimed" => ~Sent(a, "submit")'
  <2>1. step[a] = "claimed" => ~Sent(a, "submit")
    BY <1>1 DEF Fits, Placed
  <2> QED BY <1>1, <1>3, <2>1 DEF Sent
<1>8. Turns(a, journal[a], proc[a], step[a])
  <2>1. /\ UNCHANGED <<journal, proc, crashes>> /\ step' = [step EXCEPT ![a] = step[a]] /\ UNCHANGED holder
        /\ lostLease' \subseteq lostLease \cup {a}
    BY <1>1 DEF memory
  <2> QED BY <1>3, <1>5, <2>1, CallsTurn
<1>9. UNCHANGED holder
  BY <1>1 DEF memory
<1> QED BY <1>1, <1>2, <1>4, <1>6, <1>7, <1>8, <1>9, CallTurn

\* Recover's look at what a crash left.
LEMMA LookAtFits ==
  ASSUME HostInv, [HostNext]_allVars, NEW a \in Attempts, LookAt(a)
  PROVE  HostInv'
<1>1. /\ Fits(a) /\ Followed(a) /\ journal[a] \in Entry /\ <<a, "start">> \notin answered /\ step = [step EXCEPT ![a] = step[a]]
      /\ step[a] = "idle" /\ Phase(a) = journal[a].phase /\ Phase(a) # "none"
  BY HostTypes DEF Fits, LookAt, Left, Phase
<1>2. attempt[a].state # "none"
  BY <1>1 DEF Fits, Untouched
<1>3. PICK g \in {"cleared", "remains"} :
        /\ Clear(a, g)
        /\ \/ /\ Phase(a) \in {"launching", "running"}
              /\ Write(a, [journal[a] EXCEPT !.phase = "restarted", !.group = g])
           \/ /\ Phase(a) \notin {"launching", "running"} /\ journal[a].group = "remains"
              /\ Write(a, IF Phase(a) = "uncleared" THEN Settled(a, g)
                          ELSE [journal[a] EXCEPT !.group = g])
  BY DEF LookAt
<1>4. UNCHANGED <<leaseVars, memory, onItsWay, answered, crashes>>
  BY DEF LookAt
<1>5. PICK p \in Procs : /\ proc' = [proc EXCEPT ![a] = p] /\ p # "held"
                         /\ p = "alive" => proc[a] = "alive" /\ g = "remains"
  BY <1>3, ClearTurns
<1>6. \E entry \in Entry : /\ journal' = [journal EXCEPT ![a] = entry]
                           /\ entry.phase = "none" => g = "cleared"
                           /\ g = "remains" => entry.group = "remains"
                           /\ Phase(a) \in Through => entry.phase \in Through
                           /\ Phase(a) = "lost" => entry.phase = "lost"
  <2>1. CASE Phase(a) \in {"launching", "running"} /\ Write(a, [journal[a] EXCEPT !.phase = "restarted", !.group = g])
    <3>1. PICK entry : entry = [journal[a] EXCEPT !.phase = "restarted", !.group = g]
      OBVIOUS
    <3>2. entry \in Entry /\ entry.phase = "restarted" /\ entry.group = g
      BY <1>1, <3>1 DEF Entry, Phases
    <3>3. journal' = [journal EXCEPT ![a] = entry]
      BY <2>1, <3>1 DEF Write
    <3>4. Phase(a) \notin Through /\ Phase(a) # "lost" /\ entry.phase # "none"
      BY <2>1, <3>2 DEF Through
    <3> QED BY <3>2, <3>3, <3>4
  <2>2. CASE Phase(a) = "uncleared" /\ Write(a, Settled(a, g))
    <3>1. PICK entry : entry = Settled(a, g)
      OBVIOUS
    <3>2. entry \in Entry /\ entry.phase \in {"none", "uncleared"} /\ entry.group = g /\ (entry.phase = "none" => g = "cleared")
      BY <1>1, <3>1 DEF Settled, NoEntry, Entry, Phases
    <3>3. journal' = [journal EXCEPT ![a] = entry]
      BY <2>2, <3>1 DEF Write
    <3>4. entry.phase \in Through /\ Phase(a) # "lost"
      BY <2>2, <3>2 DEF Through
    <3> QED BY <3>2, <3>3, <3>4
  <2>3. CASE Phase(a) # "uncleared" /\ Write(a, [journal[a] EXCEPT !.group = g])
    <3>1. PICK entry : entry = [journal[a] EXCEPT !.group = g]
      OBVIOUS
    <3>2. entry \in Entry /\ entry.phase = Phase(a) /\ entry.group = g
      BY <1>1, <3>1 DEF Entry
    <3>3. journal' = [journal EXCEPT ![a] = entry]
      BY <2>3, <3>1 DEF Write
    <3> QED BY <1>1, <3>2, <3>3
  <2> QED BY <1>3, <2>1, <2>2, <2>3
<1>7. PICK entry \in Entry : /\ journal' = [journal EXCEPT ![a] = entry]
                             /\ entry.phase = "none" => g = "cleared"
                             /\ g = "remains" => entry.group = "remains"
                             /\ Phase(a) \in Through => entry.phase \in Through
                             /\ Phase(a) = "lost" => entry.phase = "lost"
  BY <1>6
<1>8. Phase(a)' = entry.phase /\ UNCHANGED attempt
  BY <1>4, <1>7, HostTypes DEF Phase, leaseVars
<1>9. Followed(a)'
  <2>1. Fence(a, Host, EpochOf(a))' <=> Fence(a, Host, EpochOf(a))
    BY <1>8 DEF Fence, EpochOf, Live, PastGrace
  <2> QED BY <1>1, <1>4, <1>7, <1>8, <2>1 DEF Followed
<1>10. Turns(a, entry, p, "idle")
  BY <1>1, <1>4, <1>5, <1>7 DEF Turns, memory
<1>11. p = "alive" => proc[a] = "alive" /\ entry.group = "remains" /\ entry.phase # "none"
  BY <1>5, <1>7
<1>12. \A b \in Attempts : attempt'[b].state = "submitted" => attempt[b].state = "submitted"
  BY <1>8
<1> QED BY <1>1, <1>2, <1>5, <1>9, <1>10, <1>11, <1>12, HandTurn

-----------------------------------------------------------------------------
(* The other steps.                                                        *)

\* A step of the platform, or a heartbeat, that leaves the host alone.
LEMMA StillFits ==
  ASSUME HostInv, [HostNext]_allVars, UNCHANGED hostVars,
         \A b \in Attempts : attempt'[b].state = "submitted" => attempt[b].state = "submitted"
  PROVE  HostInv'
<1>1. /\ IInv /\ TypeOK /\ NothingBeside /\ (\A b \in Attempts : Fits(b)) /\ HostTypeOK
  BY DEF HostInv, IInv
<1>2. [LeaseNext]_leaseVars /\ IInv'
  BY <1>1, HostIsLease, IInvStep
<1>3. UNCHANGED <<journal, proc, step, lostLease, holder, onItsWay, answered, crashes>>
  BY DEF hostVars, memory
<1>4. HostTypeOK' /\ NothingBeside'
  <2>1. TypeOK'
    BY <1>2 DEF IInv
  <2> QED BY <1>1, <1>3, <2>1 DEF HostTypeOK, NothingBeside
<1>5. ASSUME NEW b \in Attempts PROVE Fits(b)'
  <2>1. attempt[b].state # "none" =>
          /\ attempt'[b].state # "none"
          /\ attempt[b].started => attempt'[b].started
          /\ ~Fence(b, Host, EpochOf(b)) => ~Fence(b, Host, EpochOf(b))'
    BY <1>1, <1>2, RowsLast
  <2>2. Fits(b) /\ Phase(b)' = Phase(b)
    BY <1>1, <1>3 DEF Phase
  <2>3. \A r : Sent(b, r)' <=> Sent(b, r)
    BY <1>3 DEF Sent
  <2>4. Untouched(b)'
    BY <1>3, <2>1, <2>2, <2>3 DEF Fits, Untouched
  <2>5. Placed(b)' /\ HasHost(b)'
    BY <1>3, <2>2, <2>3 DEF Fits, Placed, HasHost
  <2>6. Accounted(b)'
    <3>1. proc[b] = "alive" => attempt'[b].started
      BY <2>1, <2>2 DEF Fits, Untouched, Accounted
    <3> QED BY <1>3, <2>2, <3>1 DEF Fits, Accounted
  <2>7. Followed(b)'
    <3>1. <<b, "submit">> \in onItsWay => attempt[b].state # "none"
      BY <2>2 DEF Fits, Untouched, Sent, Routes
    <3>2. <<b, "submit">> \in onItsWay => Phase(b) \in Through \/ (Phase(b) = "lost" /\ ~Fence(b, Host, EpochOf(b))')
      BY <2>1, <2>2, <3>1 DEF Fits, Followed
    <3>3. attempt'[b].state = "submitted" => <<b, "submit">> \in answered
      BY <2>2 DEF Fits, Followed
    <3> QED BY <1>3, <2>2, <3>2, <3>3 DEF Fits, Followed
  <2> QED BY <2>4, <2>5, <2>6, <2>7 DEF Fits
<1> QED BY <1>2, <1>4, <1>5 DEF HostInv

\* What the rest of the platform does, and a heartbeat.
LEMMA PlatformFits ==
  ASSUME HostInv, [HostNext]_allVars,
         \/ PlatformStep \/ UNCHANGED allVars
         \/ \E a \in Attempts : Beat(a)
  PROVE  HostInv'
<1>0. attempt \in [Attempts -> AttemptRow]
  BY HostTypes DEF TypeOK
<1> DEFINE G == UNCHANGED hostVars /\ \A b \in Attempts : attempt'[b].state = "submitted" => attempt[b].state = "submitted"
<1>1. ASSUME NEW a \in Attempts, Beat(a) PROVE G
  <2>1. Heartbeat(a, Host, EpochOf(a)) /\ UNCHANGED hostVars
    BY <1>1 DEF Beat
  <2> QED BY <1>0, <2>1 DEF Heartbeat, AttemptRow
<1>2. ASSUME NEW a \in Attempts, Sweep(a), UNCHANGED hostVars PROVE G
  BY <1>0, <1>2 DEF Sweep, AttemptRow
<1>3. ASSUME NEW t \in Tasks, ProposeTask(t) \/ MoveTask(t, "ready"), UNCHANGED hostVars PROVE G
  BY <1>3 DEF ProposeTask, MoveTask
<1>4. ASSUME Tick, UNCHANGED hostVars PROVE G
  <2>1. ASSUME NEW b \in Attempts PROVE attempt'[b].state = attempt[b].state
    <3>1. attempt'[b] = attempt[b] \/ attempt'[b] = [attempt[b] EXCEPT !.left = attempt[b].left - 1]
      BY <1>4 DEF Tick
    <3> QED BY <1>0, <3>1 DEF AttemptRow
  <2> QED BY <1>4, <2>1
<1>5. UNCHANGED allVars => G
  BY DEF allVars, leaseVars
<1> HIDE DEF G
<1>6. G
  BY <1>1, <1>2, <1>3, <1>4, <1>5 DEF PlatformStep
<1> QED BY <1>6, StillFits DEF G

\* A claim makes a row of an attempt the host never saw, and is made only once every
\* group that a crash left was looked at.
LEMMA TakeFits ==
  ASSUME HostInv, [HostNext]_allVars, NEW t \in Tasks, Take(t)
  PROVE  HostInv'
<1>1. /\ IInv /\ TypeOK /\ RowsInOrder /\ NothingBeside /\ (\A b \in Attempts : Fits(b)) /\ HostTypeOK
      /\ attempt \in [Attempts -> AttemptRow]
  BY DEF HostInv, IInv, TypeOK
<1>2. [LeaseNext]_leaseVars /\ IInv'
  BY <1>1, HostIsLease, IInvStep
<1>3. /\ LookedThrough /\ Claim(Host, t)
      /\ UNCHANGED <<journal, proc, lostLease, holder, onItsWay, answered, crashes>>
  BY DEF Take
<1>4. PICK n \in 1..MaxAttempts : ClaimRow(Host, t, n)
  BY <1>3, ClaimMakesRow, HostConstants
<1>5. PICK m \in 1..MaxAttempts : NextNo(t, m) /\ step' \in {step, [step EXCEPT ![<<t, m>>] = "claimed"]}
  BY DEF Take
<1>6. PICK a \in Attempts : a = <<t, n>>
  BY DEF Attempts
<1>7. m = n
  <2>1. NextNo(t, n) /\ n \in Nat /\ m \in Nat
    BY <1>4, LeaseConstants DEF ClaimRow
  <2>2. PICK b \in Attempts : b = <<t, m>>
    BY DEF Attempts
  <2>3. a[1] = t /\ a[2] = n /\ b[1] = t /\ b[2] = m
    BY <1>6, <2>2
  <2>4. attempt[a].state = "none" /\ attempt[b].state = "none"
    BY <1>5, <1>6, <2>1, <2>2 DEF NextNo
  <2>5. ~(m < n)
    BY <1>1, <2>1, <2>3, <2>4, NextNoIsNext
  <2>6. ~(n < m)
    BY <1>1, <1>5, <2>3, <2>4, NextNoIsNext
  <2> QED BY <2>1, <2>5, <2>6
<1>8. attempt[a].state = "none" /\ attempt'[a].state = "leased"
      /\ \A b \in Attempts : b # a => attempt'[b] = attempt[b]
  <2>1. attempt' = [attempt EXCEPT ![a] = LeasedRow(Host)] /\ LeasedRow(Host).state = "leased" /\ NextNo(t, n)
    BY <1>4, <1>6 DEF ClaimRow, LeasedRow, NoAttempt
  <2> QED BY <1>1, <1>6, <2>1 DEF NextNo
<1>9. /\ step[a] = "idle" /\ Phase(a) = "none" /\ proc[a] = "none" /\ \A r \in Routes : ~Sent(a, r)
      /\ Fits(a)
  BY <1>1, <1>8 DEF Fits, Untouched
<1>10. step \in [Attempts -> StepNames]
  BY HostTypes
<1>11. /\ step' \in [Attempts -> StepNames] /\ step'[a] \in {"idle", "claimed"}
       /\ \A b \in Attempts : b # a => step'[b] = step[b]
  BY <1>5, <1>6, <1>7, <1>9, <1>10 DEF StepNames
<1>12. HostTypeOK' /\ NothingBeside'
  <2>1. TypeOK'
    BY <1>2 DEF IInv
  <2> QED BY <1>1, <1>3, <1>11, <2>1 DEF HostTypeOK, NothingBeside, StepNames
<1>13. Fits(a)'
  <2>1. Phase(a)' = "none" /\ proc'[a] = "none" /\ journal'[a].phase = "none"
    BY <1>3, <1>9 DEF Phase
  <2>2. Untouched(a)'
    BY <1>8 DEF Untouched
  <2>3. ~Sent(a, "submit") /\ ~Sent(a, "submit")'
    BY <1>3, <1>9 DEF Sent, Routes
  <2>4. Placed(a)'
    BY <1>11, <2>1, <2>3 DEF Placed, Place
  <2>5. HasHost(a)' /\ Accounted(a)'
    BY <1>11, <2>1 DEF HasHost, OnHost, Accounted
  <2>6. Followed(a)'
    BY <1>3, <1>8, <1>9, <2>1, <2>3 DEF Followed, Sent, Fits
  <2> QED BY <2>2, <2>4, <2>5, <2>6 DEF Fits
<1>14. ASSUME NEW b \in Attempts, b # a PROVE Fits(b)'
  <2>1. Fits(b) /\ Phase(b)' = Phase(b) /\ attempt'[b] = attempt[b] /\ step'[b] = step[b] /\ journal'[b] = journal[b]
        /\ proc'[b] = proc[b]
    BY <1>1, <1>3, <1>8, <1>11, <1>14 DEF Phase
  <2>2. \A r : Sent(b, r)' <=> Sent(b, r)
    BY <1>3 DEF Sent
  <2>3. Untouched(b)' /\ Placed(b)'
    BY <2>1, <2>2 DEF Fits, Untouched, Placed
  <2>4. HasHost(b)'
    BY <1>3, <2>1 DEF Fits, HasHost
  <2>5. Accounted(b)'
    <3>1. ~(Phase(b) = "running" /\ \A c \in Attempts : step[c] = "idle")
      BY <1>3 DEF LookedThrough, Left
    <3> QED BY <2>1, <3>1 DEF Fits, Accounted
  <2>6. Followed(b)'
    <3>1. Fence(b, Host, EpochOf(b))' <=> Fence(b, Host, EpochOf(b))
      BY <2>1 DEF Fence, EpochOf, Live, PastGrace
    <3> QED BY <1>3, <2>1, <3>1 DEF Fits, Followed
  <2> QED BY <2>3, <2>4, <2>5, <2>6 DEF Fits
<1> QED BY <1>2, <1>12, <1>13, <1>14 DEF HostInv

\* A crash ends what was held back; what runs stays as the journal says.
LEMMA CrashFits ==
  ASSUME HostInv, [HostNext]_allVars, Crash
  PROVE  HostInv'
<1>1. /\ IInv /\ NothingBeside /\ (\A b \in Attempts : Fits(b)) /\ HostTypeOK
  BY DEF HostInv
<1>2. [LeaseNext]_leaseVars /\ IInv'
  BY <1>1, HostIsLease, IInvStep
<1>3. /\ UNCHANGED <<leaseVars, journal, onItsWay, answered>>
      /\ \A b \in Attempts : step'[b] = "idle" /\ proc'[b] = IF proc[b] = "held" THEN "gone" ELSE proc[b]
  BY DEF Crash
<1>4. HostTypeOK'
  <2>1. TypeOK'
    BY <1>2 DEF IInv
  <2>2. crashes' \in 0..MaxCrashes
    BY <1>1, HostConstants DEF HostTypeOK, Crash
  <2>3. proc' \in [Attempts -> {"none", "held", "alive", "gone"}]
    BY <1>1 DEF HostTypeOK, Crash
  <2> QED BY <1>1, <2>1, <2>2, <2>3 DEF HostTypeOK, Crash
<1>5. NothingBeside'
  BY <1>1, <1>3 DEF NothingBeside
<1>6. ASSUME NEW b \in Attempts PROVE Fits(b)'
  <2>1. /\ Fits(b) /\ UNCHANGED attempt /\ Phase(b)' = Phase(b) /\ journal'[b] = journal[b] /\ step'[b] = "idle"
        /\ proc'[b] = IF proc[b] = "held" THEN "gone" ELSE proc[b]
    BY <1>1, <1>3 DEF leaseVars, Phase
  <2>2. \A r : Sent(b, r)' <=> Sent(b, r)
    BY <1>3 DEF Sent
  <2>3. Untouched(b)'
    BY <2>1, <2>2 DEF Fits, Untouched
  <2>4. Placed(b)' /\ HasHost(b)'
    BY <2>1 DEF Placed, Place, HasHost, OnHost
  <2>5. Accounted(b)'
    <3>1. step[b] = "watching" => Phase(b) = "running"
      BY <2>1 DEF Fits, Placed, Place, Phase
    <3>2. \A c \in Attempts : step'[c] = "idle"
      BY <1>3
    <3> QED BY <2>1, <3>1, <3>2 DEF Fits, Accounted
  <2>6. Followed(b)'
    <3>1. Fence(b, Host, EpochOf(b))' <=> Fence(b, Host, EpochOf(b))
      BY <2>1 DEF Fence, EpochOf, Live, PastGrace
    <3> QED BY <1>3, <2>1, <3>1 DEF Fits, Followed
  <2> QED BY <2>3, <2>4, <2>5, <2>6 DEF Fits
<1> QED BY <1>2, <1>4, <1>5, <1>6 DEF HostInv

-----------------------------------------------------------------------------
(* The theorems.                                                           *)

\* Nothing is on the host at the start.
LEMMA HostInvInit == HostInit => HostInv
<1> SUFFICES ASSUME HostInit PROVE HostInv
  OBVIOUS
<1>1. IInv
  BY IInvInit DEF HostInit
<1>2. /\ \A a \in Attempts : /\ attempt[a] = NoAttempt /\ journal[a] = NoEntry
                             /\ proc[a] = "none" /\ step[a] = "idle"
      /\ onItsWay = {} /\ answered = {}
  BY DEF HostInit, Init
<1>3. HostTypeOK
  <2>1. NoEntry \in Entry
    BY DEF NoEntry, Entry, Phases
  <2>2. TypeOK /\ crashes \in 0..MaxCrashes
    BY <1>1, HostConstants DEF IInv, HostInit
  <2> QED BY <2>1, <2>2 DEF HostInit, HostTypeOK
<1>4. NothingBeside
  BY <1>2 DEF NothingBeside
<1>5. ASSUME NEW a \in Attempts PROVE Fits(a)
  <2>1. Phase(a) = "none" /\ journal[a].phase = "none" /\ attempt[a].state = "none"
    BY <1>2 DEF Phase, NoEntry, NoAttempt
  <2> QED BY <1>2, <2>1 DEF Fits, Untouched, Sent, Placed, Place, HasHost, OnHost, Accounted, Followed
<1> QED BY <1>1, <1>3, <1>4, <1>5 DEF HostInv

\* Every step keeps the invariant.
LEMMA HostInvStep == HostInv /\ [HostNext]_allVars => HostInv'
<1> SUFFICES ASSUME HostInv, [HostNext]_allVars PROVE HostInv'
  OBVIOUS
<1>1. ASSUME NEW a \in Attempts, RunStep(a) PROVE HostInv'
  BY <1>1, RunStepFits
<1>2. ASSUME NEW a \in Attempts, HandOverStep(a) PROVE HostInv'
  BY <1>2, HandOverFits
<1>3. ASSUME NEW a \in Attempts, GiveUpLease(a) \/ Unanswered(a) \/ PutOff(a) PROVE HostInv'
  BY <1>3, SendFits
<1>4. ASSUME NEW a \in Attempts, LookAt(a) PROVE HostInv'
  BY <1>4, LookAtFits
<1>5. ASSUME NEW a \in Attempts, NEW r \in Routes, Arrive(a, r) \/ Drop(a, r) PROVE HostInv'
  BY <1>5, ArriveFits
<1>6. ASSUME NEW t \in Tasks, Take(t) PROVE HostInv'
  BY <1>6, TakeFits
<1>7. Crash => HostInv'
  BY CrashFits
<1>8. PlatformStep \/ UNCHANGED allVars \/ (\E a \in Attempts : Beat(a)) => HostInv'
  BY PlatformFits
<1> QED BY <1>1, <1>2, <1>3, <1>4, <1>5, <1>6, <1>7, <1>8 DEF HostNext

\* The invariant always holds, and every variable of the daemon has its type.
THEOREM HostIsRight == HostSpec => []HostInv
<1> QED BY HostInvInit, HostInvStep, PTL DEF HostSpec

\* Every variable of the daemon has its type.
THEOREM HostTypeCorrect == HostSpec => []HostTypeOK
<1>1. HostInv => HostTypeOK
  BY DEF HostInv
<1> QED BY <1>1, HostIsRight, PTL

\* An executor never runs without an entry in the journal, nor unknown to the platform
\* (launch.go writes the entry before the group and reports the start before the
\* release).
THEOREM RunsRecorded == HostSpec => []NoneRunsUnrecorded
<1>1. HostInv => NoneRunsUnrecorded
  BY DEF HostInv, Fits, Accounted, NoneRunsUnrecorded
<1> QED BY <1>1, HostIsRight, PTL

\* Nothing is launched beside a group that may still run, one that a crash left included
\* (the host is taken by one Run, and by none while a group remains).
THEOREM RunsAlone == HostSpec => []NothingBeside
<1>1. HostInv => NothingBeside
  BY DEF HostInv
<1> QED BY <1>1, HostIsRight, PTL

\* The journal of a submitted attempt stays on the way to submitted, though its answer was
\* lost and its lease is gone (submitting is written before the call, and the platform
\* looks for a stored answer before the lease).
THEOREM SubmitStands == HostSpec => []SubmittedStays
<1>1. HostInv => SubmittedStays
  BY DEF HostInv, Fits, Followed, Through, SubmittedStays
<1> QED BY <1>1, HostIsRight, PTL

\* The daemon and its platform are a behaviour of the lease kernel, so what is proved of
\* the kernel for any host that calls it holds of this one.
THEOREM DaemonCallsKernel == HostSpec => Spec
<1>1. HostInit => Init
  BY DEF HostInit
<1>2. HostInv /\ [HostNext]_allVars => [LeaseNext]_leaseVars
  BY HostIsLease DEF HostInv
<1> QED BY <1>1, <1>2, HostIsRight, PTL DEF HostSpec, Spec

-----------------------------------------------------------------------------
(* The journal and the platform.                                           *)

\* What the platform answered it has done.
Stored ==
  \A a \in Attempts :
    /\ <<a, "computed">> \in answered => attempt[a].computed
    /\ <<a, "persist">> \in answered => attempt[a].persisted
    /\ <<a, "submit">> \in answered => attempt[a].state = "submitted"

\* A call that is answered for the first time is done.
LEMMA TakesStores ==
  ASSUME IInv, NEW a \in Attempts, NEW r \in Routes, Takes(a, r), NEW b \in Attempts
  PROVE  /\ <<b, "computed">> \in answered' => <<b, "computed">> \in answered \/ attempt'[b].computed
         /\ <<b, "persist">> \in answered' => <<b, "persist">> \in answered \/ attempt'[b].persisted
         /\ <<b, "submit">> \in answered' => <<b, "submit">> \in answered \/ attempt'[b].state = "submitted"
<1>0. attempt \in [Attempts -> AttemptRow]
  BY DEF IInv, TypeOK
<1>1. CASE UNCHANGED answered
  BY <1>1
<1>2. CASE answered' = answered \cup {<<a, r>>} /\ r = "computed" /\ Computed(a, Host, EpochOf(a))
  BY <1>0, <1>2 DEF Computed, AttemptRow
<1>3. CASE answered' = answered \cup {<<a, r>>} /\ r = "persist" /\ Persist(a, Host, EpochOf(a))
  BY <1>0, <1>3 DEF Persist, AttemptRow
<1>4. CASE answered' = answered \cup {<<a, r>>} /\ r = "submit" /\ Submit(a, Host, EpochOf(a))
  BY <1>0, <1>4 DEF Submit, AttemptRow
<1>5. CASE answered' = answered \cup {<<a, r>>} /\ r \in {"salvage", "ended"}
  BY <1>5
<1> QED BY <1>1, <1>2, <1>3, <1>4, <1>5 DEF Takes, Known

\* What is settled is forgotten, or waits for its group.
LEMMA SettledSays ==
  ASSUME HostInv, NEW a \in Attempts, NEW g
  PROVE  Settled(a, g).phase \in {"none", "uncleared"}
<1>1. journal[a] \in Entry
  BY HostTypes
<1> QED BY <1>1 DEF Settled, NoEntry, Entry

\* The phases that tell of a call taken, and how an entry gets to one.
Told == {"computed", "persisted", "submitting", "submitted"}
LEMMA TellsOfAnswer ==
  ASSUME HostInv, [HostNext]_allVars, NEW a \in Attempts, Phase(a)' \in Told, Phase(a)' # Phase(a)
  PROVE  Delivered(a) \/ Submitting(a)
<1>0. /\ journal \in [Attempts -> Entry] /\ journal[a] \in Entry
      /\ journal'[a].phase \in Told /\ journal'[a].phase # journal[a].phase
  BY HostTypes DEF Phase
<1> DEFINE G == Delivered(a) \/ Submitting(a)
<1>1. journal' # journal
  BY <1>0
\* Only an entry that says so tells.
<1>2. ASSUME NEW b \in Attempts, NEW entry, journal' = [journal EXCEPT ![b] = entry]
      PROVE  b = a /\ entry.phase \in Told /\ entry.phase # journal[b].phase
  BY <1>0, <1>2
<1>3. ASSUME NEW b \in Attempts, EndsBefore(b) PROVE FALSE
  BY <1>2, <1>3, EndsBeforeEntry DEF Told
<1>4. ASSUME NEW b \in Attempts, NEW phase, journal' = [journal EXCEPT ![b] = [journal[b] EXCEPT !.phase = phase]]
      PROVE  phase \in Told
  <2>1. [journal[b] EXCEPT !.phase = phase].phase = phase
    BY <1>0 DEF Entry
  <2> QED BY <1>2, <1>4, <2>1
<1>5. ASSUME NEW b \in Attempts, NEW phase, NEW g,
             journal' = [journal EXCEPT ![b] = [journal[b] EXCEPT !.phase = phase, !.group = g]]
      PROVE  phase \in Told
  <2>1. [journal[b] EXCEPT !.phase = phase, !.group = g].phase = phase
    BY <1>0 DEF Entry
  <2> QED BY <1>2, <1>5, <2>1
<1>6. ASSUME NEW b \in Attempts, RunStep(b) PROVE FALSE
  <2>1. CASE Register(b)
    <3>1. [NoEntry EXCEPT !.phase = "launching"].phase = "launching"
      BY DEF NoEntry
    <3> QED BY <1>2, <2>1, <3>1 DEF Register, Write, Told
  <2>2. CASE Launch(b)
    <3>1. journal' = [journal EXCEPT ![b] = [journal[b] EXCEPT !.phase = "running", !.group = "unseen"]]
      BY <2>2 DEF Launch, Write
    <3>2. PICK phase : phase = "running" /\ phase \notin Told
      BY DEF Told
    <3> QED BY <1>5, <3>1, <3>2
  <2>3. CASE NotReleased(b)
    <3>1. CASE Write(b, To(b, "lost"))
      <4>1. journal' = [journal EXCEPT ![b] = [journal[b] EXCEPT !.phase = "lost"]]
        BY <3>1 DEF Write, To
      <4>2. PICK phase : phase = "lost" /\ phase \notin Told
        BY DEF Told
      <4> QED BY <1>4, <4>1, <4>2
    <3> QED BY <1>3, <2>3, <3>1 DEF NotReleased
  <2>4. CASE ExecutorEnds(b)
    <3>1. PICK g : Write(b, [journal[b] EXCEPT !.group = g, !.phase = IF b \in lostLease THEN "lost" ELSE "exited"])
      BY <2>4 DEF ExecutorEnds
    <3>2. PICK phase \in {"lost", "exited"} : phase = IF b \in lostLease THEN "lost" ELSE "exited"
      OBVIOUS
    <3>3. journal' = [journal EXCEPT ![b] = [journal[b] EXCEPT !.phase = phase, !.group = g]]
      BY <1>0, <3>1, <3>2 DEF Write, Entry
    <3> QED BY <1>5, <3>2, <3>3 DEF Told
  <2> QED BY <1>1, <1>3, <1>6, <2>1, <2>2, <2>3, <2>4
        DEF RunStep, Unreadable, GiveUpWaiting, TakeHost, NotPrepared, NotStarted, Release
<1>7. ASSUME NEW b \in Attempts, HandOverStep(b) PROVE G
  <2>1. ~Prepare(b)
    <3>1. [journal[b] EXCEPT !.prepared = TRUE].phase = journal[b].phase
      BY <1>0 DEF Entry
    <3> QED BY <1>2, <3>1 DEF Prepare, Write
  <2>2. CASE Delivered(b) \/ Submitting(b)
    <3>1. b = a
      BY <1>2, <2>2 DEF Delivered, Submitting, Write
    <3> QED BY <2>2, <3>1
  <2>3. ~FencedOff(b)
    <3>1. PICK phase : phase = "lost" /\ phase \notin Told
      BY DEF Told
    <3> QED BY <1>4, <3>1 DEF FencedOff, Write, To
  <2>4. ~(Salvaged(b) \/ EndsHere(b))
    <3>1. PICK phase : phase = "ending" /\ phase \notin Told
      BY DEF Told
    <3> QED BY <1>5, <3>1 DEF Salvaged, EndsHere, BeginEnd, Write
  <2>5. ~EndAnswered(b)
    BY <1>2, SettledSays DEF EndAnswered, Write, Told
  <2> QED BY <1>7, <2>1, <2>2, <2>3, <2>4, <2>5 DEF HandOverStep
<1>8. ASSUME NEW b \in Attempts, LookAt(b) PROVE FALSE
  <2>1. PICK g \in {"cleared", "remains"} :
          \/ Write(b, [journal[b] EXCEPT !.phase = "restarted", !.group = g])
          \/ Write(b, Settled(b, g))
          \/ Write(b, [journal[b] EXCEPT !.group = g])
    BY <1>8 DEF LookAt
  <2>2. ~Write(b, [journal[b] EXCEPT !.phase = "restarted", !.group = g])
    <3>1. PICK phase : phase = "restarted" /\ phase \notin Told
      BY DEF Told
    <3> QED BY <1>5, <3>1 DEF Write
  <2>3. ~Write(b, [journal[b] EXCEPT !.group = g])
    <3>1. [journal[b] EXCEPT !.group = g].phase = journal[b].phase
      BY <1>0 DEF Entry
    <3> QED BY <1>2, <3>1 DEF Write
  <2>4. ~Write(b, Settled(b, g))
    BY <1>2, SettledSays DEF Write, Told
  <2> QED BY <2>1, <2>2, <2>3, <2>4
<1> HIDE DEF G
<1>9. G
  BY <1>1, <1>6, <1>7, <1>8
     DEF HostNext, PlatformStep, hostVars, allVars, Take, Beat, GiveUpLease, Unanswered, PutOff, Arrive, Drop, Crash
<1> QED BY <1>9 DEF G

\* What the platform answered stays done, and the journal does not get ahead of it.
LEMMA NotAheadStep ==
  ASSUME HostInv, [HostNext]_allVars, Stored, JournalNotAhead
  PROVE  Stored' /\ JournalNotAhead'
<1>0. /\ IInv /\ TypeOK /\ [LeaseNext]_leaseVars
      /\ \A b \in Attempts : Fits(b)
  BY HostIsLease DEF HostInv, IInv
\* What the host has a trace of is a row, which keeps what it has.
<1>1. ASSUME NEW b \in Attempts, Phase(b) # "none" \/ \E r \in Routes : Sent(b, r)
      PROVE  /\ attempt[b].computed => attempt'[b].computed
             /\ attempt[b].persisted => attempt'[b].persisted
             /\ attempt[b].state = "submitted" => attempt'[b].state = "submitted"
  <2>1. attempt[b].state # "none"
    BY <1>0, <1>1 DEF Fits, Untouched
  <2> QED BY <1>0, <2>1, RowsLast
<1>2. Stored'
  <2> SUFFICES ASSUME NEW b \in Attempts
               PROVE  /\ <<b, "computed">> \in answered' => attempt'[b].computed
                      /\ <<b, "persist">> \in answered' => attempt'[b].persisted
                      /\ <<b, "submit">> \in answered' => attempt'[b].state = "submitted"
    BY DEF Stored
  <2> DEFINE New == /\ <<b, "computed">> \in answered' => <<b, "computed">> \in answered \/ attempt'[b].computed
                    /\ <<b, "persist">> \in answered' => <<b, "persist">> \in answered \/ attempt'[b].persisted
                    /\ <<b, "submit">> \in answered' => <<b, "submit">> \in answered \/ attempt'[b].state = "submitted"
  <2>1. ASSUME NEW a \in Attempts, NEW r \in Routes, Takes(a, r) PROVE New
    BY <1>0, <2>1, TakesStores
  <2>2. UNCHANGED answered => New
    OBVIOUS
  <2>3. {"start", "computed", "persist", "submit", "salvage", "ended"} \subseteq Routes
    BY DEF Routes
  <2> HIDE DEF New
  <2>4. ASSUME NEW a \in Attempts, RunStep(a) PROVE New
    <3>1. CASE Release(a)
      BY <2>1, <2>3, <3>1 DEF Release
    <3> QED BY <2>2, <2>4, <3>1 DEF RunStep, Unreadable, Register, GiveUpWaiting, TakeHost, NotPrepared, NotStarted,
          Launch, NotReleased, ExecutorEnds
  <2>5. ASSUME NEW a \in Attempts, HandOverStep(a) PROVE New
    <3>1. CASE Delivered(a)
      <4>1. PICK r : r = NextCall(a)
        OBVIOUS
      <4>2. r \in {"computed", "persist", "submit"}
        BY <3>1, <4>1 DEF Delivered, NextCall
      <4> QED BY <2>1, <2>3, <3>1, <4>1, <4>2 DEF Delivered
    <3>2. CASE Salvaged(a)
      BY <2>1, <2>3, <3>2 DEF Salvaged
    <3>3. CASE EndAnswered(a)
      BY <2>1, <2>2, <2>3, <3>3 DEF EndAnswered
    <3> QED BY <2>2, <2>5, <3>1, <3>2, <3>3 DEF HandOverStep, Prepare, Submitting, FencedOff, EndsHere
  <2>6. ASSUME NEW a \in Attempts, NEW r \in Routes, Arrive(a, r) PROVE New
    BY <2>1, <2>2, <2>6 DEF Arrive
  <2>7. New
    BY <2>2, <2>4, <2>5, <2>6
       DEF HostNext, PlatformStep, Take, Beat, GiveUpLease, Unanswered, PutOff, LookAt, Drop, Crash, hostVars, allVars
  <2>8. <<b, "computed">> \in answered \/ <<b, "persist">> \in answered \/ <<b, "submit">> \in answered
        => \E r \in Routes : Sent(b, r)
    BY <2>3 DEF Sent
  <2> QED BY <1>1, <2>7, <2>8 DEF New, Stored
<1>3. JournalNotAhead'
  <2> SUFFICES ASSUME NEW b \in Attempts, Phase(b)' \in Told
               PROVE  /\ Phase(b)' \in Delivery \ {"exited"} => attempt'[b].computed
                      /\ Phase(b)' \in {"persisted", "submitting"} => attempt'[b].persisted
                      /\ Phase(b)' = "submitted" => attempt'[b].state = "submitted"
    BY DEF JournalNotAhead, Told, Delivery
  <2>1. CASE Phase(b)' = Phase(b)
    BY <1>1, <2>1 DEF JournalNotAhead, Told
  <2>2. CASE Submitting(b)
    <3>1. Phase(b) = "persisted" /\ Phase(b)' = "submitting"
      BY <2>2, HostTypes DEF Submitting, Write, To, Phase, Entry
    <3> QED BY <1>1, <3>1 DEF JournalNotAhead, Delivery
  <2>3. CASE Delivered(b)
    <3>1. PICK next : next = CASE Phase(b) = "exited"   -> "computed"
                               [] Phase(b) = "computed" -> "persisted"
                               [] OTHER                 -> "submitted"
      OBVIOUS
    <3>2. PICK r : r = NextCall(b)
      OBVIOUS
    <3>3. \/ Phase(b) = "exited" /\ r = "computed" /\ next = "computed"
          \/ Phase(b) = "computed" /\ r = "persist" /\ next = "persisted"
          \/ Phase(b) = "submitting" /\ r = "submit" /\ next = "submitted"
      BY <2>3, <3>1, <3>2 DEF Delivered, NextCall
    <3>4. Phase(b)' = next
      <4>1. journal' = [journal EXCEPT ![b] = [journal[b] EXCEPT !.phase = next]]
        BY <2>3, <3>1 DEF Delivered, Write, To
      <4> QED BY <4>1, HostTypes DEF Phase, Entry
    <3>5. r \in Routes /\ r # "start"
      BY <3>3 DEF Routes
    <3>6. <<b, r>> \in answered'
      <4>1. Takes(b, r) /\ <<b, "start">> \notin answered
        BY <1>0, <2>3, <3>2 DEF Delivered, Fits, Followed
      <4> QED BY <1>0, <3>5, <4>1, TakesFacts
    <3>7. Phase(b) = "computed" => attempt'[b].computed
      BY <1>1 DEF JournalNotAhead, Delivery
    <3> QED BY <1>2, <3>3, <3>4, <3>6, <3>7 DEF Stored, Delivery
  <2> QED BY <2>1, <2>2, <2>3, TellsOfAnswer
<1> QED BY <1>2, <1>3

\* The journal is never ahead of the platform (deliver writes a phase once its call is
\* answered, and keyed.go stores the answer with the work), so a daemon that goes on from
\* it after a crash leaves out no step of a hand-over.
THEOREM NeverAhead == HostSpec => []JournalNotAhead
<1>1. HostInit => Stored /\ JournalNotAhead
  BY DEF HostInit, Stored, JournalNotAhead, Phase, NoEntry, Delivery
<1>2. HostInv /\ (Stored /\ JournalNotAhead) /\ [HostNext]_allVars => (Stored /\ JournalNotAhead)'
  BY NotAheadStep
<1> QED BY <1>1, <1>2, HostIsRight, PTL DEF HostSpec
=============================================================================
