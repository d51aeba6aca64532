------------------------- MODULE AttemptLeaseProofs -------------------------
(***************************************************************************)
(* Theorems about AttemptLease, for every set of tasks and hosts, every    *)
(* number of attempts and slots, every lease time and grace.               *)
(***************************************************************************)
EXTENDS AttemptLease, FiniteSetTheorems, TLAPS

\* The first state has its types.
LEMMA TypeInit == Init => TypeOK
<1> SUFFICES ASSUME Init PROVE TypeOK
  OBVIOUS
<1>1. NoAttempt \in AttemptRow
  BY LeaseConstants DEF NoAttempt, AttemptRow, AttemptStates, LiveStates
<1> QED
  BY <1>1 DEF Init, TypeOK, MissionStates, TaskStates

\* Every handler writes rows of the declared types.
LEMMA TypeStep == TypeOK /\ [LeaseNext]_leaseVars => TypeOK'
<1> SUFFICES ASSUME TypeOK, [LeaseNext]_leaseVars PROVE TypeOK'
  OBVIOUS
<1> USE LeaseConstants DEF TypeOK
<1>1. ASSUME NEW h \in Hosts, NEW t \in Tasks, Claim(h, t) PROVE TypeOK'
  <2>1. [NoAttempt EXCEPT !.state = "leased", !.host = h, !.epoch = epochSeq + 1, !.left = LeaseTTL] \in AttemptRow
    <3>1. epochSeq + 1 \in Nat /\ LeaseTTL \in (-Grace)..LeaseTTL
      OBVIOUS
    <3> QED BY <3>1 DEF NoAttempt, AttemptRow, AttemptStates, LiveStates
  <2>2. PICK n \in 1..MaxAttempts : attempt' = [attempt EXCEPT ![<<t, n>>] =
          [NoAttempt EXCEPT !.state = "leased", !.host = h, !.epoch = epochSeq + 1, !.left = LeaseTTL]]
    BY <1>1 DEF Claim, LeasedRow
  <2>3. attempt' \in [Attempts -> AttemptRow]
    BY <2>1, <2>2
  <2> QED BY <1>1, <2>3 DEF Claim, TaskStates
<1>0. ASSUME NEW a \in Attempts, NEW r \in AttemptRow, attempt' = [attempt EXCEPT ![a] = r]
      PROVE  attempt' \in [Attempts -> AttemptRow]
  BY <1>0
<1>2. ASSUME NEW a \in Attempts, NEW h \in Hosts, NEW e \in 1..epochSeq, Heartbeat(a, h, e) PROVE TypeOK'
  <2> DEFINE s == IF attempt[a].state # "stale" /\ ~Lapsed(a) THEN attempt[a].state
                  ELSE IF attempt[a].started THEN "running" ELSE "leased"
  <2>1. s \in AttemptStates /\ LeaseTTL \in (-Grace)..LeaseTTL
    BY DEF AttemptRow, AttemptStates, LiveStates
  <2>2. attempt' = [attempt EXCEPT ![a] = [attempt[a] EXCEPT !.left = LeaseTTL, !.state = s]]
    BY <1>2 DEF Heartbeat
  <2> HIDE DEF s
  <2>3. [attempt[a] EXCEPT !.left = LeaseTTL, !.state = s] \in AttemptRow
    BY <2>1 DEF AttemptRow
  <2> QED BY <1>0, <1>2, <2>2, <2>3 DEF Heartbeat
<1>3. ASSUME NEW a \in Attempts, NEW h \in Hosts, NEW e \in 1..epochSeq, Start(a, h, e) PROVE TypeOK'
  <2>1. [attempt[a] EXCEPT !.state = "running", !.started = TRUE] \in AttemptRow
    BY DEF AttemptRow, AttemptStates, LiveStates
  <2> QED BY <1>0, <1>3, <2>1 DEF Start, TaskStates, Attempts
<1>4. ASSUME NEW a \in Attempts, NEW h \in Hosts, NEW e \in 1..epochSeq, Computed(a, h, e) PROVE TypeOK'
  BY <1>4 DEF Computed, AttemptRow
<1>5. ASSUME NEW a \in Attempts, NEW h \in Hosts, NEW e \in 1..epochSeq, Persist(a, h, e) PROVE TypeOK'
  BY <1>5 DEF Persist, AttemptRow
<1>6. ASSUME NEW a \in Attempts, NEW h \in Hosts, NEW e \in 1..epochSeq, Submit(a, h, e) PROVE TypeOK'
  BY <1>6 DEF Submit, AttemptRow, AttemptStates, TaskStates, Attempts
<1>7. ASSUME NEW a \in Attempts, NEW h \in Hosts, Salvage(a, h) PROVE TypeOK'
  BY <1>7 DEF Salvage, AttemptRow
<1>8. ASSUME NEW a \in Attempts, NEW h \in Hosts, Ended(a, h) PROVE TypeOK'
  <2> DEFINE s == IF Live(a) THEN "failed" ELSE attempt[a].state
  <2>1. s \in AttemptStates
    BY DEF AttemptRow, AttemptStates
  <2>2. attempt' = [attempt EXCEPT ![a] = [attempt[a] EXCEPT !.ended = TRUE, !.state = s]]
    BY <1>8 DEF Ended
  <2> HIDE DEF s
  <2>3. [attempt[a] EXCEPT !.ended = TRUE, !.state = s] \in AttemptRow
    BY <2>1 DEF AttemptRow
  <2> QED BY <1>0, <1>8, <2>2, <2>3 DEF Ended, TaskStates, Attempts, Released
<1>9. ASSUME NEW a \in Attempts, Sweep(a) PROVE TypeOK'
  BY <1>9 DEF Sweep, AttemptRow, AttemptStates, LiveStates, TaskStates, Attempts, Released
<1>10. ASSUME NEW t \in Tasks, ProposeTask(t) PROVE TypeOK'
  BY <1>10 DEF ProposeTask, TaskStates
<1>11. ASSUME NEW t \in Tasks, NEW to \in TaskStates, MoveTask(t, to) PROVE TypeOK'
  BY <1>11 DEF MoveTask
<1>12. ASSUME NEW S \in SUBSET Tasks, CancelAll(S) PROVE /\ attempt' \in [Attempts -> AttemptRow]
                                                       /\ task' \in [Tasks -> TaskStates]
  BY <1>12 DEF CancelAll, AttemptRow, AttemptStates, TaskStates
<1>13. ASSUME NEW t \in Tasks, CloseOnCard(t) PROVE TypeOK'
  <2>1. Unfinished \in SUBSET Tasks BY DEF Unfinished
  <2> QED BY <1>12, <1>13, <2>1 DEF CloseOnCard, MissionStates
<1>14. ASSUME NEW t \in Tasks, CancelAfterClose(t) PROVE TypeOK'
  BY <1>12, <1>14 DEF CancelAfterClose
<1>15. CASE MoveMission
  BY <1>15 DEF MoveMission, MissionStates
<1>16. CASE Tick
  <2>1. ASSUME NEW a \in Attempts, ~PastGrace(a) PROVE attempt[a].left - 1 \in (-Grace)..LeaseTTL
    BY <2>1 DEF PastGrace, AttemptRow
  <2> QED BY <1>16, <2>1 DEF Tick, AttemptRow
<1>17. CASE UNCHANGED leaseVars
  BY <1>17 DEF leaseVars
<1> QED
  BY <1>1, <1>2, <1>3, <1>4, <1>5, <1>6, <1>7, <1>8, <1>9, <1>10, <1>11, <1>13, <1>14, <1>15, <1>16, <1>17
     DEF LeaseNext, HostCall

\* Every variable always has its type.
THEOREM TypeCorrect == Spec => []TypeOK
<1> QED BY TypeInit, TypeStep, PTL DEF Spec

-----------------------------------------------------------------------------
(* Only a claim makes an attempt: every other step leaves host and epoch   *)
(* of every row alone and makes none of them live.                         *)

Keeps ==
  /\ epochSeq' = epochSeq
  /\ \A a \in Attempts :
       /\ (attempt'[a].state = "none") <=> (attempt[a].state = "none")
       /\ attempt'[a].host = attempt[a].host
       /\ attempt'[a].epoch = attempt[a].epoch
       /\ Live(a)' => Live(a)

\* No handler but a claim makes a row, renames its holder or revives it.
LEMMA ClaimOrKeeps ==
  TypeOK /\ [LeaseNext]_leaseVars => Keeps \/ \E h \in Hosts, t \in Tasks : Claim(h, t)
<1> SUFFICES ASSUME TypeOK, [LeaseNext]_leaseVars,
                    ~ \E h \in Hosts, t \in Tasks : Claim(h, t)
             PROVE  Keeps
  OBVIOUS
<1> USE DEF Live, LiveStates
<1>0. attempt \in [Attempts -> AttemptRow]
  BY DEF TypeOK
<1>2. ASSUME NEW a \in Attempts, NEW h \in Hosts, NEW e \in 1..epochSeq, Heartbeat(a, h, e) PROVE Keeps
  BY <1>0, <1>2 DEF Heartbeat, Fence, Keeps, AttemptRow
<1>3. ASSUME NEW a \in Attempts, NEW h \in Hosts, NEW e \in 1..epochSeq, Start(a, h, e) PROVE Keeps
  BY <1>0, <1>3 DEF Start, Fence, Keeps, AttemptRow
<1>4. ASSUME NEW a \in Attempts, NEW h \in Hosts, NEW e \in 1..epochSeq, Computed(a, h, e) PROVE Keeps
  BY <1>0, <1>4 DEF Computed, Fence, Keeps, AttemptRow
<1>5. ASSUME NEW a \in Attempts, NEW h \in Hosts, NEW e \in 1..epochSeq, Persist(a, h, e) PROVE Keeps
  BY <1>0, <1>5 DEF Persist, Fence, Keeps, AttemptRow
<1>6. ASSUME NEW a \in Attempts, NEW h \in Hosts, NEW e \in 1..epochSeq, Submit(a, h, e) PROVE Keeps
  BY <1>0, <1>6 DEF Submit, Fence, Keeps, AttemptRow
<1>7. ASSUME NEW a \in Attempts, NEW h \in Hosts, Salvage(a, h) PROVE Keeps
  BY <1>0, <1>7 DEF Salvage, Keeps, AttemptRow
<1>8. ASSUME NEW a \in Attempts, NEW h \in Hosts, Ended(a, h) PROVE Keeps
  BY <1>0, <1>8 DEF Ended, Keeps, AttemptRow
<1>9. ASSUME NEW a \in Attempts, Sweep(a) PROVE Keeps
  BY <1>0, <1>9 DEF Sweep, Sweepable, Keeps, AttemptRow
<1>10. ASSUME NEW t \in Tasks, ProposeTask(t) PROVE Keeps
  BY <1>10 DEF ProposeTask, Keeps
<1>11. ASSUME NEW t \in Tasks, NEW to \in TaskStates, MoveTask(t, to) PROVE Keeps
  BY <1>11 DEF MoveTask, Keeps
<1>12. ASSUME NEW S, CancelAll(S), UNCHANGED epochSeq PROVE Keeps
  BY <1>0, <1>12 DEF CancelAll, Keeps, AttemptRow
<1>13. ASSUME NEW t \in Tasks, CloseOnCard(t) PROVE Keeps
  BY <1>12, <1>13 DEF CloseOnCard
<1>14. ASSUME NEW t \in Tasks, CancelAfterClose(t) PROVE Keeps
  BY <1>12, <1>14 DEF CancelAfterClose
<1>15. CASE MoveMission
  BY <1>15 DEF MoveMission, Keeps
<1>16. CASE Tick
  BY <1>0, <1>16 DEF Tick, Keeps, AttemptRow
<1>17. CASE UNCHANGED leaseVars
  BY <1>17 DEF leaseVars, Keeps
<1> QED
  BY <1>2, <1>3, <1>4, <1>5, <1>6, <1>7, <1>8, <1>9, <1>10, <1>11, <1>13, <1>14, <1>15, <1>16, <1>17
     DEF LeaseNext, HostCall

-----------------------------------------------------------------------------
(* The inductive invariant.                                                *)

\* The attempts of a task are made one after the other.
RowsInOrder ==
  \A a, b \in Attempts : a[1] = b[1] /\ a[2] < b[2] /\ attempt[a].state = "none"
                        => attempt[b].state = "none"

\* A live attempt is its task's last.
LiveIsLast ==
  \A a, b \in Attempts : a[1] = b[1] /\ a[2] < b[2] /\ Live(a) => attempt[b].state = "none"

\* What a claim does to the rows.
ClaimRow(h, t, n) ==
  /\ NextNo(t, n)
  /\ attempt' = [attempt EXCEPT ![<<t, n>>] = LeasedRow(h)]
  /\ epochSeq' = epochSeq + 1
  /\ task[t] = "ready" /\ task' = [task EXCEPT ![t] = "leased"]

\* A claim is the writing of one row, the task's next.
LEMMA ClaimMakesRow ==
  ASSUME NEW h \in Hosts, NEW t \in Tasks, Claim(h, t)
  PROVE  \E n \in 1..MaxAttempts : ClaimRow(h, t, n)
BY DEF Claim, ClaimRow

\* No later row exists when a claim makes the next one, and every earlier one does.
LEMMA NextNoIsNext ==
  ASSUME RowsInOrder, NEW t \in Tasks, NEW n \in 1..MaxAttempts, NextNo(t, n),
         NEW b \in Attempts, b[1] = t
  PROVE  /\ b[2] >= n => attempt[b].state = "none"
         /\ b[2] < n => attempt[b].state # "none"
<1>1. b = <<t, b[2]>> /\ b[2] \in 1..MaxAttempts /\ <<t, n>> \in Attempts
  BY DEF Attempts
<1>2. b[2] >= n => attempt[b].state = "none"
  BY <1>1, LeaseConstants DEF RowsInOrder, NextNo
<1>3. ASSUME b[2] < n PROVE attempt[b].state # "none"
  <2>1. n > 1 /\ n - 1 \in 1..MaxAttempts /\ <<t, n - 1>> \in Attempts /\ b[2] <= n - 1
    BY <1>1, <1>3, LeaseConstants DEF Attempts
  <2>2. attempt[<<t, n - 1>>].state # "none"
    BY <2>1 DEF NextNo
  <2> QED BY <1>1, <2>1, <2>2, LeaseConstants DEF RowsInOrder
<1> QED BY <1>2, <1>3

\* Attempt numbers are given out without gaps (lease: one more than the last).
LEMMA RowsInOrderStep == TypeOK /\ RowsInOrder /\ [LeaseNext]_leaseVars => RowsInOrder'
<1> SUFFICES ASSUME TypeOK, RowsInOrder, [LeaseNext]_leaseVars,
                    NEW a \in Attempts, NEW b \in Attempts, a[1] = b[1], a[2] < b[2],
                    attempt'[a].state = "none"
             PROVE  attempt'[b].state = "none"
  BY DEF RowsInOrder
<1>1. CASE Keeps
  BY <1>1 DEF Keeps, RowsInOrder
<1>2. ASSUME NEW h \in Hosts, NEW t \in Tasks, Claim(h, t) PROVE attempt'[b].state = "none"
  <2>1. PICK n \in 1..MaxAttempts : ClaimRow(h, t, n)
    BY <1>2, ClaimMakesRow
  <2>2. attempt[a].state = "none" /\ a # <<t, n>>
    BY <2>1 DEF ClaimRow, LeasedRow, TypeOK, NoAttempt
  <2>3. attempt[b].state = "none"
    BY <2>2 DEF RowsInOrder
  <2>4. b # <<t, n>>
    <3>1. a[1] = t /\ b[2] = n => attempt[a].state # "none"
      BY <2>1, NextNoIsNext DEF ClaimRow
    <3> QED BY <3>1, <2>2
  <2> QED BY <2>1, <2>3, <2>4 DEF ClaimRow, TypeOK
<1> QED BY <1>1, <1>2, ClaimOrKeeps

\* A claim, which needs a ready task, finds no live attempt of it.
LEMMA LiveIsLastStep ==
  TypeOK /\ RowsInOrder /\ LiveIsLast /\ TaskSaysLive /\ [LeaseNext]_leaseVars => LiveIsLast'
<1> SUFFICES ASSUME TypeOK, RowsInOrder, LiveIsLast, TaskSaysLive, [LeaseNext]_leaseVars,
                    NEW a \in Attempts, NEW b \in Attempts, a[1] = b[1], a[2] < b[2], Live(a)'
             PROVE  attempt'[b].state = "none"
  BY DEF LiveIsLast
<1>1. CASE Keeps
  BY <1>1 DEF Keeps, LiveIsLast
<1>2. ASSUME NEW h \in Hosts, NEW t \in Tasks, Claim(h, t) PROVE attempt'[b].state = "none"
  <2>1. PICK n \in 1..MaxAttempts : ClaimRow(h, t, n)
    BY <1>2, ClaimMakesRow
  <2>2. CASE a[1] = t
    <3>1. ~Live(a)
      BY <2>1, <2>2 DEF ClaimRow, TaskSaysLive, LiveOf
    <3>2. a = <<t, n>>
      BY <2>1, <3>1 DEF ClaimRow, TypeOK, Live
    <3>3. b[1] = t /\ b[2] \in Nat /\ n < b[2]
      BY <3>2, LeaseConstants DEF Attempts
    <3>4. attempt[b].state = "none" /\ b # <<t, n>>
      BY <2>1, <3>3, NextNoIsNext DEF ClaimRow
    <3> QED BY <2>1, <3>4 DEF ClaimRow, TypeOK
  <2>3. CASE a[1] # t
    <3>1. attempt'[a] = attempt[a] /\ attempt'[b] = attempt[b]
      BY <2>1, <2>3 DEF ClaimRow, TypeOK
    <3> QED BY <3>1 DEF LiveIsLast, Live
  <2> QED BY <2>2, <2>3
<1> QED BY <1>1, <1>2, ClaimOrKeeps

\* The epoch a claim takes from the sequence is above every one given out.
LEMMA FreshEpochsStep ==
  TypeOK /\ RowsInOrder /\ FreshEpochs /\ [LeaseNext]_leaseVars => FreshEpochs'
<1> SUFFICES ASSUME TypeOK, RowsInOrder, FreshEpochs, [LeaseNext]_leaseVars PROVE FreshEpochs'
  OBVIOUS
<1>1. CASE Keeps
  BY <1>1 DEF Keeps, FreshEpochs
<1>2. ASSUME NEW h \in Hosts, NEW t \in Tasks, Claim(h, t) PROVE FreshEpochs'
  <2>1. PICK n \in 1..MaxAttempts : ClaimRow(h, t, n)
    BY <1>2, ClaimMakesRow
  <2>2. <<t, n>> \in Attempts /\ epochSeq \in Nat
    BY DEF Attempts, TypeOK
  <2>3. \A a \in Attempts : IF a = <<t, n>> THEN attempt'[a].epoch = epochSeq + 1
                                            ELSE attempt'[a] = attempt[a]
    BY <2>1, <2>2 DEF ClaimRow, LeasedRow, TypeOK, NoAttempt
  <2>4. \A b \in Attempts : b[1] = t /\ n < b[2] => attempt'[b].state = "none"
    BY <2>1, <2>3, NextNoIsNext, LeaseConstants DEF ClaimRow, Attempts
  <2> SUFFICES ASSUME NEW a \in Attempts, NEW b \in Attempts
      PROVE (/\ attempt'[a].state # "none" => attempt'[a].epoch \in 1..epochSeq'
             /\ attempt'[a].state # "none" /\ attempt'[b].state # "none" /\ a # b
                  => attempt'[a].epoch # attempt'[b].epoch
             /\ attempt'[b].state # "none" /\ a[1] = b[1] /\ a[2] < b[2]
                  => attempt'[a].epoch < attempt'[b].epoch)
    BY DEF FreshEpochs
  <2>5. epochSeq' = epochSeq + 1
    BY <2>1 DEF ClaimRow
  <2>6. ASSUME NEW c \in Attempts, c # <<t, n>>, attempt'[c].state # "none"
        PROVE  attempt'[c].epoch \in 1..epochSeq
    BY <2>3, <2>6 DEF FreshEpochs
  <2>7. CASE a # <<t, n>> /\ b # <<t, n>>
    BY <2>2, <2>3, <2>5, <2>7 DEF FreshEpochs
  <2>8. CASE a = <<t, n>>
    BY <2>2, <2>3, <2>4, <2>5, <2>6, <2>8
  <2>9. CASE a # <<t, n>> /\ b = <<t, n>>
    <3>1. a[1] = t /\ a[2] < n => attempt'[a].state # "none"
      BY <2>1, <2>3, <2>9, NextNoIsNext DEF ClaimRow
    <3>2. attempt'[b].epoch = epochSeq + 1
      BY <2>3, <2>9
    <3>3. attempt'[a].state # "none" => attempt'[a].epoch \in 1..epochSeq
      BY <2>6, <2>9
    <3>4. ~(a[1] = b[1] /\ a[2] < b[2]) \/ attempt'[a].state # "none"
      BY <2>9, <3>1
    <3> QED BY <2>2, <2>5, <3>2, <3>3, <3>4
  <2> QED BY <2>7, <2>8, <2>9
<1> QED BY <1>1, <1>2, ClaimOrKeeps

-----------------------------------------------------------------------------
(* The stages of one attempt.                                              *)

Stages(r) ==
  /\ r.state = "leased" => ~r.started
  /\ r.state = "running" => r.started
  /\ r.computed => r.started
  /\ r.persisted => r.computed \/ r.salvaged
  /\ r.state = "submitted" => r.computed /\ r.persisted /\ ~r.salvaged
  /\ r.salvaged => r.left <= -Grace

StagesInOrder == \A a \in Attempts : Stages(attempt[a])

\* The guards of the attempt routes keep the stages of each row in order.
LEMMA StagesStep == TypeOK /\ StagesInOrder /\ [LeaseNext]_leaseVars => StagesInOrder'
<1> SUFFICES ASSUME TypeOK, StagesInOrder, [LeaseNext]_leaseVars, NEW b \in Attempts
             PROVE  Stages(attempt'[b])
  BY DEF StagesInOrder
<1> USE LeaseConstants DEF Stages, Live, LiveStates, PastGrace, Fence
<1>0. attempt \in [Attempts -> AttemptRow] /\ Stages(attempt[b])
  BY DEF TypeOK, StagesInOrder
<1>1. ASSUME NEW h \in Hosts, NEW t \in Tasks, Claim(h, t) PROVE Stages(attempt'[b])
  <2>1. PICK n \in 1..MaxAttempts : ClaimRow(h, t, n)
    BY <1>1, ClaimMakesRow
  <2>2. CASE b = <<t, n>>
    BY <1>0, <2>1, <2>2 DEF ClaimRow, LeasedRow, NoAttempt
  <2>3. CASE b # <<t, n>>
    BY <1>0, <2>1, <2>3 DEF ClaimRow
  <2> QED BY <2>2, <2>3
<1>2. ASSUME NEW a \in Attempts, NEW h \in Hosts, NEW e \in 1..epochSeq, Heartbeat(a, h, e) PROVE Stages(attempt'[b])
  BY <1>0, <1>2 DEF Heartbeat, AttemptRow
<1>3. ASSUME NEW a \in Attempts, NEW h \in Hosts, NEW e \in 1..epochSeq, Start(a, h, e) PROVE Stages(attempt'[b])
  BY <1>0, <1>3 DEF Start, AttemptRow
<1>4. ASSUME NEW a \in Attempts, NEW h \in Hosts, NEW e \in 1..epochSeq, Computed(a, h, e) PROVE Stages(attempt'[b])
  BY <1>0, <1>4 DEF Computed, AttemptRow
<1>5. ASSUME NEW a \in Attempts, NEW h \in Hosts, NEW e \in 1..epochSeq, Persist(a, h, e) PROVE Stages(attempt'[b])
  BY <1>0, <1>5 DEF Persist, AttemptRow
<1>6. ASSUME NEW a \in Attempts, NEW h \in Hosts, NEW e \in 1..epochSeq, Submit(a, h, e) PROVE Stages(attempt'[b])
  BY <1>0, <1>6 DEF Submit, AttemptRow
<1>7. ASSUME NEW a \in Attempts, NEW h \in Hosts, Salvage(a, h) PROVE Stages(attempt'[b])
  BY <1>0, <1>7 DEF Salvage, AttemptRow
<1>8. ASSUME NEW a \in Attempts, NEW h \in Hosts, Ended(a, h) PROVE Stages(attempt'[b])
  BY <1>0, <1>8 DEF Ended, AttemptRow
<1>9. ASSUME NEW a \in Attempts, Sweep(a) PROVE Stages(attempt'[b])
  BY <1>0, <1>9 DEF Sweep, AttemptRow
<1>10. ASSUME UNCHANGED attempt PROVE Stages(attempt'[b])
  BY <1>0, <1>10
<1>12. ASSUME NEW S, CancelAll(S) PROVE Stages(attempt'[b])
  BY <1>0, <1>12 DEF CancelAll, AttemptRow
<1>16. CASE Tick
  BY <1>0, <1>16 DEF Tick, AttemptRow
<1> QED
  BY <1>1, <1>2, <1>3, <1>4, <1>5, <1>6, <1>7, <1>8, <1>9, <1>10, <1>12, <1>16
     DEF LeaseNext, HostCall, ProposeTask, MoveTask, CloseOnCard, CancelAfterClose, MoveMission, leaseVars

-----------------------------------------------------------------------------
(* The task says what its attempts do.                                     *)

SaysLive(t) ==
  /\ (task[t] = "leased")  <=> (\E a \in LiveOf(t) : ~attempt[a].started)
  /\ (task[t] = "running") <=> (\E a \in LiveOf(t) : attempt[a].started)

\* Two live attempts of a task cannot both be its last.
LEMMA OneLive == LiveIsLast => OneLiveAttempt
<1> SUFFICES ASSUME LiveIsLast, NEW a \in Attempts, NEW b \in Attempts, a[1] = b[1], Live(a), Live(b)
             PROVE  a = b
  BY DEF OneLiveAttempt
<1>1. a = <<a[1], a[2]>> /\ b = <<b[1], b[2]>> /\ a[2] \in Nat /\ b[2] \in Nat
  BY LeaseConstants DEF Attempts
<1>2. attempt[a].state # "none" /\ attempt[b].state # "none"
  BY DEF Live, LiveStates
<1>3. ~(a[2] < b[2]) /\ ~(b[2] < a[2])
  BY <1>2 DEF LiveIsLast
<1> QED BY <1>1, <1>3

\* A task is right about its attempts after a step that leaves both alone ...
LEMMA StillSaysLive ==
  ASSUME NEW t \in Tasks, SaysLive(t),
         \A b \in Attempts : b[1] = t => /\ Live(b)' <=> Live(b)
                                        /\ attempt'[b].started = attempt[b].started,
         (task'[t] = "leased") <=> (task[t] = "leased"),
         (task'[t] = "running") <=> (task[t] = "running")
  PROVE  SaysLive(t)'
BY DEF SaysLive, LiveOf

\* ... and after one that ends its live attempt.
LEMMA SaysNoneLive ==
  ASSUME NEW t \in Tasks, \A b \in Attempts : b[1] = t => ~Live(b)',
         task'[t] \notin {"leased", "running"}
  PROVE  SaysLive(t)'
BY DEF SaysLive, LiveOf

\* Every handler that starts or ends an attempt moves its task with it.
LEMMA TaskSaysLiveStep ==
  TypeOK /\ StagesInOrder /\ LiveIsLast /\ TaskSaysLive /\ [LeaseNext]_leaseVars => TaskSaysLive'
<1> SUFFICES ASSUME TypeOK, StagesInOrder, LiveIsLast, TaskSaysLive, [LeaseNext]_leaseVars, NEW t \in Tasks
             PROVE  SaysLive(t)'
  BY DEF TaskSaysLive, SaysLive
<1>0. /\ attempt \in [Attempts -> AttemptRow] /\ task \in [Tasks -> TaskStates]
      /\ SaysLive(t) /\ \A u \in Tasks : SaysLive(u)
  BY DEF TypeOK, TaskSaysLive, SaysLive
<1>one. ASSUME NEW a \in Attempts, NEW b \in Attempts, a[1] = b[1], Live(a), Live(b) PROVE a = b
  BY <1>one, OneLive DEF OneLiveAttempt
<1>in. \A a \in Attempts : a[1] \in Tasks
  BY DEF Attempts
<1>1. ASSUME NEW h \in Hosts, NEW u \in Tasks, Claim(h, u) PROVE SaysLive(t)'
  <2>1. PICK n \in 1..MaxAttempts : ClaimRow(h, u, n)
    BY <1>1, ClaimMakesRow
  <2>2. <<u, n>> \in Attempts /\ <<u, n>>[1] = u
    BY DEF Attempts
  <2>3. CASE t = u
    <3>1. \A b \in Attempts : b[1] = t => ~Live(b)
      BY <1>0, <2>1, <2>3 DEF ClaimRow, SaysLive, LiveOf
    <3>2. /\ Live(<<u, n>>)' /\ ~attempt'[<<u, n>>].started
          /\ \A b \in Attempts : b # <<u, n>> => attempt'[b] = attempt[b]
      BY <1>0, <2>1, <2>2 DEF ClaimRow, LeasedRow, Live, LiveStates, NoAttempt
    <3>3. \A b \in Attempts : b[1] = t => (Live(b)' <=> b = <<u, n>>)
      BY <3>1, <3>2 DEF Live
    <3>4. task'[t] = "leased"
      BY <1>0, <2>1, <2>3 DEF ClaimRow
    <3> QED BY <2>2, <2>3, <3>2, <3>3, <3>4 DEF SaysLive, LiveOf
  <2>4. CASE t # u
    <3>1. \A b \in Attempts : b[1] = t => attempt'[b] = attempt[b]
      BY <1>0, <2>1, <2>2, <2>4 DEF ClaimRow
    <3>2. task'[t] = task[t]
      BY <1>0, <2>1, <2>4 DEF ClaimRow
    <3> QED BY <1>0, <3>1, <3>2, StillSaysLive DEF Live
  <2> QED BY <2>3, <2>4
<1>2. ASSUME NEW a \in Attempts, NEW h \in Hosts, NEW e \in 1..epochSeq, Heartbeat(a, h, e) PROVE SaysLive(t)'
  <2>1. \A b \in Attempts : (Live(b)' <=> Live(b)) /\ attempt'[b].started = attempt[b].started
    BY <1>0, <1>2 DEF Heartbeat, Fence, Live, LiveStates, AttemptRow
  <2> QED BY <1>0, <1>2, <2>1, StillSaysLive DEF Heartbeat
<1>3. ASSUME NEW a \in Attempts, NEW h \in Hosts, NEW e \in 1..epochSeq, Start(a, h, e) PROVE SaysLive(t)'
  <2>1. /\ Live(a) /\ Live(a)' /\ attempt'[a].started
        /\ \A b \in Attempts : b # a => attempt'[b] = attempt[b]
    BY <1>0, <1>3 DEF Start, Fence, Live, LiveStates, AttemptRow
  <2>2. CASE t = a[1]
    <3>1. task'[t] = "running"
      BY <1>0, <1>3, <2>2 DEF Start
    <3>2. \A b \in Attempts : b[1] = t => (Live(b)' <=> b = a)
      BY <1>one, <2>1, <2>2 DEF Live
    <3> QED BY <2>1, <2>2, <3>1, <3>2 DEF SaysLive, LiveOf
  <2>3. CASE t # a[1]
    BY <1>0, <1>3, <2>1, <2>3, StillSaysLive DEF Start, Live
  <2> QED BY <2>2, <2>3
<1>4. ASSUME NEW a \in Attempts, NEW h \in Hosts, NEW e \in 1..epochSeq, Computed(a, h, e) PROVE SaysLive(t)'
  <2>1. \A b \in Attempts : (Live(b)' <=> Live(b)) /\ attempt'[b].started = attempt[b].started
    BY <1>0, <1>4 DEF Computed, Live, AttemptRow
  <2> QED BY <1>0, <1>4, <2>1, StillSaysLive DEF Computed
<1>5. ASSUME NEW a \in Attempts, NEW h \in Hosts, NEW e \in 1..epochSeq, Persist(a, h, e) PROVE SaysLive(t)'
  <2>1. \A b \in Attempts : (Live(b)' <=> Live(b)) /\ attempt'[b].started = attempt[b].started
    BY <1>0, <1>5 DEF Persist, Live, AttemptRow
  <2> QED BY <1>0, <1>5, <2>1, StillSaysLive DEF Persist
<1>7. ASSUME NEW a \in Attempts, NEW h \in Hosts, Salvage(a, h) PROVE SaysLive(t)'
  <2>1. \A b \in Attempts : (Live(b)' <=> Live(b)) /\ attempt'[b].started = attempt[b].started
    BY <1>0, <1>7 DEF Salvage, Live, AttemptRow
  <2> QED BY <1>0, <1>7, <2>1, StillSaysLive DEF Salvage
\* The live attempt a ends, and its task is neither leased nor running.
<1>gone. ASSUME NEW a \in Attempts, Live(a), ~Live(a)',
                \A b \in Attempts : b # a => attempt'[b] = attempt[b],
                \A u \in Tasks : u # a[1] => task'[u] = task[u],
                task'[a[1]] \notin {"leased", "running"}
         PROVE  SaysLive(t)'
  <2>1. CASE t = a[1]
    <3>1. \A b \in Attempts : b[1] = t => ~Live(b)'
      BY <1>gone, <1>one, <2>1 DEF Live
    <3> QED BY <1>gone, <2>1, <3>1, SaysNoneLive
  <2>2. CASE t # a[1]
    BY <1>0, <1>gone, <2>2, StillSaysLive DEF Live
  <2> QED BY <2>1, <2>2
<1>says. ASSUME NEW a \in Attempts, Live(a) PROVE task[a[1]] \in {"leased", "running"}
  BY <1>0, <1>in, <1>says DEF SaysLive, LiveOf, AttemptRow
<1>6. ASSUME NEW a \in Attempts, NEW h \in Hosts, NEW e \in 1..epochSeq, Submit(a, h, e) PROVE SaysLive(t)'
  <2>1. Live(a) /\ ~Live(a)' /\ (\A b \in Attempts : b # a => attempt'[b] = attempt[b])
    BY <1>0, <1>6 DEF Submit, Fence, Live, LiveStates, AttemptRow
  <2>2. task'[a[1]] = "submitted" /\ \A u \in Tasks : u # a[1] => task'[u] = task[u]
    BY <1>0, <1>6, <1>in DEF Submit
  <2> QED BY <1>gone, <2>1, <2>2
<1>8. ASSUME NEW a \in Attempts, NEW h \in Hosts, Ended(a, h) PROVE SaysLive(t)'
  <2>1. CASE Live(a)
    <3>1. ~Live(a)' /\ (\A b \in Attempts : b # a => attempt'[b] = attempt[b])
      BY <1>0, <1>8, <2>1 DEF Ended, Live, LiveStates, AttemptRow
    <3>2. task'[a[1]] \in {"ready", "blocked"} /\ \A u \in Tasks : u # a[1] => task'[u] = task[u]
      BY <1>0, <1>8, <1>in, <1>says, <2>1 DEF Ended, Released
    <3> QED BY <1>gone, <2>1, <3>1, <3>2
  <2>2. CASE ~Live(a)
    <3>1. \A b \in Attempts : (Live(b)' <=> Live(b)) /\ attempt'[b].started = attempt[b].started
      BY <1>0, <1>8, <2>2 DEF Ended, Live, AttemptRow
    <3>2. task' = task
      BY <1>0, <1>8, <1>in, <2>2 DEF Ended
    <3> QED BY <1>0, <3>1, <3>2, StillSaysLive
  <2> QED BY <2>1, <2>2
<1>9. ASSUME NEW a \in Attempts, Sweep(a) PROVE SaysLive(t)'
  <2>1. Live(a) /\ \A b \in Attempts : b # a => attempt'[b] = attempt[b]
    BY <1>0, <1>9 DEF Sweep, Sweepable, Live, LiveStates
  <2>2. CASE PastGrace(a)
    <3>1. ~Live(a)'
      BY <1>0, <1>9, <2>2 DEF Sweep, Live, LiveStates, AttemptRow
    <3>2. task'[a[1]] \in {"ready", "blocked"} /\ \A u \in Tasks : u # a[1] => task'[u] = task[u]
      BY <1>0, <1>9, <1>in, <1>says, <2>1, <2>2 DEF Sweep, Released
    <3> QED BY <1>gone, <2>1, <3>1, <3>2
  <2>3. CASE ~PastGrace(a)
    <3>1. \A b \in Attempts : (Live(b)' <=> Live(b)) /\ attempt'[b].started = attempt[b].started
      BY <1>0, <1>9, <2>1, <2>3 DEF Sweep, Live, LiveStates, AttemptRow
    <3> QED BY <1>0, <1>9, <2>3, <3>1, StillSaysLive DEF Sweep
  <2> QED BY <2>2, <2>3
<1>10. ASSUME NEW u \in Tasks, ProposeTask(u) PROVE SaysLive(t)'
  BY <1>0, <1>10, StillSaysLive DEF ProposeTask, Live
<1>11. ASSUME NEW u \in Tasks, NEW to \in TaskStates, MoveTask(u, to) PROVE SaysLive(t)'
  <2>1. /\ (task'[t] = "leased") <=> (task[t] = "leased")
        /\ (task'[t] = "running") <=> (task[t] = "running")
    BY <1>0, <1>11 DEF MoveTask, ControllerMove
  <2> QED BY <1>0, <1>11, <2>1, StillSaysLive DEF MoveTask, Live
<1>12. ASSUME NEW S \in SUBSET Tasks, CancelAll(S) PROVE SaysLive(t)'
  <2>1. CASE t \in S
    <3>1. \A b \in Attempts : b[1] = t => ~Live(b)'
      BY <1>0, <1>12, <2>1 DEF CancelAll, Live, LiveStates, AttemptRow
    <3>2. task'[t] = "cancelled"
      BY <1>12, <2>1 DEF CancelAll
    <3> QED BY <3>1, <3>2, SaysNoneLive
  <2>2. CASE t \notin S
    <3>1. \A b \in Attempts : b[1] = t => attempt'[b] = attempt[b]
      BY <1>12, <2>2 DEF CancelAll
    <3>2. task'[t] = task[t]
      BY <1>12, <2>2 DEF CancelAll
    <3> QED BY <1>0, <3>1, <3>2, StillSaysLive DEF Live
  <2> QED BY <2>1, <2>2
<1>13. ASSUME NEW u \in Tasks, CloseOnCard(u) PROVE SaysLive(t)'
  BY <1>12, <1>13 DEF CloseOnCard, Unfinished
<1>14. ASSUME NEW u \in Tasks, CancelAfterClose(u) PROVE SaysLive(t)'
  BY <1>12, <1>14 DEF CancelAfterClose
<1>16. CASE Tick
  <2>1. \A b \in Attempts : (Live(b)' <=> Live(b)) /\ attempt'[b].started = attempt[b].started
    BY <1>0, <1>16 DEF Tick, Live, AttemptRow
  <2> QED BY <1>0, <1>16, <2>1, StillSaysLive DEF Tick
<1>17. CASE UNCHANGED <<task, attempt>>
  BY <1>0, <1>17, StillSaysLive DEF Live
<1> QED
  BY <1>1, <1>2, <1>3, <1>4, <1>5, <1>6, <1>7, <1>8, <1>9, <1>10, <1>11, <1>13, <1>14, <1>16, <1>17
     DEF LeaseNext, HostCall, MoveMission, leaseVars

-----------------------------------------------------------------------------
(* Late calls.                                                             *)

\* The step relation of NoLateWork, for one attempt.
OverStaysOver(a) ==
  attempt[a].state # "none" /\ (PastGrace(a) \/ ~Live(a)) =>
    /\ \/ attempt'[a].state = attempt[a].state
       \/ Live(a) /\ attempt'[a].state \in {"stale", "lost", "failed", "cancelled"}
    /\ attempt'[a].started = attempt[a].started
    /\ attempt'[a].computed = attempt[a].computed

\* What left the host stays so: no step takes persisted back once it holds.
LEMMA StaysOver ==
  ASSUME TypeOK, [LeaseNext]_leaseVars, NEW b \in Attempts
  PROVE  /\ OverStaysOver(b)
         /\ attempt[b].state # "none" /\ attempt[b].persisted => attempt'[b].persisted
<1> DEFINE Keep(c) == /\ OverStaysOver(c)
                      /\ attempt[c].state # "none" /\ attempt[c].persisted => attempt'[c].persisted
<1> SUFFICES Keep(b)
  OBVIOUS
<1> USE DEF OverStaysOver, Live, LiveStates, Fence
<1>0. attempt \in [Attempts -> AttemptRow]
  BY DEF TypeOK
<1>1. ASSUME NEW h \in Hosts, NEW t \in Tasks, Claim(h, t) PROVE Keep(b)
  <2>1. PICK n \in 1..MaxAttempts : ClaimRow(h, t, n)
    BY <1>1, ClaimMakesRow
  <2> QED BY <1>0, <2>1 DEF ClaimRow, NextNo
<1>2. ASSUME NEW a \in Attempts, NEW h \in Hosts, NEW e \in 1..epochSeq, Heartbeat(a, h, e) PROVE Keep(b)
  BY <1>0, <1>2 DEF Heartbeat, AttemptRow
<1>3. ASSUME NEW a \in Attempts, NEW h \in Hosts, NEW e \in 1..epochSeq, Start(a, h, e) PROVE Keep(b)
  BY <1>0, <1>3 DEF Start, AttemptRow
<1>4. ASSUME NEW a \in Attempts, NEW h \in Hosts, NEW e \in 1..epochSeq, Computed(a, h, e) PROVE Keep(b)
  BY <1>0, <1>4 DEF Computed, AttemptRow
<1>5. ASSUME NEW a \in Attempts, NEW h \in Hosts, NEW e \in 1..epochSeq, Persist(a, h, e) PROVE Keep(b)
  BY <1>0, <1>5 DEF Persist, AttemptRow
<1>6. ASSUME NEW a \in Attempts, NEW h \in Hosts, NEW e \in 1..epochSeq, Submit(a, h, e) PROVE Keep(b)
  BY <1>0, <1>6 DEF Submit, AttemptRow
<1>7. ASSUME NEW a \in Attempts, NEW h \in Hosts, Salvage(a, h) PROVE Keep(b)
  BY <1>0, <1>7 DEF Salvage, AttemptRow
<1>8. ASSUME NEW a \in Attempts, NEW h \in Hosts, Ended(a, h) PROVE Keep(b)
  BY <1>0, <1>8 DEF Ended, AttemptRow
<1>9. ASSUME NEW a \in Attempts, Sweep(a) PROVE Keep(b)
  BY <1>0, <1>9 DEF Sweep, Sweepable, AttemptRow
<1>10. ASSUME UNCHANGED attempt PROVE Keep(b)
  BY <1>10
<1>12. ASSUME NEW S, CancelAll(S) PROVE Keep(b)
  BY <1>0, <1>12 DEF CancelAll, AttemptRow
<1>16. CASE Tick
  BY <1>0, <1>16 DEF Tick, AttemptRow
<1> QED
  BY <1>1, <1>2, <1>3, <1>4, <1>5, <1>6, <1>7, <1>8, <1>9, <1>10, <1>12, <1>16
     DEF LeaseNext, HostCall, ProposeTask, MoveTask, CloseOnCard, CancelAfterClose, MoveMission, leaseVars

-----------------------------------------------------------------------------
(* The result that waits for its verdict.                                  *)

Waits == {"submitted", "verifying"}

HasResult(t) ==
  \E n \in 1..MaxAttempts :
    /\ attempt[<<t, n>>].state = "submitted"
    /\ attempt[<<t, n>>].computed /\ attempt[<<t, n>>].persisted
    /\ \A m \in (n + 1)..MaxAttempts : attempt[<<t, m>>].state = "none"

\* Only a submit makes a task wait.
LEMMA OnlySubmitWaits ==
  TypeOK /\ [LeaseNext]_leaseVars =>
    \/ \E a \in Attempts, h \in Hosts : \E e \in 1..epochSeq : Submit(a, h, e)
    \/ \A t \in Tasks : task'[t] \in Waits => task[t] \in Waits
<1> SUFFICES ASSUME TypeOK, [LeaseNext]_leaseVars, NEW t \in Tasks,
                    ~ \E a \in Attempts, h \in Hosts : \E e \in 1..epochSeq : Submit(a, h, e),
                    task'[t] \in Waits
             PROVE  task[t] \in Waits
  OBVIOUS
<1> USE DEF Waits
<1>0. task \in [Tasks -> TaskStates] /\ \A a \in Attempts : a[1] \in Tasks
  BY DEF TypeOK, Attempts
<1>1. ASSUME NEW h \in Hosts, NEW u \in Tasks, Claim(h, u) PROVE task[t] \in Waits
  BY <1>0, <1>1 DEF Claim
<1>3. ASSUME NEW a \in Attempts, NEW h \in Hosts, NEW e \in 1..epochSeq, Start(a, h, e) PROVE task[t] \in Waits
  BY <1>0, <1>3 DEF Start
<1>8. ASSUME NEW a \in Attempts, NEW h \in Hosts, Ended(a, h) PROVE task[t] \in Waits
  BY <1>0, <1>8 DEF Ended, Released
<1>9. ASSUME NEW a \in Attempts, Sweep(a) PROVE task[t] \in Waits
  BY <1>0, <1>9 DEF Sweep, Released
<1>10. ASSUME NEW u \in Tasks, ProposeTask(u) PROVE task[t] \in Waits
  BY <1>0, <1>10 DEF ProposeTask
<1>11. ASSUME NEW u \in Tasks, NEW to \in TaskStates, MoveTask(u, to) PROVE task[t] \in Waits
  BY <1>0, <1>11 DEF MoveTask, ControllerMove
<1>12. ASSUME NEW S, CancelAll(S) PROVE task[t] \in Waits
  BY <1>0, <1>12 DEF CancelAll
<1>17. ASSUME UNCHANGED task PROVE task[t] \in Waits
  BY <1>17
<1> QED
  BY <1>1, <1>3, <1>8, <1>9, <1>10, <1>11, <1>12, <1>17
     DEF LeaseNext, HostCall, Heartbeat, Computed, Persist, Salvage, CloseOnCard, CancelAfterClose,
         MoveMission, Tick, leaseVars

\* A waiting task keeps the result it was submitted with.
LEMMA HandedOverStep ==
  /\ TypeOK /\ RowsInOrder /\ LiveIsLast /\ StagesInOrder /\ HandedOver
  /\ [LeaseNext]_leaseVars
  => HandedOver'
<1> SUFFICES ASSUME TypeOK, RowsInOrder, LiveIsLast, StagesInOrder, HandedOver, [LeaseNext]_leaseVars,
                    NEW t \in Tasks, task'[t] \in Waits
             PROVE  HasResult(t)'
  BY DEF HandedOver, HasResult, Waits
<1>0. /\ attempt \in [Attempts -> AttemptRow] /\ task \in [Tasks -> TaskStates]
      /\ \A n \in 1..MaxAttempts : <<t, n>> \in Attempts
  BY DEF TypeOK, Attempts
\* A task that waits already keeps its result: only a claim could add a row.
<1>1. ASSUME task[t] \in Waits PROVE HasResult(t)'
  <2>1. PICK n \in 1..MaxAttempts :
          /\ attempt[<<t, n>>].state = "submitted"
          /\ attempt[<<t, n>>].computed /\ attempt[<<t, n>>].persisted
          /\ \A m \in (n + 1)..MaxAttempts : attempt[<<t, m>>].state = "none"
    BY <1>1 DEF HandedOver, Waits
  <2>2. /\ attempt'[<<t, n>>].state = "submitted"
        /\ attempt'[<<t, n>>].computed /\ attempt'[<<t, n>>].persisted
    <3>1. /\ OverStaysOver(<<t, n>>)
          /\ attempt[<<t, n>>].state # "none" /\ attempt[<<t, n>>].persisted => attempt'[<<t, n>>].persisted
      BY <1>0, StaysOver
    <3> QED BY <2>1, <3>1 DEF OverStaysOver, Live, LiveStates
  <2>3. ASSUME NEW m \in (n + 1)..MaxAttempts PROVE attempt'[<<t, m>>].state = "none"
    <3>1. m \in 1..MaxAttempts /\ attempt[<<t, m>>].state = "none"
      BY <2>1, LeaseConstants
    <3>2. CASE Keeps
      BY <1>0, <3>1, <3>2 DEF Keeps
    <3>3. ASSUME NEW h \in Hosts, NEW u \in Tasks, Claim(h, u) PROVE attempt'[<<t, m>>].state = "none"
      <4>1. PICK k \in 1..MaxAttempts : ClaimRow(h, u, k)
        BY <3>3, ClaimMakesRow
      <4>2. u # t
        BY <1>1, <4>1 DEF ClaimRow, Waits
      <4> QED BY <1>0, <3>1, <4>1, <4>2 DEF ClaimRow
    <3> QED BY <3>2, <3>3, ClaimOrKeeps
  <2> QED BY <2>2, <2>3 DEF HasResult
\* A submit hands over its task's last attempt.
<1>2. ASSUME NEW a \in Attempts, NEW h \in Hosts, NEW e \in 1..epochSeq, Submit(a, h, e), task[t] \notin Waits
      PROVE  HasResult(t)'
  <2>1. PICK n \in 1..MaxAttempts : a = <<t, n>>
    BY <1>0, <1>2 DEF Submit, Attempts
  <2>2. /\ attempt'[<<t, n>>].state = "submitted"
        /\ attempt'[<<t, n>>].persisted /\ attempt'[<<t, n>>].computed = attempt[<<t, n>>].computed
        /\ Live(a) /\ attempt[a].persisted /\ ~PastGrace(a)
    BY <1>0, <1>2, <2>1 DEF Submit, Fence, AttemptRow
  <2>3. attempt[a].computed
    <3>1. Stages(attempt[a])
      BY DEF StagesInOrder
    <3> QED BY <2>2, <3>1 DEF Stages, PastGrace
  <2>4. ASSUME NEW m \in (n + 1)..MaxAttempts PROVE attempt'[<<t, m>>].state = "none"
    <3>1. m \in 1..MaxAttempts /\ n < m
      BY LeaseConstants
    <3>2. attempt[<<t, m>>].state = "none"
      BY <1>0, <2>1, <2>2, <3>1 DEF LiveIsLast
    <3> QED BY <1>0, <1>2, <2>1, <3>1, <3>2 DEF Submit
  <2> QED BY <2>1, <2>2, <2>3, <2>4 DEF HasResult
<1> QED BY <1>1, <1>2, OnlySubmitWaits

-----------------------------------------------------------------------------
(* The theorems.                                                           *)

IInv ==
  /\ TypeOK
  /\ RowsInOrder
  /\ LiveIsLast
  /\ FreshEpochs
  /\ StagesInOrder
  /\ TaskSaysLive
  /\ HandedOver

\* The inductive invariant holds at first ...
LEMMA IInvInit == Init => IInv
<1> SUFFICES ASSUME Init PROVE IInv
  OBVIOUS
<1>1. TypeOK
  BY TypeInit
<1>2. \A a \in Attempts : attempt[a] = NoAttempt
  BY DEF Init
<1>3. RowsInOrder /\ LiveIsLast /\ FreshEpochs
  BY <1>2 DEF RowsInOrder, LiveIsLast, FreshEpochs, Live, LiveStates, NoAttempt
<1>4. StagesInOrder
  BY <1>2 DEF StagesInOrder, Stages, NoAttempt
<1>5. TaskSaysLive /\ HandedOver
  BY <1>2 DEF Init, TaskSaysLive, HandedOver, LiveOf, Live, LiveStates, NoAttempt
<1> QED BY <1>1, <1>3, <1>4, <1>5 DEF IInv

\* ... and every step keeps it.
LEMMA IInvStep == IInv /\ [LeaseNext]_leaseVars => IInv'
BY TypeStep, RowsInOrderStep, LiveIsLastStep, FreshEpochsStep, StagesStep, TaskSaysLiveStep, HandedOverStep DEF IInv

\* The inductive invariant always holds.
THEOREM Inductive == Spec => []IInv
<1> QED BY IInvInit, IInvStep, PTL DEF Spec

\* A task has at most one live attempt, and its state says whether it has one
\* and whether that one started (the unique index attempt_one_live).
THEOREM TaskMatchesAttempt == Spec => []LiveMatchesTask
<1>1. IInv => LiveMatchesTask
  BY OneLive DEF IInv, LiveMatchesTask
<1> QED BY <1>1, Inductive, PTL

\* An epoch names one lease for good.
THEOREM EpochsAreFresh == Spec => []FreshEpochs
<1>1. IInv => FreshEpochs
  BY DEF IInv
<1> QED BY <1>1, Inductive, PTL

\* A task that waits for its verdict has a persisted result of its last attempt.
THEOREM ResultIsHandedOver == Spec => []HandedOver
<1>1. IInv => HandedOver
  BY DEF IInv
<1> QED BY <1>1, Inductive, PTL

\* A salvaged attempt is past its grace and is never submitted.
THEOREM SalvageIsLast == Spec => []SalvageClosesLease
<1>1. IInv => SalvageClosesLease
  <2> SUFFICES ASSUME IInv, NEW a \in Attempts, attempt[a].salvaged
               PROVE  PastGrace(a) /\ attempt[a].state # "submitted"
    BY DEF SalvageClosesLease
  <2>1. Stages(attempt[a])
    BY DEF IInv, StagesInOrder
  <2> QED BY <2>1 DEF Stages, PastGrace
<1> QED BY <1>1, Inductive, PTL

\* An attempt past its grace, or no longer live, never works again.
THEOREM LateWorkIsRefused == Spec => NoLateWork
<1>1. ASSUME TypeOK, [LeaseNext]_leaseVars, NEW a \in Attempts,
             attempt[a].state # "none", PastGrace(a) \/ ~Live(a)
      PROVE  /\ \/ attempt'[a].state = attempt[a].state
                \/ Live(a) /\ attempt'[a].state \in {"stale", "lost", "failed", "cancelled"}
             /\ attempt'[a].started = attempt[a].started
             /\ attempt'[a].computed = attempt[a].computed
  <2>1. OverStaysOver(a)
    BY <1>1, StaysOver
  <2> QED BY <1>1, <2>1 DEF OverStaysOver
<1>2. TypeOK /\ [LeaseNext]_leaseVars =>
        [\A a \in Attempts :
           attempt[a].state # "none" /\ (PastGrace(a) \/ ~Live(a)) =>
             /\ \/ attempt'[a].state = attempt[a].state
                \/ Live(a) /\ attempt'[a].state \in {"stale", "lost", "failed", "cancelled"}
             /\ attempt'[a].started = attempt[a].started
             /\ attempt'[a].computed = attempt[a].computed]_leaseVars
  BY <1>1
<1> QED BY <1>2, TypeCorrect, PTL DEF Spec, NoLateWork

\* The slots of a host hold: no step but a claim adds to its live attempts, and
\* a claim adds one to fewer than Slots.
SlotsCounted == \A h \in Hosts : IsFiniteSet(LiveOn(h)) /\ Cardinality(LiveOn(h)) <= Slots

\* Every step keeps a host within its slots.
LEMMA SlotsStep == TypeOK /\ SlotsCounted /\ [LeaseNext]_leaseVars => SlotsCounted'
<1> SUFFICES ASSUME TypeOK, SlotsCounted, [LeaseNext]_leaseVars, NEW h \in Hosts
             PROVE  (IsFiniteSet(LiveOn(h)) /\ Cardinality(LiveOn(h)) <= Slots)'
  BY DEF SlotsCounted
<1>0. IsFiniteSet(LiveOn(h)) /\ Cardinality(LiveOn(h)) <= Slots /\ Cardinality(LiveOn(h)) \in Nat
  BY FS_CardinalityType DEF SlotsCounted
<1>1. ASSUME LiveOn(h)' \subseteq LiveOn(h) PROVE (IsFiniteSet(LiveOn(h)) /\ Cardinality(LiveOn(h)) <= Slots)'
  <2>1. IsFiniteSet(LiveOn(h)') /\ Cardinality(LiveOn(h)') <= Cardinality(LiveOn(h))
    BY <1>0, <1>1, FS_Subset
  <2>2. Cardinality(LiveOn(h)') \in Nat
    BY <2>1, FS_CardinalityType
  <2> QED BY <1>0, <2>1, <2>2, LeaseConstants
<1>2. CASE Keeps
  <2>1. LiveOn(h)' \subseteq LiveOn(h)
    BY <1>2 DEF Keeps, LiveOn
  <2> QED BY <1>1, <2>1
<1>3. ASSUME NEW g \in Hosts, NEW t \in Tasks, Claim(g, t)
      PROVE  (IsFiniteSet(LiveOn(h)) /\ Cardinality(LiveOn(h)) <= Slots)'
  <2>1. PICK n \in 1..MaxAttempts : ClaimRow(g, t, n)
    BY <1>3, ClaimMakesRow
  <2>2. \A a \in Attempts : IF a = <<t, n>> THEN attempt'[a].state = "leased" /\ attempt'[a].host = g
                                            ELSE attempt'[a] = attempt[a]
    BY <2>1 DEF ClaimRow, LeasedRow, TypeOK, NoAttempt
  <2>3. <<t, n>> \in Attempts /\ ~Live(<<t, n>>)
    BY <2>1 DEF ClaimRow, NextNo, Live, LiveStates, Attempts
  <2>4. CASE h # g
    <3>1. LiveOn(h)' \subseteq LiveOn(h)
      BY <2>2, <2>4 DEF LiveOn, Live
    <3> QED BY <1>1, <3>1
  <2>5. CASE h = g
    <3>1. LiveOn(h)' = LiveOn(h) \cup {<<t, n>>} /\ <<t, n>> \notin LiveOn(h)
      BY <2>2, <2>3, <2>5 DEF LiveOn, Live, LiveStates
    <3>2. IsFiniteSet(LiveOn(h)') /\ Cardinality(LiveOn(h)') = Cardinality(LiveOn(h)) + 1
      <4>1. IsFiniteSet(LiveOn(h) \cup {<<t, n>>})
              /\ Cardinality(LiveOn(h) \cup {<<t, n>>}) = Cardinality(LiveOn(h)) + 1
        BY <1>0, <3>1, FS_AddElement
      <4> QED BY <3>1, <4>1
    <3>3. Cardinality(LiveOn(h)) < Slots
      BY <1>3, <2>5 DEF Claim, HasSlot
    <3> QED BY <1>0, <3>2, <3>3, LeaseConstants
  <2> QED BY <2>4, <2>5
<1> QED BY <1>2, <1>3, ClaimOrKeeps

\* A host never runs more attempts than the concurrency rule gives it, stale
\* ones included.
THEOREM HostsKeepTheirSlots == Spec => []SlotsHold
<1>1. Init => SlotsCounted
  <2> SUFFICES ASSUME Init, NEW h \in Hosts
               PROVE  IsFiniteSet(LiveOn(h)) /\ Cardinality(LiveOn(h)) <= Slots
    BY DEF SlotsCounted
  <2>1. LiveOn(h) = {}
    BY DEF Init, LiveOn, Live, LiveStates, NoAttempt
  <2> QED BY <2>1, FS_EmptySet, LeaseConstants
<1>2. SlotsCounted => SlotsHold
  BY DEF SlotsCounted, SlotsHold
<1> QED BY <1>1, <1>2, SlotsStep, TypeCorrect, PTL DEF Spec

\* External work whose attempt is gone is never handed out again by itself.
THEOREM ExternalWaits == Spec => ExternalNotRedispatched
<1> DEFINE Waiting(t) == task[t] \in {"leased", "running"} /\ task'[t] # task[t]
                           => task'[t] \in {"running", "submitted", "blocked", "cancelled"}
<1>1. ASSUME TypeOK, [LeaseNext]_leaseVars, NEW t \in External PROVE Waiting(t)
  <2>0. /\ t \in Tasks /\ task \in [Tasks -> TaskStates] /\ \A a \in Attempts : a[1] \in Tasks
    BY <1>1, LeaseConstants DEF TypeOK, Attempts
  <2>1. ASSUME NEW h \in Hosts, NEW u \in Tasks, Claim(h, u) PROVE Waiting(t)
    BY <2>0, <2>1 DEF Claim
  <2>2. ASSUME NEW a \in Attempts, NEW h \in Hosts, NEW e \in 1..epochSeq, Start(a, h, e) PROVE Waiting(t)
    BY <2>0, <2>2 DEF Start
  <2>3. ASSUME NEW a \in Attempts, NEW h \in Hosts, NEW e \in 1..epochSeq, Submit(a, h, e) PROVE Waiting(t)
    BY <2>0, <2>3 DEF Submit
  <2>4. ASSUME NEW a \in Attempts, NEW h \in Hosts, Ended(a, h) PROVE Waiting(t)
    BY <1>1, <2>0, <2>4 DEF Ended, Released
  <2>5. ASSUME NEW a \in Attempts, Sweep(a) PROVE Waiting(t)
    BY <1>1, <2>0, <2>5 DEF Sweep, Released
  <2>6. ASSUME NEW u \in Tasks, ProposeTask(u) PROVE Waiting(t)
    BY <2>0, <2>6 DEF ProposeTask
  <2>7. ASSUME NEW u \in Tasks, NEW to \in TaskStates, MoveTask(u, to) PROVE Waiting(t)
    BY <2>0, <2>7 DEF MoveTask, ControllerMove
  <2>8. ASSUME NEW S, CancelAll(S) PROVE Waiting(t)
    BY <2>0, <2>8 DEF CancelAll
  <2>9. ASSUME UNCHANGED task PROVE Waiting(t)
    BY <2>9
  <2> QED
    BY <1>1, <2>1, <2>2, <2>3, <2>4, <2>5, <2>6, <2>7, <2>8, <2>9
       DEF LeaseNext, HostCall, Heartbeat, Computed, Persist, Salvage, CloseOnCard, CancelAfterClose,
           MoveMission, Tick, leaseVars
<1>2. TypeOK /\ [LeaseNext]_leaseVars =>
        [\A t \in External :
           task[t] \in {"leased", "running"} /\ task'[t] # task[t]
             => task'[t] \in {"running", "submitted", "blocked", "cancelled"}]_leaseVars
  BY <1>1
<1> QED BY <1>2, TypeCorrect, PTL DEF Spec, ExternalNotRedispatched
=============================================================================
