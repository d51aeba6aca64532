------------------------ MODULE AttemptLeaseRefinement ------------------------
(***************************************************************************)
(* AttemptLease implements FencedWork: proofs for every value of the       *)
(* constants.  A claim grants, a submit hands over, and any other step     *)
(* keeps or drops what is held; that a task is held under one epoch at     *)
(* most is the invariant of AttemptLeaseProofs.                            *)
(***************************************************************************)
EXTENDS AttemptLeaseProofs

Numbers == 1..MaxAttempts
SomeClaim  == \E h \in Hosts, t \in Tasks : Claim(h, t)
SomeSubmit == \E a \in Attempts, h \in Hosts : \E e \in 1..epochSeq : Submit(a, h, e)

\* Only a submit makes an attempt submitted.
LEMMA OnlySubmitHandsOver ==
  TypeOK /\ [LeaseNext]_leaseVars =>
    SomeSubmit \/ \A b \in Attempts : attempt'[b].state = "submitted" => attempt[b].state = "submitted"
<1> SUFFICES ASSUME TypeOK, [LeaseNext]_leaseVars, ~SomeSubmit, NEW b \in Attempts,
                    attempt'[b].state = "submitted"
             PROVE  attempt[b].state = "submitted"
  OBVIOUS
<1> DEFINE Before == attempt[b].state = "submitted"
<1> SUFFICES Before
  OBVIOUS
<1>0. attempt \in [Attempts -> AttemptRow]
  BY DEF TypeOK
<1>1. ASSUME NEW h \in Hosts, NEW t \in Tasks, Claim(h, t) PROVE Before
  <2>1. PICK n \in 1..MaxAttempts : ClaimRow(h, t, n)
    BY <1>1, ClaimMakesRow
  <2> QED BY <1>0, <2>1 DEF ClaimRow, LeasedRow, NoAttempt
<1>2. ASSUME NEW a \in Attempts, NEW h \in Hosts, NEW e \in 1..epochSeq, Heartbeat(a, h, e) PROVE Before
  BY <1>0, <1>2 DEF Heartbeat, Fence, Live, LiveStates, AttemptRow
<1>3. ASSUME NEW a \in Attempts, NEW h \in Hosts, NEW e \in 1..epochSeq, Start(a, h, e) PROVE Before
  BY <1>0, <1>3 DEF Start, AttemptRow
<1>4. ASSUME NEW a \in Attempts, NEW h \in Hosts, NEW e \in 1..epochSeq, Computed(a, h, e) PROVE Before
  BY <1>0, <1>4 DEF Computed, AttemptRow
<1>5. ASSUME NEW a \in Attempts, NEW h \in Hosts, NEW e \in 1..epochSeq, Persist(a, h, e) PROVE Before
  BY <1>0, <1>5 DEF Persist, AttemptRow
<1>7. ASSUME NEW a \in Attempts, NEW h \in Hosts, Salvage(a, h) PROVE Before
  BY <1>0, <1>7 DEF Salvage, AttemptRow
<1>8. ASSUME NEW a \in Attempts, NEW h \in Hosts, Ended(a, h) PROVE Before
  BY <1>0, <1>8 DEF Ended, AttemptRow
<1>9. ASSUME NEW a \in Attempts, Sweep(a) PROVE Before
  BY <1>0, <1>9 DEF Sweep, AttemptRow
<1>10. ASSUME UNCHANGED attempt PROVE Before
  BY <1>10
<1>12. ASSUME NEW S, CancelAll(S) PROVE Before
  BY <1>0, <1>12 DEF CancelAll, AttemptRow
<1>16. CASE Tick
  BY <1>0, <1>16 DEF Tick, AttemptRow
<1> QED
  BY <1>1, <1>2, <1>3, <1>4, <1>5, <1>7, <1>8, <1>9, <1>10, <1>12, <1>16
     DEF LeaseNext, HostCall, ProposeTask, MoveTask, CloseOnCard, CancelAfterClose, MoveMission, leaseVars,
         SomeSubmit

\* A task is held under one epoch at most: that of its live attempt.
LEMMA HeldOnce ==
  ASSUME LiveIsLast, NEW t \in Tasks, NEW n \in Numbers, Live(<<t, n>>)
  PROVE  Epochs(t, LiveStates) = {attempt[<<t, n>>].epoch}
<1>1. ASSUME NEW m \in Numbers, attempt[<<t, m>>].state \in LiveStates PROVE m = n
  <2>1. <<t, n>> \in Attempts /\ <<t, m>> \in Attempts /\ Live(<<t, m>>)
    BY <1>1 DEF Attempts, Numbers, Live
  <2> QED BY <2>1, OneLive DEF OneLiveAttempt
<1> QED BY <1>1 DEF Live, Epochs, Numbers

\* What a step that neither claims nor submits does: it drops what is held.
LEMMA OtherStepsDrop ==
  ASSUME IInv, [LeaseNext]_leaseVars, ~SomeClaim, ~SomeSubmit
  PROVE  Fenced!Drop({t \in Tasks : Held'[t] = {}})
<1> DEFINE Gone == {t \in Tasks : Held'[t] = {}}
<1>1. Keeps /\ epochSeq' = epochSeq
  BY ClaimOrKeeps DEF IInv, SomeClaim, Keeps
<1>2. \A t \in Tasks, n \in Numbers : <<t, n>> \in Attempts
  BY DEF Attempts, Numbers
<1>3. \A b \in Attempts : attempt'[b].state = "submitted" <=> attempt[b].state = "submitted"
  <2> SUFFICES ASSUME NEW b \in Attempts
               PROVE  attempt'[b].state = "submitted" <=> attempt[b].state = "submitted"
    OBVIOUS
  <2>1. attempt'[b].state = "submitted" => attempt[b].state = "submitted"
    BY OnlySubmitHandsOver DEF IInv
  <2>2. OverStaysOver(b)
    BY StaysOver DEF IInv
  <2> QED BY <2>1, <2>2 DEF OverStaysOver, Live, LiveStates
<1>4. Handed' = Handed
  <2>1. ASSUME NEW t \in Tasks PROVE Epochs(t, {"submitted"})' = Epochs(t, {"submitted"})
    BY <1>1, <1>2, <1>3 DEF Keeps, Epochs, Numbers
  <2> QED BY <2>1 DEF Handed
<1>5. ASSUME NEW t \in Tasks PROVE Held'[t] = IF t \in Gone THEN {} ELSE Held[t]
  <2>1. CASE Held'[t] = {}
    BY <2>1
  <2>2. CASE Held'[t] # {}
    <3>1. Held'[t] = Epochs(t, LiveStates)' /\ Held[t] = Epochs(t, LiveStates)
      BY DEF Held
    <3>2. PICK n \in Numbers : attempt'[<<t, n>>].state \in LiveStates
      BY <2>2, <3>1 DEF Epochs, Numbers
    <3>3. Live(<<t, n>>) /\ Live(<<t, n>>)' /\ attempt'[<<t, n>>].epoch = attempt[<<t, n>>].epoch
      BY <1>1, <1>2, <3>2 DEF Keeps, Live
    <3>4. Epochs(t, LiveStates) = {attempt[<<t, n>>].epoch}
      BY <3>3, HeldOnce DEF IInv
    <3>6. ASSUME NEW m \in Numbers, attempt'[<<t, m>>].state \in LiveStates PROVE m = n
      BY <1>1, <1>2, <3>3, <3>6, OneLive DEF Keeps, Live, IInv, OneLiveAttempt
    <3>7. Epochs(t, LiveStates)' = {attempt'[<<t, n>>].epoch}
      BY <3>2, <3>6 DEF Epochs, Numbers
    <3> QED BY <2>2, <3>1, <3>3, <3>4, <3>7
  <2> QED BY <2>1, <2>2
<1>6. Held' = [t \in Tasks |-> IF t \in Gone THEN {} ELSE Held[t]]
  BY <1>5 DEF Held
<1> QED BY <1>1, <1>4, <1>6 DEF Fenced!Drop

\* A claim grants its task under the next token.
LEMMA ClaimGrants ==
  ASSUME IInv, [LeaseNext]_leaseVars, NEW h \in Hosts, NEW t \in Tasks, Claim(h, t)
  PROVE  Fenced!Grant(t)
<1>0. attempt \in [Attempts -> AttemptRow] /\ \A u \in Tasks, m \in Numbers : <<u, m>> \in Attempts
  BY DEF IInv, TypeOK, Attempts, Numbers
<1>1. PICK n \in Numbers : ClaimRow(h, t, n)
  BY ClaimMakesRow DEF Numbers
<1>2. \A m \in Numbers : attempt[<<t, m>>].state \notin LiveStates
  <2>1. LiveOf(t) = {}
    BY <1>1 DEF IInv, TaskSaysLive, ClaimRow, LiveOf
  <2> QED BY <1>0, <2>1 DEF LiveOf, Live
<1>3. \A u \in Tasks, m \in Numbers :
        IF u = t /\ m = n
        THEN attempt'[<<u, m>>].state = "leased" /\ attempt'[<<u, m>>].epoch = epochSeq + 1
        ELSE attempt'[<<u, m>>] = attempt[<<u, m>>]
  BY <1>0, <1>1 DEF ClaimRow, LeasedRow, NoAttempt
<1>4. attempt[<<t, n>>].state = "none" /\ epochSeq' = epochSeq + 1
  BY <1>1 DEF ClaimRow, NextNo
<1>5. Held[t] = {}
  BY <1>2 DEF Held, Epochs, Numbers
<1>6. ASSUME NEW u \in Tasks
      PROVE  Epochs(u, LiveStates)' = IF u = t THEN {epochSeq + 1} ELSE Epochs(u, LiveStates)
  <2>1. CASE u = t
    BY <1>2, <1>3, <2>1 DEF LiveStates, Epochs, Numbers
  <2>2. CASE u # t
    BY <1>3, <2>2 DEF Epochs, Numbers
  <2> QED BY <2>1, <2>2
<1>7. Held' = [Held EXCEPT ![t] = {epochSeq + 1}]
  BY <1>6 DEF Held
<1>8. Handed' = Handed
  <2>1. ASSUME NEW u \in Tasks PROVE Epochs(u, {"submitted"})' = Epochs(u, {"submitted"})
    BY <1>3, <1>4 DEF Epochs, Numbers
  <2> QED BY <2>1 DEF Handed
<1> QED BY <1>4, <1>5, <1>7, <1>8 DEF Fenced!Grant

\* A submit hands its task over under the token of the attempt that submits.
LEMMA SubmitHandsOver ==
  ASSUME IInv, NEW a \in Attempts, NEW h \in Hosts, NEW e \in 1..epochSeq, Submit(a, h, e)
  PROVE  Fenced!HandOver(a[1])
<1>0. attempt \in [Attempts -> AttemptRow] /\ \A u \in Tasks, m \in Numbers : <<u, m>> \in Attempts
  BY DEF IInv, TypeOK, Attempts, Numbers
<1>1. PICK t \in Tasks, n \in Numbers : a = <<t, n>>
  BY DEF Attempts, Numbers
<1>2. Live(<<t, n>>) /\ epochSeq' = epochSeq
  BY <1>1 DEF Submit, Fence
<1>3. Held[t] = {attempt[<<t, n>>].epoch}
  BY <1>2, HeldOnce DEF IInv, Held
<1>4. \A u \in Tasks, m \in Numbers :
        IF u = t /\ m = n
        THEN attempt'[<<u, m>>].state = "submitted" /\ attempt'[<<u, m>>].epoch = attempt[<<u, m>>].epoch
        ELSE attempt'[<<u, m>>] = attempt[<<u, m>>]
  BY <1>0, <1>1 DEF Submit, AttemptRow
<1>5. \A m \in Numbers : attempt[<<t, m>>].state \in LiveStates => m = n
  BY <1>0, <1>2, OneLive DEF IInv, OneLiveAttempt, Live
<1>6. ASSUME NEW u \in Tasks
      PROVE  Epochs(u, LiveStates)' = IF u = t THEN {} ELSE Epochs(u, LiveStates)
  <2>1. CASE u = t
    BY <1>4, <1>5, <2>1 DEF LiveStates, Epochs, Numbers
  <2>2. CASE u # t
    BY <1>4, <2>2 DEF Epochs, Numbers
  <2> QED BY <2>1, <2>2
<1>7. Held' = [Held EXCEPT ![t] = {}]
  BY <1>6 DEF Held
<1>8. ASSUME NEW u \in Tasks
      PROVE  Epochs(u, {"submitted"})' = IF u = t THEN Epochs(u, {"submitted"}) \cup {attempt[<<t, n>>].epoch}
                                         ELSE Epochs(u, {"submitted"})
  <2>1. CASE u = t
    <3>1. attempt[<<t, n>>].state # "submitted"
      BY <1>2 DEF Live, LiveStates
    <3> QED BY <1>4, <2>1, <3>1 DEF Epochs, Numbers
  <2>2. CASE u # t
    BY <1>4, <2>2 DEF Epochs, Numbers
  <2> QED BY <2>1, <2>2
<1>9. Handed' = [Handed EXCEPT ![t] = @ \cup Held[t]]
  BY <1>3, <1>8 DEF Handed
<1> QED BY <1>1, <1>2, <1>3, <1>7, <1>9 DEF Fenced!HandOver

\* The lease kernel implements the fenced work: no token is held by two
\* holders, granted twice, or handed over after it was dropped, whatever calls
\* arrive late, repeated or not at all.
THEOREM KernelIsFenced == Spec => ImplementsFencedWork
<1>1. Init => Fenced!Init
  <2> SUFFICES ASSUME Init PROVE Fenced!Init
    OBVIOUS
  <2>1. \A t \in Tasks, n \in Numbers : attempt[<<t, n>>].state = "none"
    BY DEF Init, NoAttempt, Attempts, Numbers
  <2>2. \A t \in Tasks : Epochs(t, LiveStates) = {} /\ Epochs(t, {"submitted"}) = {}
    BY <2>1 DEF LiveStates, Epochs, Numbers
  <2> QED BY <2>2 DEF Init, Fenced!Init, Held, Handed
<1>2. IInv /\ [LeaseNext]_leaseVars => [Fenced!Next]_Fenced!workVars
  <2> SUFFICES ASSUME IInv, [LeaseNext]_leaseVars PROVE Fenced!Next
    OBVIOUS
  <2>1. CASE SomeClaim
    BY <2>1, ClaimGrants DEF SomeClaim, Fenced!Next
  <2>2. CASE SomeSubmit
    <3>1. \A a \in Attempts : a[1] \in Tasks
      BY DEF Attempts
    <3> QED BY <2>2, <3>1, SubmitHandsOver DEF SomeSubmit, Fenced!Next
  <2>3. CASE ~SomeClaim /\ ~SomeSubmit
    BY <2>3, OtherStepsDrop DEF Fenced!Next
  <2> QED BY <2>1, <2>2, <2>3
<1> QED BY <1>1, <1>2, Inductive, PTL DEF Spec, ImplementsFencedWork, Fenced!Spec
=============================================================================
