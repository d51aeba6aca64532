--------------------------- MODULE AcceptanceProofs ---------------------------
(***************************************************************************)
(* Theorems about Acceptance, for every number of attempts, checks and     *)
(* rounds and every way to configure the controller.                       *)
(***************************************************************************)
EXTENDS Acceptance, NaturalSets, SequenceTheorems, TLAPS

-----------------------------------------------------------------------------
(* The inductive invariant, in parts.                                      *)

\* Attempts are made one after the other, ...
Ordered == \A n, m \in Attempts : n < m /\ attempt[n] = "none" => attempt[m] = "none"

\* ... the live one is the last, and the task runs it.
LiveLast ==
  \A n \in Attempts : attempt[n] = "live" =>
    task = "running" /\ \A m \in Attempts : n < m => attempt[m] = "none"

\* What was verified is over.
RowsOver == \A i \in DOMAIN verification : attempt[verification[i].attempt] \notin {"none", "live"}

\* A task on its way to be accepted has a result, whose attempt was not accepted
\* before.
ToAccept ==
  task \in {"submitted", "verifying"} =>
    Submitted # {} /\ \A i \in Accepting : verification[i].attempt # Latest

\* The row a review goes by accepted nothing.
ChainsPlain ==
  \A c \in Checks : check[c].chain # 0 =>
    check[c].chain \in DOMAIN verification /\ ~verification[check[c].chain].accepts

AcceptanceInv ==
  /\ TypeOK /\ Ordered /\ LiveLast /\ RowsOver /\ ToAccept /\ ChainsPlain
  /\ AcceptedHasResult /\ AcceptedOnce /\ ReviewAfterPass

-----------------------------------------------------------------------------
(* The choices made of attempts, rows and checks.                          *)

\* The latest submitted attempt is the last of them; 0 stands for none.
LEMMA LatestFacts ==
  ASSUME attempt \in [Attempts -> AttemptStates]
  PROVE  /\ Submitted = {} => Latest = 0
         /\ Submitted # {} => Latest \in Submitted /\ \A m \in Submitted : m <= Latest
         /\ Latest # 0 => Latest \in Submitted
         /\ Submitted \subseteq Attempts
         /\ \A n \in Submitted : (\A m \in Submitted : m <= n) => n = Latest
<1>1. Submitted \subseteq 1..MaxAttempts /\ MaxAttempts \in Nat
  BY AcceptanceConstants DEF Submitted, Attempts
<1>2. CASE Submitted = {}
  BY <1>1, <1>2 DEF Latest
<1>3. CASE Submitted # {}
  <2>1. \E x \in Submitted : \A y \in Submitted : y <= x
    BY <1>1, <1>3, Largest
  <2>2. Latest \in Submitted /\ \A m \in Submitted : m <= Latest
    BY <1>3, <2>1 DEF Latest
  <2>3. ASSUME NEW n \in Submitted, \A m \in Submitted : m <= n PROVE n = Latest
    <3>1. n \in Nat /\ Latest \in Nat /\ n <= Latest /\ Latest <= n
      BY <1>1, <2>2, <2>3
    <3> QED BY <3>1
  <2> QED BY <1>1, <1>3, <2>2, <2>3 DEF Attempts
<1> QED BY <1>2, <1>3

\* The attempt a task was accepted for is that of the last row that accepts.
LEMMA AcceptedFacts ==
  ASSUME verification \in Seq(Row)
  PROVE  /\ Accepting # {} => /\ AcceptedAttempt \in Attempts
                              /\ \E i \in Accepting : AcceptedAttempt = verification[i].attempt
         /\ \A i \in Accepting : (\A j \in Accepting : j <= i) =>
              AcceptedAttempt = verification[i].attempt
<1>1. Len(verification) \in Nat /\ DOMAIN verification = 1..Len(verification)
      /\ Accepting \subseteq 1..Len(verification)
  BY LenProperties DEF Accepting
<1>2. ASSUME NEW i \in Accepting, \A j \in Accepting : j <= i
      PROVE  AcceptedAttempt = verification[i].attempt
  <2> DEFINE k == CHOOSE x \in Accepting : \A j \in Accepting : j <= x
  <2>1. k \in Accepting /\ \A j \in Accepting : j <= k
    BY <1>2
  <2>3. AcceptedAttempt = verification[k].attempt
    BY DEF AcceptedAttempt
  <2> HIDE DEF k
  <2>2. i \in 1..Len(verification) /\ k \in 1..Len(verification) /\ i <= k /\ k <= i
    BY <1>1, <1>2, <2>1
  <2>4. i = k
    BY <1>1, <2>2
  <2> QED BY <2>3, <2>4
<1>3. ASSUME Accepting # {}
      PROVE  \E i \in Accepting : AcceptedAttempt = verification[i].attempt /\ AcceptedAttempt \in Attempts
  <2>1. PICK i \in Accepting : \A j \in Accepting : j <= i
    BY <1>1, <1>3, Largest
  <2>2. verification[i] \in Row
    BY <1>1, <2>1, ElementOfSeq
  <2> QED BY <1>2, <2>1, <2>2 DEF Row
<1> QED BY <1>2, <1>3

\* A row that is appended is the last, and the others stay.
LEMMA RowAppended ==
  ASSUME verification \in Seq(Row), NEW v \in Row, verification' = Append(verification, v),
         NEW last, last = Len(verification) + 1
  PROVE  /\ verification' \in Seq(Row)
         /\ Len(verification) \in Nat /\ DOMAIN verification = 1..Len(verification)
         /\ DOMAIN verification' = 1..last /\ last \notin DOMAIN verification
         /\ \A i \in DOMAIN verification : verification'[i] = verification[i]
         /\ verification'[last] = v
         /\ Accepting' = IF v.accepts THEN Accepting \cup {last} ELSE Accepting
         /\ v.accepts => Accepting' # {} /\ AcceptedAttempt' = v.attempt
         /\ ~v.accepts /\ Accepting # {} => AcceptedAttempt' = AcceptedAttempt
<1>1. /\ verification' \in Seq(Row) /\ Len(verification') = last
      /\ Len(verification) \in Nat /\ DOMAIN verification = 1..Len(verification)
      /\ DOMAIN verification' = 1..last
      /\ verification'[last] = v
  BY AppendProperties, LenProperties
<1>2. \A i \in DOMAIN verification : verification'[i] = verification[i]
  BY <1>1, AppendProperties
<1>3. last \notin DOMAIN verification /\ DOMAIN verification' = DOMAIN verification \cup {last}
  BY <1>1
<1>4. Accepting' = {i \in DOMAIN verification' : verification'[i].accepts}
  BY DEF Accepting
<1>5. Accepting' = IF v.accepts THEN Accepting \cup {last} ELSE Accepting
  BY <1>1, <1>2, <1>3, <1>4 DEF Accepting
<1>6. ASSUME v.accepts PROVE Accepting' # {} /\ AcceptedAttempt' = v.attempt
  <2>1. last \in Accepting' /\ \A j \in Accepting' : j <= last
    BY <1>1, <1>5, <1>6 DEF Accepting
  <2> DEFINE k == CHOOSE x \in Accepting' : \A j \in Accepting' : j <= x
  <2>2. k \in Accepting' /\ \A j \in Accepting' : j <= k
    BY <2>1
  <2>3. AcceptedAttempt' = verification'[k].attempt
    BY DEF AcceptedAttempt
  <2> HIDE DEF k
  <2>4. k \in 1..last /\ last \in Nat /\ last <= k
    BY <1>1, <2>1, <2>2 DEF Accepting
  <2>5. k = last
    BY <2>4
  <2> QED BY <1>1, <2>1, <2>3, <2>5
<1>7. ASSUME ~v.accepts, Accepting # {} PROVE AcceptedAttempt' = AcceptedAttempt
  <2> DEFINE k == CHOOSE x \in Accepting : \A j \in Accepting : j <= x
  <2>1. Accepting \subseteq 1..Len(verification)
    BY <1>1 DEF Accepting
  <2>2. \E x \in Accepting : \A j \in Accepting : j <= x
    BY <1>1, <1>7, <2>1, Largest
  <2>3. k \in Accepting
    BY <2>2
  <2>4. AcceptedAttempt = verification[k].attempt /\ AcceptedAttempt' = verification'[k].attempt
    BY <1>5, <1>7 DEF AcceptedAttempt
  <2> HIDE DEF k
  <2> QED BY <1>1, <1>2, <2>1, <2>3, <2>4
<1> QED BY <1>1, <1>2, <1>3, <1>5, <1>6, <1>7

\* A check that is proposed takes a place that was free.
LEMMA ProposedFacts ==
  ASSUME NEW f \in [Checks -> CheckRow], NEW k \in CheckRow, \E c \in Checks : f[c].state = "none"
  PROVE  \E c \in Checks : f[c].state = "none" /\ Proposed(f, k) = [f EXCEPT ![c] = k]
<1> DEFINE Free == {c \in Checks : f[c].state = "none"}
           p == CHOOSE c \in Checks : f[c].state = "none" /\ \A d \in 1..(c - 1) : f[d].state # "none"
<1>1. Checks = 1..MaxChecks /\ MaxChecks \in Nat
  BY AcceptanceConstants DEF Checks
<1>2. Free \subseteq Nat /\ Free # {}
  BY <1>1
<1>3. PICK x \in Free : \A y \in Free : x <= y
  BY <1>2, Least
<1>4. ASSUME NEW d \in 1..(x - 1) PROVE f[d].state # "none"
  <2>1. d \in Checks /\ ~(x <= d)
    BY <1>1, <1>3
  <2> QED BY <1>3, <2>1
<1>5. x \in Checks /\ f[x].state = "none"
  OBVIOUS
<1>6. p \in Checks /\ f[p].state = "none"
  BY <1>4, <1>5
<1>7. Proposed(f, k) = [f EXCEPT ![p] = k]
  BY DEF Proposed
<1> HIDE DEF p
<1> QED BY <1>6, <1>7

-----------------------------------------------------------------------------
(* Types.                                                                  *)

\* What is proposed or read of a check has its type.
LEMMA ChecksTyped ==
  ASSUME TypeOK
  PROVE  /\ \A n \in Attempts : Verify(n) \in CheckRow /\ VerifySalvage(n) \in CheckRow
         /\ [Verify(0) EXCEPT !.role = "review"] \in CheckRow
         /\ \A c \in Checks : Review(c) \in CheckRow /\ check[c] \in CheckRow
         /\ Len(verification) \in Nat /\ round \in Nat \ {0}
         /\ Attempts \subseteq Nat \ {0}
<1>1. round \in Nat \ {0} /\ Len(verification) \in Nat /\ \A c \in Checks : check[c] \in CheckRow
  BY AcceptanceConstants, LenProperties DEF TypeOK
<1>2. Attempts \subseteq Nat \ {0} /\ Attempts \subseteq 0..MaxAttempts /\ 0 \in 0..MaxAttempts
  BY AcceptanceConstants DEF Attempts
<1>3. ASSUME NEW n \in 0..MaxAttempts
      PROVE  /\ Verify(n) \in CheckRow /\ [Verify(n) EXCEPT !.role = "review"] \in CheckRow
             /\ [Verify(n) EXCEPT !.salvage = TRUE] \in CheckRow
  BY <1>1, <1>2 DEF Verify, NoCheck, CheckRow, CheckStates
<1>4. ASSUME NEW c \in Checks PROVE Review(c) \in CheckRow
  <2>1. check[c] \in CheckRow /\ Len(verification) + 1 \in Nat
    BY <1>1
  <2> HIDE DEF CheckRow
  <2> DEFINE l == Len(verification) + 1
  <2> HIDE DEF l
  <2>2. \A k \in CheckRow : \A n \in Nat :
          [k EXCEPT !.state = "ready", !.role = "review", !.pass = FALSE, !.tried = FALSE, !.chain = n]
            \in CheckRow
    BY DEF CheckRow, CheckStates
  <2>3. l \in Nat
    BY <2>1 DEF l
  <2>4. Review(c) = [check[c] EXCEPT !.state = "ready", !.role = "review", !.pass = FALSE,
                                     !.tried = FALSE, !.chain = l]
    BY DEF Review, l
  <2> QED BY <2>1, <2>2, <2>3, <2>4
<1> QED BY <1>1, <1>2, <1>3, <1>4 DEF VerifySalvage

\* What Proposed makes of the checks.
Proposes(f, k) ==
  \E c \in Checks : f[c].state = "none" /\ check' = [f EXCEPT ![c] = k]

\* Every proposal is of a typed check and finds a place.
LEMMA Proposals ==
  ASSUME TypeOK
  PROVE  /\ ProposeCheck => Proposes(check, [Verify(0) EXCEPT !.role = "review"])
         /\ StartVerification => Latest \in Attempts /\ Proposes(check, Verify(Latest))
         /\ \A n \in Attempts : StartSalvageCheck(n) => Proposes(check, VerifySalvage(n))
         /\ \A c \in Checks : CloseCheck(c) =>
              /\ Used(c) \in [Checks -> CheckRow]
              /\ IF task = "verifying" /\ ~OtherOpen(c) /\ Latest # 0
                 THEN Latest \in Attempts /\ Proposes(Used(c), Verify(Latest))
                 ELSE check' = Used(c)
         /\ \A c \in Checks : \A precheck \in Prechecks : AskReview(c, precheck) =>
              Used(c) \in [Checks -> CheckRow] /\ Proposes(Used(c), Review(c))
<1>0. /\ check \in [Checks -> CheckRow] /\ attempt \in [Attempts -> AttemptStates]
      /\ \A c \in Checks : Used(c) \in [Checks -> CheckRow]
  <2>1. check \in [Checks -> CheckRow] /\ attempt \in [Attempts -> AttemptStates]
    BY DEF TypeOK
  <2>2. ASSUME NEW c \in Checks PROVE [check[c] EXCEPT !.state = "accepted"] \in CheckRow
    BY <2>1 DEF CheckRow, CheckStates
  <2> QED BY <2>1, <2>2 DEF Used
<1>1. Latest # 0 => Latest \in Attempts
  BY <1>0, LatestFacts
<1>2. ASSUME NEW f \in [Checks -> CheckRow], NEW k \in CheckRow, Room(f), check' = Proposed(f, k)
      PROVE  Proposes(f, k)
  BY <1>2, ProposedFacts DEF Proposes, Room
<1>3. ASSUME NEW c \in Checks, Room(check), Concludes(c) PROVE Room(Used(c))
  <2>1. PICK d \in Checks : check[d].state = "none"
    BY <1>3 DEF Room
  <2>2. d # c
    BY <1>3, <2>1 DEF Concludes
  <2>3. Used(c)[d] = check[d]
    BY <1>0, <2>2 DEF Used
  <2> QED BY <2>1, <2>3 DEF Room
<1>4. ProposeCheck => Proposes(check, [Verify(0) EXCEPT !.role = "review"])
  BY <1>0, <1>2, ChecksTyped DEF ProposeCheck
<1>5. StartVerification => Latest \in Attempts /\ Proposes(check, Verify(Latest))
  BY <1>0, <1>1, <1>2, ChecksTyped DEF StartVerification
<1>6. ASSUME NEW n \in Attempts, StartSalvageCheck(n) PROVE Proposes(check, VerifySalvage(n))
  BY <1>0, <1>2, <1>6, ChecksTyped DEF StartSalvageCheck
<1>7. ASSUME NEW c \in Checks, CloseCheck(c)
      PROVE  IF task = "verifying" /\ ~OtherOpen(c) /\ Latest # 0
             THEN Latest \in Attempts /\ Proposes(Used(c), Verify(Latest))
             ELSE check' = Used(c)
  BY <1>0, <1>1, <1>2, <1>3, <1>7, ChecksTyped DEF CloseCheck
<1>8. ASSUME NEW c \in Checks, NEW precheck \in Prechecks, AskReview(c, precheck)
      PROVE  Proposes(Used(c), Review(c))
  BY <1>0, <1>2, <1>3, <1>8, ChecksTyped DEF AskReview, Record
<1>9. \A c \in Checks : CloseCheck(c) =>
         IF task = "verifying" /\ ~OtherOpen(c) /\ Latest # 0
         THEN Latest \in Attempts /\ Proposes(Used(c), Verify(Latest))
         ELSE check' = Used(c)
  BY <1>7
<1>10. \A c \in Checks : \A precheck \in Prechecks :
         AskReview(c, precheck) => Proposes(Used(c), Review(c))
  BY <1>8
<1> QED BY <1>0, <1>4, <1>5, <1>6, <1>9, <1>10

\* What a step makes of the checks: they keep their type, and go by the same rows,
\* or one goes by the row that is appended.
ChainsStay == \A c \in Checks : check'[c].chain \in {0, check[c].chain}
ChainsGrow ==
  \A c \in Checks : check'[c].chain \in {0, check[c].chain, Len(verification) + 1}

\* A check that is marked keeps its type and its row.
LEMMA MarkedCheck ==
  ASSUME check \in [Checks -> CheckRow], NEW c \in Checks, NEW k \in CheckRow,
         k.chain = check[c].chain, check' = [check EXCEPT ![c] = k]
  PROVE  check' \in [Checks -> CheckRow] /\ ChainsStay
<1>1. \A d \in Checks : check'[d] = IF d = c THEN k ELSE check[d]
  OBVIOUS
<1> QED BY <1>1 DEF ChainsStay

\* A check that is proposed goes by no row, or by the one appended.
LEMMA ProposedChecks ==
  ASSUME check \in [Checks -> CheckRow], NEW f \in [Checks -> CheckRow], NEW k \in CheckRow,
         \A c \in Checks : f[c].chain = check[c].chain, Proposes(f, k)
  PROVE  /\ check' \in [Checks -> CheckRow]
         /\ k.chain = 0 => ChainsStay
         /\ k.chain = Len(verification) + 1 => ChainsGrow
<1>1. PICK d \in Checks : check' = [f EXCEPT ![d] = k]
  BY DEF Proposes
<1>2. \A c \in Checks : check'[c] = IF c = d THEN k ELSE f[c]
  BY <1>1
<1> QED BY <1>1, <1>2 DEF ChainsStay, ChainsGrow

\* Every step keeps the checks typed, and their rows but for a review that is asked.
LEMMA ChecksStep ==
  ASSUME TypeOK, [Next]_vars
  PROVE  /\ check' \in [Checks -> CheckRow]
         /\ \/ ChainsStay
            \/ \E c \in Checks, precheck \in Prechecks : AskReview(c, precheck) /\ ChainsGrow
<1> DEFINE G == check' \in [Checks -> CheckRow] /\ ChainsStay
<1>1. check \in [Checks -> CheckRow] /\ \A c \in Checks : check[c] \in CheckRow
  BY DEF TypeOK
<1>2. UNCHANGED check => G
  BY <1>1 DEF ChainsStay
<1>3. ASSUME NEW c \in Checks, NEW s \in CheckStates, check' = [check EXCEPT ![c].state = s]
      PROVE  G
  <2> DEFINE k == [check[c] EXCEPT !.state = s]
  <2>1. k \in CheckRow /\ k.chain = check[c].chain
    BY <1>1 DEF CheckRow
  <2>2. check' = [check EXCEPT ![c] = k]
    BY <1>1, <1>3
  <2> HIDE DEF k
  <2> QED BY <1>1, <2>1, <2>2, MarkedCheck
<1>4. ASSUME NEW c \in Checks, check' = Used(c) PROVE G
  BY <1>3, <1>4 DEF Used, CheckStates
<1>5. ASSUME NEW c \in Checks, EndCheck(c) PROVE G
  <2>1. ASSUME NEW pass \in BOOLEAN,
               check' = [check EXCEPT ![c].state = "submitted", ![c].pass = pass]
        PROVE  G
    <3> DEFINE k == [check[c] EXCEPT !.state = "submitted", !.pass = pass]
    <3>1. k \in CheckRow /\ k.chain = check[c].chain
      BY <1>1 DEF CheckRow, CheckStates
    <3>2. check' = [check EXCEPT ![c] = k]
      BY <1>1, <2>1
    <3> HIDE DEF k
    <3> QED BY <1>1, <3>1, <3>2, MarkedCheck
  <2> QED BY <1>3, <1>5, <2>1 DEF EndCheck, CheckStates
<1>6. ASSUME NEW c \in Checks, ClaimCheck(c) PROVE G
  <2> DEFINE k == [check[c] EXCEPT !.state = "running", !.tried = TRUE]
  <2>1. k \in CheckRow /\ k.chain = check[c].chain
    BY <1>1 DEF CheckRow, CheckStates
  <2>2. check' = [check EXCEPT ![c] = k]
    BY <1>1, <1>6 DEF ClaimCheck
  <2> HIDE DEF k
  <2> QED BY <1>1, <2>1, <2>2, MarkedCheck
<1>7. ASSUME WithdrawTask PROVE G
  <2>1. \A c \in Checks : [check[c] EXCEPT !.state = "cancelled"] \in CheckRow
          /\ [check[c] EXCEPT !.state = "cancelled"].chain = check[c].chain
    BY <1>1 DEF CheckRow, CheckStates
  <2>2. check' = [c \in Checks |-> IF Open(c) THEN [check[c] EXCEPT !.state = "cancelled"] ELSE check[c]]
    BY <1>7 DEF WithdrawTask
  <2>3. \A c \in Checks : check'[c] \in CheckRow /\ check'[c].chain = check[c].chain
    BY <1>1, <2>1, <2>2
  <2> QED BY <2>2, <2>3 DEF ChainsStay
<1>8. ASSUME NEW f \in [Checks -> CheckRow], \A c \in Checks : f[c].chain = check[c].chain,
             NEW k \in CheckRow, Proposes(f, k), k.chain = 0
      PROVE  G
  BY <1>1, <1>8, ProposedChecks
<1>9. /\ \A n \in Attempts : Verify(n).chain = 0 /\ VerifySalvage(n).chain = 0
      /\ [Verify(0) EXCEPT !.role = "review"].chain = 0
  BY DEF Verify, VerifySalvage, NoCheck
<1>10. ASSUME NEW c \in Checks PROVE \A d \in Checks : Used(c)[d].chain = check[d].chain
  BY <1>1 DEF Used, CheckRow
<1>11. ASSUME AttemptNext PROVE UNCHANGED check
  BY <1>11 DEF AttemptNext, Claim, BlockTask, Submit, Gone, Salvage
<1>12. ASSUME OwnerNext PROVE G
  <2>1. ProposeCheck => G
    BY <1>1, <1>8, <1>9, ChecksTyped, Proposals
  <2>2. ASSUME NEW c \in Checks, RetryCheck(c) \/ DropCheck(c) \/ WithdrawCheck(c) PROVE G
    BY <1>3, <2>2 DEF RetryCheck, DropCheck, WithdrawCheck, CheckStates
  <2>3. ToggleStop \/ RetryTask \/ DropTask => UNCHANGED check
    BY DEF ToggleStop, RetryTask, DropTask
  <2> QED BY <1>2, <1>7, <1>12, <2>1, <2>2, <2>3 DEF OwnerNext
<1>13. ASSUME CheckNext PROVE G
  <2>1. ASSUME NEW c \in Checks, BlockCheck(c) PROVE G
    BY <1>3, <2>1 DEF BlockCheck, CheckStates
  <2> QED BY <1>5, <1>6, <1>13, <2>1 DEF CheckNext
<1>14. ASSUME ControllerNext
       PROVE  G \/ \E c \in Checks, precheck \in Prechecks :
                      AskReview(c, precheck) /\ check' \in [Checks -> CheckRow] /\ ChainsGrow
  <2>1. StartVerification => G
    BY <1>1, <1>8, <1>9, ChecksTyped, Proposals
  <2>2. ASSUME NEW n \in Attempts, StartSalvageCheck(n) PROVE G
    BY <1>1, <1>8, <1>9, <2>2, ChecksTyped, Proposals
  <2>3. ASSUME NEW c \in Checks, CloseCheck(c) PROVE G
    <3>1. CASE task = "verifying" /\ ~OtherOpen(c) /\ Latest # 0
      BY <1>8, <1>9, <1>10, <2>3, <3>1, ChecksTyped, Proposals
    <3>2. CASE ~(task = "verifying" /\ ~OtherOpen(c) /\ Latest # 0)
      BY <1>4, <2>3, <3>2 DEF CloseCheck
    <3> QED BY <3>1, <3>2
  <2>4. ASSUME NEW c \in Checks, NEW precheck \in Prechecks, AskReview(c, precheck)
        PROVE  check' \in [Checks -> CheckRow] /\ ChainsGrow
    <3>1. Review(c).chain = Len(verification) + 1
      <4>1. check[c] \in [state: CheckStates, role: {"verify", "review"}, attempt: 0..MaxAttempts,
                          round: Nat, salvage: BOOLEAN, chain: Nat, pass: BOOLEAN, tried: BOOLEAN]
        BY <1>1 DEF CheckRow
      <4> QED BY <4>1 DEF Review
    <3> QED BY <1>1, <1>10, <2>4, <3>1, ChecksTyped, Proposals, ProposedChecks
  <2>5. ASSUME NEW c \in Checks, NEW precheck \in Prechecks, AcceptResult(c, precheck) PROVE G
    BY <1>4, <2>5 DEF AcceptResult
  <2>6. ASSUME NEW c \in Checks, FailResult(c) PROVE G
    BY <1>4, <2>6 DEF FailResult
  <2>7. ASSUME NEW c \in Checks, CloseStoppedCheck(c) PROVE G
    BY <1>3, <2>7 DEF CloseStoppedCheck, CheckStates
  <2>8. AcceptOnSubmission \/ RedLanding => G
    BY <1>2 DEF AcceptOnSubmission, RedLanding
  <2> HIDE DEF G
  <2> QED BY <1>14, <2>1, <2>2, <2>3, <2>4, <2>5, <2>6, <2>7, <2>8 DEF ControllerNext
<1>15. CASE UNCHANGED vars
  BY <1>2, <1>15 DEF vars
<1> QED BY <1>2, <1>11, <1>12, <1>13, <1>14, <1>15 DEF Next

-----------------------------------------------------------------------------
(* What a step does to the task, in four shapes.  Which check it is about   *)
(* no longer matters to any of them.                                        *)

\* The attempts and the rows stay; the task is started anew, blocked or cancelled,
\* or its result goes to be verified.
Turns ==
  /\ UNCHANGED <<attempt, verification>>
  /\ salvaged \subseteq salvaged' /\ salvaged' \subseteq Attempts
  /\ \/ task' = task
     \/ task \notin {"running", "accepted"} /\ task' \in {"ready", "blocked", "cancelled"}
     \/ task = "submitted" /\ task' = "verifying"

\* Row v is appended and accepts nothing: the task stays or goes back.
Judges(v) ==
  /\ verification' = Append(verification, v)
  /\ UNCHANGED <<attempt, salvaged>>
  /\ v \in Row /\ ~v.accepts /\ attempt[v.attempt] \notin {"none", "live"}
  /\ v.method = "review" => Passed(v.attempt)
  /\ \/ task' = task
     \/ task \in {"verifying", "accepted"} /\ task' \in {"ready", "blocked"}

\* Row v is appended and accepts its attempt, which has a result, has none
\* submitted after it, and was not accepted before; no attempt stays live.
Adopts(v) ==
  /\ verification' = Append(verification, v)
  /\ v \in Row /\ v.accepts /\ task' = "accepted"
  /\ attempt' = LiveCancelled /\ UNCHANGED salvaged
  /\ attempt[v.attempt] = "submitted" \/ (attempt[v.attempt] = "lost" /\ v.attempt \in salvaged)
  /\ \A m \in Submitted : m <= v.attempt
  /\ v.method = "review" => Passed(v.attempt)
  /\ \A i \in Accepting : verification[i].attempt # v.attempt

Shaped ==
  \/ Turns \/ Claim
  \/ \E n \in Attempts : Submit(n) \/ Gone(n)
  \/ \E v \in Row : Judges(v) \/ Adopts(v)

\* What a recorded verdict is about: an attempt that has a result, none submitted
\* after it.
LEMMA RecordFacts ==
  ASSUME AcceptanceInv, NEW c \in Checks, NEW accepts \in BOOLEAN, Record(c, accepts)
  PROVE  \E v \in Row :
           /\ verification' = Append(verification, v)
           /\ v.attempt = check[c].attempt /\ v.accepts = accepts
           /\ attempt[v.attempt] = "submitted" \/ (attempt[v.attempt] = "lost" /\ v.attempt \in salvaged)
           /\ \A m \in Submitted : m <= v.attempt
           /\ v.method = "review" => Passed(v.attempt)
           /\ \A i \in Accepting : verification[i].attempt # v.attempt
           /\ ~check[c].salvage => task = "verifying"
           /\ check[c].salvage => task \in {"ready", "running"}
<1> DEFINE k == check[c]
           v == [attempt |-> k.attempt, pass |-> k.pass, accepts |-> accepts,
                 method |-> IF k.role = "review" THEN "review" ELSE "deterministic"]
<1>1. /\ check[c] \in CheckRow /\ attempt \in [Attempts -> AttemptStates]
      /\ verification \in Seq(Row) /\ Attempts = 1..MaxAttempts /\ MaxAttempts \in Nat
  BY AcceptanceConstants DEF AcceptanceInv, TypeOK, Attempts
<1>2. /\ k.attempt \in 0..MaxAttempts /\ k.pass \in BOOLEAN /\ k.chain \in Nat
      /\ k.role \in {"verify", "review"} /\ k.salvage \in BOOLEAN
  BY <1>1 DEF CheckRow
<1>3. verification' = Append(verification, v) /\ Current(c)
  BY DEF Record
<1>4. k.attempt # 0 /\ (k.role = "review" => Passed(k.attempt))
  BY <1>3 DEF Current
<1>5. k.attempt \in Attempts
  BY <1>1, <1>2, <1>4
<1>6. v \in Row /\ v.attempt = k.attempt /\ v.accepts = accepts
      /\ (v.method = "review" => Passed(v.attempt))
  BY <1>2, <1>4, <1>5 DEF Row
<1>7. CASE k.salvage
  <2>1. SalvageCurrent(c)
    BY <1>3, <1>7 DEF Current
  <2>2. /\ attempt[k.attempt] = "lost" /\ k.attempt \in salvaged /\ task \in {"ready", "running"}
        /\ \A m \in Submitted : m <= k.attempt
    BY <2>1 DEF SalvageCurrent
  <2>3. ASSUME NEW i \in Accepting, verification[i].attempt = k.attempt PROVE FALSE
    <3>1. i \in Rows(k.attempt) /\ verification[i].accepts
      BY <2>3 DEF Rows, Accepting
    <3>2. k.role = "review" /\ Rows(k.attempt) = {k.chain}
      BY <1>2, <2>1, <3>1 DEF SalvageCurrent
    <3>3. i = k.chain /\ i \in 1..Len(verification) /\ Len(verification) \in Nat
      BY <1>1, <3>1, <3>2, LenProperties DEF Rows
    <3>4. k.chain # 0
      BY <3>3
    <3> QED BY <3>1, <3>3, <3>4 DEF AcceptanceInv, ChainsPlain
  <2> QED BY <1>3, <1>6, <1>7, <2>2, <2>3
<1>8. CASE ~k.salvage
  <2>1. attempt[k.attempt] = "submitted" /\ k.attempt = Latest /\ task = "verifying"
    BY <1>3, <1>8 DEF Current
  <2>2. k.attempt \in Submitted
    BY <1>5, <2>1 DEF Submitted
  <2>3. \A m \in Submitted : m <= k.attempt
    BY <1>1, <2>1, <2>2, LatestFacts
  <2>4. \A i \in Accepting : verification[i].attempt # k.attempt
    BY <2>1 DEF AcceptanceInv, ToAccept
  <2> QED BY <1>3, <1>6, <1>8, <2>1, <2>3, <2>4
<1> QED BY <1>7, <1>8

\* With no live attempt none is cancelled.
LEMMA NoneCancelled ==
  ASSUME attempt \in [Attempts -> AttemptStates], \A n \in Attempts : attempt[n] # "live"
  PROVE  LiveCancelled = attempt
BY DEF LiveCancelled

\* Every step has one of the shapes.
LEMMA StepShaped ==
  ASSUME AcceptanceInv, [Next]_vars
  PROVE  Shaped
<1>1. /\ attempt \in [Attempts -> AttemptStates] /\ salvaged \subseteq Attempts
      /\ verification \in Seq(Row)
  BY DEF AcceptanceInv, TypeOK
<1>2. ASSUME UNCHANGED <<attempt, verification, salvaged, task>> PROVE Turns
  BY <1>1, <1>2 DEF Turns
<1>3. ASSUME AttemptNext PROVE Shaped
  <2>1. ASSUME NEW n \in Attempts, Salvage(n) PROVE Turns
    BY <1>1, <2>1 DEF Salvage, Turns
  <2>2. BlockTask => Turns
    BY <1>1 DEF BlockTask, Turns
  <2> QED BY <1>3, <2>1, <2>2 DEF AttemptNext, Shaped
<1>4. ASSUME OwnerNext PROVE Turns
  <2>1. ToggleStop => Turns
    BY <1>1 DEF ToggleStop, Turns
  <2>2. RetryTask => Turns
    BY <1>1 DEF RetryTask, Turns
  <2>3. DropTask => Turns
    BY <1>1 DEF DropTask, Turns
  <2>4. ProposeCheck => Turns
    BY <1>1 DEF ProposeCheck, Turns
  <2>5. WithdrawTask => Turns
    BY <1>1 DEF WithdrawTask, Turns
  <2>6. ASSUME NEW c \in Checks PROVE RetryCheck(c) \/ DropCheck(c) \/ WithdrawCheck(c) => Turns
    BY <1>1 DEF RetryCheck, DropCheck, WithdrawCheck, Turns
  <2> QED BY <1>4, <2>1, <2>2, <2>3, <2>4, <2>5, <2>6 DEF OwnerNext
<1>5. ASSUME CheckNext PROVE Turns
  BY <1>1, <1>5 DEF CheckNext, ClaimCheck, EndCheck, BlockCheck, Turns
<1>6. ASSUME task # "running" PROVE LiveCancelled = attempt
  BY <1>1, <1>6, NoneCancelled DEF AcceptanceInv, LiveLast
<1>7. ASSUME AcceptOnSubmission PROVE \E v \in Row : Adopts(v)
  <2> DEFINE v == [attempt |-> Latest, method |-> "landing_ci", pass |-> TRUE, accepts |-> TRUE]
  <2>1. /\ Latest \in Submitted /\ Latest \in Attempts /\ attempt[Latest] = "submitted"
        /\ \A m \in Submitted : m <= Latest
    BY <1>1, <1>7, LatestFacts DEF AcceptOnSubmission, Submitted
  <2>2. \A i \in Accepting : verification[i].attempt # Latest
    BY <1>7 DEF AcceptanceInv, ToAccept, AcceptOnSubmission
  <2>3. v \in Row
    BY <2>1 DEF Row
  <2>4. verification' = Append(verification, v) /\ task' = "accepted"
        /\ attempt' = attempt /\ UNCHANGED salvaged
    BY <1>7 DEF AcceptOnSubmission
  <2>5. LiveCancelled = attempt
    BY <1>6, <1>7 DEF AcceptOnSubmission
  <2>6. v.attempt = Latest /\ v.accepts /\ v.method # "review"
    OBVIOUS
  <2> HIDE DEF v
  <2>7. Adopts(v)
    BY <2>1, <2>2, <2>3, <2>4, <2>5, <2>6 DEF Adopts
  <2> QED BY <2>3, <2>7
<1>8. ASSUME RedLanding PROVE \E v \in Row : Judges(v)
  <2> DEFINE v == [attempt |-> AcceptedAttempt, method |-> "landing_ci", pass |-> FALSE, accepts |-> FALSE]
  <2>1. /\ Accepting # {}
        /\ attempt[AcceptedAttempt] = "submitted" \/ attempt[AcceptedAttempt] = "lost"
    BY <1>8 DEF AcceptanceInv, AcceptedHasResult, RedLanding
  <2>2. AcceptedAttempt \in Attempts
    BY <1>1, <2>1, AcceptedFacts
  <2>3. v \in Row
    BY <2>2 DEF Row
  <2>4. /\ verification' = Append(verification, v)
        /\ task = "accepted" /\ task' = "ready" /\ UNCHANGED <<attempt, salvaged>>
    BY <1>8 DEF RedLanding
  <2>5. v.attempt = AcceptedAttempt /\ ~v.accepts /\ v.method # "review"
    OBVIOUS
  <2> HIDE DEF v
  <2>6. Judges(v)
    BY <2>1, <2>3, <2>4, <2>5 DEF Judges
  <2> QED BY <2>3, <2>6
<1>9. ASSUME NEW c \in Checks, NEW precheck \in Prechecks, AcceptResult(c, precheck)
      PROVE  \E v \in Row : Adopts(v)
  <2>1. Record(c, TRUE) /\ task' = "accepted" /\ UNCHANGED salvaged
        /\ attempt' = IF check[c].salvage THEN LiveCancelled ELSE attempt
    BY <1>9 DEF AcceptResult
  <2>2. PICK v \in Row :
           /\ verification' = Append(verification, v)
           /\ v.attempt = check[c].attempt /\ v.accepts = TRUE
           /\ attempt[v.attempt] = "submitted" \/ (attempt[v.attempt] = "lost" /\ v.attempt \in salvaged)
           /\ \A m \in Submitted : m <= v.attempt
           /\ v.method = "review" => Passed(v.attempt)
           /\ \A i \in Accepting : verification[i].attempt # v.attempt
           /\ ~check[c].salvage => task = "verifying"
           /\ check[c].salvage => task \in {"ready", "running"}
    BY <2>1, RecordFacts
  <2>3. attempt' = LiveCancelled
    BY <1>6, <2>1, <2>2
  <2> QED BY <2>1, <2>2, <2>3 DEF Adopts
<1>10. ASSUME NEW c \in Checks, Record(c, FALSE), UNCHANGED <<attempt, salvaged>>,
              \/ task' = task
              \/ ~check[c].salvage /\ task' \in {"ready", "blocked"}
       PROVE  \E v \in Row : Judges(v)
  <2>1. PICK v \in Row :
           /\ verification' = Append(verification, v)
           /\ v.attempt = check[c].attempt /\ v.accepts = FALSE
           /\ attempt[v.attempt] = "submitted" \/ (attempt[v.attempt] = "lost" /\ v.attempt \in salvaged)
           /\ \A m \in Submitted : m <= v.attempt
           /\ v.method = "review" => Passed(v.attempt)
           /\ \A i \in Accepting : verification[i].attempt # v.attempt
           /\ ~check[c].salvage => task = "verifying"
           /\ check[c].salvage => task \in {"ready", "running"}
    BY <1>10, RecordFacts
  <2> QED BY <1>10, <2>1 DEF Judges
<1>11. ASSUME ControllerNext PROVE Shaped
  <2>1. StartVerification => Turns
    BY <1>1 DEF StartVerification, Turns
  <2>2. ASSUME NEW n \in Attempts, StartSalvageCheck(n) PROVE Turns
    BY <1>1, <2>2 DEF StartSalvageCheck, Turns
  <2>3. ASSUME NEW c \in Checks, CloseCheck(c) \/ CloseStoppedCheck(c) PROVE Turns
    BY <1>1, <2>3 DEF CloseCheck, CloseStoppedCheck, Turns
  <2>4. ASSUME NEW c \in Checks, NEW precheck \in Prechecks, AskReview(c, precheck)
        PROVE  \E v \in Row : Judges(v)
    <3>1. Record(c, FALSE) /\ UNCHANGED <<attempt, salvaged, task>>
      BY <2>4 DEF AskReview
    <3> QED BY <1>10, <3>1
  <2>5. ASSUME NEW c \in Checks, FailResult(c) PROVE \E v \in Row : Judges(v)
    <3>1. /\ Record(c, FALSE) /\ UNCHANGED <<attempt, salvaged>>
          /\ task' = task \/ (~check[c].salvage /\ task' \in {"ready", "blocked"})
      BY <2>5 DEF FailResult
    <3> QED BY <1>10, <3>1
  <2> QED BY <1>7, <1>8, <1>9, <1>11, <2>1, <2>2, <2>3, <2>4, <2>5 DEF ControllerNext, Shaped
<1>12. CASE UNCHANGED vars
  BY <1>2, <1>12 DEF vars, Shaped
<1> QED BY <1>3, <1>4, <1>5, <1>11, <1>12 DEF Next, Shaped

\* The round, its bound and the marks of the task keep their types, and the round
\* never passes the bound.
LEMMA RoundsTyped ==
  ASSUME TypeOK, [Next]_vars
  PROVE  /\ maxRounds' \in MaxRounds..(MaxRounds + RoundBound) /\ round' \in 1..maxRounds'
         /\ failed' \in BOOLEAN /\ stop' \in BOOLEAN
<1> DEFINE G == /\ maxRounds' \in MaxRounds..(MaxRounds + RoundBound) /\ round' \in 1..maxRounds'
                /\ failed' \in BOOLEAN /\ stop' \in BOOLEAN
<1>1. /\ maxRounds \in MaxRounds..(MaxRounds + RoundBound) /\ round \in 1..maxRounds
      /\ failed \in BOOLEAN /\ stop \in BOOLEAN
      /\ MaxRounds \in Nat /\ RoundBound \in Nat /\ maxRounds \in Nat /\ round \in Nat
  BY AcceptanceConstants DEF TypeOK
<1>2. ASSUME UNCHANGED <<maxRounds, round>>, failed' \in BOOLEAN, stop' \in BOOLEAN PROVE G
  BY <1>1, <1>2
<1>3. ASSUME UNCHANGED stop, failed' \in BOOLEAN, round' \in {round, round + 1},
             round' = round + 1 => round < MaxRounds + RoundBound,
             maxRounds' = IF round' > maxRounds THEN round' ELSE maxRounds
      PROVE  G
  BY <1>1, <1>3
<1>4. AttemptNext => UNCHANGED <<maxRounds, round, stop>> /\ failed' \in BOOLEAN
  BY <1>1 DEF AttemptNext, Claim, BlockTask, Submit, Gone, Salvage
<1>5. CheckNext => UNCHANGED <<maxRounds, round, failed, stop>>
  BY DEF CheckNext, ClaimCheck, EndCheck, BlockCheck
<1>6. ASSUME OwnerNext PROVE G
  <2>1. ASSUME RetryTask PROVE G
    <3>1. UNCHANGED stop /\ failed' = FALSE
          /\ maxRounds' = (IF round' > maxRounds THEN round' ELSE maxRounds)
      BY <2>1 DEF RetryTask
    <3>2. CASE failed
      <4>1. round' = round + 1 /\ round < MaxRounds + RoundBound
        BY <2>1, <3>2 DEF RetryTask
      <4> HIDE DEF G
      <4> QED BY <1>3, <3>1, <4>1
    <3>3. CASE ~failed
      <4>1. round' = round /\ round # round + 1
        BY <1>1, <2>1, <3>3 DEF RetryTask
      <4> HIDE DEF G
      <4> QED BY <1>3, <3>1, <4>1
    <3> QED BY <3>2, <3>3
  <2>2. ToggleStop => G
    BY <1>1, <1>2 DEF ToggleStop
  <2>3. DropTask \/ WithdrawTask \/ ProposeCheck => G
    BY <1>1, <1>2 DEF DropTask, WithdrawTask, ProposeCheck
  <2>4. ASSUME NEW c \in Checks PROVE RetryCheck(c) \/ DropCheck(c) \/ WithdrawCheck(c) => G
    BY <1>1, <1>2 DEF RetryCheck, DropCheck, WithdrawCheck
  <2> QED BY <1>6, <2>1, <2>2, <2>3, <2>4 DEF OwnerNext
<1>7. ASSUME ControllerNext PROVE G
  <2>1. RedLanding => G
    BY <1>1, <1>3 DEF RedLanding
  <2>2. AcceptOnSubmission \/ StartVerification => G
    BY <1>1, <1>2 DEF AcceptOnSubmission, StartVerification
  <2>3. ASSUME NEW n \in Attempts PROVE StartSalvageCheck(n) => G
    BY <1>1, <1>2 DEF StartSalvageCheck
  <2>4. ASSUME NEW c \in Checks PROVE CloseCheck(c) \/ CloseStoppedCheck(c) => G
    BY <1>1, <1>2 DEF CloseCheck, CloseStoppedCheck
  <2>5. ASSUME NEW c \in Checks, NEW precheck \in Prechecks
        PROVE  AcceptResult(c, precheck) \/ AskReview(c, precheck) => G
    BY <1>1, <1>2 DEF AcceptResult, AskReview
  <2>6. ASSUME NEW c \in Checks, FailResult(c) PROVE G
    <3>1. \/ UNCHANGED <<round, failed>>
          \/ LastRound /\ failed' = TRUE /\ UNCHANGED round
          \/ ~LastRound /\ round' = round + 1 /\ UNCHANGED failed
      BY <2>6 DEF FailResult
    <3>2. UNCHANGED <<maxRounds, stop>>
      BY <2>6 DEF FailResult
    <3>3. failed' \in BOOLEAN
      BY <1>1, <3>1
    <3>4. round' \in 1..maxRounds'
      BY <1>1, <3>1, <3>2 DEF LastRound
    <3> QED BY <1>1, <3>2, <3>3, <3>4
  <2> HIDE DEF G
  <2> QED BY <1>7, <2>1, <2>2, <2>3, <2>4, <2>5, <2>6 DEF ControllerNext
<1>8. UNCHANGED vars => UNCHANGED <<maxRounds, round, failed, stop>>
  BY DEF vars
<1> QED BY <1>1, <1>2, <1>4, <1>5, <1>6, <1>7, <1>8 DEF Next

\* Every step keeps the types.
LEMMA TypeStep ==
  ASSUME AcceptanceInv, [Next]_vars
  PROVE  TypeOK'
<1>1. /\ TypeOK /\ task \in TaskStates /\ attempt \in [Attempts -> AttemptStates]
      /\ salvaged \subseteq Attempts /\ verification \in Seq(Row)
  BY DEF AcceptanceInv, TypeOK
<1> DEFINE G == /\ task' \in TaskStates /\ attempt' \in [Attempts -> AttemptStates]
                /\ salvaged' \subseteq Attempts /\ verification' \in Seq(Row)
<1>2. Turns => G
  BY <1>1 DEF Turns, TaskStates
<1>3. Claim => G
  BY <1>1 DEF Claim, TaskStates, AttemptStates
<1>4. ASSUME NEW n \in Attempts, Submit(n) \/ Gone(n) PROVE G
  BY <1>1, <1>4 DEF Submit, Gone, TaskStates, AttemptStates
<1>5. ASSUME NEW v \in Row, Judges(v) \/ Adopts(v) PROVE G
  <2>1. verification' \in Seq(Row)
    BY <1>1, <1>5, RowAppended DEF Judges, Adopts
  <2>2. LiveCancelled \in [Attempts -> AttemptStates]
    BY <1>1 DEF LiveCancelled, AttemptStates
  <2> QED BY <1>1, <1>5, <2>1, <2>2 DEF Judges, Adopts, TaskStates
<1>6. G
  BY <1>2, <1>3, <1>4, <1>5, StepShaped DEF Shaped
<1>7. check' \in [Checks -> CheckRow]
  BY <1>1, ChecksStep
<1> QED BY <1>1, <1>6, <1>7, RoundsTyped DEF TypeOK

-----------------------------------------------------------------------------
(* Each shape keeps the invariant.                                         *)

\* The parts about the rows alone.
RowsRight == AcceptedOnce /\ ReviewAfterPass

\* The parts about the task and its attempts.
TaskRight == Ordered /\ LiveLast /\ RowsOver /\ ToAccept /\ AcceptedHasResult

\* A row verifies one of the attempts.
LEMMA RowsTyped ==
  ASSUME verification \in Seq(Row)
  PROVE  \A i \in DOMAIN verification : verification[i] \in Row /\ verification[i].attempt \in Attempts
<1>1. \A i \in DOMAIN verification : verification[i] \in Row
  BY LenProperties, ElementOfSeq
<1> QED BY <1>1 DEF Row

\* Rows that stay stay right.
LEMMA RowsStay ==
  ASSUME AcceptanceInv, UNCHANGED verification
  PROVE  RowsRight' /\ Accepting' = Accepting /\ AcceptedAttempt' = AcceptedAttempt
<1>1. Accepting' = Accepting
  BY DEF Accepting
<1>2. AcceptedAttempt' = AcceptedAttempt
  BY <1>1 DEF AcceptedAttempt
<1>3. AcceptedOnce'
  BY <1>1 DEF AcceptanceInv, AcceptedOnce
<1>4. ReviewAfterPass'
  BY DEF AcceptanceInv, ReviewAfterPass, DeterministicPass
<1> QED BY <1>1, <1>2, <1>3, <1>4 DEF RowsRight

\* A task that turns keeps its invariant.
LEMMA TurnsKeeps ==
  ASSUME AcceptanceInv, Turns
  PROVE  TaskRight' /\ RowsRight'
<1>1. /\ UNCHANGED <<attempt, verification>>
      /\ salvaged \subseteq salvaged'
      /\ \/ task' = task
         \/ task \notin {"running", "accepted"} /\ task' \in {"ready", "blocked", "cancelled"}
         \/ task = "submitted" /\ task' = "verifying"
  BY DEF Turns
<1>2. RowsRight' /\ Accepting' = Accepting /\ AcceptedAttempt' = AcceptedAttempt
  BY <1>1, RowsStay
<1>3. Submitted' = Submitted /\ Latest' = Latest
  BY <1>1 DEF Submitted, Latest
<1>4. Ordered' /\ RowsOver'
  BY <1>1 DEF AcceptanceInv, Ordered, RowsOver
<1>5. LiveLast'
  BY <1>1 DEF AcceptanceInv, LiveLast
<1>6. ToAccept'
  BY <1>1, <1>2, <1>3 DEF AcceptanceInv, ToAccept
<1>7. AcceptedHasResult'
  BY <1>1, <1>2, <1>3 DEF AcceptanceInv, AcceptedHasResult
<1> QED BY <1>2, <1>4, <1>5, <1>6, <1>7 DEF TaskRight

\* A claim makes the next attempt.
LEMMA ClaimKeeps ==
  ASSUME AcceptanceInv, Claim
  PROVE  TaskRight' /\ RowsRight'
<1>1. PICK n \in Attempts : /\ attempt[n] = "none" /\ (n > 1 => attempt[n - 1] # "none")
                            /\ attempt' = [attempt EXCEPT ![n] = "live"]
  BY DEF Claim
<1>2. /\ task = "ready" /\ task' = "running" /\ UNCHANGED <<verification, salvaged>>
      /\ attempt \in [Attempts -> AttemptStates] /\ verification \in Seq(Row)
      /\ Attempts = 1..MaxAttempts /\ MaxAttempts \in Nat
  BY AcceptanceConstants DEF Claim, AcceptanceInv, TypeOK, Attempts
<1>3. \A m \in Attempts : m # n => attempt'[m] = attempt[m]
  BY <1>1, <1>2
<1>4. attempt'[n] = "live"
  BY <1>1, <1>2
<1>5. \A m \in Attempts : m < n => attempt[m] # "none"
  <2>1. SUFFICES ASSUME NEW m \in Attempts, m < n, attempt[m] = "none" PROVE FALSE
    OBVIOUS
  <2>2. n - 1 \in Attempts /\ n > 1 /\ (m = n - 1 \/ m < n - 1)
    BY <1>2, <2>1
  <2>3. attempt[n - 1] = "none"
    BY <2>1, <2>2 DEF AcceptanceInv, Ordered
  <2> QED BY <1>1, <2>2, <2>3
<1>6. Ordered'
  <2>1. SUFFICES ASSUME NEW a \in Attempts, NEW b \in Attempts, a < b, attempt'[a] = "none"
                 PROVE  attempt'[b] = "none"
    BY DEF Ordered
  <2>2. a # n /\ attempt[a] = "none"
    BY <1>3, <1>4, <2>1
  <2>3. b # n
    BY <1>5, <2>1, <2>2
  <2>4. attempt[b] = "none"
    BY <2>1, <2>2 DEF AcceptanceInv, Ordered
  <2> QED BY <1>3, <2>3, <2>4
<1>7. \A m \in Attempts : n < m => attempt[m] = "none"
  BY <1>1 DEF AcceptanceInv, Ordered
<1>8. \A m \in Attempts : attempt[m] # "live"
  BY <1>2 DEF AcceptanceInv, LiveLast
<1>9. \A m \in Attempts : n < m => m # n
  BY <1>2
<1>10. LiveLast'
  BY <1>2, <1>3, <1>7, <1>8, <1>9 DEF LiveLast
<1>11. RowsOver'
  <2>1. \A i \in DOMAIN verification : verification[i].attempt \in Attempts
    BY <1>2, RowsTyped
  <2>2. \A i \in DOMAIN verification : verification[i].attempt # n
    BY <1>1 DEF AcceptanceInv, RowsOver
  <2> QED BY <1>2, <1>3, <2>1, <2>2 DEF AcceptanceInv, RowsOver
<1>12. ToAccept' /\ AcceptedHasResult'
  BY <1>2 DEF ToAccept, AcceptedHasResult
<1> QED BY <1>2, <1>6, <1>10, <1>11, <1>12, RowsStay DEF TaskRight

\* The result of the live attempt is the latest, and it is the first that could be
\* accepted for that attempt.
LEMMA SubmitKeeps ==
  ASSUME AcceptanceInv, NEW n \in Attempts, Submit(n) \/ Gone(n)
  PROVE  TaskRight' /\ RowsRight'
<1>1. /\ attempt[n] = "live" /\ UNCHANGED <<verification, salvaged>>
      /\ task' \in {"submitted", "ready"}
      /\ attempt \in [Attempts -> AttemptStates] /\ verification \in Seq(Row)
      /\ Attempts = 1..MaxAttempts /\ MaxAttempts \in Nat
  BY AcceptanceConstants DEF Submit, Gone, AcceptanceInv, TypeOK, Attempts
<1>2. PICK s \in {"submitted", "lost", "failed"} :
        attempt' = [attempt EXCEPT ![n] = s] /\ (task' = "submitted" => s = "submitted")
  BY DEF Submit, Gone
<1>3. attempt'[n] = s /\ \A m \in Attempts : m # n => attempt'[m] = attempt[m]
  BY <1>1, <1>2
<1>4. \A m \in Attempts : n < m => attempt[m] = "none"
  BY <1>1 DEF AcceptanceInv, LiveLast
<1>5. ASSUME NEW m \in Attempts, m # n PROVE attempt[m] # "live"
  <2>1. m < n \/ n < m
    BY <1>1, <1>5
  <2>2. attempt[m] = "live" => ~(m < n)
    BY <1>1 DEF AcceptanceInv, LiveLast
  <2> QED BY <1>4, <2>1, <2>2
<1>6. Ordered'
  BY <1>1, <1>3 DEF AcceptanceInv, Ordered
<1>7. LiveLast'
  BY <1>3, <1>5 DEF LiveLast
<1>8. \A i \in DOMAIN verification : verification[i].attempt \in Attempts /\ verification[i].attempt # n
  BY <1>1, RowsTyped DEF AcceptanceInv, RowsOver
<1>9. RowsOver'
  BY <1>1, <1>3, <1>8 DEF AcceptanceInv, RowsOver
<1>10. ToAccept'
  <2>1. SUFFICES ASSUME task' = "submitted" PROVE ToAccept'
    BY <1>1 DEF ToAccept
  <2>2. attempt'[n] = "submitted" /\ attempt' \in [Attempts -> AttemptStates]
    BY <1>1, <1>2, <1>3, <2>1 DEF AttemptStates
  <2>3. n \in Submitted'
    BY <2>2 DEF Submitted
  <2>4. ASSUME NEW m \in Submitted' PROVE m <= n
    <3>1. m \in Attempts /\ attempt'[m] = "submitted"
      BY DEF Submitted
    <3>2. ~(n < m)
      BY <1>1, <1>3, <1>4, <3>1
    <3> QED BY <1>1, <3>1, <3>2
  <2>5. Latest' = n
    <3> DEFINE T == Submitted'
               k == CHOOSE x \in T : \A m \in T : m <= x
    <3>1. Latest' = k
      BY <2>3 DEF Latest
    <3>2. k \in T /\ \A m \in T : m <= k
      BY <2>3, <2>4
    <3>3. T \subseteq Attempts
      BY DEF Submitted
    <3> HIDE DEF k
    <3>4. k <= n /\ n <= k /\ k \in Nat /\ n \in Nat
      BY <1>1, <2>3, <2>4, <3>2, <3>3
    <3> QED BY <3>1, <3>4
  <2>6. \A i \in Accepting' : verification'[i].attempt # n
    BY <1>1, <1>8 DEF Accepting
  <2> QED BY <2>3, <2>5, <2>6 DEF ToAccept
<1>11. AcceptedHasResult'
  BY <1>1 DEF AcceptedHasResult
<1> QED BY <1>1, <1>6, <1>7, <1>9, <1>10, <1>11, RowsStay DEF TaskRight

\* Rows that are right stay right with one more, for what has a deterministic pass
\* where it must and is accepted for the first time where it is.
LEMMA RowsGrow ==
  ASSUME AcceptanceInv, NEW v \in Row, verification' = Append(verification, v),
         attempt[v.attempt] \notin {"none", "live"},
         v.method = "review" => Passed(v.attempt),
         v.accepts => \A i \in Accepting : verification[i].attempt # v.attempt,
         \A n \in Attempts : attempt[n] \notin {"none", "live"} => attempt'[n] = attempt[n]
  PROVE  RowsRight' /\ RowsOver'
<1>1. verification \in Seq(Row) /\ attempt \in [Attempts -> AttemptStates]
  BY DEF AcceptanceInv, TypeOK
<1> DEFINE last == Len(verification) + 1
<1>2. /\ Len(verification) \in Nat /\ DOMAIN verification = 1..Len(verification)
      /\ DOMAIN verification' = 1..last /\ last \notin DOMAIN verification
      /\ \A i \in DOMAIN verification : verification'[i] = verification[i]
      /\ verification'[last] = v
      /\ Accepting' = IF v.accepts THEN Accepting \cup {last} ELSE Accepting
  BY <1>1, RowAppended
<1>3. last \in Nat /\ DOMAIN verification' = DOMAIN verification \cup {last} /\ Accepting \subseteq DOMAIN verification
  BY <1>2 DEF Accepting
<1>4. \A j \in 1..(last - 1) : j \in DOMAIN verification
  BY <1>2
<1> HIDE DEF last
<1>5. AcceptedOnce'
  <2>1. SUFFICES ASSUME NEW i \in Accepting', NEW j \in Accepting',
                        verification'[i].attempt = verification'[j].attempt
                 PROVE  i = j
    BY DEF AcceptedOnce
  <2>2. CASE i \in Accepting /\ j \in Accepting
    BY <1>2, <1>3, <2>1, <2>2 DEF AcceptanceInv, AcceptedOnce
  <2>3. CASE ~(i \in Accepting /\ j \in Accepting)
    BY <1>2, <1>3, <2>1, <2>3
  <2> QED BY <2>2, <2>3
<1>6. ReviewAfterPass'
  <2>1. SUFFICES ASSUME NEW i \in DOMAIN verification', verification'[i].method = "review"
                 PROVE  \E j \in 1..(i - 1) : /\ verification'[j].method = "deterministic" /\ verification'[j].pass
                                              /\ verification'[j].attempt = verification'[i].attempt
    BY DEF ReviewAfterPass, DeterministicPass
  <2>2. CASE i \in DOMAIN verification
    <3>1. PICK j \in 1..(i - 1) : DeterministicPass(j) /\ verification[j].attempt = verification[i].attempt
      BY <1>2, <2>1, <2>2 DEF AcceptanceInv, ReviewAfterPass
    <3>2. j \in DOMAIN verification
      BY <1>2, <2>2
    <3> QED BY <1>2, <2>2, <3>1, <3>2 DEF DeterministicPass
  <2>3. CASE i = last
    <3>1. PICK j \in Rows(v.attempt) : DeterministicPass(j)
      BY <1>2, <2>1, <2>3 DEF Passed
    <3>2. j \in DOMAIN verification /\ verification[j].attempt = v.attempt
      BY DEF Rows
    <3>3. j \in 1..(i - 1)
      BY <1>2, <2>3, <3>2 DEF last
    <3> QED BY <1>2, <2>3, <3>1, <3>2, <3>3 DEF DeterministicPass
  <2> QED BY <1>3, <2>1, <2>2, <2>3
<1>7. RowsOver'
  <2>1. \A i \in DOMAIN verification : verification[i].attempt \in Attempts
    BY <1>1, RowsTyped
  <2>2. v.attempt \in Attempts
    BY DEF Row
  <2> QED BY <1>2, <1>3, <2>1, <2>2 DEF AcceptanceInv, RowsOver
<1> QED BY <1>5, <1>6, <1>7 DEF RowsRight

\* A verdict that accepts nothing leaves the attempts, and what was accepted.
LEMMA JudgesKeeps ==
  ASSUME AcceptanceInv, NEW v \in Row, Judges(v)
  PROVE  TaskRight' /\ RowsRight'
<1>1. /\ verification' = Append(verification, v) /\ UNCHANGED <<attempt, salvaged>>
      /\ ~v.accepts /\ attempt[v.attempt] \notin {"none", "live"}
      /\ v.method = "review" => Passed(v.attempt)
      /\ \/ task' = task
         \/ task \in {"verifying", "accepted"} /\ task' \in {"ready", "blocked"}
  BY DEF Judges
<1>2. verification \in Seq(Row)
  BY DEF AcceptanceInv, TypeOK
<1>3. /\ Accepting' = Accepting
      /\ Accepting # {} => AcceptedAttempt' = AcceptedAttempt
      /\ \A i \in Accepting : verification'[i] = verification[i]
  BY <1>1, <1>2, RowAppended DEF Accepting
<1>4. Submitted' = Submitted /\ Latest' = Latest
  BY <1>1 DEF Submitted, Latest
<1>5. RowsRight' /\ RowsOver'
  BY <1>1, RowsGrow
<1>6. Ordered'
  BY <1>1 DEF AcceptanceInv, Ordered
<1>7. LiveLast'
  BY <1>1 DEF AcceptanceInv, LiveLast
<1>8. ToAccept'
  BY <1>1, <1>3, <1>4 DEF AcceptanceInv, ToAccept
<1>9. AcceptedHasResult'
  BY <1>1, <1>3, <1>4 DEF AcceptanceInv, AcceptedHasResult
<1> QED BY <1>5, <1>6, <1>7, <1>8, <1>9 DEF TaskRight

\* A verdict that accepts leaves the task accepted for what it is about.
LEMMA AdoptsKeeps ==
  ASSUME AcceptanceInv, NEW v \in Row, Adopts(v)
  PROVE  TaskRight' /\ RowsRight'
<1>1. /\ verification' = Append(verification, v) /\ v.accepts /\ task' = "accepted"
      /\ attempt' = LiveCancelled /\ UNCHANGED salvaged
      /\ attempt[v.attempt] = "submitted" \/ (attempt[v.attempt] = "lost" /\ v.attempt \in salvaged)
      /\ \A m \in Submitted : m <= v.attempt
      /\ v.method = "review" => Passed(v.attempt)
      /\ \A i \in Accepting : verification[i].attempt # v.attempt
  BY DEF Adopts
<1>2. /\ verification \in Seq(Row) /\ attempt \in [Attempts -> AttemptStates] /\ v.attempt \in Attempts
  BY DEF AcceptanceInv, TypeOK, Row
<1>3. Accepting' # {} /\ AcceptedAttempt' = v.attempt
  BY <1>1, <1>2, RowAppended
<1>4. \A n \in Attempts : attempt'[n] = IF attempt[n] = "live" THEN "cancelled" ELSE attempt[n]
  BY <1>1 DEF LiveCancelled
<1>5. Submitted' = Submitted /\ \A n \in Attempts : attempt'[n] # "live"
  BY <1>4 DEF Submitted
<1>6. \A n \in Attempts : attempt[n] \notin {"none", "live"} => attempt'[n] = attempt[n]
  BY <1>4
<1>7. RowsRight' /\ RowsOver'
  BY <1>1, <1>6, RowsGrow
<1>8. Ordered'
  BY <1>4 DEF AcceptanceInv, Ordered
<1>9. LiveLast' /\ ToAccept'
  BY <1>1, <1>5 DEF LiveLast, ToAccept
<1>10. AcceptedHasResult'
  BY <1>1, <1>2, <1>3, <1>4, <1>5 DEF AcceptedHasResult
<1> QED BY <1>7, <1>8, <1>9, <1>10 DEF TaskRight

\* The rows that reviews go by stay, and the one a review is asked for accepts
\* nothing.
LEMMA ChainsStep ==
  ASSUME AcceptanceInv, [Next]_vars
  PROVE  ChainsPlain'
<1>1. verification \in Seq(Row) /\ check \in [Checks -> CheckRow] /\ TypeOK
  BY DEF AcceptanceInv, TypeOK
<1> DEFINE last == Len(verification) + 1
<1>2. /\ \A i \in DOMAIN verification : i \in DOMAIN verification' /\ verification'[i] = verification[i]
  <2>1. ASSUME NEW v \in Row, Judges(v) \/ Adopts(v)
        PROVE  \A i \in DOMAIN verification : i \in DOMAIN verification' /\ verification'[i] = verification[i]
    <3>1. verification' = Append(verification, v)
      BY <2>1 DEF Judges, Adopts
    <3>2. /\ Len(verification) \in Nat /\ DOMAIN verification = 1..Len(verification)
          /\ DOMAIN verification' = 1..last
          /\ \A i \in DOMAIN verification : verification'[i] = verification[i]
      BY <1>1, <3>1, RowAppended
    <3> QED BY <3>2
  <2>2. Turns \/ Claim \/ (\E n \in Attempts : Submit(n) \/ Gone(n)) => UNCHANGED verification
    BY DEF Turns, Claim, Submit, Gone
  <2> QED BY <2>1, <2>2, StepShaped DEF Shaped
<1>3. ASSUME ChainsStay PROVE ChainsPlain'
  BY <1>2, <1>3 DEF ChainsStay, AcceptanceInv, ChainsPlain
<1>4. ASSUME NEW c \in Checks, NEW precheck \in Prechecks, AskReview(c, precheck), ChainsGrow
      PROVE  ChainsPlain'
  <2>1. PICK v \in Row : verification' = Append(verification, v) /\ v.accepts = FALSE
    <3>1. Record(c, FALSE)
      BY <1>4 DEF AskReview
    <3> QED BY <3>1, RecordFacts
  <2>2. last \in DOMAIN verification' /\ verification'[last] = v
    <3>1. /\ Len(verification) \in Nat /\ DOMAIN verification' = 1..last /\ verification'[last] = v
      BY <1>1, <2>1, RowAppended
    <3> QED BY <3>1
  <2>3. \A d \in Checks : check'[d].chain \in {0, check[d].chain, last}
    BY <1>4 DEF ChainsGrow
  <2> HIDE DEF last
  <2> QED BY <1>2, <2>1, <2>2, <2>3 DEF AcceptanceInv, ChainsPlain
<1> QED BY <1>1, <1>3, <1>4, ChecksStep

-----------------------------------------------------------------------------
(* The theorems.                                                           *)

\* A task that is made satisfies the invariant.
LEMMA InitInv ==
  Init => AcceptanceInv
<1> SUFFICES ASSUME Init PROVE AcceptanceInv
  OBVIOUS
<1>1. verification = <<>> /\ DOMAIN verification = {} /\ verification \in Seq(Row)
  BY EmptySeq DEF Init
<1>2. TypeOK
  <2>1. 0 \in 0..MaxAttempts /\ maxRounds \in MaxRounds..(MaxRounds + RoundBound) /\ round \in 1..maxRounds
    BY AcceptanceConstants DEF Init
  <2>2. NoCheck \in CheckRow
    BY <2>1 DEF NoCheck, CheckRow, CheckStates
  <2>3. check \in [Checks -> CheckRow]
    BY <2>2 DEF Init
  <2>4. task \in TaskStates /\ attempt \in [Attempts -> AttemptStates] /\ salvaged \subseteq Attempts
    BY DEF Init, TaskStates, AttemptStates
  <2> QED BY <1>1, <2>1, <2>3, <2>4 DEF Init, TypeOK
<1>3. Accepting = {} /\ RowsOver /\ AcceptedOnce /\ ReviewAfterPass
  BY <1>1 DEF Accepting, RowsOver, AcceptedOnce, ReviewAfterPass
<1>4. Ordered /\ LiveLast /\ ToAccept /\ AcceptedHasResult
  BY DEF Init, Ordered, LiveLast, ToAccept, AcceptedHasResult
<1>5. ChainsPlain
  BY DEF Init, ChainsPlain, NoCheck
<1> QED BY <1>2, <1>3, <1>4, <1>5 DEF AcceptanceInv

\* Every step keeps it.
LEMMA NextInv ==
  AcceptanceInv /\ [Next]_vars => AcceptanceInv'
<1> SUFFICES ASSUME AcceptanceInv, [Next]_vars PROVE AcceptanceInv'
  OBVIOUS
<1>1. TaskRight' /\ RowsRight'
  BY StepShaped, TurnsKeeps, ClaimKeeps, SubmitKeeps, JudgesKeeps, AdoptsKeeps DEF Shaped
<1> QED BY <1>1, TypeStep, ChainsStep DEF AcceptanceInv, TaskRight, RowsRight

\* The invariant holds in every state.
THEOREM AcceptanceIsRight == Spec => []AcceptanceInv
BY InitInv, NextInv, PTL DEF Spec

\* Every variable of the acceptance keeps its type, and no round passes the task's
\* bound, whatever the Owner answers and however often the landing goes red.
THEOREM AcceptanceTypeCorrect == Spec => []TypeOK
<1>1. AcceptanceInv => TypeOK
  BY DEF AcceptanceInv
<1> QED BY <1>1, AcceptanceIsRight, PTL

\* An accepted task has the result it was accepted for, the latest that was
\* submitted, and nothing left running.
THEOREM AcceptsAResult == Spec => []AcceptedHasResult
<1>1. AcceptanceInv => AcceptedHasResult
  BY DEF AcceptanceInv
<1> QED BY <1>1, AcceptanceIsRight, PTL

\* No attempt is accepted twice: the unique index never fails a pass.
THEOREM AcceptsOnce == Spec => []AcceptedOnce
<1>1. AcceptanceInv => AcceptedOnce
  BY DEF AcceptanceInv
<1> QED BY <1>1, AcceptanceIsRight, PTL

\* No review is used before its attempt passed the deterministic check.
THEOREM ReviewsAfterPass == Spec => []ReviewAfterPass
<1>1. AcceptanceInv => ReviewAfterPass
  BY DEF AcceptanceInv
<1> QED BY <1>1, AcceptanceIsRight, PTL

-----------------------------------------------------------------------------
(* What no step may do.                                                    *)

\* No step uses a verdict while the Owner's stop holds: an accepted task and a
\* round stand, and only what is not yet verified can still be accepted.
LEMMA StopStep ==
  ASSUME AcceptanceInv, [Next]_vars, stop
  PROVE  /\ round' = round
         /\ task' = "accepted" => task \in {"accepted", "submitted"}
         /\ task = "accepted" => task' = "accepted"
<1> DEFINE G == /\ round' = round
                /\ task' = "accepted" => task \in {"accepted", "submitted"}
                /\ task = "accepted" => task' = "accepted"
<1>1. ASSUME UNCHANGED <<round, task>> PROVE G
  BY <1>1
<1>2. ASSUME AttemptNext PROVE G
  <2>1. ASSUME NEW n \in Attempts, Submit(n) \/ Gone(n) PROVE G
    <3>1. task = "running"
      BY <2>1 DEF Submit, Gone, AcceptanceInv, LiveLast
    <3> QED BY <2>1, <3>1 DEF Submit, Gone
  <2>2. ASSUME NEW n \in Attempts, Salvage(n) PROVE G
    BY <2>2 DEF Salvage
  <2>3. Claim \/ BlockTask => G
    BY DEF Claim, BlockTask
  <2> HIDE DEF G
  <2> QED BY <1>2, <2>1, <2>2, <2>3 DEF AttemptNext
<1>3. ASSUME OwnerNext PROVE G
  <2>1. ToggleStop \/ RetryTask \/ DropTask \/ ProposeCheck \/ WithdrawTask => G
    BY DEF ToggleStop, RetryTask, DropTask, ProposeCheck, WithdrawTask
  <2>2. ASSUME NEW c \in Checks, RetryCheck(c) \/ DropCheck(c) \/ WithdrawCheck(c) PROVE G
    BY <2>2 DEF RetryCheck, DropCheck, WithdrawCheck
  <2> HIDE DEF G
  <2> QED BY <1>3, <2>1, <2>2 DEF OwnerNext
<1>4. CheckNext => UNCHANGED <<round, task>>
  BY DEF CheckNext, ClaimCheck, EndCheck, BlockCheck
<1>5. ASSUME ControllerNext PROVE G
  <2>1. AcceptOnSubmission \/ StartVerification \/ RedLanding => G
    BY DEF AcceptOnSubmission, StartVerification, RedLanding
  <2>2. ASSUME NEW n \in Attempts, StartSalvageCheck(n) PROVE G
    BY <2>2 DEF StartSalvageCheck
  <2>3. ASSUME NEW c \in Checks, CloseCheck(c) \/ FailResult(c) \/ CloseStoppedCheck(c) PROVE G
    BY <2>3 DEF CloseCheck, CloseStoppedCheck, FailResult, Record, Concludes
  <2>4. ASSUME NEW c \in Checks, NEW precheck \in Prechecks,
               AcceptResult(c, precheck) \/ AskReview(c, precheck)
        PROVE  G
    BY <2>4 DEF AcceptResult, AskReview, Record, Concludes
  <2> HIDE DEF G
  <2> QED BY <1>5, <2>1, <2>2, <2>3, <2>4 DEF ControllerNext
<1>6. UNCHANGED vars => UNCHANGED <<round, task>>
  BY DEF vars
<1> QED BY <1>1, <1>2, <1>3, <1>4, <1>5, <1>6 DEF Next

\* While the Owner's stop holds no verdict is used, whatever checks were running
\* when it was put.
THEOREM StopIsHeld == Spec => StopHoldsVerdicts
<1>1. AcceptanceInv /\ [Next]_vars =>
        [stop => /\ round' = round
                 /\ task' = "accepted" => task \in {"accepted", "submitted"}
                 /\ task = "accepted" => task' = "accepted"]_vars
  BY StopStep
<1> QED BY <1>1, AcceptanceIsRight, PTL DEF Spec, StopHoldsVerdicts

\* A check that is proposed is open, and so are those that were.
LEMMA ProposedOpen ==
  ASSUME NEW f \in [Checks -> CheckRow], NEW k \in CheckRow, k.state = "ready", Proposes(f, k)
  PROVE  VerifyingIsChecked'
<1>1. PICK c \in Checks : check' = [f EXCEPT ![c] = k]
  BY DEF Proposes
<1>2. check'[c].state = "ready"
  BY <1>1
<1> QED BY <1>2 DEF VerifyingIsChecked, Open, OpenCheck

\* Only a withdrawal leaves a task under verification with no open check.
LEMMA KeptStep ==
  ASSUME AcceptanceInv, [Next]_vars, VerifyingIsChecked
  PROVE  VerifyingIsChecked' \/ \E c \in Checks : WithdrawCheck(c)
<1> DEFINE G == VerifyingIsChecked' \/ \E c \in Checks : WithdrawCheck(c)
<1>1. TypeOK /\ check \in [Checks -> CheckRow] /\ attempt \in [Attempts -> AttemptStates]
  BY DEF AcceptanceInv, TypeOK
<1>2. ASSUME task' # "verifying" PROVE G
  BY <1>2 DEF VerifyingIsChecked
<1>3. ASSUME UNCHANGED <<task, check>> PROVE G
  BY <1>3 DEF VerifyingIsChecked, Open
<1>4. ASSUME NEW d \in Checks, check'[d].state \in OpenCheck PROVE G
  BY <1>4 DEF VerifyingIsChecked, Open
<1>5. ASSUME NEW f \in [Checks -> CheckRow], NEW k \in CheckRow, k.state = "ready", Proposes(f, k)
      PROVE  G
  BY <1>5, ProposedOpen
<1>6. ASSUME UNCHANGED task, NEW c \in Checks, NEW k \in CheckRow, k.state \in OpenCheck,
             check' = [check EXCEPT ![c] = k]
      PROVE  G
  BY <1>1, <1>4, <1>6
<1>7. ASSUME NEW c \in Checks, NEW d \in Checks \ {c}, Open(d), check' = Used(c) PROVE G
  <2>1. check'[d] = check[d]
    BY <1>1, <1>7 DEF Used
  <2> QED BY <1>4, <1>7, <2>1 DEF Open
<1>8. /\ \A n \in Attempts : Verify(n).state = "ready" /\ VerifySalvage(n).state = "ready"
      /\ [Verify(0) EXCEPT !.role = "review"].state = "ready"
  BY DEF Verify, VerifySalvage, NoCheck
<1>9. ASSUME AttemptNext PROVE G
  <2>1. ASSUME NEW n \in Attempts, Submit(n) \/ Gone(n) \/ Salvage(n) PROVE G
    BY <1>2, <1>3, <2>1 DEF Submit, Gone, Salvage
  <2>2. Claim \/ BlockTask => G
    BY <1>2 DEF Claim, BlockTask
  <2> HIDE DEF G
  <2> QED BY <1>9, <2>1, <2>2 DEF AttemptNext
<1>10. ASSUME OwnerNext PROVE G
  <2>1. ToggleStop \/ RetryTask \/ DropTask \/ WithdrawTask => G
    BY <1>2, <1>3 DEF ToggleStop, RetryTask, DropTask, WithdrawTask
  <2>2. ProposeCheck => G
    BY <1>1, <1>5, <1>8, ChecksTyped, Proposals
  <2>3. ASSUME NEW c \in Checks, RetryCheck(c) PROVE G
    <3>1. check'[c].state = "ready"
      BY <1>1, <2>3 DEF RetryCheck, CheckRow
    <3> QED BY <1>4, <3>1 DEF OpenCheck
  <2>4. ASSUME NEW c \in Checks, DropCheck(c) PROVE G
    <3>1. CASE task = "verifying" /\ ~StillChecked(c)
      BY <1>2, <2>4, <3>1 DEF DropCheck
    <3>2. CASE task = "verifying" /\ StillChecked(c)
      <4>1. PICK d \in Checks \ {c} : Open(d)
        BY <3>2 DEF StillChecked
      <4>2. check'[d] = check[d]
        BY <1>1, <2>4, <4>1 DEF DropCheck
      <4> QED BY <1>4, <4>1, <4>2 DEF Open
    <3>3. CASE task # "verifying"
      BY <1>2, <2>4, <3>3 DEF DropCheck
    <3> QED BY <3>1, <3>2, <3>3
  <2> HIDE DEF G
  <2>5. \A c \in Checks : WithdrawCheck(c) => G
    BY DEF G
  <2> QED BY <1>10, <2>1, <2>2, <2>3, <2>4, <2>5 DEF OwnerNext
<1>11. ASSUME NEW c \in Checks, ClaimCheck(c) \/ EndCheck(c) \/ BlockCheck(c) PROVE G
  <2>1. check'[c].state \in {"running", "submitted", "ready", "blocked"}
    BY <1>1, <1>11 DEF ClaimCheck, EndCheck, BlockCheck, CheckRow
  <2> QED BY <1>4, <2>1 DEF OpenCheck
<1>12. ASSUME ControllerNext PROVE G
  <2>1. AcceptOnSubmission \/ RedLanding => G
    BY <1>2 DEF AcceptOnSubmission, RedLanding
  <2>2. StartVerification => G
    BY <1>1, <1>5, <1>8, ChecksTyped, Proposals
  <2>3. ASSUME NEW n \in Attempts, StartSalvageCheck(n) PROVE G
    BY <1>1, <1>5, <1>8, <2>3, ChecksTyped, Proposals
  <2>4. ASSUME NEW c \in Checks, CloseCheck(c) PROVE G
    <3>1. CASE task = "verifying" /\ ~OtherOpen(c) /\ Latest # 0
      BY <1>1, <1>5, <1>8, <2>4, <3>1, ChecksTyped, Proposals
    <3>2. CASE task = "verifying" /\ ~(~OtherOpen(c) /\ Latest # 0)
      <4>1. Latest # 0
        <5>1. Latest \in Submitted /\ Submitted \subseteq Attempts /\ 0 \notin Attempts
          BY <1>1, <3>2, LatestFacts, ChecksTyped DEF AcceptanceInv, ToAccept
        <5> QED BY <5>1
      <4>2. PICK d \in Checks \ {c} : Open(d)
        BY <3>2, <4>1 DEF OtherOpen
      <4>3. check' = Used(c)
        BY <2>4, <3>2 DEF CloseCheck
      <4> QED BY <1>7, <4>2, <4>3
    <3>3. CASE task # "verifying"
      BY <1>2, <2>4, <3>3 DEF CloseCheck
    <3> QED BY <3>1, <3>2, <3>3
  <2>5. ASSUME NEW c \in Checks, NEW precheck \in Prechecks, AcceptResult(c, precheck) PROVE G
    BY <1>2, <2>5 DEF AcceptResult
  <2>6. ASSUME NEW c \in Checks, NEW precheck \in Prechecks, AskReview(c, precheck) PROVE G
    <3>1. Review(c).state = "ready"
      <4>1. check[c] \in [state: CheckStates, role: {"verify", "review"}, attempt: 0..MaxAttempts,
                          round: Nat, salvage: BOOLEAN, chain: Nat, pass: BOOLEAN, tried: BOOLEAN]
        BY <1>1 DEF CheckRow
      <4> QED BY <4>1 DEF Review
    <3> QED BY <1>1, <1>5, <2>6, <3>1, ChecksTyped, Proposals
  <2>7. ASSUME NEW c \in Checks, FailResult(c) PROVE G
    <3>1. Record(c, FALSE)
      BY <2>7 DEF FailResult
    <3>2. check[c].salvage => task \in {"ready", "running"}
      BY <3>1, RecordFacts
    <3>3. task' # "verifying"
      BY <2>7, <3>2 DEF FailResult
    <3> QED BY <1>2, <3>3
  <2>8. ASSUME NEW c \in Checks, CloseStoppedCheck(c) PROVE G
    BY <1>2, <2>8 DEF CloseStoppedCheck
  <2> HIDE DEF G
  <2> QED BY <1>12, <2>1, <2>2, <2>3, <2>4, <2>5, <2>6, <2>7, <2>8 DEF ControllerNext
<1>13. CASE UNCHANGED vars
  BY <1>3, <1>13 DEF vars
<1>14. CheckNext => G
  BY <1>11 DEF CheckNext
<1> QED BY <1>9, <1>10, <1>12, <1>13, <1>14 DEF Next

\* A task under verification keeps an open check through every step but the
\* withdrawal of its check, which the run WithdrawnCheck shows to strand it.
THEOREM StaysChecked == Spec => KeptChecked
<1>1. AcceptanceInv /\ [Next]_vars =>
        [VerifyingIsChecked => VerifyingIsChecked' \/ \E c \in Checks : WithdrawCheck(c)]_vars
  BY KeptStep
<1> QED BY <1>1, AcceptanceIsRight, PTL DEF Spec, KeptChecked
=============================================================================
