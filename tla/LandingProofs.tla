---------------------------- MODULE LandingProofs ----------------------------
(***************************************************************************)
(* Theorems about Landing, for every set of roots, every budget of         *)
(* operations, every timeout and fence, and every world around them.       *)
(***************************************************************************)
EXTENDS Landing, FiniteSetTheorems, SequenceTheorems, TLAPS

-----------------------------------------------------------------------------
(* The inductive invariant, in parts.                                      *)

Evidence ==
  [of : Roots \X Nat, phase : Phases, outcome : Outcomes, has : BOOLEAN,
   still : BOOLEAN, reverted : BOOLEAN, fenced : BOOLEAN]

\* The variables have their types, as functions over all the roots.
Types ==
  /\ main \in Seq(Commits)
  /\ ops \in [Roots -> Seq(Operation)]
  /\ hand \in [Roots -> Readings]
  /\ gate \in [root : Roots \cup {Nobody}, history : Histories]
  /\ wire \subseteq Ops
  /\ evidence \subseteq Evidence
  /\ \A e \in evidence : e.of \in Ops
  /\ due \subseteq Roots
  /\ stopped \in BOOLEAN
  /\ left \in World

Resumable == {"claimed", "prepared", "branch_pushed"}

\* A parked operation knows what it goes back to.
ParkedResumes ==
  \A r \in Roots : \A k \in DOMAIN ops[r] :
    ops[r][k].phase = "parked" => ops[r][k].resume \in Resumable

\* Past its budget a root only ends.
PastLastUnclaimed ==
  \A r \in Roots : \A k \in DOMAIN ops[r] : k > MaxOps => Unclaimed(ops[r][k])

\* The root whose gate is open does not move.
GateHolds ==
  Unlocked \/ (gate.root \in Roots /\ In(gate.root, {"branch_pushed", "awaiting_grant"}))

Typed == Types /\ ParkedResumes /\ PastLastUnclaimed /\ GateHolds

IsAtMain(r) == Number(r) > 0 /\ AtMain(Latest(r))
AtMainAlone == \A r, s \in Roots : IsAtMain(r) /\ IsAtMain(s) => r = s

\* No operation was replayed on a main where its change was in effect.
BasesClean ==
  \A r \in Roots : \A k \in DOMAIN ops[r] : HistoryOf(r, ops[r][k].base) # "effective"

\* Main, never rewound, only grows over what was replayed on it.
BasesOnMain ==
  \A r \in Roots : \A k \in DOMAIN ops[r] : IsPrefix(ops[r][k].base, main)

\* What the open gate read of main is so of the base, too.
GateSawBase ==
  ~Unlocked /\ gate.history = "never"
  => HistoryOf(gate.root, Latest(gate.root).base) = "never"

\* What may be sent, or is sent, has a base that never had its change.
PushesFresh ==
  \A r \in Roots : \A k \in DOMAIN ops[r] :
    ops[r][k].phase = "main_intent" \/ <<r, k>> \in wire
    => HistoryOf(r, ops[r][k].base) = "never"

\* What was sent has asked for main.
SentPastIntent ==
  \A r \in Roots : \A k \in DOMAIN ops[r] :
    <<r, k>> \in wire => ops[r][k].phase \notin BeforeMain

Fresh ==
  /\ BasesClean /\ SentPastIntent
  /\ ~left.rewinds => BasesOnMain /\ GateSawBase /\ PushesFresh

\* Neither main has operation k's commit, nor is it under way.
Quiet(r, k) == <<r, k>> \notin wire /\ ~InMain(r, k)

\* What can be recorded only of a commit that is quiet, of one in main, and of
\* an operation that ended without landing.
SaysQuiet(o) ==
  \/ o.phase \in BeforeMain \/ o.push = "licensed"
  \/ o.push \in {"non_ff", "denied"} \/ o.outcome = "denied"
SaysLanded(o) == o.phase \in {"landed", "reverted"} \/ o.push = "ok" \/ o.outcome = "ok"
SaysEnded(o) == Terminal(o) /\ o.phase \notin {"landed", "reverted"}

\* Main has not answered yet.
Unanswered(o) ==
  o.phase \in BeforeMain \cup {"main_intent"} => o.outcome \notin {"ok", "denied"}

\* What the record of operation k tells of main.
Tells(r, k) ==
  LET o == ops[r][k]
  IN  /\ Unanswered(o) /\ ~o.missing
      /\ SaysQuiet(o) => Quiet(r, k)
      /\ SaysLanded(o) => InMain(r, k)
      /\ <<r, k>> \in wire => ~InMain(r, k)
      /\ ~left.slow => /\ SaysEnded(o) => Quiet(r, k)
                       /\ <<r, k>> \in wire => o.age < MainFence

\* What evidence read before tells of main now.
StillTells(e) ==
  LET r == e.of[1]
      k == e.of[2]
  IN  /\ e.has => InMain(r, k)
      /\ e.outcome = "ok" => e.has
      /\ ~left.slow /\ e.fenced /\ ~e.has => Quiet(r, k) /\ ops[r][k].age >= MainFence

\* Every landed commit is an operation's.
LandedKnown ==
  \A i \in DOMAIN main : main[i].kind = "landed" =>
    main[i].root \in Roots /\ main[i].n \in DOMAIN ops[main[i].root]

\* Evidence is read of what has asked for main.
ReadPastIntent == \A e \in evidence : ops[e.of[1]][e.of[2]].phase \notin BeforeMain

Truthful ==
  /\ ReadPastIntent
  /\ ~left.rewinds => /\ LandedKnown
                      /\ \A r \in Roots : \A k \in DOMAIN ops[r] : Tells(r, k)
                      /\ \A e \in evidence : StillTells(e)

-----------------------------------------------------------------------------
(* Sequences, prefixes and histories.                                      *)

\* All but the last element.
LEMMA FrontFacts ==
  ASSUME NEW S, NEW s \in Seq(S), Len(s) > 0
  PROVE  /\ Front(s) \in Seq(S)
         /\ Len(Front(s)) = Len(s) - 1
         /\ \A i \in 1..(Len(s) - 1) : Front(s)[i] = s[i]
<1>1. \A i \in 1..(Len(s) - 1) : s[i] \in S
  BY ElementOfSeq, LenProperties
<1>2. Len(s) \in Nat /\ 1 \in Int /\ Len(s) - 1 \in Int
  BY LenProperties
<1> DEFINE n == Len(s) - 1
<1>3. /\ SubSeq(s, 1, n) \in Seq(S)
      /\ Len(SubSeq(s, 1, n)) = (IF 1 <= n THEN n - 1 + 1 ELSE 0)
      /\ \A i \in 1..(n - 1 + 1) : SubSeq(s, 1, n)[i] = s[1 + i - 1]
  BY <1>1, <1>2, SubSeqProperties
<1>4. n \in Nat
  BY <1>2
<1> HIDE DEF n
<1>5. Front(s) = SubSeq(s, 1, n)
  BY DEF Front, n
<1>6. Len(Front(s)) = n
  BY <1>3, <1>4, <1>5
<1>7. \A i \in 1..n : Front(s)[i] = s[i]
  BY <1>3, <1>4, <1>5
<1> QED BY <1>3, <1>5, <1>6, <1>7 DEF n

\* Writing the last record of a sequence anew is writing it at its index.
LEMMA LastAnew ==
  ASSUME NEW S, NEW s \in Seq(S), Len(s) > 0, NEW e \in S
  PROVE  Append(Front(s), e) = [s EXCEPT ![Len(s)] = e]
<1>1. Len(s) \in Nat /\ Len(s) \in 1..Len(s)
  BY LenProperties
<1>2. Append(Front(s), e) \in Seq(S) /\ Len(Append(Front(s), e)) = Len(s)
  BY <1>1, FrontFacts, AppendProperties
<1>3. [s EXCEPT ![Len(s)] = e] \in Seq(S) /\ Len([s EXCEPT ![Len(s)] = e]) = Len(s)
  BY <1>1, ExceptSeq
<1>4. ASSUME NEW i \in 1..Len(s) PROVE Append(Front(s), e)[i] = [s EXCEPT ![Len(s)] = e][i]
  <2>1. CASE i = Len(s)
    BY <1>1, <2>1, FrontFacts, AppendProperties, ExceptSeq
  <2>2. CASE i # Len(s)
    <3>1. i \in 1..(Len(s) - 1)
      BY <1>1, <2>2
    <3> QED BY <1>1, <2>2, <3>1, FrontFacts, AppendProperties, ExceptSeq
  <2> QED BY <2>1, <2>2
<1> QED BY <1>2, <1>3, <1>4, SeqEqual

\* A prefix agrees element by element.
LEMMA PrefixFacts ==
  ASSUME NEW S, NEW s \in Seq(S), NEW t \in Seq(S)
  PROVE  IsPrefix(s, t) <=> Len(s) <= Len(t) /\ \A i \in 1..Len(s) : s[i] = t[i]
<1>1. Len(s) \in Nat /\ Len(t) \in Nat /\ SubSeq(s, 1, Len(s)) = s
  BY LenProperties, SubSeqFull
<1>2. ASSUME Len(s) <= Len(t)
      PROVE  /\ SubSeq(t, 1, Len(s)) \in Seq(S)
             /\ Len(SubSeq(t, 1, Len(s))) = Len(s)
             /\ \A i \in 1..Len(s) : SubSeq(t, 1, Len(s))[i] = t[i]
  <2>1. \A i \in 1..Len(s) : t[i] \in S
    BY <1>1, <1>2, ElementOfSeq
  <2> QED BY <1>1, <1>2, <2>1, SubSeqProperties
<1>3. ASSUME Len(s) <= Len(t)
      PROVE  s = SubSeq(t, 1, Len(s)) <=> \A i \in 1..Len(s) : s[i] = t[i]
  BY <1>1, <1>2, <1>3, SeqEqual
<1> QED BY <1>1, <1>3 DEF IsPrefix

\* Appending to a sequence keeps it a prefix.
LEMMA PrefixOfAppend ==
  ASSUME NEW S, NEW t \in Seq(S), NEW e \in S
  PROVE  IsPrefix(t, Append(t, e))
<1> DEFINE u == Append(t, e)
<1>1. Len(t) \in Nat /\ u \in Seq(S) /\ Len(u) = Len(t) + 1 /\ \A i \in 1..Len(t) : u[i] = t[i]
  BY AppendProperties, LenProperties
<1> HIDE DEF u
<1>2. IsPrefix(t, u)
  BY <1>1, PrefixFacts
<1> QED BY <1>2 DEF u

\* A prefix of a prefix is one.
LEMMA PrefixTransitive ==
  ASSUME NEW S, NEW s \in Seq(S), NEW t \in Seq(S), NEW u \in Seq(S),
         IsPrefix(s, t), IsPrefix(t, u)
  PROVE  IsPrefix(s, u)
<1>1. Len(s) \in Nat /\ Len(t) \in Nat /\ Len(u) \in Nat
  BY LenProperties
<1>2. Len(s) <= Len(t) /\ \A i \in 1..Len(s) : s[i] = t[i]
  BY PrefixFacts
<1>3. Len(t) <= Len(u) /\ \A i \in 1..Len(t) : t[i] = u[i]
  BY PrefixFacts
<1> QED BY <1>1, <1>2, <1>3, PrefixFacts

\* Prefixes of each other are the same.
LEMMA PrefixBothWays ==
  ASSUME NEW S, NEW s \in Seq(S), NEW t \in Seq(S), IsPrefix(s, t), IsPrefix(t, s)
  PROVE  s = t
BY PrefixFacts, SeqEqual, LenProperties

\* What becomes a prefix of a longer sequence is the whole of it.
LEMMA NewPrefixOfAppend ==
  ASSUME NEW S, NEW s \in Seq(S), NEW t \in Seq(S), NEW a \in S, NEW b \in S,
         IsPrefix(Append(s, a), Append(t, b)), ~IsPrefix(Append(s, a), t)
  PROVE  a = b
<1> DEFINE sa == Append(s, a)
           tb == Append(t, b)
<1>1. /\ Len(s) \in Nat /\ Len(t) \in Nat
      /\ sa \in Seq(S) /\ Len(sa) = Len(s) + 1 /\ sa[Len(s) + 1] = a
      /\ tb \in Seq(S) /\ Len(tb) = Len(t) + 1 /\ tb[Len(t) + 1] = b
      /\ \A i \in 1..Len(t) : tb[i] = t[i]
  BY LenProperties, AppendProperties
<1>2. IsPrefix(sa, tb) /\ ~IsPrefix(sa, t)
  OBVIOUS
<1> HIDE DEF sa, tb
<1>3. Len(sa) <= Len(tb) /\ \A i \in 1..Len(sa) : sa[i] = tb[i]
  BY <1>1, <1>2, PrefixFacts
<1>4. ASSUME Len(s) # Len(t) PROVE FALSE
  <2>1. Len(sa) <= Len(t) /\ \A i \in 1..Len(sa) : sa[i] = t[i]
    BY <1>1, <1>3, <1>4
  <2> QED BY <1>1, <1>2, <2>1, PrefixFacts
<1> QED BY <1>1, <1>3, <1>4

\* A history is never, effective or reverted; never when no commit is about r.
LEMMA HistoryFacts ==
  ASSUME NEW r, NEW c
  PROVE  /\ HistoryOf(r, c) \in Histories
         /\ HistoryOf(r, c) = "never" <=> \A i \in DOMAIN c : c[i].root # r
BY DEF HistoryOf, Histories

\* What main never had, no earlier main had.
LEMMA NeverBefore ==
  ASSUME NEW r, NEW s \in Seq(Commits), NEW t \in Seq(Commits), IsPrefix(s, t),
         HistoryOf(r, t) = "never"
  PROVE  HistoryOf(r, s) = "never"
<1>1. DOMAIN s = 1..Len(s) /\ DOMAIN t = 1..Len(t) /\ Len(s) \in Nat /\ Len(t) \in Nat
  BY LenProperties
<1>2. Len(s) <= Len(t) /\ \A i \in 1..Len(s) : s[i] = t[i]
  BY PrefixFacts
<1> QED BY <1>1, <1>2, HistoryFacts

-----------------------------------------------------------------------------
(* What a step may do to the operations.                                   *)

\* Operation k of r becomes o.
Sets(r, k, o) ==
  /\ r \in Roots /\ k \in DOMAIN ops[r] /\ o \in Operation
  /\ ops' = [ops EXCEPT ![r][k] = o]

\* The numbers of a root's operations.
LEMMA OpsFacts ==
  ASSUME ops \in [Roots -> Seq(Operation)]
  PROVE  /\ \A r \in Roots : /\ Len(ops[r]) \in Nat /\ DOMAIN ops[r] = 1..Len(ops[r])
                            /\ ops[r] \in Seq(Operation)
                            /\ \A k \in DOMAIN ops[r] : ops[r][k] \in Operation
         /\ \A r, k : <<r, k>> \in Ops <=> r \in Roots /\ k \in DOMAIN ops[r]
         /\ \A p \in Ops : p = <<p[1], p[2]>> /\ p[1] \in Roots /\ p[2] \in DOMAIN ops[p[1]]
<1>1. ASSUME NEW r \in Roots
      PROVE  /\ Len(ops[r]) \in Nat /\ DOMAIN ops[r] = 1..Len(ops[r])
             /\ ops[r] \in Seq(Operation)
             /\ \A k \in DOMAIN ops[r] : ops[r][k] \in Operation
  <2>1. ops[r] \in Seq(Operation)
    OBVIOUS
  <2> QED BY <2>1, LenProperties, ElementOfSeq
<1>2. \A r, k : <<r, k>> \in Ops <=> r \in Roots /\ k \in DOMAIN ops[r]
  BY DEF Ops
<1>3. \A p \in Ops : p = <<p[1], p[2]>> /\ p[1] \in Roots /\ p[2] \in DOMAIN ops[p[1]]
  BY DEF Ops
<1> QED BY <1>1, <1>2, <1>3

\* Setting one operation leaves every other as it is.
LEMMA SetsFacts ==
  ASSUME ops \in [Roots -> Seq(Operation)], NEW r, NEW k, NEW o, Sets(r, k, o)
  PROVE  /\ ops' \in [Roots -> Seq(Operation)]
         /\ \A s \in Roots : DOMAIN ops'[s] = DOMAIN ops[s] /\ Len(ops'[s]) = Len(ops[s])
         /\ ops'[r][k] = o
         /\ \A s \in Roots : \A j \in DOMAIN ops[s] :
              ops'[s][j] = IF s = r /\ j = k THEN o ELSE ops[s][j]
         /\ Ops' = Ops
<1> DEFINE row == [ops[r] EXCEPT ![k] = o]
<1>1. r \in Roots /\ k \in 1..Len(ops[r]) /\ o \in Operation /\ ops' = [ops EXCEPT ![r] = row]
  BY OpsFacts DEF Sets
<1>2. /\ row \in Seq(Operation) /\ Len(row) = Len(ops[r])
      /\ \A j \in 1..Len(ops[r]) : row[j] = IF j = k THEN o ELSE ops[r][j]
  <2>1. ops[r] \in Seq(Operation)
    BY <1>1
  <2> QED BY <1>1, <2>1, ExceptSeq
<1>3. DOMAIN row = DOMAIN ops[r]
  BY <1>1, <1>2, OpsFacts, LenProperties
<1> HIDE DEF row
<1>4. ops' \in [Roots -> Seq(Operation)]
  BY <1>1, <1>2
<1>5. ops'[r] = row /\ \A s \in Roots : s # r => ops'[s] = ops[s]
  BY <1>1
<1>6. \A s \in Roots : DOMAIN ops'[s] = DOMAIN ops[s] /\ Len(ops'[s]) = Len(ops[s])
  BY <1>2, <1>3, <1>5
<1>7. \A s \in Roots : \A j \in DOMAIN ops[s] :
         ops'[s][j] = IF s = r /\ j = k THEN o ELSE ops[s][j]
  BY <1>1, <1>2, <1>5, OpsFacts
<1>8. Ops' = Ops
  BY <1>6 DEF Ops
<1> QED BY <1>1, <1>4, <1>6, <1>7, <1>8, OpsFacts

\* To make the last operation of r into o is to set it.
LEMMA BecomesSets ==
  ASSUME ops \in [Roots -> Seq(Operation)], NEW r \in Roots, Number(r) > 0,
         NEW o \in Operation, Becomes(r, o)
  PROVE  Sets(r, Number(r), o)
<1>1. ops[r] \in Seq(Operation) /\ Len(ops[r]) > 0 /\ Number(r) \in DOMAIN ops[r]
  BY OpsFacts DEF Number
<1>2. Append(Front(ops[r]), o) = [ops[r] EXCEPT ![Len(ops[r])] = o]
  BY <1>1, LastAnew
<1> QED BY <1>1, <1>2 DEF Becomes, Sets, Number

\* Opening an operation leaves every other as it is.
LEMMA OpensFacts ==
  ASSUME ops \in [Roots -> Seq(Operation)], NEW r \in Roots, NEW o \in Operation, Opens(r, o)
  PROVE  /\ ops' \in [Roots -> Seq(Operation)]
         /\ Len(ops'[r]) = Len(ops[r]) + 1 /\ ops'[r][Len(ops[r]) + 1] = o
         /\ \A s \in Roots : s # r => ops'[s] = ops[s]
         /\ \A s \in Roots : DOMAIN ops[s] \subseteq DOMAIN ops'[s]
         /\ \A s \in Roots : \A j \in DOMAIN ops[s] : ops'[s][j] = ops[s][j]
         /\ \A s \in Roots : \A j \in DOMAIN ops'[s] :
              j \in DOMAIN ops[s] \/ (s = r /\ j = Len(ops[r]) + 1)
         /\ Len(ops[r]) + 1 \notin DOMAIN ops[r]
         /\ Ops \subseteq Ops'
<1> DEFINE row == Append(ops[r], o)
<1>1. ops' = [ops EXCEPT ![r] = row]
  BY DEF Opens
<1>2. /\ row \in Seq(Operation) /\ Len(row) = Len(ops[r]) + 1
      /\ \A j \in 1..Len(ops[r]) : row[j] = ops[r][j]
      /\ row[Len(ops[r]) + 1] = o
  <2>1. ops[r] \in Seq(Operation)
    OBVIOUS
  <2> QED BY <2>1, AppendProperties
<1>3. DOMAIN row = 1..(Len(ops[r]) + 1) /\ DOMAIN ops[r] = 1..Len(ops[r]) /\ Len(ops[r]) \in Nat
  BY <1>2, OpsFacts, LenProperties
<1> HIDE DEF row
<1>4. ops' \in [Roots -> Seq(Operation)]
  BY <1>1, <1>2
<1>5. ops'[r] = row /\ \A s \in Roots : s # r => ops'[s] = ops[s]
  BY <1>1
<1>6. \A s \in Roots : DOMAIN ops[s] \subseteq DOMAIN ops'[s]
  BY <1>3, <1>5
<1>7. \A s \in Roots : \A j \in DOMAIN ops[s] : ops'[s][j] = ops[s][j]
  BY <1>2, <1>3, <1>5
<1>8. \A s \in Roots : \A j \in DOMAIN ops'[s] :
         j \in DOMAIN ops[s] \/ (s = r /\ j = Len(ops[r]) + 1)
  BY <1>3, <1>5
<1>9. Ops \subseteq Ops'
  BY <1>6 DEF Ops
<1> QED BY <1>2, <1>3, <1>4, <1>5, <1>6, <1>7, <1>8, <1>9

\* A tick changes ages only.
LEMMA TickFacts ==
  ASSUME ops \in [Roots -> Seq(Operation)], Tick
  PROVE  /\ ops' \in [Roots -> Seq(Operation)]
         /\ \A s \in Roots : DOMAIN ops'[s] = DOMAIN ops[s] /\ Len(ops'[s]) = Len(ops[s])
         /\ \A s \in Roots : \A j \in DOMAIN ops[s] :
              ops'[s][j] = IF AtMain(ops[s][j]) /\ ops[s][j].age < MainFence
                           THEN [ops[s][j] EXCEPT !.age = @ + 1] ELSE ops[s][j]
         /\ Ops' = Ops
<1> DEFINE next(o) == IF AtMain(o) /\ o.age < MainFence THEN [o EXCEPT !.age = @ + 1] ELSE o
<1>1. ops' = [s \in Roots |-> [j \in DOMAIN ops[s] |-> next(ops[s][j])]]
  BY DEF Tick
<1>2. ASSUME NEW o \in Operation PROVE next(o) \in Operation
  <2>1. CASE AtMain(o) /\ o.age < MainFence
    <3>1. o.age \in (-1)..MainFence
      BY DEF Operation
    <3>2. o.age + 1 \in (-1)..MainFence
      BY <2>1, <3>1, LandingAssumption
    <3> QED BY <2>1, <3>2 DEF Operation
  <2> QED BY <2>1
<1> HIDE DEF next
<1>3. ASSUME NEW s \in Roots
      PROVE  /\ ops'[s] \in Seq(Operation)
             /\ DOMAIN ops'[s] = DOMAIN ops[s] /\ Len(ops'[s]) = Len(ops[s])
  <2>1. Len(ops[s]) \in Nat /\ DOMAIN ops[s] = 1..Len(ops[s])
    BY OpsFacts
  <2>2. ops'[s] = [j \in 1..Len(ops[s]) |-> next(ops[s][j])]
    BY <1>1, <2>1
  <2>3. \A j \in 1..Len(ops[s]) : next(ops[s][j]) \in Operation
    BY <1>2, <2>1, OpsFacts
  <2>4. ops'[s] \in [1..Len(ops[s]) -> Operation]
    BY <2>2, <2>3
  <2>5. ops'[s] \in Seq(Operation)
    BY <2>1, <2>4, SeqDef
  <2> QED BY <2>1, <2>4, <2>5, LenProperties
<1>4. ops' \in [Roots -> Seq(Operation)]
  BY <1>1, <1>3
<1>5. \A s \in Roots : \A j \in DOMAIN ops[s] : ops'[s][j] = next(ops[s][j])
  BY <1>1
<1>6. Ops' = Ops
  BY <1>3 DEF Ops
<1> QED BY <1>3, <1>4, <1>5, <1>6 DEF next

-----------------------------------------------------------------------------
(* The shapes of a step: what it does to main, the operations, the pushes  *)
(* and the evidence, whatever handler takes it.                            *)

\* An operation that has not asked for main goes on, or ends.
Early(a, b) ==
  /\ a.phase \in BeforeMain
  /\ b.phase \in BeforeMain \cup {"failed", "discarded"}
  /\ b.phase = "parked" => b.resume \in Resumable
  /\ b.outcome \notin {"ok", "denied"} \/ b.outcome = a.outcome
  /\ b.base = a.base /\ b.push = a.push /\ b.age = a.age /\ b.missing = a.missing

MovesEarly(r) ==
  /\ r \in Roots /\ Number(r) > 0 /\ gate' = NoGate
  /\ \E o \in Operation : Early(Latest(r), o) /\ Sets(r, Number(r), o)
  /\ UNCHANGED <<main, wire, evidence>>

\* A root gets its next operation, claimed or ended at once.
OpensNext(r) ==
  /\ r \in Roots /\ Unlocked /\ (Number(r) > 0 => Terminal(Latest(r)))
  /\ \E o \in Operation :
       /\ \/ o = NewOp /\ Number(r) < MaxOps
          \/ \E why \in {"in_main", "reverted", "bound"} : o = BornFailed(why)
       /\ Opens(r, o)
  /\ UNCHANGED <<main, gate, wire, evidence>>

\* An operation is replayed on main.
Replays(r) ==
  /\ r \in Roots /\ In(r, {"claimed"}) /\ Unlocked
  /\ HistoryOf(r, main) # "effective"
  /\ Sets(r, Number(r), [Latest(r) EXCEPT !.phase = "prepared", !.base = main])
  /\ UNCHANGED <<main, gate, wire, evidence>>

\* An operation is let through the gate.
Intends(r) ==
  /\ r \in Roots /\ In(r, {"branch_pushed", "awaiting_grant"}) /\ GateAllows(r)
  /\ ~Unlocked /\ gate' = NoGate
  /\ Sets(r, Number(r), [Latest(r) EXCEPT !.phase = "main_intent", !.age = 0,
                                          !.push = "licensed", !.granted = FALSE])
  /\ UNCHANGED <<main, wire, evidence>>

\* A push is given up, its answer recorded, or an operation ends by hand.
Late(a, b) ==
  /\ b.base = a.base /\ b.age = a.age /\ b.missing = a.missing /\ b.resume = a.resume
  /\ \/ b.phase = a.phase /\ b.outcome = a.outcome /\ b.push \in {"unknown", "none"}
     \/ /\ a.phase = "main_intent" /\ a.push \in Answers
        /\ b.phase = "main_result" /\ b.outcome = a.push /\ b.push = "none"
     \/ /\ a.phase = "failed" /\ b.phase = "failed" /\ b.push = a.push
        /\ b.outcome \in {a.outcome, "declined"}
     \/ /\ a.phase = "main_result" /\ a.outcome \in {"ok", "denied"} /\ b.push = a.push
        /\ a.outcome = "ok" => a.missing
        /\ b.phase = "failed" /\ b.outcome = IF a.outcome = "ok" THEN "main_lost" ELSE "denied"

MovesLate(r, k) ==
  /\ \E o \in Operation : Late(ops[r][k], o) /\ Sets(r, k, o)
  /\ UNCHANGED <<main, gate, wire, evidence>>

Sends(r, k) ==
  /\ Send(r, k) /\ <<r, k>> \in Ops
  /\ Sets(r, k, [ops[r][k] EXCEPT !.push = "sent"])

Takes(r, k) ==
  /\ <<r, k>> \in wire /\ FastForwards(r, k)
  /\ main' = R(r, k) /\ wire' = wire \ {<<r, k>>}
  /\ \E p \in {"ok", "unknown", ops[r][k].push} : Sets(r, k, [ops[r][k] EXCEPT !.push = p])
  /\ UNCHANGED <<gate, evidence>>

Refuses(r, k) ==
  /\ <<r, k>> \in wire
  /\ wire' = wire \ {<<r, k>>}
  /\ \E p \in {"non_ff", "denied", "unknown", ops[r][k].push} :
       Sets(r, k, [ops[r][k] EXCEPT !.push = p])
  /\ UNCHANGED <<main, gate, evidence>>

Writes(e) ==
  /\ e \in evidence /\ evidence' = evidence \ {e}
  /\ LET r == e.of[1]
         k == e.of[2]
     IN  \/ UNCHANGED ops
         \/ /\ ops[r][k].phase = e.phase /\ ops[r][k].outcome = e.outcome
            /\ Sets(r, k, Reconciled(ops[r][k], e))
  /\ UNCHANGED <<main, gate, wire>>

NotLanded == {c \in Commits : c.kind # "landed"}

\* People move main.
MainMoves ==
  /\ \/ \E c \in NotLanded : main' = Append(main, c)
     \/ left.rewinds /\ Len(main) > 0 /\ main' = Front(main)
  /\ UNCHANGED <<ops, gate, wire, evidence>>

\* Nothing of these changes; the gate may end.
Stays == UNCHANGED <<main, ops, wire, evidence>> /\ gate' \in {gate, NoGate}

Shape ==
  \/ Stays \/ MainMoves \/ Tick
  \/ \E r \in Roots : \/ MovesEarly(r) \/ OpensNext(r) \/ Replays(r) \/ Intends(r) \/ GateOpen(r)
                      \/ \E k \in DOMAIN ops[r] :
                           \/ MovesLate(r, k) \/ Sends(r, k) \/ Takes(r, k) \/ Refuses(r, k)
                           \/ ReadMain(r, k)
  \/ \E e \in evidence : Writes(e)

\* The other variables keep their types, and a world keeps its ways.
Rest ==
  /\ hand' \in [Roots -> Readings] /\ due' \subseteq Roots /\ stopped' \in BOOLEAN
  /\ left' \in World /\ left'.rewinds = left.rewinds /\ left'.slow = left.slow

\* A new operation, or one born as an ending, is an operation.
LEMMA NewOpTyped ==
  /\ NewOp \in Operation
  /\ \A why \in {"in_main", "reverted", "bound"} : BornFailed(why) \in Operation
<1>1. <<>> \in Seq(Commits) /\ -1 \in (-1)..MainFence
  BY EmptySeq, LandingAssumption
<1>2. NewOp \in Operation
  BY <1>1 DEF NewOp, Operation, Phases, BeforeMain, Outcomes, Answers
<1> QED BY <1>2 DEF BornFailed, NewOp, Operation, Phases, BeforeMain, Outcomes, Answers

\* What a new operation has, or one born as an ending.
LEMMA BornFacts ==
  ASSUME NEW o, o = NewOp \/ \E why \in {"in_main", "reverted", "bound"} : o = BornFailed(why)
  PROVE  /\ o.phase \in {"claimed", "failed"} /\ o.outcome \notin {"ok", "denied"}
         /\ o.base = <<>> /\ o.push = "none" /\ o.age = -1 /\ ~o.missing
<1>1. CASE o = NewOp
  BY <1>1 DEF NewOp
<1>2. ASSUME NEW why \in {"in_main", "reverted", "bound"}, o = BornFailed(why)
      PROVE  /\ o.phase = "failed" /\ o.outcome = why
             /\ o.base = <<>> /\ o.push = "none" /\ o.age = -1 /\ ~o.missing
  BY <1>2 DEF BornFailed, NewOp
<1> QED BY <1>1, <1>2

\* The handlers of an operation that has not asked for main move it early.
LEMMA EarlySteps ==
  ASSUME Typed, NEW r \in Roots, Number(r) > 0, NEW o,
         o \in Operation, Becomes(r, o), Early(Latest(r), o),
         gate' = NoGate, UNCHANGED <<main, wire, evidence>>
  PROVE  MovesEarly(r)
BY BecomesSets DEF Typed, Types, MovesEarly

\* The last operation of a root is an operation.
LEMMA LatestTyped ==
  ASSUME Typed, NEW r \in Roots, Number(r) > 0
  PROVE  /\ Latest(r) \in Operation
         /\ Number(r) \in DOMAIN ops[r] /\ Latest(r) = ops[r][Number(r)]
         /\ Latest(r).phase = "parked" => Latest(r).resume \in Resumable
BY OpsFacts DEF Typed, Types, Latest, Number, ParkedResumes, Resumable

\* An operation that ends, or moves on, before it asks for main.
LEMMA EndsEarly ==
  ASSUME Typed, NEW r \in Roots, In(r, BeforeMain), NEW phase \in {"failed", "discarded"},
         NEW why \in Outcomes \ {"ok", "denied"}, Ends(r, phase, why),
         gate' = NoGate, UNCHANGED <<main, wire, evidence>>
  PROVE  MovesEarly(r)
<1> DEFINE o == [Latest(r) EXCEPT !.phase = phase, !.outcome = why]
<1>1. Latest(r) \in Operation /\ Number(r) > 0 /\ Latest(r).phase \in BeforeMain
  BY LatestTyped DEF In
<1>2. o \in Operation
  BY <1>1 DEF Operation, Phases
<1>3. Early(Latest(r), o)
  BY <1>1 DEF Early, Operation
<1>4. Becomes(r, o)
  BY DEF Ends
<1> HIDE DEF o
<1> QED BY <1>1, <1>2, <1>3, <1>4, EarlySteps

\* A discarded operation ends early, whatever the root's budget.
LEMMA DiscardsEarly ==
  ASSUME Typed, NEW r \in Roots, In(r, BeforeMain),
         NEW why \in {"branch_collision", "main_changed"}, Discard(r, why),
         gate' = NoGate, UNCHANGED <<main, wire, evidence>>
  PROVE  MovesEarly(r)
<1>1. "bound" \in Outcomes \ {"ok", "denied"} /\ why \in Outcomes \ {"ok", "denied"}
  BY DEF Outcomes, Answers
<1> QED BY <1>1, EndsEarly DEF Discard

\* An operation that goes on to another phase before it asks for main.
LEMMA GoesEarly ==
  ASSUME Typed, NEW r \in Roots, In(r, BeforeMain), NEW phase \in BeforeMain \ {"parked"},
         Moves(r, phase), gate' = NoGate, UNCHANGED <<main, wire, evidence>>
  PROVE  MovesEarly(r)
<1> DEFINE o == [Latest(r) EXCEPT !.phase = phase]
<1>1. Latest(r) \in Operation /\ Number(r) > 0 /\ Latest(r).phase \in BeforeMain
  BY LatestTyped DEF In
<1>2. o \in Operation
  BY <1>1 DEF Operation, Phases
<1>3. Early(Latest(r), o)
  BY <1>1 DEF Early, Operation
<1>4. Becomes(r, o)
  BY DEF Moves
<1> HIDE DEF o
<1> QED BY <1>1, <1>2, <1>3, <1>4, EarlySteps

\* The steps of claims have a shape.
LEMMA ClaimShapes ==
  ASSUME Typed, NEW r \in Roots,
         \/ ClaimRead(r) \/ Claim(r) \/ ClaimRefused(r) \/ Forget(r)
         \/ SettleUnclaimed(r) \/ SettleBound(r)
  PROVE  Shape
<1> USE DEF Shape
<1>1. ASSUME ClaimRead(r) PROVE Shape
  BY <1>1 DEF ClaimRead, Stays
<1>2. ASSUME Claim(r) PROVE OpensNext(r)
  <2>1. Number(r) \in Nat
    BY OpsFacts DEF Typed, Types, Number
  <2>2. Number(r) < MaxOps /\ (Number(r) > 0 => Terminal(Latest(r))) /\ Unlocked
    BY <1>2, <2>1, LandingAssumption DEF Claim, MayBind, BoundForNext, AwaitsNext
  <2> QED BY <1>2, <2>2, NewOpTyped DEF Claim, OpensNext
<1>3. ASSUME ClaimRefused(r) PROVE OpensNext(r)
  <2>1. (Number(r) > 0 => Terminal(Latest(r))) /\ Unlocked
    BY <1>3 DEF ClaimRefused, MayBind, AwaitsNext
  <2>2. PICK why \in {"in_main", "reverted", "bound"} : Opens(r, BornFailed(why))
    BY <1>3 DEF ClaimRefused
  <2> QED BY <1>3, <2>1, <2>2, NewOpTyped DEF ClaimRefused, OpensNext
<1>4. ASSUME Forget(r) PROVE Shape
  BY <1>4 DEF Forget, Stays
<1>5. ASSUME SettleUnclaimed(r) PROVE OpensNext(r)
  BY <1>5, NewOpTyped DEF SettleUnclaimed, OpensNext
<1>6. ASSUME SettleBound(r) PROVE Shape
  <2>1. CASE AwaitsNext(r) /\ Opens(r, BornFailed("bound"))
    <3>1. OpensNext(r)
      BY <1>6, <2>1, NewOpTyped DEF SettleBound, OpensNext, AwaitsNext
    <3> QED BY <3>1
  <2>2. CASE In(r, BeforeMain) /\ Ends(r, "failed", "bound")
    <3>1. "bound" \in Outcomes \ {"ok", "denied"}
      BY DEF Outcomes, Answers
    <3>2. MovesEarly(r)
      BY <1>6, <2>2, <3>1, EndsEarly DEF SettleBound, Unlocked
    <3> QED BY <3>2
  <2> QED BY <1>6, <2>1, <2>2 DEF SettleBound
<1> QED BY <1>1, <1>2, <1>3, <1>4, <1>5, <1>6

\* The steps of preparation, of the wait and of CI have a shape.
LEMMA PrepareShapes ==
  ASSUME Typed, NEW r \in Roots,
         \/ PrepareDecide(r) \/ Prepare(r) \/ Branch(r) \/ Park(r) \/ UnparkDecide(r)
         \/ Unpark(r) \/ Replay(r) \/ Stale(r) \/ CIRed(r)
  PROVE  Shape
<1> USE DEF Shape
<1>0. /\ "conflict" \in Outcomes \ {"ok", "denied"} /\ "stale" \in Outcomes \ {"ok", "denied"}
      /\ "ci_red" \in Outcomes \ {"ok", "denied"}
      /\ \A S \in SUBSET BeforeMain : In(r, S) => In(r, BeforeMain)
  BY DEF Outcomes, Answers, In
<1>1. ASSUME PrepareDecide(r) PROVE Shape
  BY <1>1 DEF PrepareDecide, Stays
<1>2. ASSUME Prepare(r) PROVE Shape
  <2>1. In(r, {"claimed"}) /\ In(r, BeforeMain) /\ Number(r) > 0
    BY <1>2 DEF Prepare, In, BeforeMain
  <2>2. CASE Becomes(r, [Latest(r) EXCEPT !.phase = "prepared", !.base = main])
    <3>1. Latest(r) \in Operation /\ main \in Seq(Commits) /\ ops \in [Roots -> Seq(Operation)]
      BY <2>1, LatestTyped DEF Typed, Types
    <3>2. [Latest(r) EXCEPT !.phase = "prepared", !.base = main] \in Operation
      BY <3>1 DEF Operation, Phases, BeforeMain
    <3>3. Replays(r)
      BY <1>2, <2>1, <2>2, <3>1, <3>2, BecomesSets DEF Prepare, Replays
    <3> QED BY <3>3
  <2>3. CASE Ends(r, "failed", "conflict")
    <3>1. MovesEarly(r)
      BY <1>0, <1>2, <2>1, <2>3, EndsEarly DEF Prepare, Unlocked
    <3> QED BY <3>1
  <2> QED BY <1>2, <2>2, <2>3 DEF Prepare
<1>3. ASSUME Branch(r) PROVE MovesEarly(r)
  <2>1. In(r, BeforeMain) /\ gate' = NoGate /\ UNCHANGED <<main, wire, evidence>>
    BY <1>3 DEF Branch, Unlocked, In, BeforeMain
  <2>2. "branch_intent" \in BeforeMain \ {"parked"} /\ "branch_pushed" \in BeforeMain \ {"parked"}
    BY DEF BeforeMain
  <2> QED BY <1>3, <2>1, <2>2, GoesEarly, DiscardsEarly DEF Branch
<1>4. ASSUME Park(r) PROVE MovesEarly(r)
  <2> DEFINE o == [Latest(r) EXCEPT !.phase = "parked", !.resume = Latest(r).phase]
  <2>1. Number(r) > 0 /\ Latest(r).phase \in Resumable
    BY <1>4 DEF Park, In, Resumable
  <2>2. Latest(r) \in Operation
    BY <2>1, LatestTyped
  <2>3. o \in Operation
    BY <2>1, <2>2 DEF Operation, Phases, BeforeMain, Resumable
  <2>4. Early(Latest(r), o)
    BY <2>1, <2>2 DEF Early, Operation, BeforeMain, Resumable
  <2>5. Becomes(r, o) /\ gate' = NoGate /\ UNCHANGED <<main, wire, evidence>>
    BY <1>4 DEF Park, Unlocked
  <2> HIDE DEF o
  <2> QED BY <2>1, <2>3, <2>4, <2>5, EarlySteps
<1>5. ASSUME UnparkDecide(r) PROVE Shape
  BY <1>5 DEF UnparkDecide, Stays
<1>6. ASSUME Unpark(r) PROVE MovesEarly(r)
  <2> DEFINE o == [Latest(r) EXCEPT !.phase = Latest(r).resume, !.resume = ""]
  <2>1. Number(r) > 0 /\ Latest(r).phase = "parked"
    BY <1>6 DEF Unpark, In
  <2>2. Latest(r) \in Operation /\ Latest(r).resume \in Resumable
    BY <2>1, LatestTyped
  <2>3. o \in Operation
    BY <2>1, <2>2 DEF Operation, Phases, BeforeMain, Resumable
  <2>4. Early(Latest(r), o)
    BY <2>1, <2>2 DEF Early, Operation, BeforeMain, Resumable
  <2>5. Becomes(r, o) /\ gate' = NoGate /\ UNCHANGED <<main, wire, evidence>>
    BY <1>6 DEF Unpark, Unlocked
  <2> HIDE DEF o
  <2> QED BY <2>1, <2>3, <2>4, <2>5, EarlySteps
<1>7. ASSUME Replay(r) PROVE MovesEarly(r)
  <2>1. In(r, BeforeMain) /\ gate' = NoGate /\ UNCHANGED <<main, wire, evidence>>
    BY <1>7 DEF Replay, Tested, Unlocked, In, BeforeMain
  <2> QED BY <1>7, <2>1, DiscardsEarly DEF Replay
<1>8. ASSUME Stale(r) PROVE MovesEarly(r)
  <2>1. In(r, BeforeMain) /\ gate' = NoGate /\ UNCHANGED <<main, wire, evidence>>
    BY <1>8 DEF Stale, Unlocked, In, BeforeMain
  <2> QED BY <1>0, <1>8, <2>1, EndsEarly DEF Stale
<1>9. ASSUME CIRed(r) PROVE MovesEarly(r)
  <2> DEFINE o == [Latest(r) EXCEPT !.rerun = TRUE]
  <2>1. /\ In(r, BeforeMain) /\ Number(r) > 0 /\ Latest(r).phase = "branch_pushed"
        /\ gate' = NoGate /\ UNCHANGED <<main, wire, evidence>>
    BY <1>9 DEF CIRed, Unlocked, In, BeforeMain
  <2>2. Latest(r) \in Operation
    BY <2>1, LatestTyped
  <2>3. o \in Operation /\ Early(Latest(r), o)
    BY <2>1, <2>2 DEF Operation, Early, BeforeMain
  <2>4. Ends(r, "failed", "ci_red") \/ Becomes(r, o)
    BY <1>9 DEF CIRed
  <2> HIDE DEF o
  <2> QED BY <1>0, <2>1, <2>3, <2>4, EndsEarly, EarlySteps
<1> QED BY <1>1, <1>2, <1>3, <1>4, <1>5, <1>6, <1>7, <1>8, <1>9

\* The steps of the second gate and of the Owner have a shape.
LEMMA GateShapes ==
  ASSUME Typed, NEW r \in Roots,
         \/ GateOpen(r) \/ Intend(r) \/ AwaitGrant(r) \/ GateRefuse(r) \/ Grant(r)
         \/ Reject(r)
  PROVE  Shape
<1> USE DEF Shape
<1>1. ASSUME GateOpen(r) PROVE Shape
  BY <1>1
<1>0. \A S \in SUBSET BeforeMain : In(r, S) => In(r, BeforeMain)
  BY DEF In
<1>2. ASSUME Intend(r) PROVE Intends(r)
  <2> DEFINE o == [Latest(r) EXCEPT !.phase = "main_intent", !.age = 0,
                                    !.push = "licensed", !.granted = FALSE]
  <2>1. ~Unlocked /\ gate.root = r /\ In(r, {"branch_pushed", "awaiting_grant"}) /\ Number(r) > 0
    BY <1>2, LandingAssumption DEF Intend, GateAllows, Typed, GateHolds, Unlocked, NoGate, In
  <2>2. Latest(r) \in Operation /\ ops \in [Roots -> Seq(Operation)]
    BY <2>1, LatestTyped DEF Typed, Types
  <2>3. 0 \in (-1)..MainFence
    BY LandingAssumption
  <2>4. o \in Operation
    BY <2>2, <2>3 DEF Operation, Phases
  <2>5. Becomes(r, o)
    BY <1>2 DEF Intend
  <2>6. Sets(r, Number(r), o)
    BY <2>1, <2>2, <2>4, <2>5, BecomesSets
  <2> QED BY <1>2, <2>1, <2>6 DEF Intend, Intends
<1>3. ASSUME AwaitGrant(r) PROVE MovesEarly(r)
  <2>1. "awaiting_grant" \in BeforeMain \ {"parked"} /\ In(r, BeforeMain)
    BY <1>0, <1>3 DEF AwaitGrant, BeforeMain, In
  <2> QED BY <1>3, <2>1, GoesEarly DEF AwaitGrant
<1>4. ASSUME GateRefuse(r) PROVE Shape
  <2>1. CASE UNCHANGED ops
    BY <1>4, <2>1 DEF GateRefuse, Stays
  <2>2. CASE In(r, {"awaiting_grant"}) /\ Ends(r, "discarded", "main_changed")
    <3>1. In(r, BeforeMain) /\ "main_changed" \in Outcomes \ {"ok", "denied"}
      BY <2>2 DEF In, BeforeMain, Outcomes, Answers
    <3>2. MovesEarly(r)
      BY <1>4, <2>2, <3>1, EndsEarly DEF GateRefuse
    <3> QED BY <3>2
  <2> QED BY <1>4, <2>1, <2>2 DEF GateRefuse
<1>5. ASSUME Grant(r) PROVE MovesEarly(r)
  <2> DEFINE o == [Latest(r) EXCEPT !.granted = ~@]
  <2>1. Number(r) > 0 /\ Latest(r).phase = "awaiting_grant"
    BY <1>5 DEF Grant, In
  <2>2. Latest(r) \in Operation
    BY <2>1, LatestTyped
  <2>3. o \in Operation /\ Early(Latest(r), o)
    BY <2>1, <2>2 DEF Operation, Early, BeforeMain
  <2>4. Becomes(r, o) /\ gate' = NoGate /\ UNCHANGED <<main, wire, evidence>>
    BY <1>5 DEF Grant, Unlocked
  <2> HIDE DEF o
  <2> QED BY <2>1, <2>3, <2>4, EarlySteps
<1>6. ASSUME Reject(r) PROVE MovesEarly(r)
  <2>1. /\ In(r, BeforeMain) /\ "declined" \in Outcomes \ {"ok", "denied"}
        /\ gate' = NoGate /\ UNCHANGED <<main, wire, evidence>>
    BY <1>6 DEF Reject, Answering, Unlocked, In, BeforeMain, Outcomes, Answers
  <2> QED BY <1>6, <2>1, EndsEarly DEF Reject
<1> QED BY <1>1, <1>2, <1>3, <1>4, <1>5, <1>6

\* Not touching an operation is to set it to itself.
LEMMA SetsSame ==
  ASSUME ops \in [Roots -> Seq(Operation)], NEW r \in Roots, NEW k \in DOMAIN ops[r], UNCHANGED ops
  PROVE  Sets(r, k, [ops[r][k] EXCEPT !.push = ops[r][k].push])
<1>1. ops[r][k] \in Operation /\ ops[r] \in Seq(Operation) /\ k \in 1..Len(ops[r])
  BY OpsFacts
<1>2. [ops[r][k] EXCEPT !.push = ops[r][k].push] = ops[r][k]
  BY <1>1 DEF Operation
<1>3. [ops[r] EXCEPT ![k] = ops[r][k]] = ops[r]
  BY <1>1, ExceptSeq, SeqEqual
<1>4. ops = [ops EXCEPT ![r][k] = ops[r][k]]
  BY <1>3
<1> QED BY <1>1, <1>2, <1>4 DEF Sets

\* A push changes state.
LEMMA PushesSets ==
  ASSUME ops \in [Roots -> Seq(Operation)], NEW r \in Roots, NEW k \in DOMAIN ops[r],
         NEW p \in {"none", "licensed", "sent"} \cup Answers, Pushes(r, k, p)
  PROVE  Sets(r, k, [ops[r][k] EXCEPT !.push = p])
<1>1. ops[r][k] \in Operation
  BY OpsFacts
<1>2. [ops[r][k] EXCEPT !.push = p] \in Operation
  BY <1>1 DEF Operation
<1>3. ops' = [ops EXCEPT ![r][k] = [ops[r][k] EXCEPT !.push = p]]
  BY DEF Pushes
<1> QED BY <1>2, <1>3 DEF Sets

\* The steps of one push have a shape.
LEMMA PushShapes ==
  ASSUME Typed, NEW r \in Roots, NEW k \in DOMAIN ops[r],
         \/ Send(r, k) \/ RemoteTakes(r, k) \/ RemoteRefuses(r, k)
         \/ GiveUp(r, k) \/ Record(r, k) \/ Abandon(r, k) \/ ReadMain(r, k)
  PROVE  Shape
<1> USE DEF Shape
<1> DEFINE a == ops[r][k]
<1>0. ops \in [Roots -> Seq(Operation)] /\ a \in Operation /\ <<r, k>> \in Ops
  BY OpsFacts DEF Typed, Types
<1>1. ASSUME Send(r, k) PROVE Sends(r, k)
  BY <1>0, <1>1, PushesSets DEF Send, Sends
<1>2. ASSUME RemoteTakes(r, k) PROVE Takes(r, k)
  <2>1. PICK answer \in {"ok", "unknown"} : Answered(r, k, answer)
    BY <1>2 DEF RemoteTakes
  <2>2. \E p \in {"ok", "unknown", a.push} : Sets(r, k, [a EXCEPT !.push = p])
    <3>1. CASE a.push = "sent"
      <4>1. Pushes(r, k, answer) /\ answer \in {"none", "licensed", "sent"} \cup Answers
        BY <2>1, <3>1 DEF Answered, Answers
      <4> QED BY <1>0, <4>1, PushesSets
    <3>2. CASE a.push # "sent"
      <4>1. UNCHANGED ops
        BY <2>1, <3>2 DEF Answered
      <4> QED BY <1>0, <4>1, SetsSame
    <3> QED BY <3>1, <3>2
  <2> QED BY <1>2, <2>2 DEF RemoteTakes, Takes, R
<1>3. ASSUME RemoteRefuses(r, k) PROVE Refuses(r, k)
  <2>1. PICK answer \in Answers \ {"ok"} : Answered(r, k, answer)
    BY <1>3 DEF RemoteRefuses
  <2>2. \E p \in {"non_ff", "denied", "unknown", a.push} : Sets(r, k, [a EXCEPT !.push = p])
    <3>1. CASE a.push = "sent"
      <4>1. /\ Pushes(r, k, answer) /\ answer \in {"none", "licensed", "sent"} \cup Answers
            /\ answer \in {"non_ff", "denied", "unknown"}
        BY <2>1, <3>1 DEF Answered, Answers
      <4> QED BY <1>0, <4>1, PushesSets
    <3>2. CASE a.push # "sent"
      <4>1. UNCHANGED ops
        BY <2>1, <3>2 DEF Answered
      <4> QED BY <1>0, <4>1, SetsSame
    <3> QED BY <3>1, <3>2
  <2> QED BY <1>3, <2>2 DEF RemoteRefuses, Refuses
<1>4. ASSUME NEW p \in {"unknown", "none"}, Pushes(r, k, p),
             UNCHANGED <<main, gate, wire, evidence>>
      PROVE  MovesLate(r, k)
  <2> DEFINE b == [a EXCEPT !.push = p]
  <2>1. p \in {"none", "licensed", "sent"} \cup Answers
    BY DEF Answers
  <2>2. Sets(r, k, b)
    BY <1>0, <1>4, <2>1, PushesSets
  <2>3. Late(a, b)
    BY <1>0 DEF Late, Operation
  <2> HIDE DEF b
  <2>4. b \in Operation
    BY <2>2 DEF Sets
  <2> QED BY <1>4, <2>2, <2>3, <2>4 DEF MovesLate
<1>5. ASSUME GiveUp(r, k) PROVE MovesLate(r, k)
  BY <1>4, <1>5 DEF GiveUp
<1>6. ASSUME Record(r, k) PROVE MovesLate(r, k)
  <2> DEFINE b == [a EXCEPT !.phase = "main_result", !.outcome = a.push, !.push = "none"]
  <2>1. a.push \in Answers /\ a.phase = "main_intent"
    BY <1>6 DEF Record
  <2>2. b \in Operation
    BY <1>0, <2>1 DEF Operation, Phases, Outcomes
  <2>3. Late(a, b)
    BY <1>0, <2>1 DEF Late, Operation
  <2>4. ops' = [ops EXCEPT ![r][k] = b]
    BY <1>6 DEF Record
  <2> HIDE DEF b
  <2> QED BY <1>6, <2>2, <2>3, <2>4 DEF MovesLate, Sets, Record
<1>7. ASSUME Abandon(r, k) PROVE MovesLate(r, k)
  BY <1>4, <1>7 DEF Abandon
<1> QED BY <1>1, <1>2, <1>3, <1>5, <1>6, <1>7

\* An operation that ended, or that main refused, ends for the record.
LEMMA LateSteps ==
  ASSUME Typed, NEW r \in Roots, Number(r) > 0, NEW o \in Operation, Becomes(r, o),
         Late(Latest(r), o), UNCHANGED <<main, gate, wire, evidence>>
  PROVE  MovesLate(r, Number(r))
<1>1. Sets(r, Number(r), o)
  BY BecomesSets DEF Typed, Types
<1>2. Latest(r) = ops[r][Number(r)]
  BY DEF Latest
<1> QED BY <1>1, <1>2 DEF MovesLate

\* The steps that end an operation for the record have a shape.
LEMMA EndShapes ==
  ASSUME Typed, NEW r \in Roots,
         ReconcileDenied(r) \/ TryAgain(r) \/ DoNotMerge(r) \/ ConfirmLost(r)
  PROVE  Shape
<1> DEFINE a == Latest(r)
<1>0. Number(r) > 0 /\ a \in Operation /\ Number(r) \in DOMAIN ops[r]
      /\ UNCHANGED <<main, gate, wire, evidence>>
  BY LatestTyped DEF In, ReconcileDenied, TryAgain, DoNotMerge, ConfirmLost, Answering
<1>1. ASSUME NEW phase \in {"failed"}, NEW why \in {"denied", "declined", "main_lost"}, Ends(r, phase, why),
             \/ a.phase = "failed" /\ why = "declined"
             \/ a.phase = "main_result" /\ a.outcome = "denied" /\ why = "denied"
             \/ a.phase = "main_result" /\ a.outcome = "ok" /\ a.missing /\ why = "main_lost"
      PROVE  MovesLate(r, Number(r))
  <2> DEFINE b == [a EXCEPT !.phase = phase, !.outcome = why]
  <2>1. b \in Operation
    BY <1>0 DEF Operation, Phases, Outcomes, Answers
  <2>2. Late(a, b)
    BY <1>0, <1>1 DEF Late, Operation
  <2>3. Becomes(r, b)
    BY <1>1 DEF Ends
  <2> HIDE DEF b
  <2> QED BY <1>0, <2>1, <2>2, <2>3, LateSteps
<1>2. ASSUME TryAgain(r) PROVE MovesLate(r, Number(r))
  <2> DEFINE b == [a EXCEPT !.retried = TRUE]
  <2>1. a.phase = "failed" /\ Becomes(r, b)
    BY <1>2 DEF TryAgain, In
  <2>2. b \in Operation
    BY <1>0 DEF Operation
  <2>3. Late(a, b)
    BY <1>0, <2>1 DEF Late, Operation
  <2> HIDE DEF b
  <2> QED BY <1>0, <2>1, <2>2, <2>3, LateSteps
<1>3. ASSUME ReconcileDenied(r) PROVE MovesLate(r, Number(r))
  BY <1>1, <1>3 DEF ReconcileDenied, In
<1>4. ASSUME DoNotMerge(r) PROVE MovesLate(r, Number(r))
  BY <1>1, <1>4 DEF DoNotMerge, In
<1>5. ASSUME ConfirmLost(r) PROVE MovesLate(r, Number(r))
  BY <1>1, <1>5 DEF ConfirmLost, In
<1> QED BY <1>0, <1>2, <1>3, <1>4, <1>5 DEF Shape

\* What evidence makes of an operation is an operation.
LEMMA ReconciledTyped ==
  ASSUME NEW o \in Operation, NEW e \in Evidence
  PROVE  Reconciled(o, e) \in Operation
<1>1. {"reverted", "landed", "failed", "main_result"} \subseteq Phases
      /\ {"bound", "non_ff"} \subseteq Outcomes
  BY DEF Phases, Outcomes, Answers
<1> QED BY <1>1 DEF Reconciled, Operation

\* Writing evidence has a shape.
LEMMA WriteShape ==
  ASSUME Typed, NEW e \in evidence, WriteEvidence(e)
  PROVE  Writes(e)
<1> DEFINE r == e.of[1]
           k == e.of[2]
<1>1. /\ ops \in [Roots -> Seq(Operation)] /\ e \in Evidence
      /\ r \in Roots /\ k \in DOMAIN ops[r]
  BY OpsFacts DEF Typed, Types
<1>2. Reconciled(ops[r][k], e) \in Operation
  BY <1>1, OpsFacts, ReconciledTyped
<1>3. ops' = [ops EXCEPT ![r][k] = Reconciled(ops[r][k], e)] => Sets(r, k, Reconciled(ops[r][k], e))
  BY <1>1, <1>2 DEF Sets
<1>4. \/ UNCHANGED ops
      \/ /\ ops[r][k].phase = e.phase /\ ops[r][k].outcome = e.outcome
         /\ ops' = [ops EXCEPT ![r][k] = Reconciled(ops[r][k], e)]
  BY DEF WriteEvidence
<1> QED BY <1>3, <1>4 DEF WriteEvidence, Writes

\* People's steps on main have a shape.
LEMMA WorldShapes ==
  ASSUME Typed,
         \/ \E r \in Roots : HandMerge(r) \/ RevertChange(r) \/ WindowEnds(r)
         \/ Resume \/ OtherCommit \/ Rewind
  PROVE  Shape
<1> USE DEF Shape
<1>0. left.moves \in Nat /\ main \in Seq(Commits)
  BY DEF Typed, Types, World
<1>1. ASSUME NEW kind \in {"hand", "revert", "other"}, NEW r \in Roots \cup {Nobody}
      PROVE  Commit(kind, r) \in NotLanded
  BY <1>0 DEF Commit, NotLanded, Commits
<1>2. ASSUME NEW r \in Roots, HandMerge(r) PROVE MainMoves
  BY <1>1, <1>2 DEF HandMerge, WorldMoves, MainMoves
<1>3. ASSUME NEW r \in Roots, RevertChange(r) PROVE MainMoves
  BY <1>1, <1>3 DEF RevertChange, WorldMoves, MainMoves
<1>4. ASSUME OtherCommit PROVE MainMoves
  BY <1>1, <1>4 DEF OtherCommit, WorldMoves, MainMoves
<1>5. ASSUME Rewind PROVE MainMoves
  <2>1. main # <<>> => Len(main) > 0
    BY <1>0, EmptySeq
  <2> QED BY <1>5, <2>1 DEF Rewind, WorldMoves, MainMoves
<1>6. ASSUME NEW r \in Roots, WindowEnds(r) PROVE Stays
  BY <1>6 DEF WindowEnds, WorldMoves, Stays
<1>7. ASSUME Resume PROVE Stays
  BY <1>7 DEF Resume, Answering, Stays
<1> QED BY <1>2, <1>3, <1>4, <1>5, <1>6, <1>7

\* Every step has a shape.
LEMMA Shapes ==
  ASSUME Typed, [Next]_vars
  PROVE  Shape
<1>1. CASE UNCHANGED vars
  BY <1>1 DEF vars, Shape, Stays
<1>2. ASSUME NEW p \in Ops,
             \/ Send(p[1], p[2]) \/ RemoteTakes(p[1], p[2]) \/ RemoteRefuses(p[1], p[2])
             \/ GiveUp(p[1], p[2]) \/ Record(p[1], p[2]) \/ Abandon(p[1], p[2])
             \/ ReadMain(p[1], p[2])
      PROVE  Shape
  <2>1. p[1] \in Roots /\ p[2] \in DOMAIN ops[p[1]]
    BY OpsFacts DEF Typed, Types
  <2> QED BY <1>2, <2>1, PushShapes
<1>3. ASSUME NEW e \in evidence, WriteEvidence(e) PROVE Shape
  BY <1>3, WriteShape DEF Shape
<1>4. CASE Tick
  BY <1>4 DEF Shape
<1>5. ASSUME NEW r \in Roots,
         \/ ClaimRead(r) \/ Claim(r) \/ ClaimRefused(r) \/ Forget(r)
         \/ SettleUnclaimed(r) \/ SettleBound(r)
      PROVE Shape
  BY <1>5, ClaimShapes
<1>6. ASSUME NEW r \in Roots,
         \/ PrepareDecide(r) \/ Prepare(r) \/ Branch(r) \/ Park(r) \/ UnparkDecide(r)
         \/ Unpark(r) \/ Replay(r) \/ Stale(r) \/ CIRed(r)
      PROVE Shape
  BY <1>6, PrepareShapes
<1>7. ASSUME NEW r \in Roots,
         \/ GateOpen(r) \/ Intend(r) \/ AwaitGrant(r) \/ GateRefuse(r) \/ Grant(r)
         \/ Reject(r)
      PROVE Shape
  BY <1>7, GateShapes
<1>8. ASSUME NEW r \in Roots,
             ReconcileDenied(r) \/ TryAgain(r) \/ DoNotMerge(r) \/ ConfirmLost(r)
      PROVE Shape
  BY <1>8, EndShapes
<1>9. ASSUME \/ \E r \in Roots : HandMerge(r) \/ RevertChange(r) \/ WindowEnds(r)
             \/ Resume \/ OtherCommit \/ Rewind
      PROVE Shape
  BY <1>9, WorldShapes
<1> QED BY <1>1, <1>2, <1>3, <1>4, <1>5, <1>6, <1>7, <1>8, <1>9 DEF Next

\* Every step keeps the types of what a shape leaves out.
LEMMA RestTyped ==
  ASSUME Typed, [Next]_vars
  PROVE  Rest
<1>0. /\ hand \in [Roots -> Readings] /\ due \subseteq Roots /\ stopped \in BOOLEAN
      /\ left \in World
  BY DEF Typed, Types
<1>1. ASSUME UNCHANGED <<hand, due, stopped, left>> PROVE Rest
  BY <1>0, <1>1 DEF Rest
<1>2. ASSUME NEW r \in Roots, NEW what \in Readings, hand' = [hand EXCEPT ![r] = what],
             UNCHANGED <<due, stopped, left>>
      PROVE  Rest
  BY <1>0, <1>2 DEF Rest
<1>3. {"none", "decided", "eligible"} \subseteq Readings /\ \A r : HistoryOf(r, main) \in Readings
  BY HistoryFacts DEF Readings
<1>4. ASSUME UNCHANGED <<hand, stopped>>, due' \subseteq Roots,
             left' = [left EXCEPT !.answers = @ - 1] \/ left' = [left EXCEPT !.moves = @ - 1],
             left.answers > 0 \/ left' = [left EXCEPT !.moves = @ - 1],
             left.moves > 0 \/ left' = [left EXCEPT !.answers = @ - 1]
      PROVE  Rest
  BY <1>0, <1>4 DEF Rest, World
<1>5. ASSUME NEW r \in Roots,
         \/ ClaimRead(r) \/ Claim(r) \/ ClaimRefused(r) \/ Forget(r)
         \/ SettleUnclaimed(r) \/ SettleBound(r)
      PROVE Rest
  BY <1>1, <1>2, <1>3, <1>5 DEF ClaimRead, Claim, ClaimRefused, Forget, SettleUnclaimed, SettleBound,
       Holds, Uses
<1>6. ASSUME NEW r \in Roots,
         \/ PrepareDecide(r) \/ Prepare(r) \/ Branch(r) \/ Park(r) \/ UnparkDecide(r)
         \/ Unpark(r) \/ Replay(r) \/ Stale(r) \/ CIRed(r)
      PROVE Rest
  BY <1>1, <1>2, <1>3, <1>6 DEF PrepareDecide, Prepare, Branch, Park, UnparkDecide, Unpark, Replay,
       Stale, CIRed, Holds, Uses
<1>7. ASSUME NEW r \in Roots,
         \/ GateOpen(r) \/ Intend(r) \/ AwaitGrant(r) \/ GateRefuse(r) \/ Grant(r)
      PROVE Rest
  BY <1>1, <1>7 DEF GateOpen, Intend, AwaitGrant, GateRefuse, Grant
<1>8. ASSUME NEW r \in Roots, ReconcileDenied(r) PROVE Rest
  BY <1>0, <1>8 DEF ReconcileDenied, Rest
<1>9. ASSUME NEW r \in Roots, TryAgain(r) \/ DoNotMerge(r) \/ Reject(r) \/ ConfirmLost(r)
      PROVE Rest
  BY <1>0, <1>4, <1>9 DEF TryAgain, DoNotMerge, Reject, ConfirmLost, Answering
<1>10. ASSUME NEW r \in Roots, HandMerge(r) \/ RevertChange(r) \/ WindowEnds(r)
       PROVE Rest
  BY <1>0, <1>4, <1>10 DEF HandMerge, RevertChange, WindowEnds, WorldMoves
<1>11. CASE OtherCommit \/ Rewind
  BY <1>0, <1>4, <1>11 DEF OtherCommit, Rewind, WorldMoves
<1>12. CASE Resume
  <2>1. left' \in World /\ left'.rewinds = left.rewinds /\ left'.slow = left.slow
    BY <1>0, <1>12 DEF Resume, Answering, World
  <2> QED BY <1>0, <1>12, <2>1 DEF Resume, Rest
<1>13. ASSUME NEW p \in Ops,
             \/ Send(p[1], p[2]) \/ RemoteTakes(p[1], p[2]) \/ RemoteRefuses(p[1], p[2])
             \/ GiveUp(p[1], p[2]) \/ Record(p[1], p[2]) \/ Abandon(p[1], p[2])
             \/ ReadMain(p[1], p[2])
      PROVE  Rest
  BY <1>1, <1>13 DEF Send, RemoteTakes, RemoteRefuses, GiveUp, Record, Abandon, ReadMain
<1>14. ASSUME NEW e \in evidence, WriteEvidence(e) PROVE Rest
  BY <1>1, <1>14 DEF WriteEvidence
<1>15. CASE Tick
  BY <1>1, <1>15 DEF Tick
<1>16. CASE UNCHANGED vars
  BY <1>1, <1>16 DEF vars
<1> QED BY <1>5, <1>6, <1>7, <1>8, <1>9, <1>10, <1>11, <1>12, <1>13, <1>14, <1>15, <1>16 DEF Next

-----------------------------------------------------------------------------
(* Types.                                                                  *)

\* A set operation that fits its place keeps the types.
LEMMA SetsTyped ==
  ASSUME Typed, Rest, NEW r, NEW k, NEW o, Sets(r, k, o),
         main' \in Seq(Commits), wire' \subseteq Ops, evidence' \subseteq evidence,
         o.phase = "parked" => o.resume \in Resumable,
         k > MaxOps => Unclaimed(o),
         \/ gate' = NoGate
         \/ /\ gate' = gate
            /\ ops[r][k].phase \in {"branch_pushed", "awaiting_grant"} => o.phase = ops[r][k].phase
  PROVE  Typed'
<1> USE DEF Typed, Types
<1>1. /\ ops' \in [Roots -> Seq(Operation)]
      /\ \A s \in Roots : DOMAIN ops'[s] = DOMAIN ops[s] /\ Len(ops'[s]) = Len(ops[s])
      /\ \A s \in Roots : \A j \in DOMAIN ops[s] :
           ops'[s][j] = IF s = r /\ j = k THEN o ELSE ops[s][j]
      /\ Ops' = Ops
  BY SetsFacts
<1>2. gate' \in [root : Roots \cup {Nobody}, history : Histories]
  BY DEF NoGate, Histories
<1>3. Types'
  BY <1>1, <1>2 DEF Rest
<1>4. ParkedResumes'
  <2>1. ASSUME NEW s \in Roots, NEW j \in DOMAIN ops'[s], ops'[s][j].phase = "parked"
        PROVE  ops'[s][j].resume \in Resumable
    BY <1>1, <2>1 DEF ParkedResumes
  <2> QED BY <2>1 DEF ParkedResumes, Resumable
<1>5. PastLastUnclaimed'
  BY <1>1 DEF PastLastUnclaimed
<1>6. GateHolds'
  <2>1. CASE gate' = NoGate
    BY <2>1 DEF GateHolds, Unlocked
  <2>2. CASE gate' = gate /\ ~Unlocked
    <3>1. PICK g \in Roots : /\ g = gate.root /\ Number(g) > 0
                             /\ Latest(g).phase \in {"branch_pushed", "awaiting_grant"}
      BY <2>2 DEF GateHolds, In
    <3>2. Len(ops'[g]) = Len(ops[g]) /\ Len(ops[g]) > 0 /\ Len(ops[g]) \in DOMAIN ops[g]
      BY <1>1, <3>1, LatestTyped DEF Number
    <3>3. ops'[g][Len(ops'[g])].phase \in {"branch_pushed", "awaiting_grant"}
      <4> DEFINE n == Len(ops[g])
      <4>1. ops'[g][n] = IF g = r /\ n = k THEN o ELSE ops[g][n]
        BY <1>1, <3>2
      <4>2. ops[g][n].phase \in {"branch_pushed", "awaiting_grant"}
        BY <3>1 DEF Latest, Number
      <4>3. g = r /\ n = k => o.phase = ops[g][n].phase
        BY <2>2, <4>2, LandingAssumption DEF Unlocked
      <4> HIDE DEF n
      <4>4. ops'[g][n].phase \in {"branch_pushed", "awaiting_grant"}
        BY <4>1, <4>2, <4>3
      <4> QED BY <3>2, <4>4 DEF n
    <3> QED BY <2>2, <3>1, <3>2, <3>3 DEF GateHolds, In, Latest, Number
  <2>3. CASE gate' = gate /\ Unlocked
    BY <2>3 DEF GateHolds, Unlocked
  <2> QED BY <2>1, <2>2, <2>3
<1> QED BY <1>3, <1>4, <1>5, <1>6

\* A step that leaves the operations alone keeps the types.
LEMMA StaysTyped ==
  ASSUME Typed, Rest, UNCHANGED <<ops, wire>>, main' \in Seq(Commits),
         evidence' \subseteq Evidence, \A e \in evidence' : e.of \in Ops,
         \/ gate' \in {gate, NoGate}
         \/ \E r \in Roots : GateOpen(r)
  PROVE  Typed'
<1> USE DEF Typed, Types
<1>1. Ops' = Ops
  BY DEF Ops
<1>2. gate' \in [root : Roots \cup {Nobody}, history : Histories]
  BY HistoryFacts DEF NoGate, Histories, GateOpen
<1>3. Types'
  BY <1>1, <1>2 DEF Rest
<1>4. ParkedResumes' /\ PastLastUnclaimed'
  BY DEF ParkedResumes, PastLastUnclaimed
<1>5. GateHolds'
  BY DEF GateHolds, Unlocked, GateOpen, In, Number, Latest
<1> QED BY <1>3, <1>4, <1>5

\* The first state has its types.
LEMMA TypedInit == Init => Typed
<1> SUFFICES ASSUME Init PROVE Typed
  OBVIOUS
<1>1. main \in Seq(Commits) /\ ops \in [Roots -> Seq(Operation)] /\ \A r \in Roots : DOMAIN ops[r] = {}
  <2>1. <<>> \in Seq(Commits) /\ <<>> \in Seq(Operation) /\ DOMAIN <<>> = {}
    BY EmptySeq
  <2> QED BY <2>1 DEF Init
<1>2. NoGate \in [root : Roots \cup {Nobody}, history : Histories]
  BY DEF NoGate, Histories
<1>3. Types
  BY <1>1, <1>2, LandingAssumption DEF Init, Types, Readings
<1> QED BY <1>1, <1>3 DEF Typed, ParkedResumes, PastLastUnclaimed, GateHolds, Unlocked, Init

\* Every step keeps the types.
LEMMA TypedStep ==
  ASSUME Typed, [Next]_vars
  PROVE  Typed'
<1> USE DEF Typed, Types
<1>1. Rest
  BY RestTyped
<1>2. CASE Stays
  BY <1>1, <1>2, StaysTyped DEF Stays
<1>3. CASE MainMoves
  <2>1. main' \in Seq(Commits)
    <3>1. main \in Seq(Commits)
      OBVIOUS
    <3>2. ASSUME NEW c \in NotLanded, main' = Append(main, c) PROVE main' \in Seq(Commits)
      BY <3>1, <3>2, AppendProperties DEF NotLanded
    <3>3. ASSUME Len(main) > 0, main' = Front(main) PROVE main' \in Seq(Commits)
      BY <3>1, <3>3, FrontFacts
    <3> QED BY <1>3, <3>2, <3>3 DEF MainMoves
  <2> QED BY <1>1, <1>3, <2>1, StaysTyped DEF MainMoves
<1>4. CASE Tick
  <2>1. UNCHANGED <<main, gate, wire, evidence>>
    BY <1>4 DEF Tick
  <2>2. /\ ops' \in [Roots -> Seq(Operation)] /\ Ops' = Ops
        /\ \A s \in Roots : DOMAIN ops'[s] = DOMAIN ops[s] /\ Len(ops'[s]) = Len(ops[s])
        /\ \A s \in Roots : \A j \in DOMAIN ops[s] :
              ops'[s][j].phase = ops[s][j].phase /\ ops'[s][j].resume = ops[s][j].resume
              /\ ops'[s][j].base = ops[s][j].base
    <3>1. \A o \in Operation : LET b == [o EXCEPT !.age = o.age + 1]
             IN  b.phase = o.phase /\ b.resume = o.resume /\ b.base = o.base
      BY DEF Operation
    <3>2. /\ ops' \in [Roots -> Seq(Operation)] /\ Ops' = Ops
          /\ \A s \in Roots : DOMAIN ops'[s] = DOMAIN ops[s] /\ Len(ops'[s]) = Len(ops[s])
          /\ \A s \in Roots : \A j \in DOMAIN ops[s] :
               ops'[s][j] = IF AtMain(ops[s][j]) /\ ops[s][j].age < MainFence
                            THEN [ops[s][j] EXCEPT !.age = ops[s][j].age + 1] ELSE ops[s][j]
      BY <1>4, TickFacts
    <3>3. \A s \in Roots : \A j \in DOMAIN ops[s] : ops[s][j] \in Operation
      BY OpsFacts
    <3> QED BY <3>1, <3>2, <3>3
  <2>3. Types'
    BY <1>1, <2>1, <2>2 DEF Rest
  <2>4. ParkedResumes' /\ PastLastUnclaimed'
    <3>1. ASSUME NEW s \in Roots, NEW j \in DOMAIN ops'[s], ops'[s][j].phase = "parked"
          PROVE  ops'[s][j].resume \in Resumable
      BY <2>2, <3>1 DEF ParkedResumes
    <3>2. ASSUME NEW s \in Roots, NEW j \in DOMAIN ops'[s], j > MaxOps
          PROVE  Unclaimed(ops'[s][j])
      BY <2>2, <3>2 DEF PastLastUnclaimed, Unclaimed
    <3> QED BY <3>1, <3>2 DEF ParkedResumes, PastLastUnclaimed, Unclaimed, Resumable
  <2>5. ASSUME NEW g \in Roots, In(g, {"branch_pushed", "awaiting_grant"})
        PROVE  In(g, {"branch_pushed", "awaiting_grant"})'
    BY <2>2, <2>5, LatestTyped DEF In, Number, Latest
  <2>6. GateHolds'
    BY <2>1, <2>5 DEF GateHolds, Unlocked
  <2> QED BY <2>3, <2>4, <2>6
<1>5. ASSUME NEW r \in Roots, MovesEarly(r) PROVE Typed'
  <2>1. PICK o \in Operation : Early(Latest(r), o) /\ Sets(r, Number(r), o)
    BY <1>5 DEF MovesEarly
  <2>2. Number(r) > 0 /\ Latest(r) = ops[r][Number(r)] /\ Number(r) \in DOMAIN ops[r]
    BY <1>5, LatestTyped DEF MovesEarly
  <2>3. Number(r) > MaxOps => Unclaimed(o)
    BY <2>1, <2>2 DEF PastLastUnclaimed, Unclaimed, Early, BeforeMain
  <2> QED BY <1>1, <1>5, <2>1, <2>3, SetsTyped DEF MovesEarly, Early
<1>6. ASSUME NEW r \in Roots, OpensNext(r) PROVE Typed'
  <2>1. PICK o \in Operation :
          /\ (o = NewOp /\ Number(r) < MaxOps) \/ \E why \in {"in_main", "reverted", "bound"} : o = BornFailed(why)
          /\ Opens(r, o)
    BY <1>6 DEF OpensNext
  <2>2. /\ ops' \in [Roots -> Seq(Operation)]
        /\ ops'[r][Len(ops[r]) + 1] = o
        /\ \A s \in Roots : \A j \in DOMAIN ops[s] : ops'[s][j] = ops[s][j]
        /\ \A s \in Roots : \A j \in DOMAIN ops'[s] :
             j \in DOMAIN ops[s] \/ (s = r /\ j = Len(ops[r]) + 1)
        /\ Ops \subseteq Ops'
    BY <2>1, OpensFacts
  <2>3. UNCHANGED <<main, gate, wire, evidence>> /\ Unlocked
    BY <1>6 DEF OpensNext
  <2>4. Types'
    BY <1>1, <2>2, <2>3 DEF Rest
  <2>5. o.phase # "parked" /\ (Len(ops[r]) + 1 > MaxOps => Unclaimed(o))
    <3>1. Len(ops[r]) \in Nat
      BY OpsFacts
    <3>2. CASE o = NewOp /\ Number(r) < MaxOps
      <4>1. o.phase # "parked"
        BY <3>2 DEF NewOp
      <4>2. ~(Len(ops[r]) + 1 > MaxOps)
        BY <3>1, <3>2, LandingAssumption DEF Number
      <4> QED BY <4>1, <4>2
    <3>3. ASSUME NEW why, o = BornFailed(why) PROVE o.phase # "parked" /\ Unclaimed(o)
      BY <3>3 DEF BornFailed, NewOp, Unclaimed
    <3> QED BY <2>1, <3>2, <3>3
  <2>6. ParkedResumes'
    <3>1. ASSUME NEW s \in Roots, NEW j \in DOMAIN ops'[s], ops'[s][j].phase = "parked"
          PROVE  ops'[s][j].resume \in Resumable
      BY <2>2, <2>5, <3>1 DEF ParkedResumes
    <3> QED BY <3>1 DEF ParkedResumes, Resumable
  <2>7. PastLastUnclaimed'
    BY <2>2, <2>5 DEF PastLastUnclaimed
  <2>8. GateHolds'
    BY <2>3 DEF GateHolds, Unlocked
  <2> QED BY <2>4, <2>6, <2>7, <2>8
<1>7. ASSUME NEW r \in Roots, Replays(r) PROVE Typed'
  <2> DEFINE o == [Latest(r) EXCEPT !.phase = "prepared", !.base = main]
  <2>1. Number(r) > 0 /\ Latest(r).phase = "claimed" /\ Sets(r, Number(r), o)
    BY <1>7 DEF Replays, In
  <2>2. Latest(r) \in Operation /\ Latest(r) = ops[r][Number(r)] /\ Number(r) \in DOMAIN ops[r]
    BY <2>1, LatestTyped
  <2>3. o.phase = "prepared" /\ (Number(r) > MaxOps => Unclaimed(o))
    BY <2>1, <2>2 DEF PastLastUnclaimed, Unclaimed, Operation
  <2>4. gate' = NoGate /\ UNCHANGED <<main, wire, evidence>>
    BY <1>7 DEF Replays, Unlocked
  <2> HIDE DEF o
  <2> QED BY <1>1, <2>1, <2>3, <2>4, SetsTyped
<1>8. ASSUME NEW r \in Roots, Intends(r) PROVE Typed'
  <2> DEFINE o == [Latest(r) EXCEPT !.phase = "main_intent", !.age = 0,
                                    !.push = "licensed", !.granted = FALSE]
  <2>1. Number(r) > 0 /\ Latest(r).phase \in {"branch_pushed", "awaiting_grant"} /\ Sets(r, Number(r), o)
    BY <1>8 DEF Intends, In
  <2>2. Latest(r) \in Operation /\ Latest(r) = ops[r][Number(r)] /\ Number(r) \in DOMAIN ops[r]
    BY <2>1, LatestTyped
  <2>3. o.phase = "main_intent" /\ (Number(r) > MaxOps => Unclaimed(o))
    BY <2>1, <2>2 DEF PastLastUnclaimed, Unclaimed, Operation
  <2>4. gate' = NoGate /\ UNCHANGED <<main, wire, evidence>>
    BY <1>8 DEF Intends
  <2> HIDE DEF o
  <2> QED BY <1>1, <2>1, <2>3, <2>4, SetsTyped
<1>9. ASSUME NEW r \in Roots, GateOpen(r) PROVE Typed'
  BY <1>1, <1>9, StaysTyped DEF GateOpen
<1>10. ASSUME NEW r \in Roots, NEW k \in DOMAIN ops[r], MovesLate(r, k) PROVE Typed'
  <2>1. PICK o \in Operation : Late(ops[r][k], o) /\ Sets(r, k, o)
    BY <1>10 DEF MovesLate
  <2>2. o.phase = "parked" => o.resume \in Resumable
    BY <2>1 DEF Late, ParkedResumes, Resumable
  <2>3. k > MaxOps => Unclaimed(o)
    BY <2>1 DEF Late, PastLastUnclaimed, Unclaimed
  <2>4. ops[r][k].phase \in {"branch_pushed", "awaiting_grant"} => o.phase = ops[r][k].phase
    BY <2>1 DEF Late
  <2> QED BY <1>1, <1>10, <2>1, <2>2, <2>3, <2>4, SetsTyped DEF MovesLate
<1>11. ASSUME NEW r \in Roots, NEW k \in DOMAIN ops[r], NEW p, Sets(r, k, [ops[r][k] EXCEPT !.push = p]),
              main' \in Seq(Commits), wire' \subseteq Ops, UNCHANGED <<gate, evidence>>
       PROVE Typed'
  <2> DEFINE o == [ops[r][k] EXCEPT !.push = p]
  <2>1. ops[r][k] \in Operation
    BY OpsFacts
  <2>2. o.phase = ops[r][k].phase /\ o.resume = ops[r][k].resume /\ o.base = ops[r][k].base
    BY <2>1 DEF Operation
  <2>3. /\ o.phase = "parked" => o.resume \in Resumable
        /\ k > MaxOps => Unclaimed(o)
    BY <2>2 DEF ParkedResumes, Resumable, PastLastUnclaimed, Unclaimed
  <2> HIDE DEF o
  <2>4. Sets(r, k, o)
    BY <1>11 DEF o
  <2> QED BY <1>1, <1>11, <2>2, <2>3, <2>4, SetsTyped
<1>12. ASSUME NEW r \in Roots, NEW k \in DOMAIN ops[r], Sends(r, k) PROVE Typed'
  BY <1>11, <1>12 DEF Sends, Send
<1>13. ASSUME NEW r \in Roots, NEW k \in DOMAIN ops[r], Takes(r, k) PROVE Typed'
  <2>1. ops[r][k].base \in Seq(Commits) /\ Landing(r, k) \in Commits
    <3>1. ops[r][k] \in Operation /\ k \in Nat
      BY OpsFacts
    <3> QED BY <3>1 DEF Operation, Landing, Commits
  <2>2. main' \in Seq(Commits)
    BY <1>13, <2>1, AppendProperties DEF Takes, R
  <2> QED BY <1>11, <1>13, <2>2 DEF Takes
<1>14. ASSUME NEW r \in Roots, NEW k \in DOMAIN ops[r], Refuses(r, k) PROVE Typed'
  BY <1>11, <1>14 DEF Refuses
<1>15. ASSUME NEW r \in Roots, NEW k \in DOMAIN ops[r], ReadMain(r, k) PROVE Typed'
  <2>1. ops[r][k] \in Operation /\ k \in Nat /\ <<r, k>> \in Ops
    BY OpsFacts
  <2>2. ReadEvidence(r, k) \in Evidence /\ ReadEvidence(r, k).of = <<r, k>>
    <3>1. ops[r][k].phase \in Phases /\ ops[r][k].outcome \in Outcomes
      BY <2>1 DEF Operation
    <3>2. InMain(r, k) \in BOOLEAN /\ Fenced(ops[r][k]) \in BOOLEAN
      BY DEF InMain, IsPrefix, Fenced
    <3> QED BY <2>1, <3>1, <3>2 DEF ReadEvidence, Evidence
  <2>3. evidence' = evidence \cup {ReadEvidence(r, k)} /\ UNCHANGED <<main, ops, gate, wire>>
    BY <1>15 DEF ReadMain
  <2> QED BY <1>1, <2>1, <2>2, <2>3, StaysTyped
<1>16. ASSUME NEW e \in evidence, Writes(e) PROVE Typed'
  <2> DEFINE r == e.of[1]
             k == e.of[2]
             o == Reconciled(ops[r][k], e)
  <2>1. /\ r \in Roots /\ k \in DOMAIN ops[r] /\ ops[r][k] \in Operation
        /\ evidence' \subseteq evidence /\ UNCHANGED <<main, gate, wire>>
    BY <1>16, OpsFacts DEF Writes
  <2>2. CASE UNCHANGED ops
    BY <1>1, <2>1, <2>2, StaysTyped
  <2>3. CASE Sets(r, k, o)
    <3>1. /\ o.resume = ops[r][k].resume /\ o.base = ops[r][k].base
          /\ ops[r][k].phase \in BeforeMain \cup {"failed"} => o.phase = ops[r][k].phase
          /\ o.phase = "parked" => ops[r][k].phase = "parked"
      BY <2>1 DEF Reconciled, Operation, Unsettled, BeforeMain
    <3>2. /\ o.phase = "parked" => o.resume \in Resumable
          /\ k > MaxOps => Unclaimed(o)
          /\ ops[r][k].phase \in {"branch_pushed", "awaiting_grant"} => o.phase = ops[r][k].phase
      BY <2>1, <3>1 DEF ParkedResumes, Resumable, PastLastUnclaimed, Unclaimed, BeforeMain
    <3> HIDE DEF o
    <3> QED BY <1>1, <2>1, <2>3, <3>2, SetsTyped
  <2> QED BY <1>16, <2>2, <2>3 DEF Writes
<1> QED BY <1>2, <1>3, <1>4, <1>5, <1>6, <1>7, <1>8, <1>9, <1>10, <1>12, <1>13, <1>14, <1>15, <1>16,
           Shapes DEF Shape

\* The types and the order of a root's operations, for every number of roots
\* and operations: claimed MaxOps times at most (drill.go:198).
THEOREM LandingTypeCorrect == LandingSpec => []LandingTypeOK
<1>1. Typed => LandingTypeOK
  BY DEF Typed, Types, LandingTypeOK, PastLastUnclaimed
<1>2. Typed /\ [Next]_vars => Typed'
  BY TypedStep
<1> QED BY <1>1, <1>2, TypedInit, PTL DEF LandingSpec

-----------------------------------------------------------------------------
(* One landing at main.                                                    *)

\* An operation set to one that is no nearer to main leaves no root nearer.
LEMMA SetsNoNearer ==
  ASSUME Typed, NEW r, NEW k, NEW o, Sets(r, k, o), AtMain(o) => AtMain(ops[r][k]),
         NEW s \in Roots, IsAtMain(s)'
  PROVE  IsAtMain(s)
<1> DEFINE n == Len(ops[s])
<1>1. ops \in [Roots -> Seq(Operation)]
  BY DEF Typed, Types
<1>2. Len(ops'[s]) = n /\ \A j \in DOMAIN ops[s] : ops'[s][j] = IF s = r /\ j = k THEN o ELSE ops[s][j]
  BY <1>1, SetsFacts
<1>3. n \in Nat /\ DOMAIN ops[s] = 1..n
  BY <1>1, OpsFacts
<1>4. n > 0 /\ AtMain(ops'[s][n])
  BY <1>2 DEF IsAtMain, Number, Latest
<1> HIDE DEF n
<1>5. n \in DOMAIN ops[s] /\ AtMain(ops[s][n])
  BY <1>2, <1>3, <1>4
<1> QED BY <1>4, <1>5 DEF IsAtMain, Number, Latest, n

\* No two roots are at main: only a gate lets one go there, when no other is,
\* and no step brings one back that main had settled.
LEMMA AtMainAloneStep ==
  ASSUME Typed, AtMainAlone, [Next]_vars
  PROVE  AtMainAlone'
<1>0. ops \in [Roots -> Seq(Operation)]
  BY DEF Typed, Types
<1>1. ASSUME \A s \in Roots : IsAtMain(s)' => IsAtMain(s) PROVE AtMainAlone'
  BY <1>1 DEF AtMainAlone
<1>2. ASSUME UNCHANGED ops PROVE AtMainAlone'
  BY <1>2 DEF AtMainAlone, IsAtMain, Number, Latest
<1>3. ASSUME NEW r, NEW k, NEW o, Sets(r, k, o), AtMain(o) => AtMain(ops[r][k])
      PROVE  AtMainAlone'
  BY <1>1, <1>3, SetsNoNearer
<1>4. CASE Stays \/ MainMoves
  BY <1>2, <1>4 DEF Stays, MainMoves
<1>5. CASE Tick
  <2>1. ASSUME NEW s \in Roots, IsAtMain(s)' PROVE IsAtMain(s)
    <3> DEFINE n == Len(ops[s])
    <3>1. n \in Nat /\ DOMAIN ops[s] = 1..n /\ \A j \in DOMAIN ops[s] : ops[s][j] \in Operation
      BY <1>0, OpsFacts
    <3>2. Len(ops'[s]) = n /\ \A j \in DOMAIN ops[s] :
            ops'[s][j] = IF AtMain(ops[s][j]) /\ ops[s][j].age < MainFence
                           THEN [ops[s][j] EXCEPT !.age = @ + 1] ELSE ops[s][j]
      BY <1>0, <1>5, TickFacts
    <3>3. n > 0 /\ AtMain(ops'[s][n])
      BY <2>1, <3>2 DEF IsAtMain, Number, Latest
    <3> HIDE DEF n
    <3>4. ASSUME ~AtMain(ops[s][n]) PROVE FALSE
      <4>1. n \in DOMAIN ops[s]
        BY <3>1, <3>3
      <4>2. ops'[s][n] = ops[s][n]
        BY <3>2, <3>4, <4>1
      <4> QED BY <3>3, <3>4, <4>2
    <3> QED BY <3>3, <3>4 DEF IsAtMain, Number, Latest, n
  <2> QED BY <1>1, <2>1
<1>6. ASSUME NEW r \in Roots, MovesEarly(r) PROVE AtMainAlone'
  <2>1. PICK o \in Operation : Early(Latest(r), o) /\ Sets(r, Number(r), o)
    BY <1>6 DEF MovesEarly
  <2>2. ~AtMain(o)
    BY <2>1 DEF Early, AtMain, BeforeMain
  <2> QED BY <1>3, <2>1, <2>2
<1>7. ASSUME NEW r \in Roots, OpensNext(r) PROVE AtMainAlone'
  <2>1. PICK o \in Operation :
          /\ o = NewOp \/ \E why \in {"in_main", "reverted", "bound"} : o = BornFailed(why)
          /\ Opens(r, o)
    BY <1>7 DEF OpensNext
  <2>2. ~AtMain(o)
    BY <2>1, BornFacts DEF AtMain
  <2>3. /\ Len(ops'[r]) = Len(ops[r]) + 1 /\ ops'[r][Len(ops[r]) + 1] = o
        /\ \A s \in Roots : s # r => ops'[s] = ops[s]
    BY <1>0, <2>1, OpensFacts
  <2>4. ~IsAtMain(r)'
    BY <2>2, <2>3 DEF IsAtMain, Number, Latest
  <2>5. ASSUME NEW s \in Roots, IsAtMain(s)' PROVE IsAtMain(s)
    BY <2>3, <2>4, <2>5 DEF IsAtMain, Number, Latest
  <2> QED BY <1>1, <2>5
<1>8. ASSUME NEW r \in Roots, Replays(r) PROVE AtMainAlone'
  <2> DEFINE o == [Latest(r) EXCEPT !.phase = "prepared", !.base = main]
  <2>1. Sets(r, Number(r), o) /\ Latest(r) \in Operation
    BY <1>8, LatestTyped DEF Replays, In
  <2>2. ~AtMain(o)
    BY <2>1 DEF AtMain, Operation
  <2> HIDE DEF o
  <2> QED BY <1>3, <2>1, <2>2
<1>9. ASSUME NEW r \in Roots, Intends(r) PROVE AtMainAlone'
  <2>1. PICK o : Sets(r, Number(r), o)
    BY <1>9 DEF Intends
  <2>2. ASSUME NEW s \in Roots, s # r PROVE ~IsAtMain(s) /\ ops'[s] = ops[s]
    <3>1. SlotFree(r)
      BY <1>9 DEF Intends, GateAllows
    <3>2. AtMain(Latest(s)) => HoldsSlot(Latest(s))
      BY DEF AtMain, HoldsSlot, Terminal
    <3>3. ~IsAtMain(s)
      BY <2>2, <3>1, <3>2 DEF SlotFree, OthersAtMain, OthersHoldSlot, IsAtMain
    <3>4. ops'[s] = ops[s]
      BY <1>0, <2>1, <2>2 DEF Sets
    <3> QED BY <3>3, <3>4
  <2>3. \A s \in Roots : s # r => ~IsAtMain(s)'
    BY <2>2 DEF IsAtMain, Number, Latest
  <2> QED BY <2>3 DEF AtMainAlone
<1>10. ASSUME NEW r \in Roots, GateOpen(r) PROVE AtMainAlone'
  BY <1>2, <1>10 DEF GateOpen
<1>11. ASSUME NEW r \in Roots, NEW k \in DOMAIN ops[r], MovesLate(r, k) PROVE AtMainAlone'
  <2>1. PICK o \in Operation : Late(ops[r][k], o) /\ Sets(r, k, o)
    BY <1>11 DEF MovesLate
  <2>2. AtMain(o) => AtMain(ops[r][k])
    BY <2>1 DEF Late, AtMain
  <2> QED BY <1>3, <2>1, <2>2
<1>12. ASSUME NEW r \in Roots, NEW k \in DOMAIN ops[r], NEW p, Sets(r, k, [ops[r][k] EXCEPT !.push = p])
       PROVE AtMainAlone'
  <2>1. ops[r][k] \in Operation
    BY <1>0, OpsFacts
  <2>2. AtMain([ops[r][k] EXCEPT !.push = p]) => AtMain(ops[r][k])
    BY <2>1 DEF AtMain, Operation
  <2> QED BY <1>3, <1>12, <2>2
<1>13. ASSUME NEW r \in Roots, NEW k \in DOMAIN ops[r], Sends(r, k) \/ Takes(r, k) \/ Refuses(r, k)
       PROVE AtMainAlone'
  BY <1>12, <1>13 DEF Sends, Takes, Refuses
<1>14. ASSUME NEW r \in Roots, NEW k \in DOMAIN ops[r], ReadMain(r, k) PROVE AtMainAlone'
  BY <1>2, <1>14 DEF ReadMain
<1>15. ASSUME NEW e \in evidence, Writes(e) PROVE AtMainAlone'
  <2> DEFINE r == e.of[1]
             k == e.of[2]
             o == Reconciled(ops[r][k], e)
  <2>1. ops[r][k] \in Operation
    BY <1>0, OpsFacts DEF Typed, Types
  <2>2. CASE Sets(r, k, o)
    <3>1. AtMain(o) => AtMain(ops[r][k])
      BY <2>1 DEF Reconciled, AtMain, Operation, Unsettled
    <3> HIDE DEF o
    <3> QED BY <1>3, <2>2, <3>1
  <2> QED BY <1>2, <1>15, <2>2 DEF Writes
<1> QED BY <1>4, <1>5, <1>6, <1>7, <1>8, <1>9, <1>10, <1>11, <1>13, <1>14, <1>15, Shapes DEF Shape

\* A set whose members are all the same has at most one.
LEMMA AtMostOne ==
  ASSUME NEW S, \A x, y \in S : x = y
  PROVE  Cardinality(S) <= 1
<1>1. CASE S = {}
  BY <1>1, FS_EmptySet
<1>2. ASSUME NEW x \in S PROVE Cardinality(S) <= 1
  <2>1. S = {x}
    OBVIOUS
  <2> QED BY <2>1, FS_Singleton
<1> QED BY <1>1, <1>2

\* One landing at a time asks for main, of any number of roots, whatever slots
\* were taken on old reads and whatever grants pass others (landingfacts.go:89).
THEOREM LandsOneAtATime == LandingSpec => []OneAtMain
<1>1. Init => AtMainAlone
  BY EmptySeq DEF Init, AtMainAlone, IsAtMain, Number
<1>2. Typed /\ AtMainAlone /\ [Next]_vars => Typed' /\ AtMainAlone'
  BY TypedStep, AtMainAloneStep
<1>3. AtMainAlone => OneAtMain
  BY AtMostOne DEF AtMainAlone, IsAtMain, OneAtMain
<1> QED BY <1>1, <1>2, <1>3, TypedInit, PTL DEF LandingSpec

-----------------------------------------------------------------------------
(* A change lands once.                                                    *)

\* No operation is opened or replayed, and one asks for main through the gate.
KeepsOps ==
  \A s \in Roots :
    /\ DOMAIN ops'[s] = DOMAIN ops[s] /\ Len(ops'[s]) = Len(ops[s])
    /\ \A j \in DOMAIN ops[s] :
         /\ ops'[s][j].base = ops[s][j].base
         /\ ops'[s][j].phase = "main_intent" =>
              ops[s][j].phase = "main_intent" \/ (Intends(s) /\ j = Number(s))
         /\ <<s, j>> \in wire' => <<s, j>> \in wire \/ Sends(s, j)
         /\ ops'[s][j].phase \in BeforeMain => ops[s][j].phase \in BeforeMain
         /\ \/ ops'[s][j].age \in {ops[s][j].age, ops[s][j].age + 1}
            \/ ops[s][j].phase \in BeforeMain

\* Only OpensNext and Replays give an operation a base.
LEMMA BaseSteps ==
  ASSUME Typed, [Next]_vars
  PROVE  KeepsOps \/ \E r \in Roots : OpensNext(r) \/ Replays(r)
<1> SUFFICES ASSUME ~ \E r \in Roots : OpensNext(r) \/ Replays(r) PROVE KeepsOps
  OBVIOUS
<1>0. ops \in [Roots -> Seq(Operation)]
  BY DEF Typed, Types
<1>1. ASSUME UNCHANGED <<ops, wire>> PROVE KeepsOps
  BY <1>1 DEF KeepsOps
<1>2. ASSUME NEW r, NEW k, NEW o, Sets(r, k, o), o.base = ops[r][k].base,
             o.phase = "main_intent" =>
               ops[r][k].phase = "main_intent" \/ (Intends(r) /\ k = Number(r)),
             o.phase \in BeforeMain => ops[r][k].phase \in BeforeMain,
             o.age = ops[r][k].age \/ ops[r][k].phase \in BeforeMain,
             wire' \subseteq wire \/ (wire' = wire \cup {<<r, k>>} /\ Sends(r, k))
      PROVE  KeepsOps
  <2>1. /\ \A s \in Roots : DOMAIN ops'[s] = DOMAIN ops[s] /\ Len(ops'[s]) = Len(ops[s])
        /\ \A s \in Roots : \A j \in DOMAIN ops[s] :
              ops'[s][j] = IF s = r /\ j = k THEN o ELSE ops[s][j]
    BY <1>0, <1>2, SetsFacts
  <2>2. ASSUME NEW s \in Roots, NEW j \in DOMAIN ops[s], s = r /\ j = k
        PROVE  /\ ops'[s][j].base = ops[s][j].base
               /\ ops'[s][j].phase = "main_intent" =>
                    ops[s][j].phase = "main_intent" \/ (Intends(s) /\ j = Number(s))
               /\ <<s, j>> \in wire' => <<s, j>> \in wire \/ Sends(s, j)
               /\ ops'[s][j].phase \in BeforeMain => ops[s][j].phase \in BeforeMain
               /\ ops'[s][j].age = ops[s][j].age \/ ops[s][j].phase \in BeforeMain
    BY <1>2, <2>1, <2>2
  <2>3. ASSUME NEW s \in Roots, NEW j \in DOMAIN ops[s], ~(s = r /\ j = k)
        PROVE  /\ ops'[s][j] = ops[s][j]
               /\ <<s, j>> \in wire' => <<s, j>> \in wire
    BY <1>2, <2>1, <2>3
  <2> QED BY <2>1, <2>2, <2>3 DEF KeepsOps
<1>3. CASE Stays \/ MainMoves
  BY <1>1, <1>3 DEF Stays, MainMoves
<1>4. CASE Tick
  <2>1. /\ \A s \in Roots : DOMAIN ops'[s] = DOMAIN ops[s] /\ Len(ops'[s]) = Len(ops[s])
        /\ \A s \in Roots : \A j \in DOMAIN ops[s] :
              ops'[s][j] = IF AtMain(ops[s][j]) /\ ops[s][j].age < MainFence
                           THEN [ops[s][j] EXCEPT !.age = @ + 1] ELSE ops[s][j]
    BY <1>0, <1>4, TickFacts
  <2>2. \A o \in Operation : /\ [o EXCEPT !.age = o.age + 1].base = o.base
                            /\ [o EXCEPT !.age = o.age + 1].phase = o.phase
                            /\ [o EXCEPT !.age = o.age + 1].age = o.age + 1
    BY DEF Operation
  <2>3. \A s \in Roots : \A j \in DOMAIN ops[s] : ops[s][j] \in Operation
    BY <1>0, OpsFacts
  <2>4. wire' = wire
    BY <1>4 DEF Tick
  <2> QED BY <2>1, <2>2, <2>3, <2>4 DEF KeepsOps
<1>5. ASSUME NEW r \in Roots, MovesEarly(r) PROVE KeepsOps
  <2>1. PICK o \in Operation : Early(Latest(r), o) /\ Sets(r, Number(r), o)
    BY <1>5 DEF MovesEarly
  <2>2. Latest(r) = ops[r][Number(r)]
    BY DEF Latest
  <2>3. /\ o.base = ops[r][Number(r)].base /\ o.phase # "main_intent"
        /\ ops[r][Number(r)].phase \in BeforeMain
    BY <2>1, <2>2 DEF Early, BeforeMain
  <2> QED BY <1>2, <1>5, <2>1, <2>3 DEF MovesEarly
<1>6. ASSUME NEW r \in Roots, Intends(r) PROVE KeepsOps
  <2> DEFINE o == [Latest(r) EXCEPT !.phase = "main_intent", !.age = 0,
                                    !.push = "licensed", !.granted = FALSE]
  <2>1. Sets(r, Number(r), o) /\ Latest(r) \in Operation /\ wire' = wire
    BY <1>6, LatestTyped DEF Intends, In
  <2>2. /\ o.base = ops[r][Number(r)].base /\ o.phase \notin BeforeMain
        /\ ops[r][Number(r)].phase \in BeforeMain
    BY <1>6, <2>1 DEF Operation, Latest, BeforeMain, Intends, In
  <2> HIDE DEF o
  <2> QED BY <1>2, <1>6, <2>1, <2>2
<1>7. ASSUME NEW r \in Roots, GateOpen(r) PROVE KeepsOps
  BY <1>1, <1>7 DEF GateOpen
<1>8. ASSUME NEW r \in Roots, NEW k \in DOMAIN ops[r], MovesLate(r, k) PROVE KeepsOps
  <2>1. PICK o \in Operation : Late(ops[r][k], o) /\ Sets(r, k, o)
    BY <1>8 DEF MovesLate
  <2>2. /\ o.base = ops[r][k].base /\ (o.phase = "main_intent" => ops[r][k].phase = "main_intent")
        /\ o.phase \in BeforeMain => ops[r][k].phase \in BeforeMain
        /\ o.age = ops[r][k].age
    BY <2>1 DEF Late, BeforeMain
  <2>3. wire' = wire
    BY <1>8 DEF MovesLate
  <2> QED BY <1>2, <2>1, <2>2, <2>3
<1>9. ASSUME NEW r \in Roots, NEW k \in DOMAIN ops[r], NEW p,
             Sets(r, k, [ops[r][k] EXCEPT !.push = p]),
             wire' \subseteq wire \/ (wire' = wire \cup {<<r, k>>} /\ Sends(r, k))
      PROVE  KeepsOps
  <2> DEFINE o == [ops[r][k] EXCEPT !.push = p]
  <2>1. ops[r][k] \in Operation
    BY <1>0, OpsFacts
  <2>2. o.base = ops[r][k].base /\ o.phase = ops[r][k].phase /\ o.age = ops[r][k].age
    BY <2>1 DEF Operation
  <2>3. Sets(r, k, o)
    BY <1>9
  <2> HIDE DEF o
  <2> QED BY <1>2, <1>9, <2>2, <2>3
<1>10. ASSUME NEW r \in Roots, NEW k \in DOMAIN ops[r], Sends(r, k) \/ Takes(r, k) \/ Refuses(r, k)
       PROVE  KeepsOps
  BY <1>9, <1>10 DEF Sends, Send, Takes, Refuses
<1>11. ASSUME NEW r \in Roots, NEW k \in DOMAIN ops[r], ReadMain(r, k) PROVE KeepsOps
  BY <1>1, <1>11 DEF ReadMain
<1>12. ASSUME NEW e \in evidence, Writes(e) PROVE KeepsOps
  <2> DEFINE r == e.of[1]
             k == e.of[2]
             o == Reconciled(ops[r][k], e)
  <2>1. ops[r][k] \in Operation
    BY <1>0, OpsFacts DEF Typed, Types
  <2>2. wire' = wire
    BY <1>12 DEF Writes
  <2>3. CASE Sets(r, k, o)
    <3>1. /\ o.base = ops[r][k].base /\ (o.phase = "main_intent" => ops[r][k].phase = "main_intent")
          /\ o.phase \in BeforeMain => ops[r][k].phase \in BeforeMain
          /\ o.age = ops[r][k].age
      BY <2>1 DEF Reconciled, Operation, BeforeMain
    <3> HIDE DEF o
    <3> QED BY <1>2, <2>2, <2>3, <3>1
  <2> QED BY <1>1, <1>12, <2>2, <2>3 DEF Writes
<1> QED BY <1>3, <1>4, <1>5, <1>6, <1>7, <1>8, <1>10, <1>11, <1>12, Shapes DEF Shape

\* Main grows by one commit at most: one of people's, or a push's, whose base it
\* then was.
LEMMA MainGrows ==
  ASSUME Typed, [Next]_vars, ~left.rewinds, BasesOnMain
  PROVE  \/ main' = main
         \/ (\E c \in NotLanded : main' = Append(main, c)) /\ UNCHANGED <<ops, wire, evidence>>
         \/ \E r \in Roots : \E k \in DOMAIN ops[r] :
              Takes(r, k) /\ ops[r][k].base = main /\ main' = Append(main, Landing(r, k))
<1>0. main \in Seq(Commits) /\ ops \in [Roots -> Seq(Operation)]
  BY DEF Typed, Types
<1>1. CASE MainMoves
  BY <1>1 DEF MainMoves
<1>2. ASSUME NEW r \in Roots, NEW k \in DOMAIN ops[r], Takes(r, k)
      PROVE  ops[r][k].base = main /\ main' = Append(main, Landing(r, k))
  <2>1. ops[r][k].base \in Seq(Commits)
    BY <1>0, OpsFacts DEF Operation
  <2>2. IsPrefix(main, ops[r][k].base) /\ IsPrefix(ops[r][k].base, main)
    BY <1>2 DEF Takes, FastForwards, BasesOnMain
  <2>3. ops[r][k].base = main
    BY <1>0, <2>1, <2>2, PrefixBothWays
  <2> QED BY <1>2, <2>3 DEF Takes, R
<1>3. ASSUME Stays \/ Tick PROVE main' = main
  BY <1>3 DEF Stays, Tick
<1>4. ASSUME NEW r \in Roots, MovesEarly(r) \/ OpensNext(r) \/ Replays(r) \/ Intends(r) \/ GateOpen(r)
      PROVE  main' = main
  BY <1>4 DEF MovesEarly, OpensNext, Replays, Intends, GateOpen
<1>5. ASSUME NEW r \in Roots, NEW k \in DOMAIN ops[r],
             MovesLate(r, k) \/ Sends(r, k) \/ Refuses(r, k) \/ ReadMain(r, k)
      PROVE  main' = main
  BY <1>5 DEF MovesLate, Sends, Send, Refuses, ReadMain
<1>6. ASSUME NEW e \in evidence, Writes(e) PROVE main' = main
  BY <1>6 DEF Writes
<1> QED BY <1>1, <1>2, <1>3, <1>4, <1>5, <1>6, Shapes DEF Shape

\* So the main that was is a prefix of the main that is.
LEMMA MainIsPrefix ==
  ASSUME Typed, [Next]_vars, ~left.rewinds, BasesOnMain
  PROVE  main' \in Seq(Commits) /\ IsPrefix(main, main')
<1>1. main \in Seq(Commits) /\ main' \in Seq(Commits)
  BY TypedStep DEF Typed, Types
<1>2. IsPrefix(main, main)
  BY <1>1, PrefixFacts, LenProperties
<1>3. ASSUME NEW r \in Roots, NEW k \in DOMAIN ops[r] PROVE Landing(r, k) \in Commits
  BY OpsFacts DEF Typed, Types, Landing, Commits
<1> QED BY <1>1, <1>2, <1>3, MainGrows, PrefixOfAppend DEF NotLanded

\* Every base is an old one, empty, or main as it is replayed on.
LEMMA WhereBasesComeFrom ==
  ASSUME Typed, [Next]_vars, NEW s \in Roots, NEW j \in DOMAIN ops'[s]
  PROVE  \/ /\ j \in DOMAIN ops[s] /\ ops'[s][j].base = ops[s][j].base
            /\ KeepsOps \/ (ops'[s][j] = ops[s][j] /\ wire' = wire)
         \/ ops'[s][j].base = <<>> /\ <<s, j>> \notin Ops /\ wire' = wire
         \/ /\ ops'[s][j].base = main /\ ops'[s][j].phase = "prepared"
            /\ ops[s][j].phase = "claimed" /\ j \in DOMAIN ops[s]
            /\ HistoryOf(s, main) # "effective" /\ wire' = wire
<1>0. ops \in [Roots -> Seq(Operation)]
  BY DEF Typed, Types
<1>1. ASSUME KeepsOps PROVE j \in DOMAIN ops[s] /\ ops'[s][j].base = ops[s][j].base
  BY <1>1 DEF KeepsOps
<1>2. ASSUME NEW r \in Roots, OpensNext(r)
      PROVE  \/ j \in DOMAIN ops[s] /\ ops'[s][j] = ops[s][j]
             \/ ops'[s][j].base = <<>> /\ <<s, j>> \notin Ops
  <2>1. PICK o \in Operation :
          /\ o = NewOp \/ \E why \in {"in_main", "reverted", "bound"} : o = BornFailed(why)
          /\ Opens(r, o)
    BY <1>2 DEF OpensNext
  <2>2. o.base = <<>>
    BY <2>1, BornFacts
  <2>3. /\ ops'[r][Len(ops[r]) + 1] = o
        /\ \A i \in DOMAIN ops[s] : ops'[s][i] = ops[s][i]
        /\ j \in DOMAIN ops[s] \/ (s = r /\ j = Len(ops[r]) + 1)
        /\ Len(ops[r]) + 1 \notin DOMAIN ops[r]
    BY <1>0, <2>1, OpensFacts
  <2>4. <<s, j>> \in Ops => j \in DOMAIN ops[s]
    BY <1>0, OpsFacts
  <2> QED BY <2>2, <2>3, <2>4
<1>3. ASSUME NEW r \in Roots, Replays(r)
      PROVE  \/ j \in DOMAIN ops[s] /\ ops'[s][j] = ops[s][j]
             \/ /\ ops'[s][j].base = main /\ ops'[s][j].phase = "prepared"
                /\ ops[s][j].phase = "claimed" /\ j \in DOMAIN ops[s]
                /\ HistoryOf(s, main) # "effective"
  <2> DEFINE o == [Latest(r) EXCEPT !.phase = "prepared", !.base = main]
  <2>1. /\ Sets(r, Number(r), o) /\ Latest(r) \in Operation
        /\ Latest(r).phase = "claimed" /\ HistoryOf(r, main) # "effective"
    BY <1>3, LatestTyped DEF Replays, In
  <2>2. o.base = main /\ o.phase = "prepared"
    BY <2>1 DEF Operation
  <2> HIDE DEF o
  <2>3. j \in DOMAIN ops[s] /\ ops'[s][j] = IF s = r /\ j = Number(r) THEN o ELSE ops[s][j]
    BY <1>0, <2>1, SetsFacts
  <2> QED BY <2>1, <2>2, <2>3 DEF Latest
<1>4. ASSUME NEW r \in Roots, OpensNext(r) \/ Replays(r) PROVE wire' = wire
  BY <1>4 DEF OpensNext, Replays
<1> QED BY <1>1, <1>2, <1>3, <1>4, BaseSteps

\* Nothing is about a root in no commits.
LEMMA NoHistory == \A r : HistoryOf(r, <<>>) = "never"
BY HistoryFacts

\* A step opens no operation on a main where its change is in effect; over a
\* main never rewound, what the gate reads of main, and the gate lets through
\* only on an unmoved main, is so of the operation's base.
LEMMA FreshStep ==
  ASSUME Typed, Fresh, [Next]_vars
  PROVE  Fresh'
<1>0. /\ main \in Seq(Commits) /\ ops \in [Roots -> Seq(Operation)] /\ wire \subseteq Ops
      /\ Rest /\ Typed'
  BY RestTyped, TypedStep DEF Typed, Types
<1>1. ASSUME NEW s \in Roots, NEW j \in DOMAIN ops'[s]
      PROVE  HistoryOf(s, ops'[s][j].base) # "effective"
  BY <1>1, WhereBasesComeFrom, NoHistory DEF Fresh, BasesClean
<1>2. ASSUME NEW s \in Roots, NEW j \in DOMAIN ops'[s], <<s, j>> \in wire'
      PROVE  ops'[s][j].phase \notin BeforeMain
  <2>1. CASE KeepsOps
    BY <1>2, <2>1 DEF KeepsOps, Fresh, SentPastIntent, BeforeMain, Sends, Send
  <2>2. CASE j \in DOMAIN ops[s] /\ ops'[s][j] = ops[s][j] /\ wire' = wire
    BY <1>2, <2>2 DEF Fresh, SentPastIntent
  <2>3. CASE <<s, j>> \notin Ops /\ wire' = wire
    BY <1>0, <1>2, <2>3
  <2>4. CASE ops[s][j].phase = "claimed" /\ j \in DOMAIN ops[s] /\ wire' = wire
    BY <1>2, <2>4 DEF Fresh, SentPastIntent, BeforeMain
  <2> QED BY <1>2, <2>1, <2>2, <2>3, <2>4, WhereBasesComeFrom
<1>3. ASSUME ~left.rewinds PROVE BasesOnMain' /\ GateSawBase' /\ PushesFresh'
  <2>0. BasesOnMain /\ GateSawBase /\ PushesFresh
    BY <1>3 DEF Fresh
  <2>1. main' \in Seq(Commits) /\ IsPrefix(main, main')
    BY <1>3, <2>0, MainIsPrefix
  <2>2. ASSUME NEW s \in Roots, NEW j \in DOMAIN ops'[s] PROVE IsPrefix(ops'[s][j].base, main')
    <3>1. CASE j \in DOMAIN ops[s] /\ ops'[s][j].base = ops[s][j].base
      <4>1. ops[s][j].base \in Seq(Commits)
        BY <1>0, <3>1, OpsFacts DEF Operation
      <4>2. IsPrefix(ops[s][j].base, main)
        BY <2>0, <3>1 DEF BasesOnMain
      <4> QED BY <1>0, <2>1, <3>1, <4>1, <4>2, PrefixTransitive
    <3>2. CASE ops'[s][j].base = <<>>
      <4>1. /\ ops'[s][j].base \in Seq(Commits) /\ Len(ops'[s][j].base) = 0
            /\ Len(main') \in Nat
        BY <2>1, <3>2, EmptySeq, LenProperties
      <4> QED BY <2>1, <4>1, PrefixFacts
    <3>3. CASE ops'[s][j].base = main
      BY <2>1, <3>3
    <3> QED BY <2>2, <3>1, <3>2, <3>3, WhereBasesComeFrom
  <2>3. GateSawBase'
    <3>1. CASE gate' = gate
      <4>1. ASSUME ~Unlocked', gate'.history = "never"
            PROVE  HistoryOf(gate.root, Latest(gate.root).base)' = "never"
        <5> DEFINE r == gate.root
        <5>1. /\ ~Unlocked /\ HistoryOf(r, Latest(r).base) = "never"
              /\ r \in Roots /\ Number(r) > 0 /\ Number(r) \in DOMAIN ops[r]
          BY <1>0, <2>0, <3>1, <4>1, LatestTyped DEF GateSawBase, Unlocked, Typed, GateHolds, In
        <5>2. CASE KeepsOps
          <6>1. Len(ops'[r]) = Len(ops[r]) /\ ops'[r][Number(r)].base = ops[r][Number(r)].base
            BY <5>1, <5>2 DEF KeepsOps
          <6> QED BY <3>1, <5>1, <6>1 DEF Latest, Number
        <5>3. ASSUME NEW s \in Roots, OpensNext(s) \/ Replays(s) PROVE FALSE
          BY <5>1, <5>3 DEF OpensNext, Replays
        <5> QED BY <5>2, <5>3, BaseSteps
      <4> QED BY <4>1 DEF GateSawBase
    <3>2. CASE gate' = NoGate
      BY <3>2 DEF GateSawBase, Unlocked
    <3>3. ASSUME NEW r \in Roots, GateOpen(r) PROVE GateSawBase'
      <4>1. /\ gate' = [root |-> r, history |-> HistoryOf(r, main)] /\ ops' = ops
            /\ Number(r) > 0 /\ Number(r) \in DOMAIN ops[r]
        BY <3>3, LatestTyped DEF GateOpen, In
      <4>2. ops[r][Number(r)].base \in Seq(Commits) /\ IsPrefix(ops[r][Number(r)].base, main)
        BY <1>0, <2>0, <4>1, OpsFacts DEF Operation, BasesOnMain
      <4>3. HistoryOf(r, main) = "never" => HistoryOf(r, ops[r][Number(r)].base) = "never"
        BY <1>0, <4>2, NeverBefore
      <4> QED BY <4>1, <4>3 DEF GateSawBase, Latest, Number, HistoryOf
    <3>4. gate' \in {gate, NoGate} \/ \E r \in Roots : GateOpen(r)
      BY Shapes DEF Shape, Stays, MainMoves, Tick, MovesEarly, OpensNext, Replays, Intends,
                    MovesLate, Sends, Send, Takes, Refuses, ReadMain, Writes
    <3> QED BY <3>1, <3>2, <3>3, <3>4
  <2>4. ASSUME NEW s \in Roots, NEW j \in DOMAIN ops'[s],
               ops'[s][j].phase = "main_intent" \/ <<s, j>> \in wire'
        PROVE  HistoryOf(s, ops'[s][j].base) = "never"
    <3>1. CASE KeepsOps
      <4>1. j \in DOMAIN ops[s] /\ ops'[s][j].base = ops[s][j].base
        BY <3>1, <2>4 DEF KeepsOps
      <4>2. \/ ops[s][j].phase = "main_intent" \/ <<s, j>> \in wire
            \/ Intends(s) /\ j = Number(s)
        BY <2>4, <3>1, <4>1 DEF KeepsOps, Sends, Send
      <4>3. ASSUME Intends(s), j = Number(s) PROVE HistoryOf(s, ops[s][j].base) = "never"
        BY <2>0, <4>3 DEF Intends, GateAllows, GateSawBase, Latest
      <4> QED BY <2>0, <4>1, <4>2, <4>3 DEF PushesFresh
    <3>2. CASE j \in DOMAIN ops[s] /\ ops'[s][j] = ops[s][j] /\ wire' = wire
      BY <2>0, <2>4, <3>2 DEF PushesFresh
    <3>3. CASE ops'[s][j].base = <<>>
      BY <3>3, NoHistory
    <3>4. CASE ops'[s][j].phase = "prepared"
      BY <1>2, <2>4, <3>4 DEF BeforeMain
    <3> QED BY <2>4, <3>1, <3>2, <3>3, <3>4, WhereBasesComeFrom
  <2> QED BY <2>2, <2>3, <2>4 DEF BasesOnMain, PushesFresh
<1>4. left'.rewinds = left.rewinds
  BY <1>0 DEF Rest
<1> QED BY <1>1, <1>2, <1>3, <1>4 DEF Fresh, BasesClean, SentPastIntent

\* All but what was appended.
LEMMA FrontOfAppend ==
  ASSUME NEW S, NEW t \in Seq(S), NEW e \in S
  PROVE  Front(Append(t, e)) = t
<1> DEFINE u == Append(t, e)
<1>1. Len(t) \in Nat /\ u \in Seq(S) /\ Len(u) = Len(t) + 1 /\ \A i \in 1..Len(t) : u[i] = t[i]
  BY AppendProperties, LenProperties
<1> HIDE DEF u
<1>2. Len(u) > 0 /\ Len(u) - 1 = Len(t)
  BY <1>1
<1>3. Front(u) \in Seq(S) /\ Len(Front(u)) = Len(t) /\ \A i \in 1..Len(t) : Front(u)[i] = t[i]
  BY <1>1, <1>2, FrontFacts
<1>4. Front(u) = t
  BY <1>3, SeqEqual
<1> QED BY <1>4 DEF u

\* Initially there is nothing to land.
LEMMA FreshInit == Init => Fresh
BY EmptySeq DEF Init, Fresh, BasesClean, SentPastIntent, BasesOnMain, GateSawBase, PushesFresh, Unlocked

\* However late a push is applied, it takes nothing off main, and it lands a change
\* that main does not have; unless main is rewound, one it never had
\* (pushmain.go:49): main was a prefix of the operation's base, the gate read main
\* while it was that base, and the replay found the change not in effect there.
THEOREM LandsOnce == LandingSpec => LandedOnce
<1>1. ASSUME Typed, Fresh, [Next]_vars, NEW p \in wire \ wire', main' # main
      PROVE  /\ IsPrefix(main, main')
             /\ HistoryOf(p[1], Front(main')) # "effective"
             /\ ~left.rewinds => HistoryOf(p[1], Front(main')) = "never"
  <2>0. \E r \in Roots : \E k \in DOMAIN ops[r] : Takes(r, k)
    BY <1>1, Shapes DEF Shape, Stays, MainMoves, Tick, MovesEarly, OpensNext, Replays, Intends,
         GateOpen, MovesLate, Sends, Send, Refuses, ReadMain, Writes
  <2>1. PICK r \in Roots : \E k \in DOMAIN ops[r] : Takes(r, k)
    BY <2>0
  <2>2. PICK k \in DOMAIN ops[r] : Takes(r, k)
    BY <2>1
  <2> DEFINE base == ops[r][k].base
  <2>3. p = <<r, k>> /\ <<r, k>> \in wire /\ main' = Append(base, Landing(r, k)) /\ IsPrefix(main, base)
    BY <1>1, <2>2 DEF Takes, FastForwards, R
  <2>4. main \in Seq(Commits) /\ base \in Seq(Commits) /\ Landing(r, k) \in Commits
    <3>1. k \in Nat /\ ops[r][k] \in Operation
      BY <1>1, OpsFacts DEF Typed, Types
    <3> QED BY <1>1, <3>1 DEF Typed, Types, Operation, Landing, Commits
  <2>5. HistoryOf(r, base) # "effective" /\ (~left.rewinds => HistoryOf(r, base) = "never")
    BY <1>1, <2>3 DEF Fresh, BasesClean, PushesFresh
  <2> HIDE DEF base
  <2>6. main' \in Seq(Commits) /\ IsPrefix(base, main') /\ Front(main') = base
    BY <2>3, <2>4, AppendProperties, PrefixOfAppend, FrontOfAppend
  <2>7. IsPrefix(main, main')
    BY <2>3, <2>4, <2>6, PrefixTransitive
  <2> QED BY <2>3, <2>5, <2>6, <2>7
<1>2. Typed /\ Fresh /\ [Next]_vars => Typed' /\ Fresh'
  BY TypedStep, FreshStep
<1>3. Typed /\ Fresh /\ [Next]_vars =>
        [\A p \in wire \ wire' : main' # main =>
           LET before == Front(main')
           IN  /\ IsPrefix(main, main')
               /\ HistoryOf(p[1], before) # "effective"
               /\ ~left.rewinds => HistoryOf(p[1], before) = "never"]_main
  BY <1>1
<1> QED BY <1>2, <1>3, TypedInit, FreshInit, PTL DEF LandingSpec, LandedOnce

-----------------------------------------------------------------------------
(* What the records say of main.                                           *)

\* What has asked for main keeps its base, does not go back and does not get
\* younger, whatever step is taken.
LEMMA PastSteps ==
  ASSUME Typed, [Next]_vars, NEW s \in Roots, NEW j \in DOMAIN ops[s],
         ops[s][j].phase \notin BeforeMain
  PROVE  /\ j \in DOMAIN ops'[s] /\ ops'[s][j].base = ops[s][j].base
         /\ ops'[s][j].phase \notin BeforeMain
         /\ ops'[s][j].age >= ops[s][j].age
         /\ <<s, j>> \in wire' => <<s, j>> \in wire \/ Sends(s, j)
<1>0. ops \in [Roots -> Seq(Operation)] /\ ops[s][j].age \in Int
  <2>1. ops \in [Roots -> Seq(Operation)]
    BY DEF Typed, Types
  <2>2. ops[s][j].age \in (-1)..MainFence /\ MainFence \in Nat
    BY <2>1, OpsFacts, LandingAssumption DEF Operation
  <2> QED BY <2>1, <2>2
<1>1. CASE KeepsOps
  <2>1. /\ j \in DOMAIN ops'[s] /\ ops'[s][j].base = ops[s][j].base
        /\ ops'[s][j].phase \notin BeforeMain
        /\ ops'[s][j].age \in {ops[s][j].age, ops[s][j].age + 1}
        /\ <<s, j>> \in wire' => <<s, j>> \in wire \/ Sends(s, j)
    BY <1>1 DEF KeepsOps
  <2> QED BY <1>0, <2>1
<1>2. ASSUME NEW r \in Roots, OpensNext(r) PROVE j \in DOMAIN ops'[s] /\ ops'[s][j] = ops[s][j]
  <2>1. PICK o \in Operation : Opens(r, o)
    BY <1>2 DEF OpensNext
  <2> QED BY <1>0, <2>1, OpensFacts
<1>3. ASSUME NEW r \in Roots, Replays(r) PROVE j \in DOMAIN ops'[s] /\ ops'[s][j] = ops[s][j]
  <2> DEFINE o == [Latest(r) EXCEPT !.phase = "prepared", !.base = main]
  <2>1. Sets(r, Number(r), o) /\ ops[r][Number(r)].phase \in BeforeMain
    BY <1>3 DEF Replays, In, Latest, BeforeMain
  <2> HIDE DEF o
  <2>2. j \in DOMAIN ops'[s] /\ ops'[s][j] = IF s = r /\ j = Number(r) THEN o ELSE ops[s][j]
    BY <1>0, <2>1, SetsFacts
  <2> QED BY <2>1, <2>2
<1>4. ASSUME NEW r \in Roots, OpensNext(r) \/ Replays(r) PROVE wire' = wire
  BY <1>4 DEF OpensNext, Replays
<1> QED BY <1>0, <1>1, <1>2, <1>3, <1>4, BaseSteps

\* Evidence is read of operations past their intent, and they stay there.
LEMMA ReadPastIntentStep ==
  ASSUME Typed, ReadPastIntent, [Next]_vars
  PROVE  ReadPastIntent'
<1>1. ASSUME NEW e \in evidence PROVE ops'[e.of[1]][e.of[2]].phase \notin BeforeMain
  <2>1. e.of[1] \in Roots /\ e.of[2] \in DOMAIN ops[e.of[1]]
    BY OpsFacts DEF Typed, Types
  <2> QED BY <2>1, PastSteps DEF ReadPastIntent
<1>2. ASSUME NEW r \in Roots, NEW k \in DOMAIN ops[r], ReadMain(r, k) PROVE ReadPastIntent'
  <2> DEFINE e == ReadEvidence(r, k)
  <2>1. evidence' = evidence \cup {e} /\ ops' = ops /\ Candidate(ops[r][k])
    BY <1>2 DEF ReadMain
  <2>2. e.of[1] = r /\ e.of[2] = k
    BY DEF ReadEvidence
  <2>3. ops[r][k].phase \notin BeforeMain
    BY <2>1 DEF Candidate, Unsettled, EndedUnsent, BeforeMain
  <2> HIDE DEF e
  <2> QED BY <2>1, <2>2, <2>3 DEF ReadPastIntent
<1>3. evidence' \subseteq evidence \/ \E r \in Roots : \E k \in DOMAIN ops[r] : ReadMain(r, k)
  BY Shapes DEF Shape, Stays, MainMoves, Tick, MovesEarly, OpensNext, Replays, Intends, GateOpen,
                MovesLate, Sends, Send, Takes, Refuses, Writes
<1> QED BY <1>1, <1>2, <1>3 DEF ReadPastIntent

\* A landed commit of main is an operation's.
LEMMA LandedKnownStep ==
  ASSUME Typed, LandedKnown, [Next]_vars, ~left.rewinds, BasesOnMain
  PROVE  LandedKnown'
<1>0. main \in Seq(Commits) /\ ops \in [Roots -> Seq(Operation)] /\ Len(main) \in Nat /\ DOMAIN main = 1..Len(main)
  BY LenProperties DEF Typed, Types
<1>1. \A r \in Roots : DOMAIN ops[r] \subseteq DOMAIN ops'[r]
  <2>1. CASE KeepsOps
    BY <2>1 DEF KeepsOps
  <2>2. ASSUME NEW r \in Roots, OpensNext(r) PROVE \A s \in Roots : DOMAIN ops[s] \subseteq DOMAIN ops'[s]
    BY <1>0, <2>2, OpensFacts DEF OpensNext
  <2>3. ASSUME NEW r \in Roots, Replays(r) PROVE \A s \in Roots : DOMAIN ops[s] \subseteq DOMAIN ops'[s]
    BY <1>0, <2>3, SetsFacts DEF Replays
  <2> QED BY <2>1, <2>2, <2>3, BaseSteps
<1>2. CASE main' = main
  BY <1>1, <1>2 DEF LandedKnown
<1>3. ASSUME NEW c \in Commits, main' = Append(main, c),
             c.kind # "landed" \/ (c.root \in Roots /\ c.n \in DOMAIN ops[c.root])
      PROVE  LandedKnown'
  <2>1. ASSUME NEW i \in DOMAIN main'
        PROVE  (i \in DOMAIN main /\ main'[i] = main[i]) \/ main'[i] = c
    BY <1>0, <1>3, AppendProperties
  <2> QED BY <1>1, <1>3, <2>1 DEF LandedKnown
<1>4. ASSUME NEW r \in Roots, NEW k \in DOMAIN ops[r]
      PROVE  /\ Landing(r, k) \in Commits /\ Landing(r, k).root = r /\ Landing(r, k).n = k
  BY <1>0, OpsFacts DEF Landing, Commits
<1> QED BY <1>2, <1>3, <1>4, MainGrows DEF NotLanded

\* An operation and its commit are typed.
LEMMA OperationTyped ==
  ASSUME Typed, NEW s \in Roots, NEW j \in DOMAIN ops[s]
  PROVE  /\ ops[s][j] \in Operation /\ ops[s][j].base \in Seq(Commits) /\ j \in Nat
         /\ ops[s][j].age \in (-1)..MainFence
         /\ Landing(s, j) \in Commits
         /\ Landing(s, j).kind = "landed" /\ Landing(s, j).root = s /\ Landing(s, j).n = j
<1>1. ops[s][j] \in Operation /\ j \in Nat
  BY OpsFacts DEF Typed, Types
<1>2. ops[s][j].base \in Seq(Commits) /\ ops[s][j].age \in (-1)..MainFence
  BY <1>1 DEF Operation
<1> QED BY <1>1, <1>2 DEF Landing, Commits

\* A commit in main is a landed one of main.
LEMMA InMainKnown ==
  ASSUME Typed, LandedKnown, NEW b \in Seq(Commits), NEW r \in Roots, NEW k \in Nat,
         IsPrefix(Append(b, Landing(r, k)), main)
  PROVE  k \in DOMAIN ops[r]
<1> DEFINE c == Landing(r, k)
           u == Append(b, c)
<1>1. main \in Seq(Commits) /\ c \in Commits /\ c.kind = "landed" /\ c.root = r /\ c.n = k
  BY DEF Typed, Types, Landing, Commits
<1>2. u \in Seq(Commits) /\ Len(u) = Len(b) + 1 /\ u[Len(b) + 1] = c /\ Len(b) \in Nat
  BY <1>1, AppendProperties, LenProperties
<1>3. IsPrefix(u, main)
  OBVIOUS
<1> HIDE DEF u, c
<1>4. Len(u) <= Len(main) /\ \A i \in 1..Len(u) : u[i] = main[i]
  BY <1>1, <1>2, <1>3, PrefixFacts
<1>5. Len(b) + 1 \in DOMAIN main /\ main[Len(b) + 1] = c
  BY <1>1, <1>2, <1>4, LenProperties
<1> QED BY <1>1, <1>5 DEF LandedKnown

\* What is in main stays there while it is not rewound.
LEMMA InMainStays ==
  ASSUME Typed, [Next]_vars, ~left.rewinds, BasesOnMain,
         NEW s \in Roots, NEW j \in DOMAIN ops[s], ops'[s][j].base = ops[s][j].base, InMain(s, j)
  PROVE  InMain(s, j)'
<1>1. R(s, j) \in Seq(Commits) /\ R(s, j)' = R(s, j)
  <2>1. R(s, j) \in Seq(Commits)
    BY OperationTyped, AppendProperties DEF R
  <2>2. R(s, j)' = R(s, j)
    BY DEF R, Landing
  <2> QED BY <2>1, <2>2
<1>2. main \in Seq(Commits) /\ main' \in Seq(Commits) /\ IsPrefix(main, main')
  BY MainIsPrefix DEF Typed, Types
<1>3. IsPrefix(R(s, j), main)
  BY DEF InMain
<1>4. IsPrefix(R(s, j), main')
  BY <1>1, <1>2, <1>3, PrefixTransitive
<1> QED BY <1>1, <1>4 DEF InMain

\* A commit gets to main only by a push of it.
LEMMA NotInMainStays ==
  ASSUME Typed, [Next]_vars, ~left.rewinds, BasesOnMain,
         NEW s \in Roots, NEW j \in DOMAIN ops[s], ops'[s][j].base = ops[s][j].base,
         ~InMain(s, j), ~Takes(s, j)
  PROVE  ~InMain(s, j)'
<1> DEFINE base == ops[s][j].base
           a == Landing(s, j)
<1>1. base \in Seq(Commits) /\ a \in Commits /\ main \in Seq(Commits) /\ a.kind = "landed"
  BY OperationTyped DEF Typed, Types
<1>2. R(s, j) = Append(base, a) /\ R(s, j)' = Append(base, a)
  BY DEF R, Landing
<1>3. a.root = s /\ a.n = j
  BY DEF Landing
<1> HIDE DEF base
<1>4. ASSUME NEW c \in Commits, main' = Append(main, c), InMain(s, j)' PROVE a = c
  <2> HIDE DEF a
  <2>1. IsPrefix(Append(base, a), Append(main, c)) /\ ~IsPrefix(Append(base, a), main)
    BY <1>2, <1>4 DEF InMain
  <2> QED BY <1>1, <2>1, NewPrefixOfAppend
<1>5. CASE main' = main
  BY <1>2, <1>5 DEF InMain
<1>6. ASSUME NEW c \in NotLanded, main' = Append(main, c) PROVE ~InMain(s, j)'
  BY <1>1, <1>4, <1>6 DEF NotLanded
<1>7. ASSUME NEW r \in Roots, NEW k \in DOMAIN ops[r], Takes(r, k), main' = Append(main, Landing(r, k))
      PROVE  ~InMain(s, j)'
  <2>1. Landing(r, k) \in Commits
    BY OpsFacts DEF Landing, Commits, Typed, Types
  <2>2. Landing(r, k).root = r /\ Landing(r, k).n = k
    BY DEF Landing
  <2> QED BY <1>3, <1>4, <1>7, <2>1, <2>2
<1> QED BY <1>5, <1>6, <1>7, MainGrows

\* What holds in every step over a main that is not rewound.
Grows == Typed /\ [Next]_vars /\ ~left.rewinds /\ BasesOnMain

\* A record that says no more than main showed before tells the truth still.
LEMMA TellsAnew ==
  ASSUME Grows, NEW s \in Roots, NEW j \in DOMAIN ops[s], Tells(s, j), ~Takes(s, j),
         <<s, j>> \in wire' => <<s, j>> \in wire,
         NEW o, ops'[s][j] = o, o.base = ops[s][j].base, Unanswered(o), ~o.missing,
         SaysQuiet(o) => Quiet(s, j),
         SaysLanded(o) => InMain(s, j),
         ~left.slow => /\ SaysEnded(o) => Quiet(s, j)
                       /\ <<s, j>> \in wire' => o.age < MainFence
  PROVE  Tells(s, j)'
<1>1. InMain(s, j) => InMain(s, j)'
  BY InMainStays DEF Grows
<1>2. ~InMain(s, j) => ~InMain(s, j)'
  BY NotInMainStays DEF Grows
<1>3. Quiet(s, j) => Quiet(s, j)'
  BY <1>2 DEF Quiet
<1>4. left'.slow = left.slow
  BY RestTyped DEF Grows, Rest
<1>5. <<s, j>> \in wire' => ~InMain(s, j)'
  BY <1>2 DEF Tells
<1>6. /\ SaysQuiet(ops[s][j])' <=> SaysQuiet(o)
      /\ SaysLanded(ops[s][j])' <=> SaysLanded(o)
      /\ SaysEnded(ops[s][j])' <=> SaysEnded(o)
      /\ Unanswered(ops[s][j])' <=> Unanswered(o)
  BY DEF SaysQuiet, SaysLanded, SaysEnded, Unanswered, Terminal
<1> QED BY <1>1, <1>3, <1>4, <1>5, <1>6 DEF Tells

\* So does a record that does not change.
LEMMA TellsSame ==
  ASSUME Grows, NEW s \in Roots, NEW j \in DOMAIN ops[s], Tells(s, j), ~Takes(s, j),
         <<s, j>> \in wire' => <<s, j>> \in wire, ops'[s][j] = ops[s][j]
  PROVE  Tells(s, j)'
<1> DEFINE o == ops[s][j]
<1>1. /\ Unanswered(o) /\ ~o.missing
      /\ SaysQuiet(o) => Quiet(s, j)
      /\ SaysLanded(o) => InMain(s, j)
      /\ ~left.slow => /\ SaysEnded(o) => Quiet(s, j)
                       /\ <<s, j>> \in wire => o.age < MainFence
  BY DEF Tells
<1>2. ops'[s][j] = o /\ o.base = ops[s][j].base
  OBVIOUS
<1> HIDE DEF o
<1> QED BY <1>1, <1>2, TellsAnew

\* All the records do if the one that is set does.
LEMMA TellsSets ==
  ASSUME Grows, \A s \in Roots : \A j \in DOMAIN ops[s] : Tells(s, j),
         NEW r, NEW k, NEW o, Sets(r, k, o), Tells(r, k)',
         wire' \subseteq wire \cup {<<r, k>>}, wire \subseteq wire' \cup {<<r, k>>}
  PROVE  \A s \in Roots : \A j \in DOMAIN ops'[s] : Tells(s, j)'
<1>1. /\ \A s \in Roots : DOMAIN ops'[s] = DOMAIN ops[s]
      /\ \A s \in Roots : \A j \in DOMAIN ops[s] :
              ops'[s][j] = IF s = r /\ j = k THEN o ELSE ops[s][j]
  BY SetsFacts DEF Grows, Typed, Types
<1>2. ASSUME NEW s \in Roots, NEW j \in DOMAIN ops[s], <<s, j>> # <<r, k>> PROVE Tells(s, j)'
  <2>1. /\ ops'[s][j] = ops[s][j] /\ ~Takes(s, j) /\ Tells(s, j)
        /\ <<s, j>> \in wire' => <<s, j>> \in wire
    BY <1>1, <1>2 DEF Takes
  <2> QED BY <2>1, TellsSame
<1>3. ASSUME NEW s \in Roots, NEW j \in DOMAIN ops[s], <<s, j>> = <<r, k>> PROVE Tells(s, j)'
  BY <1>3
<1> QED BY <1>1, <1>2, <1>3

AllTell == \A s \in Roots : \A j \in DOMAIN ops[s] : Tells(s, j)

\* What evidence says of an operation that is as it was read, it says truly.
LEMMA ReconciledTells ==
  ASSUME Grows, NEW e \in evidence, StillTells(e), NEW r, NEW k, NEW o,
         r = e.of[1], k = e.of[2], r \in Roots, k \in DOMAIN ops[r], Tells(r, k),
         ops[r][k].phase = e.phase, ops[r][k].outcome = e.outcome,
         o = Reconciled(ops[r][k], e)
  PROVE  /\ o.base = ops[r][k].base /\ o.age = ops[r][k].age /\ Unanswered(o) /\ ~o.missing
         /\ SaysQuiet(o) => Quiet(r, k)
         /\ SaysLanded(o) => InMain(r, k)
         /\ ~left.slow /\ SaysEnded(o) => Quiet(r, k)
<1> DEFINE a == ops[r][k]
<1>1. /\ a \in Operation /\ Unanswered(a) /\ ~a.missing
      /\ SaysQuiet(a) => Quiet(r, k)
      /\ SaysLanded(a) => InMain(r, k)
      /\ ~left.slow /\ SaysEnded(a) => Quiet(r, k)
  BY OperationTyped DEF Tells, Grows
<1>2. /\ e.has => InMain(r, k)
      /\ a.outcome = "ok" => e.has
      /\ ~left.slow /\ e.fenced /\ ~e.has => Quiet(r, k)
  BY DEF StillTells
<1> HIDE DEF a
<1>3. o = Reconciled(a, e)
  BY DEF a
<1> DEFINE Fine ==
      /\ o.base = a.base /\ o.age = a.age /\ Unanswered(o) /\ ~o.missing
      /\ SaysQuiet(o) => Quiet(r, k)
      /\ SaysLanded(o) => InMain(r, k)
      /\ ~left.slow /\ SaysEnded(o) => Quiet(r, k)
<1>4. CASE o = a
  BY <1>1, <1>4 DEF a
<1>5. ASSUME a.phase \notin BeforeMain, e.has,
             NEW p \in {"reverted", "landed"}, o = [a EXCEPT !.phase = p]
      PROVE  Fine
  <2>1. /\ o.phase = p /\ o.outcome = a.outcome /\ o.push = a.push /\ o.base = a.base
        /\ o.age = a.age /\ o.missing = a.missing
    BY <1>1, <1>5 DEF Operation
  <2>2. Unanswered(o) /\ (SaysQuiet(o) => SaysQuiet(a)) /\ ~SaysEnded(o)
    BY <1>5, <2>1 DEF Unanswered, SaysQuiet, SaysEnded, BeforeMain
  <2> QED BY <1>1, <1>2, <1>5, <2>1, <2>2
<1>7. ASSUME o = [a EXCEPT !.late = TRUE] PROVE Fine
  <2>1. /\ o.phase = a.phase /\ o.outcome = a.outcome /\ o.push = a.push /\ o.base = a.base
        /\ o.age = a.age /\ o.missing = a.missing
    BY <1>1, <1>7 DEF Operation
  <2>2. /\ Unanswered(o) /\ (SaysQuiet(o) => SaysQuiet(a)) /\ (SaysLanded(o) => SaysLanded(a))
        /\ (SaysEnded(o) => SaysEnded(a))
    BY <1>1, <2>1 DEF Unanswered, SaysQuiet, SaysLanded, SaysEnded, Terminal
  <2> QED BY <1>1, <2>1, <2>2
<1>8. ASSUME ~e.has, e.fenced, NEW p \in {"failed", "main_result"}, NEW why \in {"bound", "non_ff"},
             o = [a EXCEPT !.phase = p, !.outcome = why]
      PROVE  Fine
  <2>1. /\ o.phase = p /\ o.outcome = why /\ o.push = a.push /\ o.base = a.base
        /\ o.age = a.age /\ o.missing = a.missing
    BY <1>1, <1>8 DEF Operation
  <2>2. /\ Unanswered(o) /\ (SaysQuiet(o) => SaysQuiet(a)) /\ (SaysLanded(o) => SaysLanded(a))
    BY <1>1, <2>1 DEF Unanswered, SaysQuiet, SaysLanded, BeforeMain
  <2> QED BY <1>1, <1>2, <1>8, <2>1, <2>2
<1>6. Unsettled(a) \/ a.phase = "landed" => a.phase \notin BeforeMain
  BY DEF Unsettled, BeforeMain
<1>9. \/ o = a
      \/ Unsettled(a) /\ e.has /\ \E p \in {"reverted", "landed"} : o = [a EXCEPT !.phase = p]
      \/ a.phase = "landed" /\ e.has /\ o = [a EXCEPT !.phase = "reverted"]
      \/ o = [a EXCEPT !.late = TRUE]
      \/ a.outcome = "ok" /\ ~e.has
      \/ /\ Unsettled(a) /\ a.outcome # "ok" /\ ~e.has /\ e.fenced
         /\ \/ o = [a EXCEPT !.phase = "failed", !.outcome = "bound"]
            \/ o = [a EXCEPT !.phase = "main_result", !.outcome = "non_ff"]
  BY <1>3 DEF Reconciled
<1>10. Fine
  BY <1>2, <1>4, <1>5, <1>6, <1>7, <1>8, <1>9
<1> QED BY <1>10 DEF a

\* What a step records of an operation, main shows.
LEMMA TellsStep ==
  ASSUME Grows, SentPastIntent, LandedKnown, AllTell, \A e \in evidence : StillTells(e)
  PROVE  AllTell'
<1>0. /\ Typed /\ [Next]_vars /\ ops \in [Roots -> Seq(Operation)] /\ main \in Seq(Commits)
      /\ wire \subseteq Ops
  BY DEF Grows, Typed, Types
<1> USE DEF AllTell
<1>1. ASSUME NEW r \in Roots, NEW k \in DOMAIN ops[r], NEW o, Sets(r, k, o), wire' = wire,
             o.base = ops[r][k].base, Unanswered(o), ~o.missing,
             SaysQuiet(o) => Quiet(r, k),
             SaysLanded(o) => InMain(r, k),
             ~left.slow /\ SaysEnded(o) => Quiet(r, k),
             o.age = ops[r][k].age \/ Quiet(r, k)
      PROVE  AllTell'
  <2>1. ops'[r][k] = o /\ Tells(r, k) /\ ~Takes(r, k)
    BY <1>0, <1>1, SetsFacts DEF Takes
  <2>2. ~left.slow /\ <<r, k>> \in wire' => o.age < MainFence
    BY <1>1, <2>1 DEF Tells, Quiet
  <2>3. Tells(r, k)'
    BY <1>1, <2>1, <2>2, TellsAnew
  <2> QED BY <1>1, <2>3, TellsSets
<1>2. ASSUME UNCHANGED <<ops, wire>> PROVE AllTell'
  <2>1. ASSUME NEW s \in Roots, NEW j \in DOMAIN ops[s] PROVE Tells(s, j)'
    BY <1>2, TellsSame DEF Takes
  <2> QED BY <1>2, <2>1
<1>3. CASE Tick
  <2>0. /\ \A s \in Roots : DOMAIN ops'[s] = DOMAIN ops[s]
        /\ \A s \in Roots : \A j \in DOMAIN ops[s] :
              ops'[s][j] = IF AtMain(ops[s][j]) /\ ops[s][j].age < MainFence
                           THEN [ops[s][j] EXCEPT !.age = @ + 1] ELSE ops[s][j]
    BY <1>0, <1>3, TickFacts
  <2>1. ASSUME NEW s \in Roots, NEW j \in DOMAIN ops[s] PROVE Tells(s, j)'
    <3> DEFINE a == ops[s][j]
               o == ops'[s][j]
    <3>1. a \in Operation /\ a.age \in (-1)..MainFence /\ Tells(s, j) /\ wire' = wire
      BY <1>0, <1>3, OperationTyped DEF Tick
    <3>2. o = IF AtMain(a) /\ a.age < MainFence THEN [a EXCEPT !.age = @ + 1] ELSE a
      BY <2>0
    <3>3. ~left.slow /\ <<s, j>> \in wire => a.age # MainFence - 1
      <4>1. \A p \in Ops : p \in wire /\ ~left.slow => ops[p[1]][p[2]].age # MainFence - 1
        BY <1>3 DEF Tick
      <4> QED BY <1>0, <4>1
    <3>4. /\ Unanswered(a) /\ ~a.missing
          /\ SaysQuiet(a) => Quiet(s, j)
          /\ SaysLanded(a) => InMain(s, j)
          /\ ~left.slow => /\ SaysEnded(a) => Quiet(s, j)
                           /\ <<s, j>> \in wire => a.age < MainFence
      BY <3>1 DEF Tells
    <3> HIDE DEF a, o
    <3>5. /\ o.base = a.base /\ o.phase = a.phase /\ o.outcome = a.outcome /\ o.push = a.push
          /\ o.missing = a.missing /\ o.age \in {a.age, a.age + 1}
      BY <3>1, <3>2 DEF Operation
    <3>6. ~left.slow /\ <<s, j>> \in wire => o.age < MainFence
      BY <3>1, <3>3, <3>4, <3>2, <3>5, LandingAssumption
    <3>7. /\ Unanswered(o) /\ ~o.missing
          /\ SaysQuiet(o) => Quiet(s, j)
          /\ SaysLanded(o) => InMain(s, j)
          /\ SaysEnded(o) => SaysEnded(a)
      BY <3>4, <3>5 DEF Unanswered, SaysQuiet, SaysLanded, SaysEnded, Terminal
    <3>8. ops'[s][j] = o /\ o.base = ops[s][j].base /\ ~Takes(s, j)
      BY <3>1, <3>5 DEF o, a, Takes
    <3> QED BY <3>1, <3>4, <3>6, <3>7, <3>8, TellsAnew
  <2> QED BY <2>0, <2>1
<1>4. ASSUME NEW r \in Roots, MovesEarly(r) PROVE AllTell'
  <2>1. PICK o \in Operation : Early(Latest(r), o) /\ Sets(r, Number(r), o)
    BY <1>4 DEF MovesEarly
  <2> DEFINE k == Number(r)
             a == ops[r][k]
  <2>2. k \in DOMAIN ops[r] /\ Sets(r, k, o) /\ Early(a, o) /\ wire' = wire /\ Tells(r, k)
    BY <1>4, <2>1, <1>0, OpsFacts DEF Sets, Latest, MovesEarly
  <2>3. /\ Unanswered(a) /\ ~a.missing /\ (SaysQuiet(a) => Quiet(r, k))
        /\ (SaysLanded(a) => InMain(r, k))
    BY <2>2 DEF Tells
  <2> HIDE DEF a, k
  <2>4. Quiet(r, k) /\ o.base = a.base /\ o.age = a.age /\ ~o.missing
    BY <2>2, <2>3 DEF Early, SaysQuiet
  <2>5. Unanswered(o) /\ (SaysLanded(o) => SaysLanded(a))
    BY <2>2, <2>3 DEF Early, Unanswered, SaysLanded, BeforeMain
  <2> QED BY <1>1, <2>2, <2>3, <2>4, <2>5 DEF a
<1>5. ASSUME NEW r \in Roots, OpensNext(r) PROVE AllTell'
  <2>1. PICK o \in Operation :
          /\ o = NewOp \/ \E why \in {"in_main", "reverted", "bound"} : o = BornFailed(why)
          /\ Opens(r, o)
    BY <1>5 DEF OpensNext
  <2>0. PICK k : k = Len(ops[r]) + 1
    OBVIOUS
  <2>2. /\ ops'[r][k] = o /\ k \notin DOMAIN ops[r] /\ k \in Nat
        /\ \A s \in Roots : \A j \in DOMAIN ops[s] : ops'[s][j] = ops[s][j]
        /\ \A s \in Roots : \A j \in DOMAIN ops'[s] : j \in DOMAIN ops[s] \/ (s = r /\ j = k)
    BY <1>0, <2>0, <2>1, OpensFacts, OpsFacts
  <2>3. wire' = wire /\ main' = main
    BY <1>5 DEF OpensNext
  <2>4. <<r, k>> \notin wire
    BY <1>0, <2>2, OpsFacts
  <2>5. o.base \in Seq(Commits)
    BY DEF Operation
  <2>6. ~IsPrefix(Append(o.base, Landing(r, k)), main)
    BY <1>0, <2>2, <2>5, InMainKnown
  <2>7. Quiet(r, k)'
    BY <2>2, <2>3, <2>4, <2>6 DEF Quiet, InMain, R, Landing
  <2>8. Unanswered(o) /\ ~o.missing /\ ~SaysLanded(o)
    BY <2>1, BornFacts DEF Unanswered, SaysLanded
  <2>9. Tells(r, k)'
    BY <2>2, <2>3, <2>4, <2>7, <2>8 DEF Tells, Quiet, SaysLanded, Unanswered
  <2>10. ASSUME NEW s \in Roots, NEW j \in DOMAIN ops[s] PROVE Tells(s, j)'
    BY <2>2, <2>3, TellsSame DEF Takes
  <2> QED BY <2>2, <2>9, <2>10
<1>6. ASSUME NEW r \in Roots, Replays(r) PROVE AllTell'
  <2>0. PICK k : k = Number(r)
    OBVIOUS
  <2> DEFINE a == ops[r][k]
             o == [a EXCEPT !.phase = "prepared", !.base = main]
  <2>1. /\ Sets(r, k, o) /\ k \in DOMAIN ops[r] /\ a \in Operation /\ a.phase = "claimed"
        /\ wire' = wire /\ main' = main /\ Tells(r, k)
    BY <1>0, <1>6, <2>0, LatestTyped DEF Replays, In, Latest
  <2>2. Quiet(r, k) /\ Unanswered(a) /\ ~a.missing /\ (SaysLanded(a) => InMain(r, k))
    BY <2>1 DEF Tells, SaysQuiet, BeforeMain
  <2>3. /\ o.base = main /\ o.phase = "prepared" /\ o.push = a.push /\ o.outcome = a.outcome
        /\ o.missing = a.missing
    BY <2>1 DEF Operation
  <2>4. ops'[r][k] = o /\ Landing(r, k) \in Commits
    BY <1>0, <2>1, SetsFacts, OperationTyped
  <2> HIDE DEF o, a
  <2>5. ~IsPrefix(Append(main, Landing(r, k)), main)
    <3> DEFINE u == Append(main, Landing(r, k))
    <3>1. u \in Seq(Commits) /\ Len(u) = Len(main) + 1 /\ Len(main) \in Nat
      BY <1>0, <2>4, AppendProperties, LenProperties
    <3> HIDE DEF u
    <3>2. ~IsPrefix(u, main)
      BY <1>0, <3>1, PrefixFacts
    <3> QED BY <3>2 DEF u
  <2>6. Quiet(r, k)'
    BY <2>1, <2>2, <2>3, <2>4, <2>5 DEF Quiet, InMain, R, Landing
  <2>7. Unanswered(o) /\ ~o.missing /\ ~SaysLanded(o)
    BY <2>2, <2>3, <2>1 DEF Unanswered, SaysLanded, Quiet, BeforeMain
  <2>8. Tells(r, k)'
    BY <2>1, <2>2, <2>4, <2>6, <2>7 DEF Tells, Quiet, SaysLanded, Unanswered
  <2> QED BY <2>1, <2>8, TellsSets
<1>7. ASSUME NEW r \in Roots, Intends(r) PROVE AllTell'
  <2> DEFINE k == Number(r)
             a == ops[r][k]
             o == [a EXCEPT !.phase = "main_intent", !.age = 0, !.push = "licensed", !.granted = FALSE]
  <2>1. /\ Sets(r, k, o) /\ k \in DOMAIN ops[r] /\ a \in Operation /\ a.phase \in BeforeMain
        /\ wire' = wire /\ Tells(r, k)
    BY <1>0, <1>7, LatestTyped DEF Intends, In, Latest, BeforeMain
  <2>2. Quiet(r, k) /\ Unanswered(a) /\ ~a.missing /\ (SaysLanded(a) => InMain(r, k))
    BY <2>1 DEF Tells, SaysQuiet
  <2>3. /\ o.base = a.base /\ o.phase = "main_intent" /\ o.push = "licensed"
        /\ o.outcome = a.outcome /\ o.missing = a.missing
    BY <2>1 DEF Operation
  <2> HIDE DEF o, a, k
  <2>4. Unanswered(o) /\ ~o.missing /\ ~SaysLanded(o)
    BY <2>1, <2>2, <2>3 DEF Unanswered, SaysLanded, BeforeMain
  <2> QED BY <1>1, <2>1, <2>2, <2>3, <2>4 DEF a
<1>8. ASSUME NEW r \in Roots, NEW k \in DOMAIN ops[r], MovesLate(r, k) PROVE AllTell'
  <2>1. PICK o \in Operation : Late(ops[r][k], o) /\ Sets(r, k, o)
    BY <1>8 DEF MovesLate
  <2> DEFINE a == ops[r][k]
  <2>2. Late(a, o) /\ wire' = wire /\ Tells(r, k) /\ a.push \in {"none", "licensed", "sent"} \cup Answers
    BY <1>0, <1>8, <2>1, OperationTyped DEF MovesLate, Operation
  <2>3. /\ Unanswered(a) /\ ~a.missing
        /\ SaysQuiet(a) => Quiet(r, k)
        /\ SaysLanded(a) => InMain(r, k)
        /\ ~left.slow /\ SaysEnded(a) => Quiet(r, k)
    BY <2>2 DEF Tells
  <2> HIDE DEF a
  <2>4. o.base = a.base /\ o.age = a.age /\ ~o.missing /\ Unanswered(o)
    BY <2>2, <2>3 DEF Late, Unanswered, BeforeMain
  <2>5. (SaysQuiet(o) => SaysQuiet(a)) /\ (SaysLanded(o) => SaysLanded(a))
    BY <2>2, <2>3 DEF Late, SaysQuiet, SaysLanded, BeforeMain
  <2>6. SaysEnded(o) => SaysEnded(a) \/ SaysQuiet(a)
    BY <2>2, <2>3 DEF Late, SaysEnded, SaysQuiet, Terminal
  <2> QED BY <1>1, <2>1, <2>2, <2>3, <2>4, <2>5, <2>6 DEF a
<1>9. ASSUME NEW r \in Roots, NEW k \in DOMAIN ops[r], Sends(r, k) PROVE AllTell'
  <2> DEFINE a == ops[r][k]
             o == [a EXCEPT !.push = "sent"]
  <2>1. /\ Sets(r, k, o) /\ a \in Operation /\ a.push = "licensed" /\ a.phase = "main_intent"
        /\ a.age \in (-1)..MainFence /\ a.age < PushTimeout
        /\ wire' = wire \cup {<<r, k>>} /\ main' = main /\ Tells(r, k)
    BY <1>0, <1>9, OperationTyped DEF Sends, Send
  <2>2. Quiet(r, k) /\ Unanswered(a) /\ ~a.missing
    BY <2>1 DEF Tells, SaysQuiet
  <2>3. /\ o.base = a.base /\ o.phase = "main_intent" /\ o.push = "sent" /\ o.age = a.age
        /\ o.outcome = a.outcome /\ o.missing = a.missing
    BY <2>1 DEF Operation
  <2>4. ops'[r][k] = o /\ ops[r][k] = a
    BY <1>0, <2>1, SetsFacts
  <2> HIDE DEF o, a
  <2>5. a.age < MainFence
    BY <2>1, LandingAssumption
  <2>6. ~InMain(r, k)'
    BY <2>1, <2>2, <2>3, <2>4 DEF Quiet, InMain, R, Landing
  <2>7. Unanswered(o) /\ ~SaysQuiet(o) /\ ~SaysLanded(o) /\ ~SaysEnded(o)
    BY <2>1, <2>2, <2>3 DEF Unanswered, SaysQuiet, SaysLanded, SaysEnded, Terminal, BeforeMain
  <2>8. Tells(r, k)'
    BY <2>2, <2>3, <2>4, <2>5, <2>6, <2>7
       DEF Tells, Unanswered, SaysQuiet, SaysLanded, SaysEnded, Terminal
  <2> QED BY <2>1, <2>8, TellsSets
<1>10. ASSUME NEW r \in Roots, NEW k \in DOMAIN ops[r], Takes(r, k) PROVE AllTell'
  <2>1. PICK p \in {"ok", "unknown", ops[r][k].push} : Sets(r, k, [ops[r][k] EXCEPT !.push = p])
    BY <1>10 DEF Takes
  <2> DEFINE a == ops[r][k]
             o == [a EXCEPT !.push = p]
  <2>2. /\ Sets(r, k, o) /\ a \in Operation /\ <<r, k>> \in wire
        /\ wire' = wire \ {<<r, k>>} /\ main' = R(r, k) /\ Tells(r, k)
    BY <1>0, <1>10, <2>1, OperationTyped DEF Takes
  <2>3. /\ Unanswered(a) /\ ~a.missing /\ ~SaysQuiet(a)
        /\ ~left.slow => ~SaysEnded(a)
    BY <2>2 DEF Tells, Quiet
  <2>4. /\ o.base = a.base /\ o.phase = a.phase /\ o.push = p
        /\ o.outcome = a.outcome /\ o.missing = a.missing
    BY <2>2 DEF Operation
  <2>5. ops'[r][k] = o /\ ops[r][k] = a
    BY <1>0, <2>2, SetsFacts
  <2> HIDE DEF o, a
  <2>6. InMain(r, k)'
    <3>1. R(r, k)' = R(r, k)
      BY <2>4, <2>5 DEF R, Landing
    <3>2. R(r, k) \in Seq(Commits)
      BY <1>0, OperationTyped, AppendProperties DEF R
    <3>3. IsPrefix(R(r, k), R(r, k))
      BY <3>2, PrefixFacts, LenProperties
    <3> QED BY <2>2, <3>1, <3>3 DEF InMain
  <2>7. Unanswered(o) /\ ~SaysQuiet(o) /\ (~left.slow => ~SaysEnded(o))
    BY <2>1, <2>3, <2>4, <2>5 DEF Unanswered, SaysQuiet, SaysEnded, Terminal
  <2>8. left'.slow = left.slow
    BY <1>0, RestTyped DEF Rest
  <2>9. Tells(r, k)'
    BY <2>2, <2>3, <2>4, <2>5, <2>6, <2>7, <2>8
       DEF Tells, Unanswered, SaysQuiet, SaysLanded, SaysEnded, Terminal
  <2> QED BY <2>2, <2>9, TellsSets
<1>11. ASSUME NEW r \in Roots, NEW k \in DOMAIN ops[r], Refuses(r, k) PROVE AllTell'
  <2>1. PICK p \in {"non_ff", "denied", "unknown", ops[r][k].push} :
          Sets(r, k, [ops[r][k] EXCEPT !.push = p])
    BY <1>11 DEF Refuses
  <2> DEFINE a == ops[r][k]
             o == [a EXCEPT !.push = p]
  <2>2. /\ Sets(r, k, o) /\ a \in Operation /\ <<r, k>> \in wire
        /\ wire' = wire \ {<<r, k>>} /\ main' = main /\ Tells(r, k)
    BY <1>0, <1>11, <2>1, OperationTyped DEF Refuses
  <2>3. /\ Unanswered(a) /\ ~a.missing /\ ~InMain(r, k)
        /\ ~SaysLanded(a)
    BY <2>2 DEF Tells
  <2>4. /\ o.base = a.base /\ o.phase = a.phase /\ o.push = p
        /\ o.outcome = a.outcome /\ o.missing = a.missing
    BY <2>2 DEF Operation
  <2>5. ops'[r][k] = o /\ ops[r][k] = a
    BY <1>0, <2>2, SetsFacts
  <2> HIDE DEF o, a
  <2>6. Quiet(r, k)' /\ <<r, k>> \notin wire'
    BY <2>2, <2>3, <2>4, <2>5 DEF Quiet, InMain, R, Landing
  <2>7. Unanswered(o) /\ ~SaysLanded(o)
    BY <2>1, <2>3, <2>4, <2>5 DEF Unanswered, SaysLanded
  <2>8. Tells(r, k)'
    BY <2>3, <2>4, <2>5, <2>6, <2>7 DEF Tells, Unanswered, SaysLanded
  <2> QED BY <2>2, <2>8, TellsSets
<1>12. ASSUME NEW e \in evidence, Writes(e) PROVE AllTell'
  <2>0. PICK r, k, o : r = e.of[1] /\ k = e.of[2] /\ o = Reconciled(ops[r][k], e)
    OBVIOUS
  <2>1. r \in Roots /\ k \in DOMAIN ops[r] /\ wire' = wire
    BY <1>0, <1>12, <2>0, OpsFacts DEF Typed, Types, Writes
  <2>2. CASE ops[r][k].phase = e.phase /\ ops[r][k].outcome = e.outcome /\ Sets(r, k, o)
    <3>1. /\ o.base = ops[r][k].base /\ o.age = ops[r][k].age /\ Unanswered(o) /\ ~o.missing
          /\ SaysQuiet(o) => Quiet(r, k)
          /\ SaysLanded(o) => InMain(r, k)
          /\ ~left.slow /\ SaysEnded(o) => Quiet(r, k)
      BY <2>0, <2>1, <2>2, ReconciledTells
    <3> QED BY <1>1, <2>1, <2>2, <3>1
  <2> QED BY <1>2, <1>12, <2>0, <2>1, <2>2 DEF Writes
<1>13. CASE MainMoves \/ Stays
  BY <1>2, <1>13 DEF MainMoves, Stays
<1>14. ASSUME NEW r \in Roots, NEW k \in DOMAIN ops[r], GateOpen(r) \/ ReadMain(r, k) PROVE AllTell'
  BY <1>2, <1>14 DEF GateOpen, ReadMain
<1>15. ASSUME NEW r \in Roots, GateOpen(r) PROVE AllTell'
  BY <1>2, <1>15 DEF GateOpen
<1> HIDE DEF AllTell
<1> QED BY <1>0, <1>3, <1>4, <1>5, <1>6, <1>7, <1>8, <1>9, <1>10, <1>11, <1>12, <1>13, <1>14, <1>15,
           Shapes DEF Shape

\* What evidence says of main stays true until it is written, although main moves
\* and pushes arrive: what was absent past the fence is not sent any more.
LEMMA StillTellsStep ==
  ASSUME Grows, AllTell, ReadPastIntent, \A e \in evidence : StillTells(e)
  PROVE  \A e \in evidence' : StillTells(e)'
<1>0. Typed /\ [Next]_vars /\ left'.slow = left.slow
  BY RestTyped DEF Grows, Rest
<1>1. ASSUME NEW e \in evidence PROVE StillTells(e)'
  <2>0. PICK r, k : r = e.of[1] /\ k = e.of[2]
    OBVIOUS
  <2>1. r \in Roots /\ k \in DOMAIN ops[r] /\ ops[r][k].phase \notin BeforeMain
    BY <1>0, <2>0, OpsFacts DEF Typed, Types, ReadPastIntent
  <2>2. /\ e.has => InMain(r, k)
        /\ e.outcome = "ok" => e.has
        /\ ~left.slow /\ e.fenced /\ ~e.has => Quiet(r, k) /\ ops[r][k].age >= MainFence
    BY <2>0 DEF StillTells
  <2>3. /\ ops'[r][k].base = ops[r][k].base /\ ops'[r][k].age >= ops[r][k].age
        /\ <<r, k>> \in wire' => <<r, k>> \in wire \/ Sends(r, k)
        /\ k \in DOMAIN ops'[r]
    BY <1>0, <2>1, PastSteps
  <2>4. InMain(r, k) => InMain(r, k)'
    BY <2>1, <2>3, InMainStays DEF Grows
  <2>5. ASSUME Quiet(r, k), ops[r][k].age >= MainFence
        PROVE  Quiet(r, k)' /\ ops'[r][k].age >= MainFence
    <3>1. ops[r][k].age \in (-1)..MainFence /\ ops'[r][k].age \in (-1)..MainFence
      <4>1. Typed'
        BY <1>0, TypedStep
      <4>2. \A s \in Roots : \A j \in DOMAIN ops[s] : ops[s][j].age \in (-1)..MainFence
        BY <1>0, OperationTyped
      <4>3. (\A s \in Roots : \A j \in DOMAIN ops[s] : ops[s][j].age \in (-1)..MainFence)'
        <5>1. ops' \in [Roots -> Seq(Operation)]
          BY <4>1 DEF Typed, Types
        <5>2. \A s \in Roots : \A j \in DOMAIN ops'[s] : ops'[s][j] \in Operation
          BY <5>1, LenProperties, ElementOfSeq
        <5> QED BY <5>2 DEF Operation
      <4> QED BY <2>1, <2>3, <4>2, <4>3
    <3>2. ~Sends(r, k)
      BY <2>5, <3>1, LandingAssumption DEF Sends, Send
    <3>3. ~Takes(r, k)
      BY <2>5 DEF Takes, Quiet
    <3>4. ~InMain(r, k)'
      BY <2>1, <2>3, <2>5, <3>3, NotInMainStays DEF Grows, Quiet
    <3> QED BY <2>3, <2>5, <3>1, <3>2, <3>4, LandingAssumption DEF Quiet
  <2> QED BY <1>0, <2>0, <2>2, <2>4, <2>5 DEF StillTells
<1>2. ASSUME NEW r \in Roots, NEW k \in DOMAIN ops[r], ReadMain(r, k),
             NEW e, e = ReadEvidence(r, k)
      PROVE  StillTells(e)'
  <2>1. /\ e.of[1] = r /\ e.of[2] = k /\ e.has = InMain(r, k)
        /\ e.outcome = ops[r][k].outcome /\ e.fenced = (ops[r][k].age >= MainFence)
    BY <1>2 DEF ReadEvidence, Fenced
  <2>2. main' = main /\ ops' = ops /\ wire' = wire /\ Tells(r, k)
    BY <1>2 DEF ReadMain, AllTell
  <2>3. InMain(r, k)' = InMain(r, k)
    BY <2>2 DEF InMain, R, Landing
  <2>4. ops[r][k].outcome = "ok" => InMain(r, k)
    BY <2>2 DEF Tells, SaysLanded
  <2>5. ASSUME ~left.slow, ops[r][k].age >= MainFence, ~InMain(r, k) PROVE Quiet(r, k)
    <3>1. ops[r][k].age \in (-1)..MainFence
      BY <1>0, OperationTyped
    <3> QED BY <2>2, <2>5, <3>1, LandingAssumption DEF Tells, Quiet
  <2>6. Quiet(r, k)' <=> Quiet(r, k)
    BY <2>2, <2>3 DEF Quiet
  <2> QED BY <1>0, <2>1, <2>2, <2>3, <2>4, <2>5, <2>6 DEF StillTells
<1>3. \/ evidence' \subseteq evidence
      \/ \E r \in Roots : \E k \in DOMAIN ops[r] : ReadMain(r, k)
  BY <1>0, Shapes DEF Shape, Stays, MainMoves, Tick, MovesEarly, OpensNext, Replays, Intends, GateOpen,
                MovesLate, Sends, Send, Takes, Refuses, Writes
<1>4. ASSUME NEW r \in Roots, NEW k \in DOMAIN ops[r], ReadMain(r, k), NEW e \in evidence'
      PROVE  e \in evidence \/ e = ReadEvidence(r, k)
  BY <1>4 DEF ReadMain
<1> QED BY <1>1, <1>2, <1>3, <1>4

\* The records and the evidence tell the truth of a main that is not rewound.
LEMMA TruthfulStep ==
  ASSUME Typed, Fresh, Truthful, [Next]_vars
  PROVE  Truthful'
<1>1. ReadPastIntent'
  BY ReadPastIntentStep DEF Truthful
<1>2. left'.rewinds = left.rewinds
  BY RestTyped DEF Rest
<1>3. ASSUME ~left.rewinds PROVE LandedKnown' /\ AllTell' /\ \A e \in evidence' : StillTells(e)'
  <2>1. Grows /\ SentPastIntent /\ ReadPastIntent /\ LandedKnown /\ AllTell /\ \A e \in evidence : StillTells(e)
    BY <1>3 DEF Grows, Fresh, Truthful, AllTell
  <2>2. LandedKnown'
    BY <2>1, LandedKnownStep DEF Grows
  <2> QED BY <2>1, <2>2, TellsStep, StillTellsStep
<1> QED BY <1>1, <1>2, <1>3 DEF Truthful, AllTell

\* Initially nothing is recorded.
LEMMA TruthfulInit == Init => Truthful
<1>1. Len(<<>>) = 0 /\ DOMAIN <<>> = {}
  BY EmptySeq
<1> QED BY <1>1 DEF Init, Truthful, ReadPastIntent, LandedKnown

\* Unless main is rewound, what is recorded landed is in main, and what ended
\* otherwise is not there and, if the remote applies nothing past the fence, will
\* not come (landing_reconcile.go:200): of an absence read past the fence nothing
\* is sent any more, and the fence is past every push's deadline.
THEOREM RecordsTellTruth == LandingSpec => []RecordsTellMain
<1>1. ASSUME Typed, Truthful PROVE RecordsTellMain
  <2>1. ASSUME NEW r \in Roots, NEW k \in DOMAIN ops[r], ~left.rewinds PROVE Tells(r, k)
    BY <1>1, <2>1 DEF Truthful
  <2>2. \A p \in Ops : p = <<p[1], p[2]>> /\ p[1] \in Roots /\ p[2] \in DOMAIN ops[p[1]]
    BY <1>1, OpsFacts DEF Typed, Types
  <2> QED BY <2>1, <2>2 DEF RecordsTellMain, Tells, SaysLanded, SaysEnded, Quiet
<1>2. Typed /\ Fresh /\ Truthful /\ [Next]_vars => Typed' /\ Fresh' /\ Truthful'
  BY TypedStep, FreshStep, TruthfulStep
<1> QED BY <1>1, <1>2, TypedInit, FreshInit, TruthfulInit, PTL DEF LandingSpec
=============================================================================
