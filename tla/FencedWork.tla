----------------------------- MODULE FencedWork -----------------------------
(***************************************************************************)
(* What the lease kernel promises its callers, without clocks, hosts or    *)
(* task states.  The code states the two halves: "the write-time fence is  *)
(* what stops late writes" (attempt.go:673) and "only one attempt can be   *)
(* accepted" (kernel.go:233).                                              *)
(*                                                                         *)
(* A piece of work is granted under a token nobody held before, to one     *)
(* holder at a time; only that holder can hand its work over; a token      *)
(* dropped is never held or handed over again.                             *)
(***************************************************************************)
EXTENDS Naturals

CONSTANT Work

VARIABLES
  last,     \* the last token given out
  held,     \* the tokens each piece of work is held under
  handed    \* the tokens under which it was handed over

workVars == <<last, held, handed>>

Grant(w) ==
  /\ held[w] = {}
  /\ last' = last + 1
  /\ held' = [held EXCEPT ![w] = {last + 1}]
  /\ UNCHANGED handed

\* The holders of some of the work are gone.
Drop(S) ==
  /\ held' = [w \in Work |-> IF w \in S THEN {} ELSE held[w]]
  /\ UNCHANGED <<last, handed>>

HandOver(w) ==
  /\ held[w] # {}
  /\ handed' = [handed EXCEPT ![w] = @ \cup held[w]]
  /\ held' = [held EXCEPT ![w] = {}]
  /\ UNCHANGED last

Init ==
  /\ last = 0
  /\ held = [w \in Work |-> {}]
  /\ handed = [w \in Work |-> {}]

Next ==
  \/ \E w \in Work : Grant(w) \/ HandOver(w)
  \/ \E S \in SUBSET Work : Drop(S)

Spec == Init /\ [][Next]_workVars
=============================================================================
