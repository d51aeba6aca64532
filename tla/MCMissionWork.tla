--------------------------- MODULE MCMissionWork ---------------------------
(* Instances of MissionWork for TLC. *)
EXTENDS MissionWork

CONSTANTS t1, t2

OrderedById == [S \in SUBSET {t1, t2} |-> SelectSeq(<<t1, t2>>, LAMBDA t : t \in S)]
(* Two pieces of work of which the first may wait for the second, or a     *)
(* piece of work and its check.                                            *)
TwoShapes == {[t \in {t1, t2} |-> None], [t \in {t1, t2} |-> IF t = t2 THEN t1 ELSE None]}
OneEdge == {<<t1, t2>>}
WorkStops == {Global, Task(t1)}

(* BOUND: the second task is landed in a mission without a dependency, and  *)
(* not under a stop.                                                       *)
SecondLandsFree == landing[t2] = "none" \/ (deps = {} /\ stops = {})
=============================================================================
