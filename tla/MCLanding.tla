----------------------------- MODULE MCLanding -----------------------------
(* Small worlds around the landings: two roots alone; one root among other  *)
(* commits, which the Owner retries; one root, a rewound main and a slow    *)
(* remote.                                                                  *)
EXTENDS Landing

CONSTANTS r1, r2

MCWorlds ==
  {[roots |-> {r1, r2}, moves |-> 0, answers |-> 0, rewinds |-> FALSE, slow |-> FALSE],
   [roots |-> {r1}, moves |-> 2, answers |-> 1, rewinds |-> FALSE, slow |-> FALSE],
   [roots |-> {r1}, moves |-> 1, answers |-> 1, rewinds |-> TRUE, slow |-> TRUE]}
=============================================================================
