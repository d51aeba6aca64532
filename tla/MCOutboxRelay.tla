---------------------------- MODULE MCOutboxRelay ----------------------------
(* Instances of OutboxRelay for TLC: two worlds in one graph of states.     *)
EXTENDS OutboxRelay

CONSTANTS r1, r2, m1, m2

(* Two relays and one message; Redis keeps what it holds.  r1 is the one that *)
(* takes the first token.                                                    *)
Pair == wipes = 0 /\ message[m2] = "none" /\ (relay[r2].token = 1 => relay[r1].token = 1)

(* One relay, and Redis is wiped under it.                                   *)
Lone == relay[r2] = Stopped /\ troubles <= 1

(* BOUND: one of the worlds, and a third row only where all are cooldowns.   *)
PairOrLone ==
  /\ Pair \/ Lone
  /\ Len(outbox) = 3 => \A m \in Messages : message[m] = "none"

(* The second relay need not be started: only what it began goes on.  The    *)
(* constraint takes none of the steps that are fair here.                    *)
FairFirst ==
  /\ Spec
  /\ WF_vars(RunStep(r1)) /\ WF_vars(~At(r2, "idle") /\ RunStep(r2))
  /\ \A r \in Relays : WF_vars(NoticeLoss(r))
  /\ WF_vars(Expire)
=============================================================================
