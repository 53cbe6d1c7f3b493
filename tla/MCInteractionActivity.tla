------------------------- MODULE MCInteractionActivity -------------------------
(* Instances of InteractionActivity for TLC. *)
EXTENDS InteractionActivity, TLC

CONSTANTS t1, t2, t3, lane

OneLane == [t \in Interactions |-> lane]

TurnSymmetry == Permutations(Interactions)
=============================================================================
