----------------------------- MODULE MCRelayLedger -----------------------------
(* Instances of RelayLedger. *)
EXTENDS RelayLedger, TLC

Symmetry == Permutations(Gateways)
=============================================================================
