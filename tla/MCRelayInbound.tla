---------------------------- MODULE MCRelayInbound ----------------------------
(* Instances of RelayInbound. *)
EXTENDS RelayInbound
=============================================================================
