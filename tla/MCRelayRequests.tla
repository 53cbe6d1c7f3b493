---------------------------- MODULE MCRelayRequests ----------------------------
(* An instance of RelayRequests: two turns say the same, a third does not. *)
EXTENDS RelayRequests

Words == [t \in Turns |-> IF t = "other" THEN "stop" ELSE "yes"]
=============================================================================
