-------------------------- MODULE MCReplyProgress --------------------------
(* Instances of ReplyProgress for TLC. *)
EXTENDS ReplyProgress, TLC

CONSTANTS k1, k2, i1, i2, s1, s2

OneSocket == s1 :> i1
OneOwner == s1 :> i1 @@ s2 :> i1
TwoOwners == s1 :> i1 @@ s2 :> i2
=============================================================================
