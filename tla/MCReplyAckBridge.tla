------------------------- MODULE MCReplyAckBridge -------------------------
(* Instances of ReplyAckBridge for TLC. *)
EXTENDS ReplyAckBridge, TLC

CONSTANTS k1, k2, i1, i2, s1, s2

OneSocket == s1 :> i1
OneOwner == s1 :> i1 @@ s2 :> i1
TwoOwners == s1 :> i1 @@ s2 :> i2

\* Sockets of one installation are interchangeable.
SocketSymmetry == Permutations({s1, s2})

\* So are receipts.
KeySymmetry == Permutations({k1, k2})

\* So are two installations, each with its own socket.
OwnerSymmetry ==
  {i1 :> i1 @@ i2 :> i2 @@ s1 :> s1 @@ s2 :> s2,
   i1 :> i2 @@ i2 :> i1 @@ s1 :> s2 @@ s2 :> s1}
=============================================================================
