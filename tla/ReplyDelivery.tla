---------------------------- MODULE ReplyDelivery ----------------------------
(***************************************************************************)
(* What the receipt exchange promises about each reply, with no bridge, no *)
(* store and no socket in it: a reply is heard, then consumed at           *)
(* telepathosd, then settled on a handset, and none of it is undone.       *)
(***************************************************************************)
CONSTANT Keys

VARIABLES
  heard,     \* replies some handset played to the end and recorded
  consumed,  \* replies telepathosd no longer holds as pending
  settled    \* replies whose receipt a handset has erased

vars == <<heard, consumed, settled>>

Init == heard = {} /\ consumed = {} /\ settled = {}

Hear(k) ==
  /\ heard' = heard \cup {k}
  /\ UNCHANGED <<consumed, settled>>

Consume(k) ==
  /\ k \in heard
  /\ consumed' = consumed \cup {k}
  /\ UNCHANGED <<heard, settled>>

Settle(k) ==
  /\ k \in consumed
  /\ settled' = settled \cup {k}
  /\ UNCHANGED <<heard, consumed>>

Next == \E k \in Keys : Hear(k) \/ Consume(k) \/ Settle(k)

Spec == Init /\ [][Next]_vars
=============================================================================
