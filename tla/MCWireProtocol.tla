----------------------------- MODULE MCWireProtocol -----------------------------
(* An instance of WireProtocol for TLC: one value of every kind the codecs tell *)
(* apart, at both sides of every bound.                                         *)
EXTENDS WireProtocol

Text(name, units, bytes, kinds, edges) ==
  [kind |-> "text", name |-> name, units |-> units, bytes |-> bytes,
   kinds |-> kinds, edges |-> edges]
Whole(k) == [kind |-> "int", n |-> k, whole |-> TRUE]
Real(k, whole) == [kind |-> "real", n |-> k, whole |-> whole]

\* MaxSafe in small: the double of 9 is 8.
Exact == 7

GoodValues ==
  LET id == Text("id", 4, 4, {"alnum", "mark"}, TRUE)
  IN  [device |-> id, installation_id |-> id, token |-> id, id |-> id,
       turn_token |-> id, lane_id |-> id, reply_to |-> id, interaction_id |-> id,
       text |-> id, repo |-> id, message |-> id,
       command |-> Text("stop", 4, 4, {"alnum"}, TRUE),
       value |-> Text("listening", 9, 9, {"alnum"}, TRUE),
       revision |-> Whole(3), after_seq |-> Whole(1), through_seq |-> Whole(Exact),
       samples |-> Whole(1), confidence |-> Real(1, TRUE)]

Strings ==
  {Text("empty", 0, 0, {}, FALSE),
   Text("dash", 4, 4, {"alnum", "mark"}, FALSE),
   Text("spaces", 2, 2, {"space"}, FALSE),
   Text("tabbed", 3, 3, {"alnum", "tab"}, TRUE),
   Text("accented", 100, 300, {"other"}, FALSE),
   Text("full", 128, 128, {"alnum"}, TRUE),
   Text("long", 129, 129, {"alnum"}, TRUE),
   Text("longer", 257, 257, {"alnum"}, TRUE),
   Text("emoji", 101, 200, {"alnum", "pair"}, FALSE),
   Text("limit", 524288, 524288, {"alnum", "space"}, TRUE),
   Text("huge", 524289, 524289, {"alnum", "space"}, TRUE),
   Text("torn", 2, 4, {"alnum", "lone"}, FALSE)}

Numbers ==
  {Whole(k) : k \in {-1, 0, 1, Exact, Exact + 1, Exact + 2}}
    \cup {Real(2, TRUE), Real(1, FALSE), Real(0, TRUE)}

AllValues == Strings \cup Numbers \cup {Null}
=============================================================================
