---------------------------- MODULE MCLaneRegistry ----------------------------
(* Instances of LaneRegistry for TLC. *)
EXTENDS LaneRegistry, TLC

Words == {"repo", "direct", "app", "apt", "line", "directline", "go", "to", "what", "now",
          "brief", "me", "new", "conversation", "for"}
App == <<"app">>
DirectLine == <<"direct", "line">>

\* "directline" is "direct line" to the recogniser.
AlikeNames == {<<DirectLine, <<"directline">>>>}

\* The letters of "direct" occur in "directline".
InsideWords == {<<"direct", "directline">>}

\* "apt" is within the tolerance of "app".
SlipNames == <<App, <<"apt">>>> :> 1

\* A fresh installation, and one that was used.
Fresh == {DefaultRegistry}
Used == {[lanes |-> <<Direct, [id |-> IdOf(App), name |-> App, count |-> 0]>>,
          active |-> IdOf(App), previous |-> Direct.id]}

ClientNames == {DirectLine}
ModelWords == {<<"apt">>, DirectLine}
Heard == {App, DirectLine, <<"directline">>, <<"go", "to", "direct">>, <<"what", "now">>,
          <<"brief", "me">>, <<"new", "conversation", "for", "app">>}
=============================================================================
