------------------------------ MODULE LaneGrammar ------------------------------
(***************************************************************************)
(* What the meta grammar of telepathosd understands (lanes/src/meta.rs): a *)
(* text is the sequence of words normalize makes of it, a lane carries its *)
(* name in the same form.  What depends on the letters inside the words is *)
(* given by constants: names that sound alike once spaces are dropped,     *)
(* words whose letters hide in another word, misheard names within the     *)
(* tolerance of the edit distance.                                         *)
(***************************************************************************)
EXTENDS Naturals, SequencesExt

CONSTANTS
  Alike,    \* <<name, text>>: the same letters, differently spaced
  Inside,   \* <<word, longer word>>: the letters of one occur in the other
  Slip      \* <<name, text>> :> edit distance, for pairs within tolerance

NoLane == [id |-> <<>>, name |-> <<>>, count |-> 0]

From(text, k) == SubSeq(text, k, Len(text))

Exactly(name, text) == name = text \/ <<name, text>> \in Alike

\* text.contains(name), letters and not words.
Within(text, name) ==
  \E i \in 1..Len(text) :
    /\ i + Len(name) - 1 <= Len(text)
    /\ \A j \in DOMAIN name :
         text[i + j - 1] = name[j] \/ <<name[j], text[i + j - 1]>> \in Inside

\* The places of the lanes that fit the text: by the exact name, by a name that
\* occurs in it, by the least distance within tolerance.
Named(text, lanes) == {i \in DOMAIN lanes : Exactly(lanes[i].name, text)}
Contained(text, lanes) == {i \in DOMAIN lanes : Within(text, lanes[i].name)}
Nearest(text, lanes) ==
  LET Near == {i \in DOMAIN lanes : <<lanes[i].name, text>> \in DOMAIN Slip}
      Off(i) == Slip[<<lanes[i].name, text>>]
  IN  {i \in Near : \A j \in Near : Off(i) <= Off(j)}

Least(places) == CHOOSE i \in places : \A j \in places : i <= j

\* The first lane of the first set that is not empty.
Preferred(first, second, third, lanes) ==
  CASE first # {} -> lanes[Least(first)]
    [] first = {} /\ second # {} -> lanes[Least(second)]
    [] first \cup second = {} /\ third # {} -> lanes[Least(third)]
    [] OTHER -> NoLane

\* Wrong on purpose: a name that occurs in the text wins over the exact one.
MatchInsideFirst(text, lanes) ==
  IF text = <<>> THEN NoLane
  ELSE Preferred(Contained(text, lanes), Named(text, lanes), Nearest(text, lanes), lanes)

\* match_lane: exact, else contained in the text, else the nearest; each time
\* the first lane of the registry.
Match(text, lanes) ==
  IF text = <<>> THEN NoLane
  ELSE Preferred(Named(text, lanes), Contained(text, lanes), Nearest(text, lanes), lanes)

-----------------------------------------------------------------------------
(* parse_meta, its rules in the order they are tried *)

Starts(text, prefix) == Len(text) >= Len(prefix) /\ SubSeq(text, 1, Len(prefix)) = prefix

IsNote(text) == text[1] \in {"note", "remember", "keep"} /\ Len(text) > 1

\* What is left after "keep in mind that", "remember that" or "note that", or
\* after the first word alone.
NoteText(text) ==
  LET Long == {p \in {<<"keep", "in", "mind", "that">>, <<"remember", "that">>, <<"note", "that">>} :
                 Starts(text, p) /\ Len(text) > Len(p)}
  IN  IF Long = {} THEN Tail(text) ELSE From(text, Len(CHOOSE p \in Long : TRUE) + 1)

IsList(text) ==
  /\ \E p \in {<<"list">>, <<"show">>, <<"what", "are", "the">>,
               <<"what", "conversation">>, <<"what", "conversations">>,
               <<"which", "conversation">>, <<"which", "conversations">>} : Starts(text, p)
  /\ \E w \in {"conversation", "conversations", "lane", "lanes"} : Within(text, <<w>>)

\* new|start|create ... conversation|lane|chat [for|about|called|named|to] name;
\* the empty name when the text is no such command.
NewName(text) ==
  LET Keys == {k \in DOMAIN text : text[k] \in {"conversation", "lane", "chat"}}
      key == CHOOSE k \in Keys : \A j \in Keys : k <= j
      rest == From(text, key + 1)
  IN  IF text[1] \notin {"new", "start", "create"} \/ Keys = {} \/ rest = <<>> THEN <<>>
      ELSE IF rest[1] \in {"for", "about", "called", "named", "to"} THEN Tail(rest) ELSE rest

IsBrief(text) == text[1] \in {"brief", "status"} \/ text = <<"catch", "me", "up">>

\* brief on|about|for name
BriefTarget(text) ==
  LET Preps == {k \in DOMAIN text : text[k] \in {"on", "about", "for"}}
  IN  IF Preps = {} THEN <<>>
      ELSE From(text, (CHOOSE k \in Preps : \A j \in Preps : k <= j) + 1)

\* switch|go|work|move|jump name: of these only "go" also drops a "to".
SwitchTarget(text) ==
  IF text[1] \notin {"switch", "go", "work", "move", "jump"} THEN <<>>
  ELSE IF text[1] = "go" /\ Len(text) > 1 /\ text[2] = "to" THEN From(text, 3) ELSE Tail(text)

Action(op, lane, name) == [op |-> op, lane |-> lane, name |-> name]

Parse(text, lanes) ==
  LET target == Match(SwitchTarget(text), lanes)
      bare == Match(text, lanes)
  IN  IF text = <<>> THEN Action("unknown", NoLane, <<>>)
      ELSE IF IsNote(text) THEN Action("note", NoLane, NoteText(text))
      ELSE IF IsList(text) THEN Action("list", NoLane, <<>>)
      ELSE IF NewName(text) # <<>> THEN Action("new", NoLane, NewName(text))
      ELSE IF IsBrief(text) THEN Action("brief", Match(BriefTarget(text), lanes), <<>>)
      ELSE IF target # NoLane THEN Action("switch", target, <<>>)
      ELSE IF bare # NoLane THEN Action("switch", bare, <<>>)
      ELSE Action("unknown", NoLane, <<>>)
=============================================================================
