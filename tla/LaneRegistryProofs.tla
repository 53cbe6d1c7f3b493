-------------------------- MODULE LaneRegistryProofs --------------------------
(***************************************************************************)
(* Theorems about LaneRegistry, for any names, utterances, calls, faults   *)
(* and limits.                                                             *)
(***************************************************************************)
EXTENDS LaneRegistry, QueueLemmas

Words == Seq(Word)

-----------------------------------------------------------------------------
(* Places in a sequence *)

\* A set of numbers that is not empty has a least one: what CHOOSE takes exists.
LEMMA LeastExists ==
  ASSUME NEW S \in SUBSET Nat, S # {}
  PROVE  /\ Least(S) \in S
         /\ \A j \in S : Least(S) <= j
<1>1. PICK x \in S : \A y \in S : ~(<<y, x>> \in OpToRel(<, Nat))
  BY NatLessThanWellFounded, WFMin
<1>2. \A y \in S : x <= y
  <2>1. SUFFICES ASSUME NEW y \in S, ~(x <= y) PROVE FALSE
    OBVIOUS
  <2>2. x \in Nat /\ y \in Nat
    BY SMT
  <2>3. y < x
    BY <2>1, <2>2, SMT
  <2>4. <<y, x>> \in OpToRel(<, Nat)
    BY <2>2, <2>3, Zenon DEF OpToRel
  <2> QED
    BY <1>1, <2>4
<1> QED
  BY <1>2, Zenon DEF Least

\* match_lane answers with a lane of the registry or with none.
LEMMA MatchIsKnown ==
  ASSUME NEW text, NEW lanes \in Seq(Lane)
  PROVE  Match(text, lanes) = NoLane \/ \E i \in DOMAIN lanes : Match(text, lanes) = lanes[i]
<1>1. ASSUME NEW S \in SUBSET DOMAIN lanes, S # {}
      PROVE  \E i \in DOMAIN lanes : lanes[Least(S)] = lanes[i]
  <2>1. S \in SUBSET Nat
    BY SMT
  <2> QED
    BY <2>1, <1>1, LeastExists
<1>2. /\ Named(text, lanes) \in SUBSET DOMAIN lanes
      /\ Contained(text, lanes) \in SUBSET DOMAIN lanes
      /\ Nearest(text, lanes) \in SUBSET DOMAIN lanes
  BY Zenon DEF Named, Contained, Nearest
<1>3. ASSUME NEW S \in SUBSET DOMAIN lanes, NEW T \in SUBSET DOMAIN lanes,
             NEW U \in SUBSET DOMAIN lanes
      PROVE  \/ Preferred(S, T, U, lanes) = NoLane
             \/ \E i \in DOMAIN lanes : Preferred(S, T, U, lanes) = lanes[i]
  <2>1. CASE S # {}
    BY <2>1, <1>1 DEF Preferred
  <2>2. CASE S = {} /\ T # {}
    BY <2>2, <1>1 DEF Preferred
  <2>3. CASE S \cup T = {} /\ U # {}
    BY <2>3, <1>1 DEF Preferred
  <2>4. CASE S \cup T = {} /\ U = {}
    BY <2>4 DEF Preferred
  <2> QED
    BY <2>1, <2>2, <2>3, <2>4
<1> QED
  BY <1>2, <1>3, Zenon DEF Match

\* The name of a new lane is made of the words that were heard.
LEMMA NewNameIsWords ==
  ASSUME NEW text \in Words
  PROVE  NewName(text) \in Words
<1> DEFINE Keys == {k \in DOMAIN text : text[k] \in {"conversation", "lane", "chat"}}
           key == Least(Keys)
           rest == From(text, key + 1)
<1>1. <<>> \in Words
  BY DEF Words
<1>2. ASSUME Keys # {} PROVE rest \in Words
  <2>1. Keys \in SUBSET Nat
    BY SMT DEF Words
  <2>2. key \in Keys
    BY <2>1, <1>2, LeastExists
  <2>3. key \in DOMAIN text
    BY <2>2, Zenon
  <2> HIDE DEF key
  <2> QED
    BY <2>3, SMT DEF Words, From
<1>3. ASSUME NEW t \in Words, t # <<>> PROVE Tail(t) \in Words
  BY <1>3, SMT DEF Words
<1> QED
  BY <1>1, <1>2, <1>3, Zenon DEF NewName, Least

\* What parse_meta makes of an utterance: a switch names a lane of the registry it
\* was parsed with, a new lane has a name.
LEMMA ParseIsKnown ==
  ASSUME NEW text \in Words, NEW lanes \in Seq(Lane)
  PROVE  LET action == Parse(text, lanes) IN
         /\ action.op = "switch" => \E i \in DOMAIN lanes : action.lane = lanes[i]
         /\ action.op = "new" => action.name \in Words
<1>1. \A t : Match(t, lanes) = NoLane \/ \E i \in DOMAIN lanes : Match(t, lanes) = lanes[i]
  BY MatchIsKnown
<1>2. NewName(text) \in Words
  BY NewNameIsWords
<1> DEFINE target == Match(SwitchTarget(text), lanes)
           bare == Match(text, lanes)
<1>3. /\ target = NoLane \/ \E i \in DOMAIN lanes : target = lanes[i]
      /\ bare = NoLane \/ \E i \in DOMAIN lanes : bare = lanes[i]
  BY <1>1
<1> HIDE DEF target, bare
<1>4. \/ /\ Parse(text, lanes).op \notin {"switch", "new"}
      \/ Parse(text, lanes) = Action("new", NoLane, NewName(text))
      \/ target # NoLane /\ Parse(text, lanes) = Action("switch", target, <<>>)
      \/ bare # NoLane /\ Parse(text, lanes) = Action("switch", bare, <<>>)
  <2>1. \A op, lane, name : Action(op, lane, name).op = op
    BY DEF Action
  <2> QED
    BY <2>1, SMT DEF Parse, target, bare
<1>5. \A op, lane, name : /\ Action(op, lane, name).op = op
                          /\ Action(op, lane, name).lane = lane
                          /\ Action(op, lane, name).name = name
  BY DEF Action
<1> QED
  BY <1>2, <1>3, <1>4, <1>5, SMT

-----------------------------------------------------------------------------
(* Registries *)

\* Every lane is kept at its place and its count never falls.
Grows(new, old) ==
  \A i \in DOMAIN old.lanes :
    /\ i \in DOMAIN new.lanes
    /\ new.lanes[i].id = old.lanes[i].id
    /\ new.lanes[i].count >= old.lanes[i].count

\* Lanes are only appended.
Extends(new, old) ==
  \A i \in DOMAIN old.lanes : i \in DOMAIN new.lanes /\ new.lanes[i] = old.lanes[i]

\* The ids by the places of the lanes.
LEMMA IdsByPlace ==
  ASSUME NEW reg
  PROVE  Ids(reg) = {reg.lanes[i].id : i \in DOMAIN reg.lanes}
BY DEF Ids, ToSet

\* What a registry is, in the terms the proofs use.
LEMMA RegistryParts ==
  ASSUME NEW reg, IsRegistry(reg)
  PROVE  /\ reg.lanes \in Seq(Lane) /\ Len(reg.lanes) \in Nat
         /\ DOMAIN reg.lanes = 1..Len(reg.lanes)
         /\ Len(reg.lanes) >= 1 /\ Len(reg.lanes) <= MaxLanes
         /\ reg.active \in Words /\ reg.previous \in Words
         /\ reg = [lanes |-> reg.lanes, active |-> reg.active, previous |-> reg.previous]
         /\ \A i \in DOMAIN reg.lanes :
              /\ reg.lanes[i] \in Lane
              /\ reg.lanes[i].id \in Words /\ reg.lanes[i].name \in Words
              /\ reg.lanes[i].count \in Nat /\ reg.lanes[i].count <= MaxCount
              /\ i > 1 => reg.lanes[i].id = IdOf(reg.lanes[i].name)
         /\ \A i, j \in DOMAIN reg.lanes : reg.lanes[i].id = reg.lanes[j].id => i = j
         /\ reg.active \in Ids(reg) /\ reg.previous \in Ids(reg)
<1>1. reg \in [lanes : Seq(Lane), active : Seq(Word), previous : Seq(Word)]
  BY DEF IsRegistry
<1>2. reg.lanes \in Seq(Lane) /\ Len(reg.lanes) \in Nat /\ DOMAIN reg.lanes = 1..Len(reg.lanes)
  BY <1>1, SMT
<1>3. \A i \in DOMAIN reg.lanes : reg.lanes[i] \in Lane
  BY <1>2, SMT
<1>4. \A l \in Lane : /\ l.id \in Words /\ l.name \in Words
                      /\ l.count \in Nat /\ l.count <= MaxCount
  BY RegistryAssumption, SMT DEF Lane, Words
<1>5. /\ reg.active \in Words /\ reg.previous \in Words
      /\ reg = [lanes |-> reg.lanes, active |-> reg.active, previous |-> reg.previous]
  BY <1>1, SMT DEF Words
<1>6. Valid(reg) /\ \A i \in DOMAIN reg.lanes : i > 1 => reg.lanes[i].id = IdOf(reg.lanes[i].name)
  BY Zenon DEF IsRegistry
<1>7. Len(reg.lanes) >= 1 /\ Len(reg.lanes) <= MaxLanes
  BY <1>6, RegistryAssumption, SMT DEF Valid
<1>8. /\ \A i, j \in DOMAIN reg.lanes : reg.lanes[i].id = reg.lanes[j].id => i = j
      /\ reg.active \in Ids(reg) /\ reg.previous \in Ids(reg)
  BY <1>6, Zenon DEF Valid
<1> QED
  BY <1>2, <1>3, <1>4, <1>5, <1>6, <1>7, <1>8, Zenon

\* The converse, with the ids by their places.
LEMMA RegistryFrom ==
  ASSUME NEW lanes \in Seq(Lane), Len(lanes) >= 1, Len(lanes) <= MaxLanes,
         \A i \in DOMAIN lanes : i > 1 => lanes[i].id = IdOf(lanes[i].name),
         \A i, j \in DOMAIN lanes : lanes[i].id = lanes[j].id => i = j,
         NEW active \in Words, \E i \in DOMAIN lanes : lanes[i].id = active,
         NEW previous \in Words, \E i \in DOMAIN lanes : lanes[i].id = previous
  PROVE  IsRegistry([lanes |-> lanes, active |-> active, previous |-> previous])
<1> DEFINE reg == [lanes |-> lanes, active |-> active, previous |-> previous]
<1>1. reg.lanes = lanes /\ reg.active = active /\ reg.previous = previous
  OBVIOUS
<1>2. reg \in [lanes : Seq(Lane), active : Seq(Word), previous : Seq(Word)]
  BY DEF Words
<1> HIDE DEF reg
<1>3. Len(lanes) \in 1..MaxLanes
  BY RegistryAssumption, SMT
<1>4. active \in Ids(reg) /\ previous \in Ids(reg)
  BY <1>1, IdsByPlace
<1>5. Valid(reg)
  BY <1>1, <1>3, <1>4, Zenon DEF Valid
<1>6. IsRegistry(reg)
  BY <1>1, <1>2, <1>5, Zenon DEF IsRegistry
<1> QED
  BY <1>6 DEF reg

\* A lane is found by its id.
LEMMA LaneIsFound ==
  ASSUME NEW reg, IsRegistry(reg), NEW i \in DOMAIN reg.lanes
  PROVE  /\ IndexOf(reg, reg.lanes[i].id) = i
         /\ LaneOf(reg, reg.lanes[i].id) = reg.lanes[i]
<1>1. \A k, j \in DOMAIN reg.lanes : reg.lanes[k].id = reg.lanes[j].id => k = j
  BY RegistryParts, Zenon
<1>2. IndexOf(reg, reg.lanes[i].id) = i
  BY <1>1, Zenon DEF IndexOf
<1> QED
  BY <1>2, Zenon DEF LaneOf

\* The ids of a registry stay the ids of one that grew, and growth composes.
LEMMA GrowthKeepsIds ==
  ASSUME NEW old, NEW new, Grows(new, old)
  PROVE  Ids(old) \subseteq Ids(new)
BY IdsByPlace, Zenon DEF Grows

\* Appending lanes is growth.
LEMMA ExtensionGrows ==
  ASSUME NEW old, IsRegistry(old), NEW new, Extends(new, old)
  PROVE  Grows(new, old)
<1>1. \A i \in DOMAIN old.lanes : old.lanes[i].count \in Nat
  BY RegistryParts, Zenon
<1>2. \A i \in DOMAIN old.lanes : old.lanes[i].count >= old.lanes[i].count
  BY <1>1, SMT
<1> QED
  BY <1>2, Zenon DEF Grows, Extends

-----------------------------------------------------------------------------
(* What the operations make of a registry *)

\* The update of the lanes alone, written out.
LEMMA LanesReplaced ==
  ASSUME NEW lanes, NEW active, NEW previous, NEW reg, NEW x,
         reg = [lanes |-> lanes, active |-> active, previous |-> previous]
  PROVE  [reg EXCEPT !.lanes = x] = [lanes |-> x, active |-> active, previous |-> previous]
BY SMT

\* switch keeps the lanes.
LEMMA SwitchedIsSound ==
  ASSUME NEW reg, IsRegistry(reg), NEW id \in Ids(reg)
  PROVE  IsRegistry(Switched(reg, id)) /\ Extends(Switched(reg, id), reg)
<1>1. CASE reg.active = id
  BY <1>1, Zenon DEF Switched, Extends
<1>2. CASE reg.active # id
  <2>1. Switched(reg, id) = [lanes |-> reg.lanes, active |-> id, previous |-> reg.active]
    BY <1>2, Zenon DEF Switched
  <2>2. IsRegistry([lanes |-> reg.lanes, active |-> id, previous |-> reg.active])
    <3>1. /\ reg.lanes \in Seq(Lane) /\ Len(reg.lanes) >= 1 /\ Len(reg.lanes) <= MaxLanes
          /\ \A i \in DOMAIN reg.lanes : i > 1 => reg.lanes[i].id = IdOf(reg.lanes[i].name)
          /\ \A i, j \in DOMAIN reg.lanes : reg.lanes[i].id = reg.lanes[j].id => i = j
          /\ reg.active \in Words /\ reg.active \in Ids(reg)
      BY RegistryParts, Zenon
    <3>2. \A x \in Ids(reg) : \E i \in DOMAIN reg.lanes : reg.lanes[i].id = x
      BY IdsByPlace, Zenon
    <3>3. id \in Words
      <4>1. \A i \in DOMAIN reg.lanes : reg.lanes[i].id \in Words
        BY RegistryParts, Zenon
      <4> QED
        BY <3>2, <4>1, Zenon
    <3> QED
      BY <3>1, <3>2, <3>3, RegistryFrom
  <2>3. Switched(reg, id).lanes = reg.lanes
    BY <2>1
  <2> QED
    BY <2>1, <2>2, <2>3, Zenon DEF Extends
<1> QED
  BY <1>1, <1>2

\* create appends a lane of that name unless there is one.
LEMMA CreatedIsSound ==
  ASSUME NEW reg, IsRegistry(reg), NEW name \in Words, Creatable(reg, name)
  PROVE  /\ IsRegistry(Created(reg, name)) /\ Extends(Created(reg, name), reg)
         /\ IdOf(name) \in Ids(Created(reg, name))
<1>1. CASE IdOf(name) \in Ids(reg)
  BY <1>1, Zenon DEF Created, Extends
<1>2. CASE IdOf(name) \notin Ids(reg)
  <2> DEFINE lane == [id |-> IdOf(name), name |-> name, count |-> 0]
             lanes == Append(reg.lanes, lane)
  <2>1. reg = [lanes |-> reg.lanes, active |-> reg.active, previous |-> reg.previous]
    BY RegistryParts, Zenon
  <2>2. Created(reg, name) = [lanes |-> lanes, active |-> reg.active, previous |-> reg.previous]
    <3>1. Created(reg, name) = [reg EXCEPT !.lanes = lanes]
      BY <1>2, Zenon DEF Created
    <3> QED
      BY <2>1, <3>1, LanesReplaced
  <2>3. lane \in Lane
    <3>1. IdOf(name) \in Seq(Word)
      <4>1. "repo" \in Word
        BY RegistryAssumption
      <4>2. <<"repo">> \in Seq(Word) /\ name \in Seq(Word)
        BY <4>1 DEF Words
      <4> QED
        BY <4>2, ConcatProperties DEF IdOf
    <3>2. 0 \in 0..MaxCount
      BY RegistryAssumption, SMT
    <3> QED
      BY <3>1, <3>2 DEF Lane, Words
  <2>4. reg.lanes \in Seq(Lane) /\ Len(reg.lanes) \in Nat /\ Len(reg.lanes) >= 1
    BY RegistryParts, Zenon
  <2> DEFINE n == Len(reg.lanes)
  <2>5. lane.id = IdOf(name) /\ lane.name = name
    OBVIOUS
  <2> HIDE DEF lane
  <2>6. /\ lanes \in Seq(Lane) /\ Len(lanes) = n + 1 /\ DOMAIN lanes = 1..(n + 1)
        /\ lanes[n + 1] = lane /\ \A i \in 1..n : lanes[i] = reg.lanes[i]
    BY <2>3, <2>4, SMT
  <2> HIDE DEF lanes
  <2>7. DOMAIN reg.lanes = 1..n
    BY RegistryParts, Zenon
  <2>8. n < MaxLanes
    BY <1>2, Zenon DEF Creatable
  <2>9. n \in Nat /\ MaxLanes \in Nat
    BY <2>4, RegistryAssumption
  <2> HIDE DEF n
  <2>10. \A i \in DOMAIN lanes : i \in 1..n \/ i = n + 1
    BY <2>6, <2>9, SMT
  <2>11. \A i \in DOMAIN lanes : i > 1 => lanes[i].id = IdOf(lanes[i].name)
    <3>1. \A i \in 1..n : i > 1 => reg.lanes[i].id = IdOf(reg.lanes[i].name)
      BY <2>7, RegistryParts, Zenon
    <3> QED
      BY <2>5, <2>6, <2>10, <3>1, Zenon
  <2>12. \A i, j \in DOMAIN lanes : lanes[i].id = lanes[j].id => i = j
    <3>1. \A i, j \in 1..n : reg.lanes[i].id = reg.lanes[j].id => i = j
      BY <2>7, RegistryParts, Zenon
    <3>2. \A i \in 1..n : reg.lanes[i].id # IdOf(name)
      BY <2>7, <1>2, IdsByPlace, Zenon
    <3> QED
      BY <2>5, <2>6, <2>10, <3>1, <3>2, Zenon
  <2>13. \A x \in Ids(reg) : \E i \in DOMAIN lanes : lanes[i].id = x
    <3>1. \A i \in 1..n : i \in DOMAIN lanes
      BY <2>6, <2>9, SMT
    <3> QED
      BY <2>6, <2>7, <3>1, IdsByPlace, Zenon
  <2>14. Len(lanes) >= 1 /\ Len(lanes) <= MaxLanes
    BY <2>6, <2>8, <2>9, SMT
  <2>15. IsRegistry([lanes |-> lanes, active |-> reg.active, previous |-> reg.previous])
    <3>1. /\ reg.active \in Words /\ reg.active \in Ids(reg)
          /\ reg.previous \in Words /\ reg.previous \in Ids(reg)
      BY RegistryParts, Zenon
    <3> QED
      BY <2>6, <2>11, <2>12, <2>13, <2>14, <3>1, RegistryFrom
  <2>16. Created(reg, name).lanes = lanes
    BY <2>2
  <2>17. n + 1 \in DOMAIN lanes /\ \A i \in 1..n : i \in DOMAIN lanes
    BY <2>6, <2>9, SMT
  <2>18. Extends(Created(reg, name), reg)
    BY <2>6, <2>7, <2>16, <2>17, Zenon DEF Extends
  <2>19. IdOf(name) \in Ids(Created(reg, name))
    BY <2>5, <2>6, <2>16, <2>17, IdsByPlace, Zenon
  <2> QED
    BY <2>2, <2>15, <2>18, <2>19
<1> QED
  BY <1>1, <1>2

\* Create and switch, as the clients, the grammar and the model do.
LEMMA OpenedIsSound ==
  ASSUME NEW reg, IsRegistry(reg), NEW name \in Words, Creatable(reg, name)
  PROVE  LET new == Switched(Created(reg, name), IdOf(name)) IN
         IsRegistry(new) /\ Extends(new, reg)
<1> DEFINE one == Created(reg, name)
           new == Switched(one, IdOf(name))
<1>1. IsRegistry(one) /\ Extends(one, reg) /\ IdOf(name) \in Ids(one)
  BY CreatedIsSound
<1> HIDE DEF one
<1>2. IsRegistry(new) /\ Extends(new, one)
  BY <1>1, SwitchedIsSound
<1>3. Extends(new, reg)
  BY <1>1, <1>2, Zenon DEF Extends
<1> QED
  BY <1>2, <1>3 DEF one

\* An interaction is counted on its lane and changes no other.
LEMMA CountedIsSound ==
  ASSUME NEW reg, IsRegistry(reg), NEW id \in Ids(reg), LaneOf(reg, id).count < MaxCount
  PROVE  LET lanes == [reg.lanes EXCEPT ![IndexOf(reg, id)].count = @ + 1]
             new == [reg EXCEPT !.lanes = lanes]
         IN  IsRegistry(new) /\ Grows(new, reg)
<1> DEFINE k == IndexOf(reg, id)
           lanes == [reg.lanes EXCEPT ![k].count = @ + 1]
           new == [reg EXCEPT !.lanes = lanes]
<1>1. PICK here \in DOMAIN reg.lanes : reg.lanes[here].id = id
  BY IdsByPlace, Zenon
<1>2. k \in DOMAIN reg.lanes /\ reg.lanes[k].count < MaxCount
  BY <1>1, LaneIsFound, Zenon DEF LaneOf
<1> HIDE DEF k
<1>3. new = [lanes |-> lanes, active |-> reg.active, previous |-> reg.previous]
  <2>1. reg = [lanes |-> reg.lanes, active |-> reg.active, previous |-> reg.previous]
    BY RegistryParts, Zenon
  <2> QED
    BY <2>1, LanesReplaced
<1>4. /\ reg.lanes \in Seq(Lane)
      /\ \A j \in DOMAIN reg.lanes : reg.lanes[j] \in Lane /\ reg.lanes[j].count \in Nat
  BY RegistryParts, Zenon
<1>5. /\ [reg.lanes[k] EXCEPT !.count = @ + 1] \in Lane
      /\ \A f \in {"id", "name"} : [reg.lanes[k] EXCEPT !.count = @ + 1][f] = reg.lanes[k][f]
      /\ [reg.lanes[k] EXCEPT !.count = @ + 1].count = reg.lanes[k].count + 1
  <2>1. reg.lanes[k] \in Lane
    BY <1>2, <1>4
  <2>2. MaxCount \in Nat
    BY RegistryAssumption
  <2> QED
    BY <2>1, <2>2, <1>2, SMT DEF Lane
<1>6. /\ lanes \in Seq(Lane) /\ Len(lanes) = Len(reg.lanes) /\ DOMAIN lanes = DOMAIN reg.lanes
      /\ \A j \in DOMAIN lanes : lanes[j] = IF j = k THEN [reg.lanes[k] EXCEPT !.count = @ + 1]
                                           ELSE reg.lanes[j]
  BY <1>2, <1>4, <1>5, SMT
<1>7. \A j \in DOMAIN lanes : /\ lanes[j].id = reg.lanes[j].id /\ lanes[j].name = reg.lanes[j].name
                              /\ lanes[j].count >= reg.lanes[j].count
  <2>1. \A j \in DOMAIN reg.lanes : reg.lanes[j].count >= reg.lanes[j].count
    BY <1>4, SMT
  <2>2. reg.lanes[k].count + 1 >= reg.lanes[k].count
    BY <1>2, <1>4, SMT
  <2>3. CASE TRUE
    <3>1. ASSUME NEW j \in DOMAIN lanes, j = k
          PROVE  /\ lanes[j].id = reg.lanes[j].id /\ lanes[j].name = reg.lanes[j].name
                 /\ lanes[j].count >= reg.lanes[j].count
      BY <3>1, <1>5, <1>6, <2>2
    <3>2. ASSUME NEW j \in DOMAIN lanes, j # k
          PROVE  /\ lanes[j].id = reg.lanes[j].id /\ lanes[j].name = reg.lanes[j].name
                 /\ lanes[j].count >= reg.lanes[j].count
      BY <3>2, <1>6, <2>1
    <3> QED
      BY <3>1, <3>2
  <2> QED
    BY <2>3
<1> HIDE DEF lanes
<1>8. IsRegistry([lanes |-> lanes, active |-> reg.active, previous |-> reg.previous])
  <2>1. Len(lanes) >= 1 /\ Len(lanes) <= MaxLanes
    BY <1>6, RegistryParts, Zenon
  <2>2. /\ \A i \in DOMAIN lanes : i > 1 => lanes[i].id = IdOf(lanes[i].name)
        /\ \A i, j \in DOMAIN lanes : lanes[i].id = lanes[j].id => i = j
    <3>1. /\ \A i \in DOMAIN reg.lanes : i > 1 => reg.lanes[i].id = IdOf(reg.lanes[i].name)
          /\ \A i, j \in DOMAIN reg.lanes : reg.lanes[i].id = reg.lanes[j].id => i = j
      BY RegistryParts, Zenon
    <3> QED
      BY <1>6, <1>7, <3>1, Zenon
  <2>3. \A x \in Ids(reg) : \E i \in DOMAIN lanes : lanes[i].id = x
    <3>1. \A x \in Ids(reg) : \E i \in DOMAIN reg.lanes : reg.lanes[i].id = x
      BY IdsByPlace, Zenon
    <3> QED
      BY <1>6, <1>7, <3>1, Zenon
  <2>4. /\ reg.active \in Words /\ reg.active \in Ids(reg)
        /\ reg.previous \in Words /\ reg.previous \in Ids(reg)
    BY RegistryParts, Zenon
  <2> QED
    BY <1>6, <2>1, <2>2, <2>3, <2>4, RegistryFrom
<1>9. Grows(new, reg)
  <2>1. new.lanes = lanes
    BY <1>3
  <2> QED
    BY <2>1, <1>6, <1>7, Zenon DEF Grows
<1> QED
  BY <1>3, <1>8, <1>9 DEF k, lanes

\* The tools of the steering model change its copy as the clients would.
LEMMA ToolIsSound ==
  ASSUME NEW reg, IsRegistry(reg), NEW tool \in ChangingTools, NEW name \in ModelNames
  PROVE  IsRegistry(Tool(reg, tool, name)) /\ Extends(Tool(reg, tool, name), reg)
<1> DEFINE lane == Match(name, reg.lanes)
<1>1. name \in Words
  BY RegistryAssumption DEF Words
<1>2. lane = NoLane \/ lane.id \in Ids(reg)
  <2>1. reg.lanes \in Seq(Lane)
    BY RegistryParts, Zenon
  <2>2. lane = NoLane \/ \E i \in DOMAIN reg.lanes : lane = reg.lanes[i]
    BY <2>1, MatchIsKnown
  <2> QED
    BY <2>2, IdsByPlace, Zenon
<1>3. Extends(reg, reg)
  BY Zenon DEF Extends
<1> HIDE DEF lane
<1>4. CASE tool = "switch_lane"
  <2>1. Tool(reg, tool, name) = IF lane = NoLane THEN reg ELSE Switched(reg, lane.id)
    BY <1>4, Zenon DEF Tool, lane
  <2> QED
    BY <2>1, <1>2, <1>3, SwitchedIsSound
<1>5. CASE tool = "create_lane"
  <2>1. Tool(reg, tool, name) = IF Creatable(reg, name)
                                  THEN Switched(Created(reg, name), IdOf(name)) ELSE reg
    BY <1>5, Zenon DEF Tool
  <2> QED
    BY <2>1, <1>1, <1>3, OpenedIsSound
<1> QED
  BY <1>4, <1>5 DEF ChangingTools

-----------------------------------------------------------------------------
(* The merge of a steering run *)

\* What the merge adds are the lanes of the private copy that neither the call's
\* base nor the registry has: each of them once and no other.
LEMMA AdditionsAreNew ==
  ASSUME NEW base, NEW proposed, IsRegistry(proposed)
  PROVE  LET added == Additions(base, proposed)
             Old == Ids(base) \cup Ids(registry)
         IN  /\ added \in Seq(Lane)
             /\ \A k \in DOMAIN added :
                  \E i \in DOMAIN proposed.lanes :
                    added[k] = proposed.lanes[i] /\ proposed.lanes[i].id \notin Old
             /\ \A k, l \in DOMAIN added : added[k].id = added[l].id => k = l
             /\ \A i \in DOMAIN proposed.lanes :
                  proposed.lanes[i].id \notin Old => \E k \in DOMAIN added : added[k] = proposed.lanes[i]
<1> DEFINE Old == Ids(base) \cup Ids(registry)
           lanes == proposed.lanes
           New == {i \in DOMAIN lanes : lanes[i].id \notin Old}
           Place(i) == Cardinality({j \in New : j <= i})
           at(k) == CHOOSE i \in New : Place(i) = k
           size == Cardinality(New)
           added == [k \in 1..size |-> lanes[at(k)]]
<1>1. /\ lanes \in Seq(Lane) /\ Len(lanes) \in Nat /\ DOMAIN lanes = 1..Len(lanes)
      /\ \A i \in DOMAIN lanes : lanes[i] \in Lane
      /\ \A i, j \in DOMAIN lanes : lanes[i].id = lanes[j].id => i = j
  BY RegistryParts, Zenon
<1>2. Additions(base, proposed) = added
  BY Zenon DEF Additions
<1> HIDE DEF lanes, Old
<1>3. New \in SUBSET DOMAIN lanes
  OBVIOUS
<1>4. New \in SUBSET Nat /\ IsFiniteSet(New)
  <2>1. New \in SUBSET Nat /\ \A i \in New : i <= Len(lanes)
    BY <1>1, <1>3, SMT
  <2> QED
    BY <1>1, <2>1, FS_BoundedSetOfNaturals
<1>5. /\ size \in Nat
      /\ \A k \in 1..size : \E i \in New : Place(i) = k
      /\ \A i \in New : Place(i) \in 1..size
      /\ \A x, y \in New : Place(x) = Place(y) => x = y
  <2> HIDE DEF New
  <2> QED
    BY <1>4, EveryPlaceTaken
<1>6. \A i \in New : i \in DOMAIN lanes /\ lanes[i].id \notin Old
  OBVIOUS
<1>7. \A i \in DOMAIN lanes : lanes[i].id \notin Old => i \in New
  OBVIOUS
<1> HIDE DEF New, Place, size
<1>8. \A k \in 1..size : at(k) \in New /\ Place(at(k)) = k
  BY <1>5, Zenon
<1>9. \A i \in New : at(Place(i)) = i
  BY <1>5, <1>8, Zenon
<1> HIDE DEF at
<1>10. DOMAIN added = 1..size /\ \A k \in 1..size : added[k] = lanes[at(k)]
  OBVIOUS
<1>11. added \in Seq(Lane)
  <2>1. \A k \in 1..size : added[k] \in Lane
    BY <1>1, <1>6, <1>8, <1>10, Zenon
  <2> QED
    BY <1>5, <1>10, <2>1, SMT
<1> HIDE DEF added
<1>12. \A k \in DOMAIN added :
         \E i \in DOMAIN lanes : added[k] = lanes[i] /\ lanes[i].id \notin Old
  BY <1>6, <1>8, <1>10, Zenon
<1>13. \A k, l \in DOMAIN added : added[k].id = added[l].id => k = l
  <2>1. ASSUME NEW k \in DOMAIN added, NEW l \in DOMAIN added, added[k].id = added[l].id
        PROVE  k = l
    <3>1. k \in 1..size /\ l \in 1..size
      BY <1>10
    <3>2. /\ at(k) \in New /\ Place(at(k)) = k /\ added[k] = lanes[at(k)]
          /\ at(l) \in New /\ Place(at(l)) = l /\ added[l] = lanes[at(l)]
      BY <3>1, <1>8, <1>10
    <3>3. at(k) = at(l)
      BY <2>1, <3>2, <1>1, <1>6, Zenon
    <3> QED
      BY <3>2, <3>3
  <2> QED
    BY <2>1
<1>14. \A i \in DOMAIN lanes :
         lanes[i].id \notin Old => \E k \in DOMAIN added : added[k] = lanes[i]
  BY <1>5, <1>7, <1>9, <1>10, Zenon
<1> QED
  BY <1>2, <1>11, <1>12, <1>13, <1>14 DEF lanes, Old

\* A merge only adds lanes: those it finds stay as they are, since the tools change
\* no lane of their copy.  Its selection names lanes it has.
LEMMA MergedIsSound ==
  ASSUME NEW c, LET base == calls[c].base
                    proposed == calls[c].proposed
                IN  /\ IsRegistry(registry) /\ IsRegistry(base) /\ IsRegistry(proposed)
                    /\ Extends(proposed, base) /\ Ids(base) \subseteq Ids(registry)
                    /\ Len(registry.lanes) + Len(Additions(base, proposed)) <= MaxLanes
  PROVE  IsRegistry(Merged(c)) /\ Extends(Merged(c), registry)
<1> DEFINE base == calls[c].base
           proposed == calls[c].proposed
           chosen == IF Untouched(c) THEN proposed ELSE registry
           kept == [i \in DOMAIN registry.lanes |-> MergedLane(base, proposed, registry.lanes[i])]
           old == registry.lanes
           added == Additions(base, proposed)
           lanes == old \o added
           Old == Ids(base) \cup Ids(registry)
<1>1. /\ IsRegistry(registry) /\ IsRegistry(base) /\ IsRegistry(proposed)
      /\ Extends(proposed, base) /\ Ids(base) \subseteq Ids(registry)
      /\ Len(old) + Len(added) <= MaxLanes
  OBVIOUS
<1>2. Merged(c) = [lanes |-> kept \o added, active |-> chosen.active, previous |-> chosen.previous]
  BY Zenon DEF Merged
<1> HIDE DEF base, proposed, added
<1>3. \A lane : MergedLane(base, proposed, lane) = lane
  <2>1. ASSUME NEW lane, lane.id \in Ids(base), lane = LaneOf(base, lane.id)
        PROVE  LaneOf(proposed, lane.id) = lane
    <3>1. PICK i \in DOMAIN base.lanes : base.lanes[i].id = lane.id
      BY <2>1, IdsByPlace, Zenon
    <3>2. LaneOf(base, base.lanes[i].id) = base.lanes[i]
      BY <1>1, LaneIsFound
    <3>3. i \in DOMAIN proposed.lanes /\ proposed.lanes[i] = base.lanes[i]
      BY <1>1, Zenon DEF Extends
    <3>4. LaneOf(proposed, proposed.lanes[i].id) = proposed.lanes[i]
      BY <1>1, <3>3, LaneIsFound
    <3> QED
      BY <2>1, <3>1, <3>2, <3>3, <3>4
  <2> QED
    BY <2>1, Zenon DEF MergedLane
<1>4. /\ old \in Seq(Lane) /\ Len(old) \in Nat /\ DOMAIN old = 1..Len(old) /\ Len(old) >= 1
      /\ \A i \in DOMAIN old : i > 1 => old[i].id = IdOf(old[i].name)
      /\ \A i, j \in DOMAIN old : old[i].id = old[j].id => i = j
  BY <1>1, RegistryParts, Zenon
<1>5. kept = old
  BY <1>3, <1>4, SMT
<1>6. /\ added \in Seq(Lane)
      /\ \A k \in DOMAIN added :
           \E i \in DOMAIN proposed.lanes :
             added[k] = proposed.lanes[i] /\ proposed.lanes[i].id \notin Old
      /\ \A k, l \in DOMAIN added : added[k].id = added[l].id => k = l
      /\ \A i \in DOMAIN proposed.lanes :
           proposed.lanes[i].id \notin Old => \E k \in DOMAIN added : added[k] = proposed.lanes[i]
  BY <1>1, AdditionsAreNew DEF added
<1>7. Merged(c) = [lanes |-> lanes, active |-> chosen.active, previous |-> chosen.previous]
  BY <1>2, <1>5
<1> DEFINE n == Len(old)
           m == Len(added)
<1>8. n \in Nat /\ m \in Nat /\ n >= 1 /\ DOMAIN old = 1..n /\ DOMAIN added = 1..m
  BY <1>4, <1>6, SMT
<1> HIDE DEF old, kept, chosen, Old
<1>9. /\ lanes \in Seq(Lane) /\ Len(lanes) = n + m /\ DOMAIN lanes = 1..(n + m)
      /\ \A i \in 1..n : lanes[i] = old[i]
      /\ \A k \in 1..m : lanes[n + k] = added[k]
  BY <1>4, <1>6, SMT
<1> HIDE DEF lanes, n, m
<1>10. \A i \in DOMAIN lanes : i \in 1..n \/ \E k \in 1..m : i = n + k
  <2>1. \A i \in DOMAIN lanes : i \in 1..n \/ i - n \in 1..m
    BY <1>8, <1>9, SMT
  <2>2. \A i \in DOMAIN lanes : i = n + (i - n)
    BY <1>8, <1>9, SMT
  <2> QED
    BY <2>1, <2>2
<1>11. (\A i \in 1..n : i \in DOMAIN lanes) /\ (\A k \in 1..m : n + k \in DOMAIN lanes)
  BY <1>8, <1>9, SMT
<1>12. \A k \in 1..m : added[k].id = IdOf(added[k].name) /\ added[k].id \notin Old
  <2>1. \A i \in DOMAIN proposed.lanes :
          proposed.lanes[i].id \notin Old => proposed.lanes[i].id = IdOf(proposed.lanes[i].name)
    <3>1. 1 \in DOMAIN base.lanes
      <4>1. DOMAIN base.lanes = 1..Len(base.lanes) /\ Len(base.lanes) >= 1 /\ Len(base.lanes) \in Nat
        BY <1>1, RegistryParts, Zenon
      <4> QED
        BY <4>1, SMT
    <3>2. proposed.lanes[1] = base.lanes[1]
      BY <1>1, <3>1, Zenon DEF Extends
    <3>3. proposed.lanes[1].id \in Old
      BY <3>1, <3>2, IdsByPlace, Zenon DEF Old
    <3>4. /\ DOMAIN proposed.lanes = 1..Len(proposed.lanes) /\ Len(proposed.lanes) \in Nat
          /\ \A i \in DOMAIN proposed.lanes :
               i > 1 => proposed.lanes[i].id = IdOf(proposed.lanes[i].name)
      BY <1>1, RegistryParts, Zenon
    <3>5. \A i \in DOMAIN proposed.lanes : i = 1 \/ i > 1
      BY <3>4, SMT
    <3> QED
      BY <3>3, <3>4, <3>5, Zenon
  <2>2. ASSUME NEW k \in 1..m
        PROVE  added[k].id = IdOf(added[k].name) /\ added[k].id \notin Old
    <3>1. k \in DOMAIN added
      BY <1>8
    <3>2. PICK i \in DOMAIN proposed.lanes :
            added[k] = proposed.lanes[i] /\ proposed.lanes[i].id \notin Old
      BY <1>6, <3>1
    <3> QED
      BY <2>1, <3>2, Zenon
  <2> QED
    BY <2>2
<1>13. \A i \in DOMAIN lanes : i > 1 => lanes[i].id = IdOf(lanes[i].name)
  <2>1. ASSUME NEW i \in 1..n, i > 1 PROVE lanes[i].id = IdOf(lanes[i].name)
    BY <2>1, <1>4, <1>8, <1>9, Zenon
  <2>2. ASSUME NEW k \in 1..m PROVE lanes[n + k].id = IdOf(lanes[n + k].name)
    BY <1>9, <1>12, Zenon
  <2> QED
    BY <1>10, <2>1, <2>2, Zenon
<1>14. \A i, j \in DOMAIN lanes : lanes[i].id = lanes[j].id => i = j
  <2>1. \A i \in 1..n : old[i].id \in Old
    BY <1>8, IdsByPlace, Zenon DEF old, Old
  <2>2. ASSUME NEW i \in 1..n, NEW j \in 1..n, lanes[i].id = lanes[j].id PROVE i = j
    BY <2>2, <1>4, <1>8, <1>9, Zenon
  <2>3. ASSUME NEW i \in 1..n, NEW k \in 1..m PROVE lanes[i].id # lanes[n + k].id
    BY <2>1, <1>9, <1>12, Zenon
  <2>4. ASSUME NEW k \in 1..m, NEW l \in 1..m, lanes[n + k].id = lanes[n + l].id PROVE k = l
    <3>1. k \in DOMAIN added /\ l \in DOMAIN added
      BY <1>8
    <3>2. added[k].id = added[l].id
      BY <2>4, <1>9, Zenon
    <3> QED
      BY <3>1, <3>2, <1>6
  <2> SUFFICES ASSUME NEW i \in DOMAIN lanes, NEW j \in DOMAIN lanes, lanes[i].id = lanes[j].id
               PROVE  i = j
    OBVIOUS
  <2>5. CASE i \in 1..n /\ j \in 1..n
    BY <2>2, <2>5
  <2>6. CASE i \in 1..n /\ \E k \in 1..m : j = n + k
    BY <2>3, <2>6
  <2>7. CASE j \in 1..n /\ \E k \in 1..m : i = n + k
    BY <2>3, <2>7
  <2>8. CASE (\E k \in 1..m : i = n + k) /\ (\E k \in 1..m : j = n + k)
    BY <2>4, <2>8, Zenon
  <2> QED
    BY <1>10, <2>5, <2>6, <2>7, <2>8, Zenon
<1>15. \A x \in Ids(registry) : \E i \in DOMAIN lanes : lanes[i].id = x
  <2>1. \A x \in Ids(registry) : \E i \in 1..n : old[i].id = x
    BY <1>8, IdsByPlace, Zenon DEF old
  <2> QED
    BY <2>1, <1>9, <1>11, Zenon
<1>16. \A x \in Ids(proposed) : \E i \in DOMAIN lanes : lanes[i].id = x
  <2>1. ASSUME NEW i \in DOMAIN proposed.lanes, proposed.lanes[i].id \notin Old
        PROVE  \E k \in DOMAIN lanes : lanes[k].id = proposed.lanes[i].id
    <3>1. PICK k \in DOMAIN added : added[k] = proposed.lanes[i]
      BY <2>1, <1>6
    <3>2. k \in 1..m
      BY <1>8
    <3>3. n + k \in DOMAIN lanes /\ lanes[n + k] = added[k]
      BY <3>2, <1>9, <1>11
    <3> QED
      BY <3>1, <3>3, Zenon
  <2>2. \A x \in Old : x \in Ids(registry)
    BY <1>1 DEF Old
  <2>3. \A x \in Ids(proposed) : \E i \in DOMAIN proposed.lanes : proposed.lanes[i].id = x
    BY IdsByPlace, Zenon
  <2> QED
    BY <1>15, <2>1, <2>2, <2>3, Zenon
<1>17. /\ chosen.active \in Words /\ chosen.active \in Ids(registry) \cup Ids(proposed)
       /\ chosen.previous \in Words /\ chosen.previous \in Ids(registry) \cup Ids(proposed)
  <2>1. \A reg \in {registry, proposed} : /\ reg.active \in Words /\ reg.active \in Ids(reg)
                                          /\ reg.previous \in Words /\ reg.previous \in Ids(reg)
    BY <1>1, RegistryParts, Zenon
  <2> QED
    BY <2>1, Zenon DEF chosen
<1>18. IsRegistry([lanes |-> lanes, active |-> chosen.active, previous |-> chosen.previous])
  <2>1. Len(lanes) >= 1 /\ Len(lanes) <= MaxLanes
    <3>1. n + m <= MaxLanes
      BY <1>1 DEF n, m
    <3> QED
      BY <3>1, <1>8, <1>9, SMT
  <2> QED
    BY <2>1, <1>9, <1>13, <1>14, <1>15, <1>16, <1>17, RegistryFrom
<1>19. Extends(Merged(c), registry)
  <2>1. Merged(c).lanes = lanes
    BY <1>7
  <2>2. DOMAIN registry.lanes = 1..n
    BY <1>8 DEF old
  <2>3. \A i \in 1..n : lanes[i] = registry.lanes[i]
    BY <1>9 DEF old
  <2> QED
    BY <2>1, <2>2, <2>3, <1>11, Zenon DEF Extends
<1> QED
  BY <1>7, <1>18, <1>19

-----------------------------------------------------------------------------
(* The inductive invariant *)

Registry == [lanes : Seq(Lane), active : Seq(Word), previous : Seq(Word)]
Revision == [gen : 0..MaxGeneration, n : 0..MaxMutations]
Thought == [stage : {"thinking"}, base : Registry, revision : Revision,
            proposed : Registry, tools : 0..MaxTools, overtaken : BOOLEAN]

Reached(later, r) == later = r \/ Later(later, r)

\* A meta command that was heard switches to a lane there is.  The copy of a
\* steering run only adds lanes to its base, all of whose lanes are still there,
\* and its revision is not ahead; once it was overtaken it is behind.
CallFits(call, reg, rev, run) ==
  \/ call = IdleCall
  \/ /\ call.stage = "heard" /\ run
     /\ call.action.op = "switch" => call.action.lane.id \in Ids(reg)
     /\ call.action.op = "new" => call.action.name \in Words
  \/ /\ call.stage = "thinking" /\ run /\ call \in Thought
     /\ IsRegistry(call.base) /\ IsRegistry(call.proposed)
     /\ Extends(call.proposed, call.base) /\ Ids(call.base) \subseteq Ids(reg)
     /\ Reached(rev, call.revision) /\ (call.overtaken => Later(rev, call.revision))

CallsFit ==
  /\ calls = [c \in Calls |-> calls[c]]
  /\ \A c \in Calls : CallFits(calls[c], registry, revision, running)

Numbers ==
  /\ running \in BOOLEAN /\ fenced \in BOOLEAN /\ faults \in 0..MaxFaults
  /\ revision \in Revision
  /\ generation \in Nat /\ generation <= MaxGeneration /\ revision.gen <= generation

\* Whatever is in memory, on file or may come back after a power failure is a
\* registry with every lane that was saved and every lane a delivery waits for.
Stored ==
  /\ IsRegistry(registry) /\ IsRegistry(disk) /\ \A s \in prior : IsRegistry(s)
  /\ LiveIsVisible /\ SavedSurvives /\ (OneDirectory => RestartsStart)
  /\ \A l \in ToSet(saved) : l.count \in Nat

LaneInv == Numbers /\ Stored /\ CallsFit

-----------------------------------------------------------------------------
(* Saving *)

\* The three ends of a save.
LEMMA CommitEnds ==
  ASSUME NEW new, NEW next, Commit(new, next)
  PROVE  \/ /\ disk' = new /\ prior' = {} /\ faults' = faults /\ registry' = new
            /\ revision' = next /\ saved' = new.lanes /\ fenced' = fenced
         \/ /\ Faulty /\ disk' = disk /\ prior' = prior /\ registry' = registry
            /\ revision' = revision /\ saved' = saved /\ fenced' = fenced
         \/ /\ Faulty /\ disk' = new /\ prior' = {disk} \cup prior /\ registry' = new
            /\ revision' = next /\ saved' = saved /\ fenced' = TRUE
<1>1. Write(new, "ok") => disk' = new /\ prior' = {} /\ faults' = faults
  BY Zenon DEF Write
<1>2. Write(new, "refused") => Faulty /\ disk' = disk /\ prior' = prior
  BY Zenon DEF Write
<1>3. Write(new, "unsure") => Faulty /\ disk' = new /\ prior' = {disk} \cup prior
  BY Zenon DEF Write
<1> QED
  BY <1>1, <1>2, <1>3, Zenon DEF Commit, Undone

\* A registry that grew covers what it covered before, and itself.
LEMMA GrowthCovers ==
  ASSUME NEW old, NEW new, IsRegistry(old), IsRegistry(new), Grows(new, old)
  PROVE  /\ \A lanes : (\A l \in ToSet(lanes) : l.count \in Nat) /\ Covers(old, lanes)
                         => Covers(new, lanes)
         /\ Covers(new, new.lanes)
<1>1. /\ \A i \in DOMAIN old.lanes : old.lanes[i].count \in Nat
      /\ \A i \in DOMAIN new.lanes : new.lanes[i].count \in Nat
  BY RegistryParts, Zenon
<1>2. \A m \in ToSet(old.lanes) :
        \E k \in ToSet(new.lanes) : k.id = m.id /\ k.count >= m.count /\ k.count \in Nat
  BY <1>1, Zenon DEF Grows, ToSet
<1>3. ASSUME NEW lanes, \A l \in ToSet(lanes) : l.count \in Nat, Covers(old, lanes)
      PROVE  Covers(new, lanes)
  <2>1. ASSUME NEW l \in ToSet(lanes)
        PROVE  \E k \in ToSet(new.lanes) : k.id = l.id /\ k.count >= l.count
    <3>1. PICK m \in ToSet(old.lanes) : m.id = l.id /\ m.count >= l.count
      BY <1>3 DEF Covers
    <3>2. PICK k \in ToSet(new.lanes) : k.id = m.id /\ k.count >= m.count /\ k.count \in Nat
      BY <1>2
    <3>3. m.count \in Nat /\ l.count \in Nat
      BY <1>1, <1>3 DEF ToSet
    <3>4. k.count >= l.count
      BY <3>1, <3>2, <3>3, SMT
    <3> QED
      BY <3>1, <3>2, <3>4
  <2> QED
    BY <2>1, Zenon DEF Covers
<1>4. \A l \in ToSet(new.lanes) : l.count >= l.count
  <2>1. \A l \in ToSet(new.lanes) : l.count \in Nat
    BY <1>1, Zenon DEF ToSet
  <2> QED
    BY <2>1, SMT
<1> QED
  BY <1>3, <1>4, Zenon DEF Covers

\* What every mutation under the mutex does to memory, file and revision, given a
\* registry that is sound and grew: the file follows, nothing that was saved is
\* lost, and a selection moves only to a later revision.
LEMMA MutationStores ==
  ASSUME LaneInv, NEW new, IsRegistry(new), Grows(new, registry), Mutate(new),
         running' = running, generation' = generation, queued' = queued
  PROVE  /\ Numbers' /\ Stored'
         /\ Reached(revision', revision)
         /\ Selection(registry') = Selection(registry) \/ Later(revision', revision)
         /\ registry' \in {registry, new}
         /\ Ids(registry) \subseteq Ids(registry')
<1> DEFINE moved == SelectionChanged(registry, new)
           next == IF moved THEN [revision EXCEPT !.n = @ + 1] ELSE revision
<1>1. Numbers /\ Stored
  BY DEF LaneInv
<1>2. running /\ Advances(moved) /\ Commit(new, next)
  BY Zenon DEF Mutate
<1>3. /\ revision \in Revision /\ revision.n \in Nat /\ revision.gen \in Nat
      /\ MaxMutations \in Nat /\ faults \in 0..MaxFaults /\ MaxFaults \in Nat
  BY <1>1, RegistryAssumption, SMT DEF Numbers, Revision
<1>4. /\ next \in Revision /\ next.gen = revision.gen
      /\ moved => Later(next, revision)
      /\ ~moved => next = revision
  <2>1. CASE moved
    <3>1. revision.n < MaxMutations
      BY <1>2, <2>1, Zenon DEF Advances
    <3>2. revision.n + 1 \in 0..MaxMutations /\ revision.n + 1 > revision.n
      BY <1>3, <3>1, SMT
    <3>3. /\ [revision EXCEPT !.n = @ + 1] \in Revision
          /\ [revision EXCEPT !.n = @ + 1].gen = revision.gen
          /\ [revision EXCEPT !.n = @ + 1].n = revision.n + 1
      BY <1>3, <3>2 DEF Revision
    <3> QED
      BY <2>1, <3>2, <3>3, Zenon DEF Later
  <2>2. CASE ~moved
    BY <2>2, <1>3
  <2> QED
    BY <2>1, <2>2
<1>5. \/ /\ disk' = new /\ prior' = {} /\ faults' = faults /\ registry' = new
         /\ revision' = next /\ saved' = new.lanes /\ fenced' = fenced
      \/ /\ Faulty /\ disk' = disk /\ prior' = prior /\ registry' = registry
         /\ revision' = revision /\ saved' = saved /\ fenced' = fenced
      \/ /\ Faulty /\ disk' = new /\ prior' = {disk} \cup prior /\ registry' = new
         /\ revision' = next /\ saved' = saved /\ fenced' = TRUE
  <2> HIDE DEF moved, next
  <2> QED
    BY <1>2, CommitEnds
<1>6. Selection(registry) = Selection(new) \/ moved
  BY Zenon DEF SelectionChanged
<1> HIDE DEF moved, next
<1>7. Numbers'
  <2>1. faults' \in 0..MaxFaults
    BY <1>3, <1>5, SMT DEF Faulty
  <2>2. revision' \in Revision /\ revision'.gen = revision.gen
    BY <1>3, <1>4, <1>5
  <2>3. fenced' \in BOOLEAN
    BY <1>1, <1>5, Zenon DEF Numbers
  <2> QED
    BY <1>1, <2>1, <2>2, <2>3, Zenon DEF Numbers
<1>8. /\ registry' = new \/ (registry' = registry /\ revision' = revision)
      /\ registry' = new => revision' = next \/ new = registry
  BY <1>5, Zenon
<1>9. /\ Reached(revision', revision)
      /\ Selection(registry') = Selection(registry) \/ Later(revision', revision)
  BY <1>4, <1>5, <1>6, Zenon DEF Reached
<1>10. Ids(registry) \subseteq Ids(new)
  BY GrowthKeepsIds
<1>11. /\ IsRegistry(registry) /\ IsRegistry(disk) /\ \A s \in prior : IsRegistry(s)
       /\ registry = disk /\ SavedSurvives /\ (OneDirectory => RestartsStart)
       /\ \A l \in ToSet(saved) : l.count \in Nat
  BY <1>1, <1>2, Zenon DEF Stored, LiveIsVisible
<1>12. Covers(new, saved) /\ Covers(new, new.lanes)
  BY <1>11, GrowthCovers, Zenon DEF SavedSurvives
<1>13. \A l \in ToSet(new.lanes) : l.count \in Nat
  BY RegistryParts, Zenon DEF ToSet
<1>14. Valid(new)
  BY Zenon DEF IsRegistry
<1>15. OneDirectory => Loads(new)
  BY <1>10, <1>11, <1>14, Zenon DEF RestartsStart, Loads
<1>16. ASSUME disk' = new, prior' = {}, registry' = new, saved' = new.lanes
       PROVE  Stored'
  <2>1. SavedSurvives'
    BY <1>16, <1>12, Zenon DEF SavedSurvives
  <2>2. OneDirectory => RestartsStart'
    BY <1>16, <1>15, Zenon DEF RestartsStart, Loads
  <2>3. IsRegistry(registry') /\ IsRegistry(disk') /\ \A s \in prior' : IsRegistry(s)
    BY <1>16
  <2>4. LiveIsVisible' /\ \A l \in ToSet(saved') : l.count \in Nat
    BY <1>16, <1>13 DEF LiveIsVisible
  <2> QED
    BY <2>1, <2>2, <2>3, <2>4, Zenon DEF Stored
<1>17. ASSUME disk' = disk, prior' = prior, registry' = registry, saved' = saved
       PROVE  Stored'
  <2>1. SavedSurvives' /\ (OneDirectory => RestartsStart')
    BY <1>17, <1>11, Zenon DEF SavedSurvives, RestartsStart, Loads
  <2>3. IsRegistry(registry') /\ IsRegistry(disk') /\ \A s \in prior' : IsRegistry(s)
    BY <1>17, <1>11
  <2>4. LiveIsVisible' /\ \A l \in ToSet(saved') : l.count \in Nat
    BY <1>17, <1>11 DEF LiveIsVisible
  <2> QED
    BY <2>1, <2>3, <2>4, Zenon DEF Stored
<1>18. ASSUME disk' = new, prior' = {disk} \cup prior, registry' = new, saved' = saved
       PROVE  Stored'
  <2>1. SavedSurvives'
    BY <1>18, <1>11, <1>12, Zenon DEF SavedSurvives
  <2>2. OneDirectory => RestartsStart'
    BY <1>18, <1>11, <1>15, Zenon DEF RestartsStart, Loads
  <2>3. IsRegistry(registry') /\ IsRegistry(disk') /\ \A s \in prior' : IsRegistry(s)
    BY <1>18, <1>11
  <2>4. LiveIsVisible' /\ \A l \in ToSet(saved') : l.count \in Nat
    BY <1>18, <1>11 DEF LiveIsVisible
  <2> QED
    BY <2>1, <2>2, <2>3, <2>4, Zenon DEF Stored
<1>19. Stored'
  BY <1>5, <1>16, <1>17, <1>18
<1>20. registry' \in {registry, new} /\ Ids(registry) \subseteq Ids(registry')
  BY <1>8, <1>10, Zenon
<1> QED
  BY <1>7, <1>9, <1>19, <1>20

-----------------------------------------------------------------------------
(* Requests to /api/meta *)

\* Revisions are ordered.
LEMMA LaterIsOrdered ==
  ASSUME NEW r \in Revision, NEW s \in Revision, NEW t \in Revision
  PROVE  /\ Reached(t, s) /\ Reached(s, r) => Reached(t, r)
         /\ Later(t, s) /\ Reached(s, r) => Later(t, r)
         /\ Reached(t, s) /\ Later(s, r) => Later(t, r)
         /\ ~Later(r, r)
<1>1. /\ r.gen \in Nat /\ s.gen \in Nat /\ t.gen \in Nat
      /\ r.n \in Nat /\ s.n \in Nat /\ t.n \in Nat
  BY RegistryAssumption, SMT DEF Revision
<1>2. /\ Later(t, s) /\ Later(s, r) => Later(t, r)
      /\ ~Later(r, r)
  BY <1>1, SMT DEF Later
<1> QED
  BY <1>2, Zenon DEF Reached

\* A call that fits still does when lanes are added and the revision moves on.
LEMMA CallCarried ==
  ASSUME NEW call, NEW reg, NEW run, NEW rev \in Revision, CallFits(call, reg, rev, run),
         NEW reg2, NEW rev2 \in Revision, Ids(reg) \subseteq Ids(reg2), Reached(rev2, rev)
  PROVE  CallFits(call, reg2, rev2, run)
<1>1. CASE call = IdleCall
  BY <1>1, Zenon DEF CallFits
<1>2. CASE /\ call.stage = "heard" /\ run
           /\ call.action.op = "switch" => call.action.lane.id \in Ids(reg)
           /\ call.action.op = "new" => call.action.name \in Words
  BY <1>2, Zenon DEF CallFits
<1>3. CASE /\ call.stage = "thinking" /\ run /\ call \in Thought
           /\ IsRegistry(call.base) /\ IsRegistry(call.proposed)
           /\ Extends(call.proposed, call.base) /\ Ids(call.base) \subseteq Ids(reg)
           /\ Reached(rev, call.revision) /\ (call.overtaken => Later(rev, call.revision))
  <2>1. call.revision \in Revision
    BY <1>3 DEF Thought
  <2>2. /\ Reached(rev2, call.revision)
        /\ Later(rev, call.revision) => Later(rev2, call.revision)
    BY <1>3, <2>1, LaterIsOrdered, Zenon
  <2>3. Ids(call.base) \subseteq Ids(reg2)
    BY <1>3
  <2> QED
    BY <1>3, <2>2, <2>3, Zenon DEF CallFits
<1> QED
  BY <1>1, <1>2, <1>3, Zenon DEF CallFits

\* A steering run under way fits as overtaken once the revision has moved on.
LEMMA CallOvertaken ==
  ASSUME NEW call, call.stage = "thinking",
         NEW reg, NEW run, NEW rev \in Revision, CallFits(call, reg, rev, run),
         NEW reg2, NEW rev2 \in Revision, Ids(reg) \subseteq Ids(reg2), Later(rev2, rev)
  PROVE  CallFits([call EXCEPT !.overtaken = TRUE], reg2, rev2, run)
<1> DEFINE marked == [call EXCEPT !.overtaken = TRUE]
<1>1. call # IdleCall
  <2>1. IdleCall.stage = "idle"
    BY DEF IdleCall
  <2>2. call.stage # "idle"
    OBVIOUS
  <2> QED
    BY <2>1, <2>2, Zenon
<1>2. call.stage # "heard"
  OBVIOUS
<1>3. /\ run /\ call \in Thought
      /\ IsRegistry(call.base) /\ IsRegistry(call.proposed)
      /\ Extends(call.proposed, call.base) /\ Ids(call.base) \subseteq Ids(reg)
      /\ Reached(rev, call.revision)
  BY <1>1, <1>2, Zenon DEF CallFits
<1>4. /\ marked \in Thought /\ marked.stage = "thinking" /\ marked.base = call.base
      /\ marked.proposed = call.proposed /\ marked.revision = call.revision
  BY <1>3 DEF Thought
<1> HIDE DEF marked
<1>5. call.revision \in Revision
  BY <1>3 DEF Thought
<1>6. Later(rev2, call.revision) /\ Reached(rev2, call.revision)
  BY <1>3, <1>5, LaterIsOrdered, Zenon DEF Reached
<1>7. Ids(call.base) \subseteq Ids(reg2)
  BY <1>3
<1>8. CallFits(marked, reg2, rev2, run)
  BY <1>3, <1>4, <1>6, <1>7, Zenon DEF CallFits
<1> QED
  BY <1>8 DEF marked

\* A mutation leaves every call fitting: those it overtakes are marked.
LEMMA OvertakenFit ==
  ASSUME LaneInv, Numbers', Ids(registry) \subseteq Ids(registry'), Reached(revision', revision),
         Selection(registry') = Selection(registry) \/ Later(revision', revision),
         running' = running
  PROVE  /\ Overtaken = [c \in Calls |-> Overtaken[c]]
         /\ \A c \in Calls : CallFits(Overtaken[c], registry', revision', running')
<1>1. /\ revision \in Revision /\ revision' \in Revision
      /\ calls = [c \in Calls |-> calls[c]]
      /\ \A c \in Calls : CallFits(calls[c], registry, revision, running)
  BY Zenon DEF LaneInv, Numbers, CallsFit
<1>2. \A c \in Calls : CallFits(calls[c], registry', revision', running')
  BY <1>1, CallCarried
<1>3. CASE Selection(registry) = Selection(registry')
  <2>1. Overtaken = calls
    BY <1>3 DEF Overtaken
  <2> QED
    BY <1>1, <1>2, <2>1
<1>4. CASE Selection(registry) # Selection(registry')
  <2> DEFINE next == [c \in Calls |-> IF Thinking(c) THEN [calls[c] EXCEPT !.overtaken = TRUE]
                                                     ELSE calls[c]]
  <2>1. Overtaken = next
    BY <1>4, Zenon DEF Overtaken
  <2>2. Later(revision', revision)
    BY <1>4
  <2>3. ASSUME NEW c \in Calls, Thinking(c)
        PROVE  CallFits([calls[c] EXCEPT !.overtaken = TRUE], registry', revision', running')
    <3>1. calls[c].stage = "thinking"
      BY <2>3 DEF Thinking
    <3> QED
      BY <1>1, <2>2, <3>1, CallOvertaken
  <2>4. ASSUME NEW c \in Calls
        PROVE  CallFits(next[c], registry', revision', running')
    <3>1. CASE Thinking(c)
      <4>1. next[c] = [calls[c] EXCEPT !.overtaken = TRUE]
        BY <3>1
      <4> QED
        BY <3>1, <2>3, <4>1
    <3>2. CASE ~Thinking(c)
      <4>1. next[c] = calls[c]
        BY <3>2
      <4> QED
        BY <1>2, <4>1
    <3> QED
      BY <3>1, <3>2
  <2>5. next = [c \in Calls |-> next[c]]
    OBVIOUS
  <2> QED
    BY <2>1, <2>4, <2>5
<1> QED
  BY <1>3, <1>4

\* One call of a fitting set of calls may become any that fits.
LEMMA CallReplaced ==
  ASSUME NEW all, all = [c \in Calls |-> all[c]], NEW c \in Calls, NEW call,
         NEW reg, NEW rev, NEW run, CallFits(call, reg, rev, run),
         \A d \in Calls : CallFits(all[d], reg, rev, run)
  PROVE  LET next == [all EXCEPT ![c] = call] IN
         /\ next = [d \in Calls |-> next[d]]
         /\ \A d \in Calls : CallFits(next[d], reg, rev, run)
<1> DEFINE next == [all EXCEPT ![c] = call]
<1>1. /\ next = [d \in Calls |-> next[d]]
      /\ \A d \in Calls : next[d] = IF d = c THEN call ELSE all[d]
  BY Zenon
<1> HIDE DEF next
<1>2. \A d \in Calls : CallFits(next[d], reg, rev, run)
  BY <1>1, Zenon
<1> QED
  BY <1>1, <1>2 DEF next

-----------------------------------------------------------------------------
(* Steps *)

\* The actions of RevisionNamesSelection and UserSelectionWins.
RevisionMoves ==
  \/ Later(Shown.revision', Shown.revision)
  \/ revision' = revision /\ (running' => Shown' = Shown)

SelectionStays ==
  \A c \in Calls :
    running' /\ Thinking(c) /\ calls[c].overtaken /\ calls'[c].stage = "idle"
      => registry'.active = registry.active /\ registry'.previous = registry.previous

Good == LaneInv' /\ RevisionMoves /\ SelectionStays

\* A step that leaves registry and revision alone shows what it showed.
LEMMA NothingShown ==
  ASSUME registry' = registry, revision' = revision
  PROVE  RevisionMoves /\ SelectionStays
<1>1. Shown' = Shown
  BY DEF Shown, Selection
<1> QED
  BY <1>1 DEF RevisionMoves, SelectionStays

\* A mutation that stores and moves on keeps revisions apart.
LEMMA MutationShows ==
  ASSUME Reached(revision', revision),
         Selection(registry') = Selection(registry) \/ Later(revision', revision)
  PROVE  RevisionMoves
<1>1. Shown.revision' = revision' /\ Shown.revision = revision
  BY DEF Shown
<1>2. CASE Later(revision', revision)
  BY <1>1, <1>2, Zenon DEF RevisionMoves
<1>3. CASE ~Later(revision', revision)
  <2>1. revision' = revision
    BY <1>3, Zenon DEF Reached
  <2>2. Selection(registry)' = Selection(registry)
    BY <1>3 DEF Selection
  <2>3. Shown' = Shown
    BY <2>1, <2>2 DEF Shown
  <2> QED
    BY <2>1, <2>3, Zenon DEF RevisionMoves
<1> QED
  BY <1>2, <1>3

\* A steering run stays one when a mutation overtakes it.
LEMMA OvertakenThinks ==
  ASSUME LaneInv, NEW c \in Calls, Thinking(c)
  PROVE  Overtaken[c].stage # "idle"
<1>1. calls[c].stage = "thinking"
  BY DEF Thinking
<1>2. CallFits(calls[c], registry, revision, running)
  BY Zenon DEF LaneInv, CallsFit
<1>3. calls[c] \in Thought
  <2>1. calls[c] # IdleCall
    <3>1. IdleCall.stage = "idle"
      BY DEF IdleCall
    <3>2. calls[c].stage # "idle"
      BY <1>1
    <3> QED
      BY <3>1, <3>2, Zenon
  <2>2. calls[c].stage # "heard"
    BY <1>1
  <2> QED
    BY <1>2, <2>1, <2>2, Zenon DEF CallFits
<1>4. [calls[c] EXCEPT !.overtaken = TRUE].stage = calls[c].stage
  BY <1>3 DEF Thought
<1>5. CASE Selection(registry) = Selection(registry')
  <2>1. Overtaken = calls
    BY <1>5 DEF Overtaken
  <2> QED
    BY <1>1, <2>1
<1>6. CASE Selection(registry) # Selection(registry')
  <2>1. Overtaken[c] = IF Thinking(c) THEN [calls[c] EXCEPT !.overtaken = TRUE] ELSE calls[c]
    BY <1>6, Zenon DEF Overtaken
  <2> QED
    BY <1>1, <1>4, <2>1
<1> QED
  BY <1>5, <1>6

\* The handlers of /api/lanes.
LEMMA ApiIsGood ==
  ASSUME LaneInv, NEW new, IsRegistry(new), Grows(new, registry), Api(new)
  PROVE  Good
<1>1. /\ Mutate(new) /\ calls' = Overtaken
      /\ running' = running /\ generation' = generation /\ queued' = queued
  BY Zenon DEF Api
<1>2. /\ Numbers' /\ Stored' /\ Reached(revision', revision)
      /\ Selection(registry') = Selection(registry) \/ Later(revision', revision)
      /\ Ids(registry) \subseteq Ids(registry')
  BY <1>1, MutationStores, Zenon
<1>3. /\ Overtaken = [c \in Calls |-> Overtaken[c]]
      /\ \A c \in Calls : CallFits(Overtaken[c], registry', revision', running')
  BY <1>1, <1>2, OvertakenFit
<1>4. CallsFit'
  BY <1>1, <1>3, Zenon DEF CallsFit
<1>5. SelectionStays
  BY <1>1, OvertakenThinks, Zenon DEF SelectionStays
<1>6. RevisionMoves
  BY <1>2, MutationShows, Zenon
<1> QED
  BY <1>2, <1>4, <1>5, <1>6, Zenon DEF Good, LaneInv

\* /api/meta executes: a run that was overtaken has left the selection alone.
LEMMA AnsweredIsGood ==
  ASSUME LaneInv, NEW c \in Calls, NEW new, IsRegistry(new), Grows(new, registry),
         Answered(c, new),
         Thinking(c) /\ calls[c].overtaken
           => new.active = registry.active /\ new.previous = registry.previous
  PROVE  Good
<1>1. /\ Mutate(new) /\ calls' = [Overtaken EXCEPT ![c] = IdleCall]
      /\ running' = running /\ generation' = generation /\ queued' = queued
  BY Zenon DEF Answered
<1>2. /\ Numbers' /\ Stored' /\ Reached(revision', revision)
      /\ Selection(registry') = Selection(registry) \/ Later(revision', revision)
      /\ Ids(registry) \subseteq Ids(registry') /\ registry' \in {registry, new}
  BY <1>1, MutationStores, Zenon
<1>3. /\ Overtaken = [d \in Calls |-> Overtaken[d]]
      /\ \A d \in Calls : CallFits(Overtaken[d], registry', revision', running')
  BY <1>1, <1>2, OvertakenFit
<1>4. CallsFit'
  <2>1. CallFits(IdleCall, registry', revision', running')
    BY Zenon DEF CallFits
  <2>2. /\ calls' = [d \in Calls |-> calls'[d]]
        /\ \A d \in Calls : CallFits(calls'[d], registry', revision', running')
    BY <1>1, <1>3, <2>1, CallReplaced
  <2> QED
    BY <2>2, Zenon DEF CallsFit
<1>5. SelectionStays
  <2>1. ASSUME NEW d \in Calls, Thinking(d), calls'[d].stage = "idle", calls[d].overtaken
        PROVE  registry'.active = registry.active /\ registry'.previous = registry.previous
    <3>1. CASE d = c
      BY <3>1, <2>1, <1>2
    <3>2. CASE d # c
      <4>1. calls'[d] = Overtaken[d]
        BY <1>1, <1>3, <3>2, Zenon
      <4> QED
        BY <2>1, <4>1, OvertakenThinks
    <3> QED
      BY <3>1, <3>2
  <2> QED
    BY <2>1, Zenon DEF SelectionStays
<1>6. RevisionMoves
  BY <1>2, MutationShows, Zenon
<1> QED
  BY <1>2, <1>4, <1>5, <1>6, Zenon DEF Good, LaneInv

\* A call that only changes its own stage.
LEMMA BecomesIsGood ==
  ASSUME LaneInv, NEW c \in Calls, NEW call, Becomes(c, call),
         CallFits(call, registry, revision, running)
  PROVE  Good
<1>1. /\ running' = running /\ registry' = registry /\ revision' = revision /\ fenced' = fenced
      /\ generation' = generation /\ queued' = queued /\ disk' = disk /\ prior' = prior
      /\ saved' = saved /\ faults' = faults /\ calls' = [calls EXCEPT ![c] = call]
  BY DEF Becomes, file
<1>2. Numbers' /\ Stored'
  BY <1>1 DEF LaneInv, Numbers, Stored, LiveIsVisible, SavedSurvives, RestartsStart, Loads
<1>3. CallsFit'
  <2>1. /\ calls = [d \in Calls |-> calls[d]]
        /\ \A d \in Calls : CallFits(calls[d], registry, revision, running)
    BY Zenon DEF LaneInv, CallsFit
  <2>2. /\ calls' = [d \in Calls |-> calls'[d]]
        /\ \A d \in Calls : CallFits(calls'[d], registry, revision, running)
    BY <1>1, <2>1, CallReplaced
  <2> QED
    BY <1>1, <2>2, Zenon DEF CallsFit
<1>4. RevisionMoves /\ SelectionStays
  BY <1>1, NothingShown
<1> QED
  BY <1>2, <1>3, <1>4, Zenon DEF Good, LaneInv

-----------------------------------------------------------------------------
(* The operations *)

\* The handlers of /api/lanes give the mutation a sound registry.
LEMMA LanesAreGood ==
  ASSUME LaneInv
  PROVE  /\ \A name \in Names : CreateLane(name) => Good
         /\ \A id : SetActive(id) \/ Touch(id) \/ RecordInteraction(id) => Good
<1>1. IsRegistry(registry)
  BY DEF LaneInv, Stored
<1>2. Extends(registry, registry)
  BY Zenon DEF Extends
<1>3. ASSUME NEW name \in Names, CreateLane(name) PROVE Good
  <2> DEFINE new == Switched(Created(registry, name), IdOf(name))
  <2>1. name \in Words /\ Creatable(registry, name) /\ Api(new)
    BY <1>3, RegistryAssumption DEF CreateLane, Words
  <2>2. IsRegistry(new) /\ Grows(new, registry)
    BY <1>1, <2>1, OpenedIsSound, ExtensionGrows
  <2> HIDE DEF new
  <2> QED
    BY <2>1, <2>2, ApiIsGood
<1>4. ASSUME NEW id, SetActive(id) PROVE Good
  <2>1. id \in Ids(registry) /\ Api(Switched(registry, id))
    BY <1>4, Zenon DEF SetActive
  <2>2. IsRegistry(Switched(registry, id)) /\ Grows(Switched(registry, id), registry)
    BY <1>1, <2>1, SwitchedIsSound, ExtensionGrows
  <2> QED
    BY <2>1, <2>2, ApiIsGood
<1>5. ASSUME NEW id, Touch(id) PROVE Good
  <2>1. Api(registry)
    BY <1>5, Zenon DEF Touch
  <2> QED
    BY <1>1, <1>2, <2>1, ExtensionGrows, ApiIsGood
<1>6. ASSUME NEW id, RecordInteraction(id) PROVE Good
  <2> DEFINE lanes == [registry.lanes EXCEPT ![IndexOf(registry, id)].count = @ + 1]
             new == [registry EXCEPT !.lanes = lanes]
  <2>1. id \in Ids(registry) /\ LaneOf(registry, id).count < MaxCount /\ Api(new)
    BY <1>6, Zenon DEF RecordInteraction
  <2>2. IsRegistry(new) /\ Grows(new, registry)
    BY <1>1, <2>1, CountedIsSound
  <2> HIDE DEF new
  <2> QED
    BY <2>1, <2>2, ApiIsGood
<1> QED
  BY <1>3, <1>4, <1>5, <1>6

\* What a call of each stage knows.
LEMMA StagesKnow ==
  ASSUME LaneInv, NEW c \in Calls
  PROVE  /\ calls[c].stage = "heard" =>
              /\ calls[c].action.op = "switch" => calls[c].action.lane.id \in Ids(registry)
              /\ calls[c].action.op = "new" => calls[c].action.name \in Words
         /\ calls[c].stage = "thinking" =>
              /\ calls[c] \in Thought
              /\ IsRegistry(calls[c].base) /\ IsRegistry(calls[c].proposed)
              /\ Extends(calls[c].proposed, calls[c].base)
              /\ Ids(calls[c].base) \subseteq Ids(registry)
              /\ Reached(revision, calls[c].revision)
              /\ calls[c].overtaken => Later(revision, calls[c].revision)
<1>1. CallFits(calls[c], registry, revision, running)
  BY Zenon DEF LaneInv, CallsFit
<1>2. calls[c].stage # "idle" => calls[c] # IdleCall
  <2>1. IdleCall.stage = "idle"
    BY DEF IdleCall
  <2> QED
    BY <2>1, Zenon
<1>3. /\ calls[c].stage = "heard" => calls[c].stage # "idle" /\ calls[c].stage # "thinking"
      /\ calls[c].stage = "thinking" => calls[c].stage # "idle" /\ calls[c].stage # "heard"
  OBVIOUS
<1> QED
  BY <1>1, <1>2, <1>3, Zenon DEF CallFits

\* The deterministic commands of /api/meta.
LEMMA MetaIsGood ==
  ASSUME LaneInv, NEW c \in Calls
  PROVE  /\ \A text \in Utterances : Hear(c, text) => Good
         /\ Meta(c) => Good
         /\ MetaEnds(c) => Good
<1>1. IsRegistry(registry) /\ registry.lanes \in Seq(Lane)
  <2>1. IsRegistry(registry)
    BY DEF LaneInv, Stored
  <2> QED
    BY <2>1, RegistryParts, Zenon
<1>2. ASSUME NEW text \in Utterances, Hear(c, text) PROVE Good
  <2> DEFINE action == Parse(text, registry.lanes)
             call == [stage |-> "heard", action |-> action]
  <2>1. Becomes(c, call) /\ running
    BY <1>2, Zenon DEF Hear, Becomes
  <2>2. text \in Words
    BY RegistryAssumption DEF Words
  <2>3. /\ action.op = "switch" => \E i \in DOMAIN registry.lanes : action.lane = registry.lanes[i]
        /\ action.op = "new" => action.name \in Words
    BY <1>1, <2>2, ParseIsKnown
  <2>4. call.stage = "heard" /\ call.action = action
    OBVIOUS
  <2> HIDE DEF action, call
  <2>5. action.op = "switch" => action.lane.id \in Ids(registry)
    BY <2>3, IdsByPlace, Zenon
  <2>6. CallFits(call, registry, revision, running)
    BY <2>1, <2>3, <2>4, <2>5, Zenon DEF CallFits
  <2> QED
    BY <2>1, <2>6, BecomesIsGood
<1>3. ASSUME Meta(c) PROVE Good
  <2> DEFINE action == calls[c].action
             new == Executed(registry, action)
  <2>1. /\ calls[c].stage = "heard" /\ action.op \in {"switch", "new"}
        /\ action.op = "new" => Creatable(registry, action.name)
        /\ Answered(c, new)
    BY <1>3, Zenon DEF Meta
  <2>2. /\ action.op = "switch" => action.lane.id \in Ids(registry)
        /\ action.op = "new" => action.name \in Words
    BY <2>1, StagesKnow
  <2>3. ~Thinking(c)
    BY <2>1 DEF Thinking
  <2> HIDE DEF action
  <2>4. IsRegistry(new) /\ Extends(new, registry)
    <3>1. CASE action.op = "switch"
      <4>1. new = Switched(registry, action.lane.id)
        BY <3>1, Zenon DEF Executed
      <4> QED
        BY <1>1, <2>2, <3>1, <4>1, SwitchedIsSound
    <3>2. CASE action.op = "new"
      <4>1. new = Switched(Created(registry, action.name), IdOf(action.name))
        BY <3>2, Zenon DEF Executed
      <4> QED
        BY <1>1, <2>1, <2>2, <3>2, <4>1, OpenedIsSound
    <3> QED
      BY <2>1, <3>1, <3>2
  <2> HIDE DEF new
  <2>5. Grows(new, registry)
    BY <1>1, <2>4, ExtensionGrows
  <2> QED
    BY <2>1, <2>3, <2>4, <2>5, AnsweredIsGood
<1>4. ASSUME MetaEnds(c) PROVE Good
  <2>1. Becomes(c, IdleCall)
    BY <1>4 DEF MetaEnds
  <2>2. CallFits(IdleCall, registry, revision, running)
    BY Zenon DEF CallFits
  <2> QED
    BY <2>1, <2>2, BecomesIsGood
<1> QED
  BY <1>2, <1>3, <1>4

\* The steering run: its copy, its tools and its merge.
LEMMA SteeringIsGood ==
  ASSUME LaneInv, NEW c \in Calls
  PROVE  /\ SteerStart(c) => Good
         /\ \A tool \in ChangingTools, name \in ModelNames : SteerTool(c, tool, name) => Good
         /\ SteerMerge(c) => Good
<1>1. IsRegistry(registry) /\ registry \in Registry
  BY DEF LaneInv, Stored, IsRegistry, Registry
<1>2. revision \in Revision
  BY DEF LaneInv, Numbers
<1>3. ASSUME SteerStart(c) PROVE Good
  <2> DEFINE call == [stage |-> "thinking", base |-> registry, revision |-> revision,
                      proposed |-> registry, tools |-> 0, overtaken |-> FALSE]
  <2>1. Becomes(c, call) /\ running
    BY <1>3, Zenon DEF SteerStart, Becomes
  <2>2. /\ call.stage = "thinking" /\ call.base = registry /\ call.proposed = registry
        /\ call.revision = revision /\ ~call.overtaken /\ call \in Thought
    <3>1. 0 \in 0..MaxTools
      BY RegistryAssumption, SMT
    <3> QED
      BY <1>1, <1>2, <3>1 DEF Thought
  <2> HIDE DEF call
  <2>3. CallFits(call, registry, revision, running)
    BY <1>1, <2>1, <2>2, Zenon DEF CallFits, Extends, Reached
  <2> QED
    BY <2>1, <2>3, BecomesIsGood
<1>4. ASSUME NEW tool \in ChangingTools, NEW name \in ModelNames, SteerTool(c, tool, name)
      PROVE  Good
  <2> DEFINE old == calls[c]
             changed == Tool(old.proposed, tool, name)
             call == [old EXCEPT !.proposed = changed, !.tools = old.tools + 1]
  <2>1. old.stage = "thinking" /\ old.tools < MaxTools /\ Becomes(c, call) /\ running
    BY <1>4, Zenon DEF SteerTool, Thinking, Becomes
  <2>2. /\ old \in Thought
        /\ IsRegistry(old.base) /\ IsRegistry(old.proposed)
        /\ Extends(old.proposed, old.base) /\ Ids(old.base) \subseteq Ids(registry)
        /\ Reached(revision, old.revision)
        /\ old.overtaken => Later(revision, old.revision)
    BY <2>1, StagesKnow
  <2> HIDE DEF old
  <2>3. IsRegistry(changed) /\ Extends(changed, old.proposed)
    BY <2>2, ToolIsSound
  <2>4. changed \in Registry
    BY <2>3 DEF IsRegistry, Registry
  <2> HIDE DEF changed
  <2>5. old.tools + 1 \in 0..MaxTools
    <3>1. old.tools \in 0..MaxTools
      BY <2>2 DEF Thought
    <3> QED
      BY <2>1, <3>1, RegistryAssumption, SMT
  <2>6. /\ call \in Thought /\ call.stage = "thinking" /\ call.base = old.base
        /\ call.proposed = changed /\ call.revision = old.revision
        /\ call.overtaken = old.overtaken
    BY <2>2, <2>4, <2>5 DEF Thought
  <2> HIDE DEF call
  <2>7. Extends(changed, old.base)
    BY <2>2, <2>3, Zenon DEF Extends
  <2>8. CallFits(call, registry, revision, running)
    BY <2>1, <2>2, <2>3, <2>6, <2>7, Zenon DEF CallFits
  <2> QED
    BY <2>1, <2>8, BecomesIsGood
<1>5. ASSUME SteerMerge(c) PROVE Good
  <2> DEFINE new == Merged(c)
  <2>1. /\ calls[c].stage = "thinking"
        /\ Len(registry.lanes) + Len(Additions(calls[c].base, calls[c].proposed)) <= MaxLanes
        /\ Answered(c, new)
    BY <1>5, Zenon DEF SteerMerge, Thinking
  <2>2. /\ calls[c] \in Thought
        /\ IsRegistry(calls[c].base) /\ IsRegistry(calls[c].proposed)
        /\ Extends(calls[c].proposed, calls[c].base)
        /\ Ids(calls[c].base) \subseteq Ids(registry)
        /\ calls[c].overtaken => Later(revision, calls[c].revision)
    BY <2>1, StagesKnow
  <2>3. IsRegistry(new) /\ Extends(new, registry)
    BY <1>1, <2>1, <2>2, MergedIsSound
  <2>4. ASSUME calls[c].overtaken
        PROVE  new.active = registry.active /\ new.previous = registry.previous
    <3>1. revision # calls[c].revision
      BY <1>2, <2>2, <2>4, LaterIsOrdered, Zenon
    <3>2. ~Untouched(c)
      BY <3>1 DEF Untouched
    <3> QED
      BY <3>2 DEF Merged
  <2> HIDE DEF new
  <2>5. Grows(new, registry)
    BY <1>1, <2>3, ExtensionGrows
  <2> QED
    BY <2>1, <2>3, <2>4, <2>5, AnsweredIsGood
<1> QED
  BY <1>3, <1>4, <1>5

-----------------------------------------------------------------------------
(* The delivery file and the process *)

\* A delivery is only taken for a lane that is also on file, and writing it settles
\* what was in doubt in that directory.
LEMMA DeliveriesAreGood ==
  ASSUME LaneInv, NEW id
  PROVE  QueueDelivery(id) \/ TakeDelivery(id) => Good
<1> SUFFICES ASSUME QueueDelivery(id) \/ TakeDelivery(id) PROVE Good
  OBVIOUS
<1>1. /\ running' = running /\ registry' = registry /\ revision' = revision /\ fenced' = fenced
      /\ disk' = disk /\ generation' = generation /\ calls' = calls /\ saved' = saved
      /\ faults' = faults /\ running /\ Settled
      /\ queued' \subseteq queued \cup Ids(registry)
  BY DEF QueueDelivery, TakeDelivery, Known
<1>2. /\ IsRegistry(registry) /\ IsRegistry(disk) /\ \A s \in prior : IsRegistry(s)
      /\ registry = disk /\ SavedSurvives /\ (OneDirectory => RestartsStart)
      /\ \A l \in ToSet(saved) : l.count \in Nat
  BY <1>1, Zenon DEF LaneInv, Stored, LiveIsVisible
<1>3. prior' \subseteq prior /\ (OneDirectory => prior' = {})
  BY <1>1 DEF Settled
<1>4. OneDirectory => RestartsStart'
  <2>1. ASSUME OneDirectory PROVE Valid(disk) /\ queued \subseteq Ids(disk)
    BY <1>2, <2>1, Zenon DEF RestartsStart, Loads
  <2>2. ASSUME OneDirectory PROVE Loads(disk)'
    BY <2>1, <2>2, <1>1, <1>2 DEF Loads
  <2>3. ASSUME OneDirectory PROVE \A reg \in {disk'} \cup prior' : reg = disk
    BY <2>3, <1>1, <1>3
  <2>4. ASSUME OneDirectory, NEW reg \in {disk'} \cup prior' PROVE Valid(reg) /\ queued' \subseteq Ids(reg)
    <3>1. reg = disk
      BY <2>3, <2>4
    <3> QED
      BY <3>1, <2>1, <2>4, <1>1, <1>2
  <2> QED
    BY <2>4 DEF RestartsStart, Loads
<1>5. SavedSurvives'
  BY <1>1, <1>2, <1>3, Zenon DEF SavedSurvives
<1>6. Stored'
  <2>1. IsRegistry(registry') /\ IsRegistry(disk') /\ \A s \in prior' : IsRegistry(s)
    BY <1>1, <1>2, <1>3
  <2>2. LiveIsVisible' /\ \A l \in ToSet(saved') : l.count \in Nat
    BY <1>1, <1>2 DEF LiveIsVisible
  <2> QED
    BY <1>4, <1>5, <2>1, <2>2, Zenon DEF Stored
<1>7. Numbers' /\ CallsFit'
  BY <1>1 DEF LaneInv, Numbers, CallsFit
<1>8. RevisionMoves /\ SelectionStays
  BY <1>1, NothingShown
<1> QED
  BY <1>6, <1>7, <1>8, Zenon DEF Good, LaneInv

\* A process that ends forgets its calls and keeps its files.
LEMMA EndIsGood ==
  ASSUME LaneInv, Crash \/ PowerFailure
  PROVE  Good
<1>1. /\ running' = FALSE /\ calls' = [c \in Calls |-> IdleCall]
      /\ registry' = registry /\ revision' = revision /\ fenced' = fenced
      /\ generation' = generation /\ queued' = queued /\ saved' = saved
      /\ Faulty /\ disk' \in {disk} \cup prior /\ prior' \subseteq prior
  BY DEF Crash, PowerFailure, Gone
<1>2. /\ IsRegistry(registry) /\ IsRegistry(disk) /\ \A s \in prior : IsRegistry(s)
      /\ SavedSurvives /\ (OneDirectory => RestartsStart)
      /\ \A l \in ToSet(saved) : l.count \in Nat
  BY Zenon DEF LaneInv, Stored
<1>3. SavedSurvives'
  <2>1. {registry', disk'} \cup prior' \subseteq {registry, disk} \cup prior
    BY <1>1
  <2>2. \A reg \in {registry, disk} \cup prior : Covers(reg, saved)
    BY <1>2 DEF SavedSurvives
  <2>3. \A reg \in {registry', disk'} \cup prior' : Covers(reg, saved)
    BY <2>1, <2>2
  <2> QED
    BY <1>1, <2>3, Zenon DEF SavedSurvives
<1>4. OneDirectory => RestartsStart'
  <2>1. ASSUME OneDirectory, NEW reg \in {disk'} \cup prior'
        PROVE  Valid(reg) /\ queued' \subseteq Ids(reg)
    <3>1. reg \in {disk} \cup prior
      BY <1>1
    <3>2. \A r \in {disk} \cup prior : Valid(r) /\ queued \subseteq Ids(r)
      BY <1>2, <2>1 DEF RestartsStart, Loads
    <3> QED
      BY <1>1, <3>1, <3>2
  <2> QED
    BY <2>1 DEF RestartsStart, Loads
<1>5. Stored'
  <2>1. IsRegistry(registry') /\ IsRegistry(disk') /\ \A s \in prior' : IsRegistry(s)
    BY <1>1, <1>2
  <2>2. LiveIsVisible' /\ \A l \in ToSet(saved') : l.count \in Nat
    BY <1>1, <1>2 DEF LiveIsVisible
  <2> QED
    BY <1>3, <1>4, <2>1, <2>2, Zenon DEF Stored
<1>6. CallsFit'
  <2>1. \A c \in Calls : calls'[c] = IdleCall
    BY <1>1
  <2>2. calls' = [c \in Calls |-> calls'[c]]
    BY <1>1
  <2> QED
    BY <2>1, <2>2, Zenon DEF CallsFit, CallFits
<1>7. Numbers'
  <2>1. faults' \in 0..MaxFaults
    BY <1>1, RegistryAssumption, SMT DEF Faulty, LaneInv, Numbers
  <2> QED
    BY <1>1, <2>1, Zenon DEF LaneInv, Numbers
<1>8. RevisionMoves /\ SelectionStays
  BY <1>1, NothingShown
<1> QED
  BY <1>5, <1>6, <1>7, <1>8, Zenon DEF Good, LaneInv

\* A start takes the registry from the file under a generation never served before.
LEMMA StartIsGood ==
  ASSUME LaneInv, Start
  PROVE  Good
<1>1. /\ ~running /\ generation < MaxGeneration /\ running' = TRUE /\ fenced' = FALSE
      /\ generation' = generation + 1 /\ revision' = [gen |-> generation + 1, n |-> 0]
      /\ registry' = disk /\ prior' = {} /\ disk' = disk /\ calls' = calls
      /\ queued' = queued /\ saved' = saved /\ faults' = faults
  BY DEF Start, NextRevision
<1>2. /\ IsRegistry(disk) /\ SavedSurvives /\ (OneDirectory => RestartsStart)
      /\ \A l \in ToSet(saved) : l.count \in Nat
  BY Zenon DEF LaneInv, Stored
<1>3. Stored'
  <2>1. SavedSurvives'
    <3>1. Covers(disk, saved)
      BY <1>2, Zenon DEF SavedSurvives
    <3>2. {registry', disk'} \cup prior' = {disk}
      BY <1>1
    <3> QED
      BY <1>1, <3>1, <3>2, Zenon DEF SavedSurvives
  <2>2. OneDirectory => RestartsStart'
    BY <1>1, <1>2 DEF RestartsStart, Loads
  <2>3. IsRegistry(registry') /\ IsRegistry(disk') /\ \A s \in prior' : IsRegistry(s)
    BY <1>1, <1>2
  <2>4. LiveIsVisible' /\ \A l \in ToSet(saved') : l.count \in Nat
    BY <1>1, <1>2 DEF LiveIsVisible
  <2> QED
    BY <2>1, <2>2, <2>3, <2>4, Zenon DEF Stored
<1>4. CallsFit'
  <2>1. /\ calls = [c \in Calls |-> calls[c]]
        /\ \A c \in Calls : calls[c] = IdleCall
    BY <1>1, Zenon DEF LaneInv, CallsFit, CallFits
  <2> QED
    BY <1>1, <2>1, Zenon DEF CallsFit, CallFits
<1>5. generation \in Nat /\ revision.gen <= generation /\ revision.gen \in Nat /\ MaxGeneration \in Nat
  BY RegistryAssumption, SMT DEF LaneInv, Numbers, Revision
<1>6. Numbers'
  <2>1. generation + 1 \in 0..MaxGeneration /\ 0 \in 0..MaxMutations
    BY <1>1, <1>5, RegistryAssumption, SMT
  <2>2. revision' \in Revision /\ revision'.gen = generation + 1
    BY <1>1, <2>1 DEF Revision
  <2>3. generation' \in Nat /\ generation' <= MaxGeneration /\ revision'.gen <= generation'
    BY <1>1, <1>5, <2>2, SMT
  <2> QED
    BY <1>1, <2>2, <2>3, Zenon DEF LaneInv, Numbers
<1>7. Later(revision', revision)
  <2>1. revision'.gen > revision.gen
    BY <1>1, <1>5, SMT
  <2> QED
    BY <2>1 DEF Later
<1>8. RevisionMoves
  <2>1. Shown.revision' = revision' /\ Shown.revision = revision
    BY DEF Shown
  <2> QED
    BY <1>7, <2>1, Zenon DEF RevisionMoves
<1>9. SelectionStays
  <2>1. \A c \in Calls : ~Thinking(c)
    <3>1. \A c \in Calls : calls[c] = IdleCall
      BY <1>1, Zenon DEF LaneInv, CallsFit, CallFits
    <3> QED
      BY <3>1 DEF Thinking, IdleCall
  <2> QED
    BY <2>1, Zenon DEF SelectionStays
<1> QED
  BY <1>3, <1>4, <1>6, <1>8, <1>9, Zenon DEF Good, LaneInv

\* A start that fails may use up a generation and changes nothing else.
LEMMA FailedStartIsGood ==
  ASSUME LaneInv, StartFails
  PROVE  Good
<1>1. /\ generation < MaxGeneration /\ Faulty /\ generation' \in {generation, generation + 1}
      /\ running' = running /\ registry' = registry /\ revision' = revision
      /\ fenced' = fenced /\ disk' = disk /\ prior' = prior /\ calls' = calls
      /\ queued' = queued /\ saved' = saved
  BY DEF StartFails
<1>2. Numbers'
  <2>1. /\ faults' \in 0..MaxFaults
        /\ generation' \in Nat /\ generation' <= MaxGeneration /\ revision'.gen <= generation'
    BY <1>1, RegistryAssumption, SMT DEF Faulty, LaneInv, Numbers, Revision
  <2> QED
    BY <1>1, <2>1, Zenon DEF LaneInv, Numbers
<1>3. Stored'
  BY <1>1 DEF LaneInv, Stored, LiveIsVisible, SavedSurvives, RestartsStart, Loads
<1>4. CallsFit'
  BY <1>1 DEF LaneInv, CallsFit
<1>5. RevisionMoves /\ SelectionStays
  BY <1>1, NothingShown
<1> QED
  BY <1>2, <1>3, <1>4, <1>5, Zenon DEF Good, LaneInv

-----------------------------------------------------------------------------
(* Theorems *)

\* A process that never ran has a sound registry, and nothing under way.
LEMMA FirstIsSound == ASSUME Init PROVE LaneInv
<1>1. IsRegistry(disk) /\ registry = disk /\ prior = {} /\ saved = disk.lanes /\ queued = {}
  BY FoundAssumption DEF Init
<1>2. Numbers
  <2>1. 0 \in 0..MaxGeneration /\ 0 \in 0..MaxMutations /\ 0 \in 0..MaxFaults /\ 0 <= MaxGeneration
    BY RegistryAssumption, SMT
  <2>2. running = FALSE /\ fenced = FALSE /\ faults = 0 /\ generation = 0
        /\ revision = [gen |-> 0, n |-> 0]
    BY DEF Init
  <2>3. revision \in Revision /\ revision.gen = 0
    BY <2>1, <2>2 DEF Revision
  <2>4. generation \in Nat /\ generation <= MaxGeneration /\ revision.gen <= generation
    BY <2>1, <2>2, <2>3, SMT
  <2>5. running \in BOOLEAN /\ fenced \in BOOLEAN /\ faults \in 0..MaxFaults
    BY <2>1, <2>2
  <2> QED
    BY <2>3, <2>4, <2>5, Zenon DEF Numbers
<1>3. Stored
  <2>1. Grows(disk, disk)
    <3>1. Extends(disk, disk)
      BY Zenon DEF Extends
    <3> QED
      BY <1>1, <3>1, ExtensionGrows
  <2>2. Covers(disk, saved)
    BY <1>1, <2>1, GrowthCovers
  <2>3. SavedSurvives
    BY <1>1, <2>2 DEF SavedSurvives
  <2>4. RestartsStart
    BY <1>1 DEF RestartsStart, Loads, IsRegistry
  <2>5. \A l \in ToSet(saved) : l.count \in Nat
    BY <1>1, RegistryParts, Zenon DEF ToSet
  <2> QED
    BY <1>1, <2>3, <2>4, <2>5, Zenon DEF Stored, LiveIsVisible
<1>4. CallsFit
  BY DEF Init, CallsFit, CallFits
<1> QED
  BY <1>2, <1>3, <1>4 DEF LaneInv

\* Every step keeps the invariant and both promises.
LEMMA StepIsGood ==
  ASSUME LaneInv, [Next]_vars
  PROVE  LaneInv' /\ [RevisionMoves]_vars /\ [SelectionStays]_vars
<1>1. CASE Next
  <2>1. (\E name \in Names : CreateLane(name)) => Good
    BY LanesAreGood
  <2>2. (\E id \in Ids(registry) : SetActive(id) \/ Touch(id) \/ RecordInteraction(id)) => Good
    BY LanesAreGood
  <2>3. ASSUME NEW c \in Calls
        PROVE  (\E text \in Utterances : Hear(c, text)) \/ Meta(c) \/ MetaEnds(c) => Good
    BY MetaIsGood
  <2>4. ASSUME NEW c \in Calls
        PROVE  /\ SteerStart(c) \/ SteerMerge(c) => Good
               /\ (\E tool \in ChangingTools, name \in ModelNames : SteerTool(c, tool, name)) => Good
    BY SteeringIsGood
  <2>5. (\E name \in Names : QueueDelivery(IdOf(name)) \/ TakeDelivery(IdOf(name))) => Good
    BY DeliveriesAreGood
  <2>6. Crash \/ PowerFailure \/ Start \/ StartFails => Good
    BY EndIsGood, StartIsGood, FailedStartIsGood
  <2>7. Good
    BY <1>1, <2>1, <2>2, <2>3, <2>4, <2>5, <2>6, Zenon DEF Next
  <2> QED
    BY <2>7, Zenon DEF Good
<1>2. CASE UNCHANGED vars
  <2>1. /\ running' = running /\ registry' = registry /\ revision' = revision /\ fenced' = fenced
        /\ generation' = generation /\ queued' = queued /\ disk' = disk /\ prior' = prior
        /\ saved' = saved /\ faults' = faults /\ calls' = calls
    BY <1>2 DEF vars
  <2>2. Numbers' /\ Stored' /\ CallsFit'
    BY <2>1 DEF LaneInv, Numbers, Stored, CallsFit, LiveIsVisible, SavedSurvives, RestartsStart, Loads
  <2> QED
    BY <1>2, <2>2, Zenon DEF LaneInv
<1> QED
  BY <1>1, <1>2

\* The invariant holds of every behaviour.
THEOREM LanesCorrect == Spec => []LaneInv
<1>1. LaneInv /\ [Next]_vars => LaneInv'
  BY StepIsGood
<1> QED
  BY FirstIsSound, <1>1, PTL DEF Spec

\* RegistryIsSound: the registry is valid in memory, on file and in every private
\* copy, and a serving process answers from what a restart would read
\* (commit_lane_mutation, merge_model_registry).
THEOREM RegistryAlwaysSound == Spec => []RegistryIsSound
<1>1. LaneInv => RegistryIsSound
  <2> SUFFICES ASSUME LaneInv PROVE RegistryIsSound
    OBVIOUS
  <2>1. /\ running \in BOOLEAN /\ fenced \in BOOLEAN /\ faults \in 0..MaxFaults
        /\ IsRevision(revision) /\ generation \in revision.gen..MaxGeneration
    <3>1. revision.gen \in 0..MaxGeneration /\ revision.n \in 0..MaxMutations
      BY DEF LaneInv, Numbers, Revision
    <3>2. generation \in Nat /\ generation <= MaxGeneration /\ revision.gen <= generation
      BY DEF LaneInv, Numbers
    <3>3. generation \in revision.gen..MaxGeneration
      BY <3>1, <3>2, RegistryAssumption, SMT
    <3> QED
      BY <3>1, <3>3, Zenon DEF LaneInv, Numbers, IsRevision
  <2>2. IsRegistry(registry) /\ IsRegistry(disk) /\ (\A s \in prior : IsRegistry(s)) /\ LiveIsVisible
    BY Zenon DEF LaneInv, Stored
  <2>3. ASSUME NEW c \in Calls, Thinking(c)
        PROVE  /\ IsRegistry(calls[c].base) /\ IsRegistry(calls[c].proposed)
               /\ IsRevision(calls[c].revision) /\ calls[c].tools \in 0..MaxTools
    <3>1. calls[c].stage = "thinking"
      BY <2>3 DEF Thinking
    <3>2. calls[c] \in Thought /\ IsRegistry(calls[c].base) /\ IsRegistry(calls[c].proposed)
      BY <3>1, StagesKnow
    <3> QED
      BY <3>2 DEF Thought, Revision, IsRevision
  <2> QED
    BY <2>1, <2>2, <2>3, Zenon DEF RegistryIsSound, RegistryTypeOK
<1> QED
  BY LanesCorrect, <1>1, PTL

\* SavedSurvives: no failed save, restart, power failure or steering run loses a lane
\* or a count that was saved (atomic_write, merge_model_registry).
THEOREM SavedNeverLost == Spec => []SavedSurvives
<1>1. LaneInv => SavedSurvives
  BY Zenon DEF LaneInv, Stored
<1> QED
  BY LanesCorrect, <1>1, PTL

\* RestartsStart, where the relay's file lies beside the registry, which is the
\* daemon's default: whatever a power failure leaves, the next start reads it.
THEOREM RestartAlwaysStarts == ASSUME OneDirectory PROVE Spec => []RestartsStart
<1>1. LaneInv => RestartsStart
  BY Zenon DEF LaneInv, Stored
<1> QED
  BY LanesCorrect, <1>1, PTL

\* RevisionNamesSelection: two answers with the same revision show the same lanes and
\* the same selection, also across restarts (next_registry_revision).
THEOREM RevisionIsFaithful == Spec => RevisionNamesSelection
<1>1. LaneInv /\ [Next]_vars => [RevisionMoves]_vars
  BY StepIsGood
<1>2. Spec => [][RevisionMoves]_vars
  BY LanesCorrect, <1>1, PTL DEF Spec
<1> QED
  BY <1>2 DEF RevisionNamesSelection, RevisionMoves

\* UserSelectionWins: a steering run that was overtaken leaves the selection alone
\* (merge_model_registry).
THEOREM UserIsHeard == Spec => UserSelectionWins
<1>1. LaneInv /\ [Next]_vars => [SelectionStays]_vars
  BY StepIsGood
<1>2. Spec => [][SelectionStays]_vars
  BY LanesCorrect, <1>1, PTL DEF Spec
<1> QED
  BY <1>2 DEF UserSelectionWins, SelectionStays
=============================================================================
