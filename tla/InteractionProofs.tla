--------------------------- MODULE InteractionProofs ---------------------------
(***************************************************************************)
(* A remote turn is neither lost nor counted twice between the bridge and  *)
(* telepathosd, for any number of turns and lanes, any windows and bounds, *)
(* any clock offset, and writes, requests and processes that fail in any   *)
(* order.                                                                  *)
(*                                                                         *)
(* The outbox part follows the rows of a turn through the queue and its    *)
(* two snapshots.  The ledger part compares four views of what was         *)
(* counted: the files as seen, the files a power failure may leave, the    *)
(* live ledger and the live registry.  A count is marked when one of them  *)
(* records it.                                                             *)
(***************************************************************************)
EXTENDS InteractionActivity, QueueLemmas

-----------------------------------------------------------------------------
(* The outbox *)

\* While the bridge is up its file holds the queue; while the queue is healthy
\* no other snapshot is left, and each reserved row has one that answers for it.
QueueOnFile ==
  /\ bridgeUp => outbox.disk = outbox.rows
  /\ bridgeUp /\ ~outbox.fenced =>
       /\ outbox.prior = outbox.rows
       /\ InState(outbox.rows, "reserved") =
            InState(turn, "reserved") \cup InState(turn, "transcribing")
              \cup outbox.canceled
  /\ outbox.canceled \subseteq InState(turn, "over")
  /\ ~bridgeUp => InState(turn, "reserved") \cup InState(turn, "transcribing") = {}

\* A turn that ran is over; a recorded answer is one telepathosd gave.
RanIsOver ==
  /\ ran \subseteq InState(turn, "over")
  /\ flush.answer = "recorded" => flush.call \in answered

\* The turns that a flush, a request or telepathosd has heard of; a turn whose
\* capture has not begun is none of them.
Heard == late \cup flush.todo \cup written \cup {flush.call, handling.id}
IdleIsUnheard == InState(turn, "idle") \cap Heard = {}

\* A snapshot fits the queue, holds the turns T that ran, and not the idle ones I.
Holds(rows, T, I) ==
  /\ Cardinality(Occupied(rows)) <= Capacity
  /\ \A i \in T : rows[i] \in {"pending", "expired"}
  /\ \A i \in I : rows[i] = "none"

SnapshotsHold ==
  \A rows \in {outbox.disk, outbox.prior} :
    Holds(rows, ran \ answered, InState(turn, "idle"))

OutboxInv ==
  OutboxTypeOK /\ QueueOnFile /\ SnapshotsHold /\ RanIsOver /\ IdleIsUnheard

-----------------------------------------------------------------------------
(* The ledger *)

\* The files f record count n of turn i.
Bears(f, i, n) == n # 0 /\ (f.snap[i] = n \/ <<i, n>> \in f.lines)

\* Some view records count n of turn i.
Mark(i, n) ==
  \/ Bears(disk, i, n) \/ Bears(settled, i, n)
  \/ n # 0 /\ ledger.entries[i] = n

\* What a crash may leave of the files.
Survivors ==
  {[snap |-> snap, lines |-> journal.lines, tail |-> journal.tail, reg |-> reg] :
     snap \in {disk.snap, settled.snap}, journal \in {disk, settled},
     reg \in {disk.reg, settled.reg}}

\* Turns that were tried and may be tried again: by files f, and by the ledger.
Fresh(f) == {i \in written : Live(i) /\ \A n \in Nat : ~Bears(f, i, n)}
FreshHere == {i \in written : Live(i) /\ ledger.entries[i] = 0}

\* No record is empty, and no two of one turn differ.
MarksAgree ==
  /\ IsFiniteSet(disk.lines) /\ IsFiniteSet(settled.lines)
  /\ \A x \in disk.lines \cup settled.lines : x[2] # 0
  /\ \A i \in Interactions, n \in Nat : Mark(i, n) => i \in written
  /\ \A i \in Interactions, m, n \in Nat : Mark(i, m) /\ Mark(i, n) => m = n

\* Where the process is on its way through a request.
HandlingIsSound ==
  /\ ~daemonUp => /\ settled = disk /\ handling = Idle
                  /\ ~uncertain /\ ~laneUncertain
                  /\ ledger.entries = NoEntries
  /\ daemonUp => registry = disk.reg
  /\ daemonUp /\ ~laneUncertain => settled.reg = registry
  /\ handling.step \in {"compact", "clear", "append"} =>
       /\ daemonUp /\ ~uncertain /\ ~laneUncertain /\ handling.id \in Interactions
       /\ Live(handling.id) /\ ledger.entries[handling.id] = 0
  /\ handling.step = "clear" =>
       disk.snap = Compacted /\ settled.snap = Compacted
  /\ handling.step = "append" =>
       Compacted = ledger.entries /\ ~ledger.stale /\ ledger.lines < MaxLines
  /\ handling.step = "save" =>
       /\ daemonUp /\ ~uncertain /\ ~laneUncertain /\ handling.id \in Interactions
       /\ registry[LaneOf[handling.id]] < ledger.entries[handling.id]
  /\ handling.step = "reply" => daemonUp /\ handling.id \in Interactions
  /\ handling.step = "reply" /\ handling.result = "recorded" =>
       LET i == handling.id
       IN  /\ ledger.entries[i] # 0
           /\ \A f \in {disk, settled} : ledger.entries[i] <= f.reg[LaneOf[i]]

\* Snapshot and journal together record count n of turn i, or cannot be loaded.
KnownIn(snap, journal, i, n) ==
  journal.tail = "bad" \/ snap[i] = n \/ <<i, n>> \in journal.lines

\* Of the turns still within the window, the ledger has what a start would find.
LedgerOnFile ==
  daemonUp /\ ~uncertain =>
    /\ \A i \in Interactions, n \in Nat :
         (Live(i) \/ ~ledger.stale) /\ (Bears(disk, i, n) \/ Bears(settled, i, n)) =>
           ledger.entries[i] = n
    /\ \A i \in Interactions : Live(i) /\ ledger.entries[i] # 0 =>
         \A snap \in {disk.snap, settled.snap}, journal \in {disk, settled} :
           KnownIn(snap, journal, i, ledger.entries[i])
    /\ \A f \in {disk, settled} : Cardinality(f.lines) <= ledger.lines
    /\ ledger.lines <= MaxLines /\ EntryCount(ledger.entries) <= MaxEntries

\* Counts stay within the number of turns T of their lane.
Within(f, T) ==
  /\ \A l \in Lanes : f.reg[l] <= Cardinality(Of(l, T))
  /\ \A i \in Interactions, n \in Nat :
       Bears(f, i, n) => n <= Cardinality(Of(LaneOf[i], T))

\* No count exceeds the turns tried, less those that may be tried again.
CountsAreEarned ==
  /\ \A f \in {disk, settled} : Within(f, written)
  /\ \A f \in Survivors : f.tail # "bad" => Within(f, written \ Fresh(f))
  /\ daemonUp /\ ~uncertain =>
       /\ \A f \in {disk, settled} : Within(f, written \ FreshHere)
       /\ \A i \in Interactions :
            ledger.entries[i] <= Cardinality(Of(LaneOf[i], written \ FreshHere))

\* The turns of lane l with a count of at most m.
Marked(l, m) == {i \in Interactions : LaneOf[i] = l /\ \E n \in 1..m : Mark(i, n)}

\* No count stands for two turns: those answered, and those with a count of at
\* most m, are no more than m, from what the registry holds upwards.
CountsAreShared ==
  \A l \in Lanes, f \in {disk, settled}, m \in Nat :
    f.reg[l] <= m => Cardinality(Of(l, answered) \cup Marked(l, m)) <= m

CountInv ==
  /\ LedgerTypeOK /\ MarksAgree /\ HandlingIsSound /\ LedgerOnFile
  /\ CountsAreEarned /\ CountsAreShared

\* No append leaves a whole record without its newline.
NewlinesKept == "open" \notin AppendOutcomes

\* The journals a start may find end with a newline.
TailsAreClean ==
  /\ disk.tail # "open" /\ settled.tail # "open"
  /\ daemonUp /\ ~uncertain => disk.tail = "clean" /\ settled.tail = "clean"

-----------------------------------------------------------------------------
(* Lemmas on the queue *)

\* What a write leaves in memory, in the file and in the other snapshot.
LEMMA PersistLeaves ==
  ASSUME NEW ob \in Outbox, NEW rows \in Rows, NEW o \in {"ok", "pre", "post"}
  PROVE  LET p == Persist(ob, rows, o)
         IN  /\ p \in Outbox /\ p.canceled = ob.canceled
             /\ o = "ok" => /\ p.rows = rows /\ p.disk = rows /\ p.prior = rows
                            /\ p.fenced = ob.fenced
             /\ o = "pre" => p = ob
             /\ o = "post" => /\ p.rows = rows /\ p.disk = rows
                              /\ p.prior = ob.disk /\ p.fenced
<1>1. CASE o = "ok"
  <2>1. Persist(ob, rows, o) = [ob EXCEPT !.rows = rows, !.disk = rows, !.prior = rows]
    BY <1>1, Zenon DEF Persist
  <2> QED
    BY <1>1, <2>1 DEF Outbox
<1>2. CASE o = "pre"
  <2>1. o # "ok"
    BY <1>2
  <2>2. Persist(ob, rows, o) = ob
    BY <1>2, <2>1, Zenon DEF Persist
  <2> QED
    BY <1>2, <2>2
<1>3. CASE o = "post"
  <2>1. o # "ok" /\ o # "pre"
    BY <1>3
  <2>2. Persist(ob, rows, o) =
          [ob EXCEPT !.rows = rows, !.disk = rows, !.prior = ob.disk, !.fenced = TRUE]
    BY <1>3, <2>1, Zenon DEF Persist
  <2> QED
    BY <1>3, <2>2 DEF Outbox
<1> QED
  BY <1>1, <1>2, <1>3

\* A write on a queue with no other snapshot leaves the old rows or the new.
LEMMA PersistHealthy ==
  ASSUME NEW ob \in Outbox, ob.disk = ob.rows, ob.prior = ob.rows,
         NEW rows \in Rows, NEW o \in {"ok", "pre", "post"}
  PROVE  LET p == Persist(ob, rows, o)
         IN  /\ p \in Outbox /\ p.canceled = ob.canceled /\ p.disk = p.rows
             /\ p.disk \in {ob.rows, rows} /\ p.prior \in {ob.rows, rows}
             /\ ~p.fenced => p.prior = p.rows /\ o # "post"
             /\ p.rows = IF o = "pre" THEN ob.rows ELSE rows
<1> DEFINE p == Persist(ob, rows, o)
<1>1. /\ p \in Outbox /\ p.canceled = ob.canceled
      /\ o = "ok" => /\ p.rows = rows /\ p.disk = rows /\ p.prior = rows
                     /\ p.fenced = ob.fenced
      /\ o = "pre" => p = ob
      /\ o = "post" => /\ p.rows = rows /\ p.disk = rows
                       /\ p.prior = ob.disk /\ p.fenced
  BY PersistLeaves
<1> HIDE DEF p
<1> QED
  BY <1>1 DEF p

\* Fewer turns to hold or to keep out are held and kept out.
LEMMA HoldsFewer ==
  ASSUME NEW rows, NEW T, NEW I, NEW U, NEW J, Holds(rows, T, I),
         U \subseteq T, J \subseteq I
  PROVE  Holds(rows, U, J)
BY DEF Holds

\* The rows of a snapshot are finitely many.
LEMMA OccupiedFinite ==
  ASSUME NEW rows \in Rows
  PROVE  IsFiniteSet(Occupied(rows)) /\ Cardinality(Occupied(rows)) \in Nat
<1>1. Occupied(rows) \in SUBSET Interactions
  BY DEF Occupied
<1> QED
  BY <1>1, TurnsAssumption, FS_Subset, FS_CardinalityType

\* A snapshot with no more rows than another fits too.
LEMMA OccupiedFewer ==
  ASSUME NEW rows \in Rows, NEW other \in Rows, Occupied(other) \subseteq Occupied(rows),
         Cardinality(Occupied(rows)) <= Capacity
  PROVE  Cardinality(Occupied(other)) <= Capacity
<1>1. Cardinality(Occupied(other)) <= Cardinality(Occupied(rows))
  BY OccupiedFinite, FS_Subset
<1> QED
  BY <1>1, OccupiedFinite, OutboxAssumption

\* Rows of turns that did not run may go.
LEMMA HoldsWithout ==
  ASSUME NEW rows \in Rows, NEW T, NEW I \in SUBSET Interactions, T \subseteq Interactions,
         Holds(rows, T, I), NEW gone, gone \cap T = {}
  PROVE  Without(rows, gone) \in Rows /\ Holds(Without(rows, gone), T, I)
<1> DEFINE r == Without(rows, gone)
<1>1. r \in Rows
  BY DEF Without, Rows
<1>2. \A i \in Interactions : r[i] = IF i \in gone THEN "none" ELSE rows[i]
  BY DEF Without
<1> HIDE DEF r
<1>3. Occupied(r) \subseteq Occupied(rows)
  BY <1>2 DEF Occupied
<1>4. Cardinality(Occupied(r)) <= Capacity
  BY <1>1, <1>3, OccupiedFewer DEF Holds
<1>5. \A i \in T : r[i] \in {"pending", "expired"}
  BY <1>2 DEF Holds
<1>6. \A i \in I : r[i] = "none"
  BY <1>2 DEF Holds
<1> QED
  BY <1>1, <1>4, <1>5, <1>6 DEF Holds, r

\* A row may change its state, to that of a turn that ran or not.
LEMMA HoldsMarked ==
  ASSUME NEW rows \in Rows, NEW T \in SUBSET Interactions, NEW I \in SUBSET Interactions,
         Holds(rows, T, I), NEW i \in Interactions, rows[i] # "none",
         NEW st \in {"pending", "expired"}
  PROVE  LET r == [rows EXCEPT ![i] = st]
         IN  r \in Rows /\ Holds(r, T \cup {i}, I)
<1> DEFINE r == [rows EXCEPT ![i] = st]
<1>1. r \in Rows
  BY DEF Rows
<1>2. \A j \in Interactions : r[j] = IF j = i THEN st ELSE rows[j]
  BY DEF Rows
<1> HIDE DEF r
<1>3. Occupied(r) \subseteq Occupied(rows)
  BY <1>2 DEF Occupied
<1>4. Cardinality(Occupied(r)) <= Capacity
  BY <1>1, <1>3, OccupiedFewer DEF Holds
<1>5. \A j \in T \cup {i} : r[j] \in {"pending", "expired"}
  BY <1>2 DEF Holds
<1>6. \A j \in I : r[j] = "none"
  BY <1>2 DEF Holds
<1> QED
  BY <1>1, <1>4, <1>5, <1>6 DEF Holds, r

\* One more element counts at most one more.
LEMMA OneMore ==
  ASSUME NEW S, IsFiniteSet(S), NEW x
  PROVE  /\ IsFiniteSet(S \cup {x}) /\ Cardinality(S) \in Nat
         /\ Cardinality(S \cup {x}) <= Cardinality(S) + 1
<1>1. PICK c \in Nat : c = Cardinality(S)
  BY FS_CardinalityType
<1>2. IsFiniteSet(S \cup {x})
  BY FS_AddElement
<1>3. Cardinality(S \cup {x}) = IF x \in S THEN c ELSE c + 1
  BY <1>1, FS_AddElement
<1> QED
  BY <1>1, <1>2, <1>3

\* A reservation takes a free slot.
LEMMA HoldsReserved ==
  ASSUME NEW rows \in Rows, NEW T \in SUBSET Interactions, NEW I \in SUBSET Interactions,
         Holds(rows, T, I), NEW i \in Interactions, i \notin T,
         Cardinality(Occupied(rows)) < Capacity
  PROVE  LET r == [rows EXCEPT ![i] = "reserved"]
         IN  r \in Rows /\ Holds(r, T, I \ {i})
<1> DEFINE r == [rows EXCEPT ![i] = "reserved"]
<1>1. r \in Rows
  BY DEF Rows
<1>2. \A j \in Interactions : r[j] = IF j = i THEN "reserved" ELSE rows[j]
  BY DEF Rows
<1> HIDE DEF r
<1>3. Occupied(r) \subseteq Occupied(rows) \cup {i}
  BY <1>2 DEF Occupied
<1>4. /\ IsFiniteSet(Occupied(rows) \cup {i})
      /\ Cardinality(Occupied(rows) \cup {i}) <= Cardinality(Occupied(rows)) + 1
      /\ Cardinality(Occupied(rows)) \in Nat
  BY OccupiedFinite, OneMore
<1>5. Cardinality(Occupied(r)) <= Cardinality(Occupied(rows) \cup {i})
  BY <1>3, <1>4, FS_Subset
<1>6. Cardinality(Occupied(r)) \in Nat /\ Cardinality(Occupied(rows) \cup {i}) \in Nat
  BY <1>1, <1>4, OccupiedFinite, FS_CardinalityType
<1>7. Cardinality(Occupied(r)) <= Capacity
  BY <1>4, <1>5, <1>6, OutboxAssumption
<1>8. \A j \in T : r[j] \in {"pending", "expired"}
  BY <1>2 DEF Holds
<1>9. \A j \in I \ {i} : r[j] = "none"
  BY <1>2 DEF Holds
<1> QED
  BY <1>1, <1>7, <1>8, <1>9 DEF Holds, r

\* What a flush that goes on asks for next.
LEMMA ContinueAsks ==
  ASSUME NEW ob, NEW todo \in SUBSET Interactions, NEW armed \in BOOLEAN,
         Continue(ob, todo, armed)
  PROVE  /\ flush' \in Flush /\ retry' \in BOOLEAN /\ flush'.answer = "sent"
         /\ flush'.todo \subseteq todo /\ flush'.call \in todo \cup {NoCall}
<1>1. CASE flush' = NoFlush /\ retry' = (armed \/ InState(ob.rows, "pending") # {})
  BY <1>1 DEF NoFlush, Flush, Answer
<1>2. CASE \E i \in todo : /\ flush' = [todo |-> todo \ {i}, call |-> i, answer |-> "sent"]
                           /\ retry' = armed
  BY <1>2 DEF Flush, Answer
<1> QED
  BY <1>1, <1>2 DEF Continue

-----------------------------------------------------------------------------
(* The outbox, step by step *)

\* A healthy queue is the one snapshot there is, and its reserved rows are of
\* turns that did not run.
LEMMA HealthyQueue ==
  ASSUME OutboxInv, bridgeUp, ~outbox.fenced
  PROVE  /\ outbox \in Outbox /\ outbox.rows \in Rows
         /\ outbox.disk = outbox.rows /\ outbox.prior = outbox.rows
         /\ Holds(outbox.rows, ran \ answered, InState(turn, "idle"))
         /\ \A i \in Interactions : outbox.rows[i] = "reserved" =>
              i \notin ran \ answered /\ i \notin InState(turn, "idle")
         /\ outbox.canceled \subseteq InState(outbox.rows, "reserved")
<1>1. outbox \in Outbox /\ outbox.rows \in Rows
  BY DEF OutboxInv, OutboxTypeOK, Outbox
<1>2. outbox.disk = outbox.rows /\ outbox.prior = outbox.rows
      /\ outbox.canceled \subseteq InState(outbox.rows, "reserved")
  BY DEF OutboxInv, QueueOnFile
<1>3. Holds(outbox.rows, ran \ answered, InState(turn, "idle"))
  BY <1>2 DEF OutboxInv, SnapshotsHold
<1> QED
  BY <1>1, <1>2, <1>3 DEF Holds

\* What the turns hold of the sets that snapshots are about.
LEMMA TurnSets ==
  ASSUME OutboxInv
  PROVE  /\ ran \ answered \in SUBSET Interactions
         /\ InState(turn, "idle") \in SUBSET Interactions
         /\ (ran \ answered) \cap InState(turn, "idle") = {}
         /\ turn \in [Interactions -> Turn]
BY DEF OutboxInv, OutboxTypeOK, InState, RanIsOver

\* The remembered deletes, as far as they are done, leave a healthy queue.
LEMMA SweepLeaves ==
  ASSUME OutboxInv, bridgeUp, ~outbox.fenced, NEW swept \in SUBSET outbox.canceled
  PROVE  LET ob == Sweep(outbox, swept)
         IN  /\ ob \in Outbox /\ ob.rows = Without(outbox.rows, swept)
             /\ ob.disk = ob.rows /\ ob.prior = ob.rows /\ ~ob.fenced
             /\ ob.canceled = outbox.canceled \ swept
             /\ Holds(ob.rows, ran \ answered, InState(turn, "idle"))
<1> DEFINE ob == Sweep(outbox, swept)
           base == [outbox EXCEPT !.canceled = @ \ swept]
           rows == Without(outbox.rows, swept)
<1>1. /\ outbox \in Outbox /\ outbox.rows \in Rows
      /\ outbox.disk = outbox.rows /\ outbox.prior = outbox.rows
      /\ Holds(outbox.rows, ran \ answered, InState(turn, "idle"))
      /\ swept \cap (ran \ answered) = {}
  BY HealthyQueue DEF InState
<1>2. rows \in Rows /\ Holds(rows, ran \ answered, InState(turn, "idle"))
  BY <1>1, HoldsWithout, TurnSets
<1>3. /\ base \in Outbox /\ base.canceled = outbox.canceled \ swept
      /\ base.fenced = outbox.fenced
  BY <1>1 DEF Outbox
<1> SUFFICES /\ ob \in Outbox /\ ob.rows = rows
             /\ ob.disk = ob.rows /\ ob.prior = ob.rows /\ ~ob.fenced
             /\ ob.canceled = outbox.canceled \ swept
  BY <1>2, Zenon
<1> HIDE DEF ob, base, rows
<1>4. CASE swept = {}
  <2>1. ob = outbox
    BY <1>4 DEF Sweep, ob
  <2>2. rows = outbox.rows
    BY <1>1, <1>4 DEF Without, Rows, rows
  <2> QED
    BY <1>1, <1>4, <2>1, <2>2
<1>5. CASE swept # {}
  <2>1. ob = Persist(base, rows, "ok")
    BY <1>5 DEF Sweep, ob, base, rows
  <2>2. /\ ob \in Outbox /\ ob.canceled = base.canceled
        /\ ob.rows = rows /\ ob.disk = rows /\ ob.prior = rows /\ ob.fenced = base.fenced
    BY <2>1, <1>2, <1>3, PersistLeaves
  <2> QED
    BY <2>2, <1>2, <1>3
<1> QED
  BY <1>4, <1>5

\* Turn i goes on to st and the queue stays one a restart loads: what a step of
\* a turn has to show.
LEMMA TurnGoesOn ==
  ASSUME OutboxInv, bridgeUp, bridgeUp', outbox' \in Outbox, outbox'.disk = outbox'.rows,
         NEW i \in Interactions, NEW st \in Turn \ {"idle"},
         turn[i] # "over", turn' = [turn EXCEPT ![i] = st],
         paused' \in BOOLEAN, retry' \in BOOLEAN, flush' \in Flush, late' \in SUBSET Interactions,
         ran' = ran \/ (st = "over" /\ ran' = ran \cup {i}),
         answered' = answered,
         flush'.answer = "recorded" => flush'.call \in answered,
         \A k \in (Heard' \ Heard) \cap Interactions : turn[k] # "idle",
         Holds(outbox'.disk, (ran \ answered)', InState(turn, "idle") \ {i}),
         Holds(outbox'.prior, (ran \ answered)', InState(turn, "idle") \ {i}),
         \A k \in outbox'.canceled : k \in outbox.canceled \/ (k = i /\ st = "over"),
         ~outbox'.fenced =>
           /\ outbox'.prior = outbox'.rows
           /\ \A k \in Interactions : outbox'.rows[k] = "reserved" <=>
                IF k = i THEN st # "over" \/ k \in outbox'.canceled
                ELSE turn[k] \in {"reserved", "transcribing"} \/ k \in outbox'.canceled
  PROVE  OutboxInv'
<1>1. turn \in [Interactions -> Turn] /\ turn' \in [Interactions -> Turn]
      /\ \A k \in Interactions : turn'[k] = IF k = i THEN st ELSE turn[k]
  BY TurnSets
<1>2. InState(turn, "idle")' = InState(turn, "idle") \ {i}
  BY <1>1 DEF InState
<1>3. OutboxTypeOK'
  BY <1>1 DEF OutboxInv, OutboxTypeOK
<1>4. outbox.canceled \subseteq InState(turn, "over")
  BY DEF OutboxInv, QueueOnFile
<1>5. outbox'.canceled \subseteq InState(turn, "over")'
  BY <1>1, <1>4 DEF InState
<1>6. ASSUME ~outbox'.fenced
      PROVE  InState(outbox'.rows, "reserved") =
               InState(turn, "reserved")' \cup InState(turn, "transcribing")'
                 \cup outbox'.canceled
  <2>1. \A k \in Interactions : outbox'.rows[k] = "reserved" <=>
          \/ turn'[k] = "reserved" \/ turn'[k] = "transcribing" \/ k \in outbox'.canceled
    BY <1>1, <1>6 DEF Turn
  <2>2. outbox'.canceled \subseteq Interactions
    BY DEF Outbox
  <2> QED
    BY <2>1, <2>2 DEF InState
<1>7. QueueOnFile'
  BY <1>5, <1>6 DEF QueueOnFile
<1>8. SnapshotsHold'
  BY <1>2 DEF SnapshotsHold
<1>9. RanIsOver'
  <2>1. ran \subseteq InState(turn, "over")
    BY DEF OutboxInv, RanIsOver
  <2>2. ran' \subseteq InState(turn, "over")'
    BY <1>1, <2>1 DEF InState
  <2> QED
    BY <2>2 DEF RanIsOver
<1>10. IdleIsUnheard'
  <2>1. InState(turn, "idle") \cap Heard = {}
    BY DEF OutboxInv, IdleIsUnheard
  <2>2. \A k \in InState(turn, "idle") : turn[k] = "idle"
    BY DEF InState
  <2>3. InState(turn, "idle")' \cap Heard' = {}
    <3>1. InState(turn, "idle") \subseteq Interactions
      BY DEF InState
    <3> QED
      BY <3>1, <1>2, <2>1, <2>2
  <2> QED
    BY <2>3 DEF IdleIsUnheard
<1> QED
  BY <1>3, <1>7, <1>8, <1>9, <1>10 DEF OutboxInv

\* A reservation, or its refusal, keeps the invariant.
LEMMA ReserveKeeps ==
  ASSUME OutboxInv, NEW i \in Interactions, NEW swept \in SUBSET outbox.canceled,
         NEW o \in WriteOutcomes, Reserve(i, swept, o),
         UNCHANGED <<answered, written, handling>>
  PROVE  OutboxInv'
<1> DEFINE ob == Sweep(outbox, swept)
           rest == outbox.canceled \ swept
           T == ran \ answered
           I == InState(turn, "idle")
<1>1. bridgeUp /\ bridgeUp' /\ turn[i] = "idle" /\ ~outbox.fenced
      /\ UNCHANGED <<paused, ran, flush, retry, late>> /\ o \in {"ok", "pre", "post"}
  BY LedgerOutcomes DEF Reserve
<1>2. /\ ob \in Outbox /\ ob.rows = Without(outbox.rows, swept)
      /\ ob.disk = ob.rows /\ ob.prior = ob.rows /\ ~ob.fenced
      /\ ob.canceled = rest /\ Holds(ob.rows, T, I)
  BY <1>1, SweepLeaves
<1>3. /\ outbox.rows \in Rows /\ ob.rows \in Rows
      /\ T \in SUBSET Interactions /\ I \in SUBSET Interactions /\ T \cap I = {} /\ i \in I
      /\ turn \in [Interactions -> Turn]
      /\ rest \subseteq InState(turn, "over")
  BY <1>1, <1>2, TurnSets DEF OutboxInv, OutboxTypeOK, Outbox, InState, QueueOnFile
<1>4. \A k \in Interactions : ob.rows[k] = "reserved" <=>
        turn[k] \in {"reserved", "transcribing"} \/ k \in rest
  <2>1. InState(outbox.rows, "reserved") =
          InState(turn, "reserved") \cup InState(turn, "transcribing") \cup outbox.canceled
    BY <1>1 DEF OutboxInv, QueueOnFile
  <2>2. swept \subseteq InState(turn, "over")
    BY DEF OutboxInv, QueueOnFile
  <2>3. \A k \in Interactions : ob.rows[k] = IF k \in swept THEN "none" ELSE outbox.rows[k]
    BY <1>2 DEF Without
  <2> QED
    BY <2>1, <2>2, <2>3 DEF InState
<1>5. /\ paused \in BOOLEAN /\ retry \in BOOLEAN /\ flush \in Flush /\ late \in SUBSET Interactions
      /\ flush.answer = "recorded" => flush.call \in answered
      /\ Heard' = Heard
  BY <1>1 DEF OutboxInv, OutboxTypeOK, RanIsOver, Heard
<1>6. Holds(ob.rows, T, I \ {i})
  BY <1>2, HoldsFewer
<1> DEFINE Good(st) ==
             /\ outbox' \in Outbox /\ outbox'.disk = outbox'.rows
             /\ Holds(outbox'.disk, T, I \ {i}) /\ Holds(outbox'.prior, T, I \ {i})
             /\ outbox'.canceled \subseteq outbox.canceled
             /\ ~outbox'.fenced =>
                  /\ outbox'.prior = outbox'.rows
                  /\ \A k \in Interactions : outbox'.rows[k] = "reserved" <=>
                       IF k = i THEN st # "over" \/ k \in outbox'.canceled
                       ELSE turn[k] \in {"reserved", "transcribing"} \/ k \in outbox'.canceled
<1> HIDE DEF ob, T, I, rest
<1>7. ASSUME NEW st \in {"reserved", "over"}, turn' = [turn EXCEPT ![i] = st], Good(st)
      PROVE  OutboxInv'
  <2>1. T = (ran \ answered)' /\ Heard' \ Heard = {}
    BY <1>1, <1>5 DEF T
  <2>2. outbox'.canceled \subseteq outbox.canceled
    BY <1>7
  <2> QED
    BY <1>1, <1>5, <1>7, <2>1, <2>2, TurnGoesOn DEF I, Turn
<1>8. i \notin T /\ rest \subseteq outbox.canceled /\ i \notin rest
  BY <1>1, <1>3 DEF rest, InState
<1>9. CASE /\ rest = {} /\ HasSlot(ob)
           /\ outbox' = Persist(ob, [ob.rows EXCEPT ![i] = "reserved"], o)
           /\ turn' = [turn EXCEPT ![i] = IF o = "ok" THEN "reserved" ELSE "over"]
  <2> DEFINE r == [ob.rows EXCEPT ![i] = "reserved"]
  <2>1. r \in Rows /\ Holds(r, T, I \ {i})
    BY <1>2, <1>3, <1>8, <1>9, HoldsReserved DEF HasSlot
  <2>2. \A k \in Interactions : r[k] = IF k = i THEN "reserved" ELSE ob.rows[k]
    BY <1>3 DEF Rows
  <2> HIDE DEF r
  <2>3. outbox' = Persist(ob, r, o)
    BY <1>9 DEF r
  <2>4. /\ outbox' \in Outbox /\ outbox'.canceled = ob.canceled
        /\ o = "ok" => /\ outbox'.rows = r /\ outbox'.disk = r /\ outbox'.prior = r
                       /\ outbox'.fenced = ob.fenced
        /\ o = "pre" => outbox' = ob
        /\ o = "post" => /\ outbox'.rows = r /\ outbox'.disk = r
                         /\ outbox'.prior = ob.disk /\ outbox'.fenced
    BY <1>1, <1>2, <2>1, <2>3, PersistLeaves
  <2>5. CASE o = "ok"
    <3>1. Good("reserved")
      BY <1>2, <1>4, <1>8, <1>9, <2>1, <2>2, <2>4, <2>5
    <3> QED
      BY <3>1, <1>7, <1>9, <2>5
  <2>6. CASE o # "ok"
    <3>1. turn[i] # "reserved" /\ turn[i] # "transcribing"
      BY <1>1
    <3>2. Good("over")
      BY <1>1, <1>2, <1>4, <1>6, <1>8, <1>9, <2>1, <2>4, <2>6, <3>1
    <3> QED
      BY <3>2, <1>7, <1>9, <2>6
  <2> QED
    BY <2>5, <2>6
<1>10. CASE outbox' = ob /\ turn' = [turn EXCEPT ![i] = "over"]
  <2>1. Good("over")
    BY <1>1, <1>2, <1>4, <1>6, <1>8, <1>10
  <2> QED
    BY <2>1, <1>7, <1>10
<1>11. ASSUME o # "ok", NEW j \in rest, outbox' = Persist(ob, Without(ob.rows, {j}), o),
              turn' = [turn EXCEPT ![i] = "over"]
       PROVE  OutboxInv'
  <2> DEFINE r == Without(ob.rows, {j})
  <2>1. j \notin T
    <3>1. ob.rows[j] = "reserved" /\ j \in Interactions
      BY <1>3, <1>4 DEF InState
    <3> QED
      BY <3>1, <1>2 DEF Holds
  <2>2. r \in Rows /\ Holds(r, T, I)
    BY <1>2, <1>3, <2>1, HoldsWithout
  <2>3. Holds(r, T, I \ {i})
    BY <2>2, HoldsFewer
  <2> HIDE DEF r
  <2>4. outbox' = Persist(ob, r, o)
    BY <1>11 DEF r
  <2>5. /\ outbox' \in Outbox /\ outbox'.canceled = ob.canceled
        /\ o = "pre" => outbox' = ob
        /\ o = "post" => /\ outbox'.rows = r /\ outbox'.disk = r
                         /\ outbox'.prior = ob.disk /\ outbox'.fenced
    BY <1>1, <1>2, <2>2, <2>4, PersistLeaves
  <2>6. Good("over")
    BY <1>1, <1>2, <1>4, <1>6, <1>8, <1>11, <2>3, <2>5
  <2> QED
    BY <2>6, <1>7, <1>11
<1> QED
  BY <1>9, <1>10, <1>11 DEF Reserve, ob, rest

\* So does the end of a capture's speech.
LEMMA SpeakKeeps ==
  ASSUME OutboxInv, NEW i \in Interactions, Speak(i),
         UNCHANGED <<answered, written, handling>>
  PROVE  OutboxInv'
<1>1. bridgeUp /\ bridgeUp' /\ turn[i] = "reserved" /\ turn' = [turn EXCEPT ![i] = "transcribing"]
      /\ UNCHANGED <<outbox, paused, ran, flush, retry, late>>
  BY DEF Speak
<1>2. /\ outbox \in Outbox /\ outbox.disk = outbox.rows
      /\ Holds(outbox.disk, ran \ answered, InState(turn, "idle"))
      /\ Holds(outbox.prior, ran \ answered, InState(turn, "idle"))
      /\ paused \in BOOLEAN /\ retry \in BOOLEAN /\ flush \in Flush /\ late \in SUBSET Interactions
      /\ flush.answer = "recorded" => flush.call \in answered
  BY <1>1 DEF OutboxInv, OutboxTypeOK, QueueOnFile, SnapshotsHold, RanIsOver
<1>3. /\ Holds(outbox.disk, ran \ answered, InState(turn, "idle") \ {i})
      /\ Holds(outbox.prior, ran \ answered, InState(turn, "idle") \ {i})
  BY <1>2, HoldsFewer
<1>4. ASSUME ~outbox.fenced
      PROVE  /\ outbox.prior = outbox.rows
             /\ \A k \in Interactions : outbox.rows[k] = "reserved" <=>
                  turn[k] \in {"reserved", "transcribing"} \/ k \in outbox.canceled
  BY <1>1, <1>4 DEF OutboxInv, QueueOnFile, InState
<1>5. Heard' = Heard /\ (ran \ answered)' = ran \ answered
  BY <1>1 DEF Heard
<1>6. ~outbox'.fenced =>
        /\ outbox'.prior = outbox'.rows
        /\ \A k \in Interactions : outbox'.rows[k] = "reserved" <=>
             IF k = i THEN "transcribing" # "over" \/ k \in outbox'.canceled
             ELSE turn[k] \in {"reserved", "transcribing"} \/ k \in outbox'.canceled
  BY <1>1, <1>4
<1>7. "transcribing" \in Turn \ {"idle"}
  BY DEF Turn
<1> QED
  BY <1>1, <1>2, <1>3, <1>5, <1>6, <1>7, TurnGoesOn

\* What the queue is while its turns stand as they do.
LEMMA QueueStands ==
  ASSUME OutboxInv, bridgeUp
  PROVE  /\ outbox \in Outbox /\ outbox.rows \in Rows /\ outbox.disk = outbox.rows
         /\ Holds(outbox.disk, ran \ answered, InState(turn, "idle"))
         /\ Holds(outbox.prior, ran \ answered, InState(turn, "idle"))
         /\ outbox.canceled \subseteq InState(turn, "over")
         /\ ~outbox.fenced =>
              /\ outbox.prior = outbox.rows
              /\ \A k \in Interactions : outbox.rows[k] = "reserved" <=>
                   turn[k] \in {"reserved", "transcribing"} \/ k \in outbox.canceled
         /\ paused \in BOOLEAN /\ retry \in BOOLEAN /\ flush \in Flush
         /\ late \in SUBSET Interactions
         /\ flush.answer = "recorded" => flush.call \in answered
<1>1. /\ outbox \in Outbox /\ outbox.rows \in Rows /\ outbox.disk = outbox.rows
      /\ Holds(outbox.disk, ran \ answered, InState(turn, "idle"))
      /\ Holds(outbox.prior, ran \ answered, InState(turn, "idle"))
      /\ outbox.canceled \subseteq InState(turn, "over")
      /\ paused \in BOOLEAN /\ retry \in BOOLEAN /\ flush \in Flush
      /\ late \in SUBSET Interactions
      /\ flush.answer = "recorded" => flush.call \in answered
  BY DEF OutboxInv, OutboxTypeOK, Outbox, QueueOnFile, SnapshotsHold, RanIsOver
<1>2. ASSUME ~outbox.fenced
      PROVE  /\ outbox.prior = outbox.rows
             /\ \A k \in Interactions : outbox.rows[k] = "reserved" <=>
                  turn[k] \in {"reserved", "transcribing"} \/ k \in outbox.canceled
  BY <1>2 DEF OutboxInv, QueueOnFile, InState
<1> QED
  BY <1>1, <1>2

\* A cancelled reservation is gone from a healthy queue, or remembered.
LEMMA CancelLeaves ==
  ASSUME OutboxInv, bridgeUp, NEW i \in Interactions, turn[i] \in {"reserved", "transcribing"},
         NEW o \in WriteOutcomes, NEW p, p = Cancel(outbox, i, o)
  PROVE  /\ p \in Outbox /\ p.disk = p.rows
         /\ Holds(p.disk, ran \ answered, InState(turn, "idle"))
         /\ Holds(p.prior, ran \ answered, InState(turn, "idle"))
         /\ \A k \in p.canceled : k \in outbox.canceled \/ k = i
         /\ ~p.fenced =>
              /\ p.prior = p.rows
              /\ \A k \in Interactions : p.rows[k] = "reserved" <=>
                   IF k = i THEN k \in p.canceled
                   ELSE turn[k] \in {"reserved", "transcribing"} \/ k \in p.canceled
<1> DEFINE r == Without(outbox.rows, {i})
           saved == Persist(outbox, r, o)
           T == ran \ answered
           I == InState(turn, "idle")
<1>1. /\ outbox \in Outbox /\ outbox.rows \in Rows /\ outbox.disk = outbox.rows
      /\ Holds(outbox.disk, T, I) /\ Holds(outbox.prior, T, I)
      /\ i \notin outbox.canceled
      /\ ~outbox.fenced =>
           /\ outbox.prior = outbox.rows
           /\ \A k \in Interactions : outbox.rows[k] = "reserved" <=>
                turn[k] \in {"reserved", "transcribing"} \/ k \in outbox.canceled
  BY QueueStands DEF InState
<1> SUFFICES /\ p \in Outbox /\ p.disk = p.rows
             /\ Holds(p.disk, T, I) /\ Holds(p.prior, T, I)
             /\ \A k \in p.canceled : k \in outbox.canceled \/ k = i
             /\ ~p.fenced =>
                  /\ p.prior = p.rows
                  /\ \A k \in Interactions : p.rows[k] = "reserved" <=>
                       IF k = i THEN k \in p.canceled
                       ELSE turn[k] \in {"reserved", "transcribing"} \/ k \in p.canceled
  OBVIOUS
<1>2. T \in SUBSET Interactions /\ I \in SUBSET Interactions /\ o \in {"ok", "pre", "post"}
  BY TurnSets, LedgerOutcomes
<1> HIDE DEF saved, T, I
<1>3. CASE outbox.fenced
  <2>1. p = outbox
    BY <1>3 DEF Cancel
  <2> QED
    BY <2>1, <1>1, <1>3
<1>4. CASE ~outbox.fenced
  <2>1. outbox.rows[i] = "reserved"
    BY <1>1, <1>4
  <2>2. p = [saved EXCEPT !.canceled = IF o = "pre" THEN @ \cup {i}
                                       ELSE IF o = "ok" THEN @ \ {i} ELSE @]
    BY <1>4, <2>1 DEF saved, Cancel
  <2>3. r \in Rows /\ Holds(r, T, I)
    <3>1. {i} \cap T = {}
      BY <1>1, <2>1 DEF Holds
    <3> QED
      BY <1>1, <1>2, <3>1, HoldsWithout
  <2>4. \A k \in Interactions : r[k] = IF k = i THEN "none" ELSE outbox.rows[k]
    BY DEF Without
  <2>5. saved = Persist(outbox, r, o)
    BY DEF saved
  <2> HIDE DEF r
  <2>6. /\ saved \in Outbox /\ saved.canceled = outbox.canceled
        /\ o = "ok" => /\ saved.rows = r /\ saved.disk = r /\ saved.prior = r
        /\ o = "pre" => saved = outbox
        /\ o = "post" => /\ saved.rows = r /\ saved.disk = r
                         /\ saved.prior = outbox.disk /\ saved.fenced
    <3>1. outbox \in Outbox /\ r \in Rows /\ o \in {"ok", "pre", "post"}
      BY <1>1, <1>2, <2>3
    <3> QED
      BY <3>1, <2>5, PersistLeaves
  <2>7. /\ p \in Outbox /\ p.rows = saved.rows /\ p.disk = saved.disk
        /\ p.prior = saved.prior /\ p.fenced = saved.fenced
        /\ p.canceled = IF o = "pre" THEN outbox.canceled \cup {i}
                        ELSE IF o = "ok" THEN outbox.canceled \ {i} ELSE outbox.canceled
    BY <2>2, <2>6 DEF Outbox
  <2>8. CASE o = "ok"
    BY <1>1, <1>4, <2>3, <2>4, <2>6, <2>7, <2>8
  <2>9. CASE o = "pre"
    BY <1>1, <1>4, <2>1, <2>6, <2>7, <2>9
  <2>10. CASE o = "post"
    BY <1>1, <1>4, <2>3, <2>6, <2>7, <2>10
  <2> QED
    BY <1>2, <2>8, <2>9, <2>10
<1> QED
  BY <1>3, <1>4

\* A discarded turn keeps the invariant.
LEMMA DiscardKeeps ==
  ASSUME OutboxInv, NEW i \in Interactions, NEW o \in WriteOutcomes, Discard(i, o),
         UNCHANGED <<answered, written, handling>>
  PROVE  OutboxInv'
<1>1. /\ bridgeUp /\ bridgeUp' /\ turn[i] \in {"reserved", "transcribing"}
      /\ turn' = [turn EXCEPT ![i] = "over"] /\ outbox' = Cancel(outbox, i, o)
      /\ paused' = (paused \/ outbox'.fenced)
      /\ ran' = ran /\ flush' = flush /\ retry' = retry /\ late' = late
  BY DEF Discard
<1>2. /\ outbox' \in Outbox /\ outbox'.disk = outbox'.rows
      /\ Holds(outbox'.disk, ran \ answered, InState(turn, "idle"))
      /\ Holds(outbox'.prior, ran \ answered, InState(turn, "idle"))
      /\ \A k \in outbox'.canceled : k \in outbox.canceled \/ k = i
      /\ ~outbox'.fenced =>
           /\ outbox'.prior = outbox'.rows
           /\ \A k \in Interactions : outbox'.rows[k] = "reserved" <=>
                IF k = i THEN k \in outbox'.canceled
                ELSE turn[k] \in {"reserved", "transcribing"} \/ k \in outbox'.canceled
  <2>1. /\ outbox' \in Outbox /\ outbox'.disk = outbox'.rows
        /\ Holds(outbox'.disk, ran \ answered, InState(turn, "idle"))
        /\ Holds(outbox'.prior, ran \ answered, InState(turn, "idle"))
        /\ \A k \in outbox'.canceled : k \in outbox.canceled \/ k = i
    BY <1>1, CancelLeaves
  <2>2. ~outbox'.fenced =>
          /\ outbox'.prior = outbox'.rows
          /\ \A k \in Interactions : outbox'.rows[k] = "reserved" <=>
               IF k = i THEN k \in outbox'.canceled
               ELSE turn[k] \in {"reserved", "transcribing"} \/ k \in outbox'.canceled
    BY <1>1, CancelLeaves
  <2> QED
    BY <2>1, <2>2
<1>3. /\ paused \in BOOLEAN /\ retry \in BOOLEAN /\ flush \in Flush
      /\ late \in SUBSET Interactions
      /\ flush.answer = "recorded" => flush.call \in answered
  BY <1>1, QueueStands
<1>4. /\ Holds(outbox'.disk, ran \ answered, InState(turn, "idle") \ {i})
      /\ Holds(outbox'.prior, ran \ answered, InState(turn, "idle") \ {i})
  BY <1>2, HoldsFewer
<1>5. Heard' = Heard /\ (ran \ answered)' = ran \ answered
  BY <1>1 DEF Heard
<1>6. PICK st \in Turn \ {"idle"} : st = "over"
  BY DEF Turn
<1>7. ~outbox'.fenced =>
        /\ outbox'.prior = outbox'.rows
        /\ \A k \in Interactions : outbox'.rows[k] = "reserved" <=>
             IF k = i THEN st # "over" \/ k \in outbox'.canceled
             ELSE turn[k] \in {"reserved", "transcribing"} \/ k \in outbox'.canceled
  BY <1>2, <1>6
<1>8. /\ turn[i] # "over" /\ turn' = [turn EXCEPT ![i] = st]
      /\ paused' \in BOOLEAN /\ retry' \in BOOLEAN /\ flush' \in Flush
      /\ late' \in SUBSET Interactions /\ ran' = ran /\ answered' = answered
      /\ flush'.answer = "recorded" => flush'.call \in answered
      /\ \A k \in (Heard' \ Heard) \cap Interactions : turn[k] # "idle"
  BY <1>1, <1>2, <1>3, <1>5, <1>6 DEF Outbox
<1>9. /\ \A k \in outbox'.canceled : k \in outbox.canceled \/ (k = i /\ st = "over")
      /\ Holds(outbox'.disk, (ran \ answered)', InState(turn, "idle") \ {i})
      /\ Holds(outbox'.prior, (ran \ answered)', InState(turn, "idle") \ {i})
  BY <1>2, <1>4, <1>5, <1>6
<1> QED
  BY <1>1, <1>2, <1>6, <1>7, <1>8, <1>9, TurnGoesOn

\* A snapshot that is on file has no pending row of an idle turn.
LEMMA PendingIsBegun ==
  ASSUME NEW rows \in Rows, NEW T, Holds(rows, T, InState(turn, "idle"))
  PROVE  \A k \in InState(rows, "pending") : k \in Interactions /\ turn[k] # "idle"
BY DEF Holds, InState

\* A flush that is started, or already under way, asks for no idle turn.
LEMMA StartedFlushAsks ==
  ASSUME NEW ob \in Outbox, NEW T, Holds(ob.rows, T, InState(turn, "idle")),
         flush \in Flush, flush.answer = "recorded" => flush.call \in answered,
         NEW armed \in BOOLEAN, StartFlush(ob, armed)
  PROVE  /\ flush' \in Flush /\ retry' \in BOOLEAN
         /\ flush'.answer = "recorded" => flush'.call \in answered
         /\ \A k \in flush'.todo \cup {flush'.call} :
              k \in flush.todo \cup {flush.call} \/ k = NoCall
              \/ (k \in Interactions /\ turn[k] # "idle")
<1>1. CASE flush.call = NoCall
  <2>1. Continue(ob, InState(ob.rows, "pending"), armed)
    BY <1>1 DEF StartFlush
  <2>2. InState(ob.rows, "pending") \in SUBSET Interactions
    BY DEF InState
  <2>3. /\ flush' \in Flush /\ retry' \in BOOLEAN /\ flush'.answer = "sent"
        /\ flush'.todo \subseteq InState(ob.rows, "pending")
        /\ flush'.call \in InState(ob.rows, "pending") \cup {NoCall}
    BY <2>1, <2>2, ContinueAsks
  <2>4. ob.rows \in Rows
    BY DEF Outbox
  <2> QED
    BY <2>3, <2>4, PendingIsBegun
<1>2. CASE flush.call # NoCall
  BY <1>2 DEF StartFlush
<1> QED
  BY <1>1, <1>2

\* A promoted turn keeps the invariant: it runs, and its row is pending wherever
\* a restart may look.
LEMMA PromoteKeeps ==
  ASSUME OutboxInv, NEW i \in Interactions, Promote(i),
         UNCHANGED <<answered, written, handling>>
  PROVE  OutboxInv'
<1> DEFINE r == [outbox.rows EXCEPT ![i] = "pending"]
           T == ran \ answered
           I == InState(turn, "idle")
<1>1. /\ bridgeUp /\ bridgeUp' /\ turn[i] = "transcribing" /\ ~outbox.fenced
      /\ outbox' = Persist(outbox, r, "ok") /\ turn' = [turn EXCEPT ![i] = "over"]
      /\ ran' = ran \cup {i} /\ StartFlush(Persist(outbox, r, "ok"), retry)
      /\ paused' = paused /\ late' = late
  BY DEF Promote
<1>2. /\ outbox \in Outbox /\ outbox.rows \in Rows
      /\ Holds(outbox.rows, T, I) /\ outbox.canceled \subseteq InState(turn, "over")
      /\ \A k \in Interactions : outbox.rows[k] = "reserved" <=>
           turn[k] \in {"reserved", "transcribing"} \/ k \in outbox.canceled
      /\ paused \in BOOLEAN /\ retry \in BOOLEAN /\ flush \in Flush
      /\ late \in SUBSET Interactions
      /\ flush.answer = "recorded" => flush.call \in answered
  BY <1>1, QueueStands
<1>3. T \in SUBSET Interactions /\ I \in SUBSET Interactions
  BY TurnSets
<1>4. outbox.rows[i] = "reserved"
  BY <1>1, <1>2
<1>5. r \in Rows /\ Holds(r, T \cup {i}, I)
  BY <1>2, <1>3, <1>4, HoldsMarked
<1>6. \A k \in Interactions : r[k] = IF k = i THEN "pending" ELSE outbox.rows[k]
  BY <1>2 DEF Rows
<1> HIDE DEF r, T
<1>7. /\ outbox' \in Outbox /\ outbox'.canceled = outbox.canceled
      /\ outbox'.rows = r /\ outbox'.disk = r /\ outbox'.prior = r
  <2>1. outbox \in Outbox /\ r \in Rows /\ outbox' = Persist(outbox, r, "ok")
    BY <1>1, <1>2, <1>5
  <2> QED
    BY <2>1, PersistLeaves
<1>8. StartFlush(outbox', retry)
  BY <1>1
<1>9. /\ flush' \in Flush /\ retry' \in BOOLEAN
      /\ flush'.answer = "recorded" => flush'.call \in answered
      /\ \A k \in flush'.todo \cup {flush'.call} :
           k \in flush.todo \cup {flush.call} \/ k = NoCall
           \/ (k \in Interactions /\ turn[k] # "idle")
  BY <1>2, <1>5, <1>7, <1>8, StartedFlushAsks
<1>10. \A k \in (Heard' \ Heard) \cap Interactions : turn[k] # "idle"
  BY <1>1, <1>9, OutboxAssumption DEF Heard
<1>11. (ran \ answered)' \subseteq T \cup {i}
  BY <1>1 DEF T
<1>12. /\ Holds(outbox'.disk, (ran \ answered)', I \ {i})
       /\ Holds(outbox'.prior, (ran \ answered)', I \ {i})
  BY <1>5, <1>7, <1>11, HoldsFewer
<1>13. PICK st \in Turn \ {"idle"} : st = "over"
  BY DEF Turn
<1>14. i \notin outbox.canceled
  BY <1>1, <1>2 DEF InState
<1>15. \A k \in Interactions : outbox'.rows[k] = "reserved" <=>
         IF k = i THEN st # "over" \/ k \in outbox'.canceled
         ELSE turn[k] \in {"reserved", "transcribing"} \/ k \in outbox'.canceled
  BY <1>2, <1>6, <1>7, <1>13, <1>14
<1>16. /\ turn[i] # "over" /\ turn' = [turn EXCEPT ![i] = st] /\ outbox'.disk = outbox'.rows
       /\ outbox'.prior = outbox'.rows
       /\ paused' \in BOOLEAN /\ late' \in SUBSET Interactions
       /\ st = "over" /\ ran' = ran \cup {i} /\ answered' = answered
       /\ \A k \in outbox'.canceled : k \in outbox.canceled
  BY <1>1, <1>2, <1>7, <1>13
<1> QED
  BY <1>1, <1>7, <1>9, <1>10, <1>12, <1>13, <1>15, <1>16, TurnGoesOn

\* A promotion that fails keeps the invariant, however its cancel ends.
LEMMA PromoteFailsKeeps ==
  ASSUME OutboxInv, NEW i \in Interactions, NEW o \in WriteOutcomes, NEW c \in WriteOutcomes,
         PromoteFails(i, o, c), UNCHANGED <<answered, written, handling>>
  PROVE  OutboxInv'
<1> DEFINE r == [outbox.rows EXCEPT ![i] = "pending"]
           saved == IF outbox.fenced THEN outbox ELSE Persist(outbox, r, o)
           T == ran \ answered
           I == InState(turn, "idle")
<1>1. /\ bridgeUp /\ bridgeUp' /\ turn[i] = "transcribing"
      /\ outbox.fenced \/ o # "ok"
      /\ outbox' = Cancel(saved, i, c) /\ turn' = [turn EXCEPT ![i] = "over"]
      /\ paused' = (paused \/ outbox'.fenced)
      /\ ran' = ran /\ flush' = flush /\ retry' = retry /\ late' = late
  BY DEF PromoteFails
<1>2. /\ outbox \in Outbox /\ outbox.rows \in Rows /\ outbox.disk = outbox.rows
      /\ Holds(outbox.disk, T, I) /\ Holds(outbox.prior, T, I)
      /\ outbox.canceled \subseteq InState(turn, "over")
      /\ ~outbox.fenced =>
           /\ outbox.prior = outbox.rows
           /\ \A k \in Interactions : outbox.rows[k] = "reserved" <=>
                turn[k] \in {"reserved", "transcribing"} \/ k \in outbox.canceled
      /\ paused \in BOOLEAN /\ retry \in BOOLEAN /\ flush \in Flush
      /\ late \in SUBSET Interactions
      /\ flush.answer = "recorded" => flush.call \in answered
  BY <1>1, QueueStands
<1>3. T \in SUBSET Interactions /\ I \in SUBSET Interactions /\ o \in {"ok", "pre", "post"}
  BY TurnSets, LedgerOutcomes
<1>4. /\ outbox' \in Outbox /\ outbox'.disk = outbox'.rows
      /\ Holds(outbox'.disk, T, I) /\ Holds(outbox'.prior, T, I)
      /\ \A k \in outbox'.canceled : k \in outbox.canceled \/ k = i
      /\ ~outbox'.fenced =>
           /\ outbox'.prior = outbox'.rows
           /\ \A k \in Interactions : outbox'.rows[k] = "reserved" <=>
                IF k = i THEN k \in outbox'.canceled
                ELSE turn[k] \in {"reserved", "transcribing"} \/ k \in outbox'.canceled
  <2>1. CASE outbox.fenced \/ o = "pre"
    <3>1. saved = outbox
      <4>1. CASE outbox.fenced
        BY <4>1
      <4>2. CASE ~outbox.fenced /\ o = "pre"
        <5>1. r \in Rows
          BY <1>2 DEF Rows
        <5> QED
          BY <4>2, <5>1, <1>2, <1>3, PersistLeaves
      <4> QED
        BY <2>1, <4>1, <4>2
    <3> HIDE DEF saved
    <3> HIDE DEF T, I, r
    <3> PICK q : q = Cancel(outbox, i, c)
      OBVIOUS
    <3>2. bridgeUp /\ turn[i] \in {"reserved", "transcribing"}
      BY <1>1
    <3>3. q \in Outbox /\ q.disk = q.rows /\ q.canceled \subseteq outbox.canceled \cup {i}
      BY <3>2, CancelLeaves
    <3>4. /\ Holds(q.disk, ran \ answered, InState(turn, "idle"))
          /\ Holds(q.prior, ran \ answered, InState(turn, "idle"))
      BY <3>2, CancelLeaves
    <3>5. ~q.fenced =>
            /\ q.prior = q.rows
            /\ \A k \in Interactions : q.rows[k] = "reserved" <=>
                 IF k = i THEN k \in q.canceled
                 ELSE turn[k] \in {"reserved", "transcribing"} \/ k \in q.canceled
      BY <3>2, CancelLeaves
    <3>6. outbox' = q
      BY <1>1, <3>1
    <3> QED
      BY <3>3, <3>4, <3>5, <3>6 DEF T, I
  <2>2. CASE ~outbox.fenced /\ o = "post"
    <3>1. outbox.rows[i] = "reserved"
      BY <1>1, <1>2, <2>2
    <3>2. r \in Rows /\ Holds(r, T \cup {i}, I)
      BY <1>2, <1>3, <3>1, HoldsMarked
    <3>3. Holds(r, T, I)
      BY <3>2, HoldsFewer
    <3> HIDE DEF r
    <3>4. saved = Persist(outbox, r, o)
      BY <2>2
    <3> HIDE DEF saved
    <3>5. /\ saved \in Outbox /\ saved.canceled = outbox.canceled
          /\ saved.rows = r /\ saved.disk = r /\ saved.prior = outbox.disk /\ saved.fenced
      <4>1. outbox \in Outbox /\ r \in Rows /\ o \in {"ok", "pre", "post"}
        BY <1>2, <1>3, <3>2
      <4> QED
        BY <2>2, <3>4, <4>1, PersistLeaves
    <3>6. outbox' = saved
      BY <1>1, <3>5 DEF Cancel
    <3> QED
      BY <1>2, <3>3, <3>5, <3>6
  <2> QED
    BY <1>1, <1>3, <2>1, <2>2
<1>5. /\ Holds(outbox'.disk, T, I \ {i}) /\ Holds(outbox'.prior, T, I \ {i})
  BY <1>4, HoldsFewer
<1>6. Heard' = Heard /\ (ran \ answered)' = T
  BY <1>1 DEF Heard
<1>7. PICK st \in Turn \ {"idle"} : st = "over"
  BY DEF Turn
<1>8. ~outbox'.fenced =>
        /\ outbox'.prior = outbox'.rows
        /\ \A k \in Interactions : outbox'.rows[k] = "reserved" <=>
             IF k = i THEN st # "over" \/ k \in outbox'.canceled
             ELSE turn[k] \in {"reserved", "transcribing"} \/ k \in outbox'.canceled
  BY <1>4, <1>7
<1>9. /\ turn[i] # "over" /\ turn' = [turn EXCEPT ![i] = st]
      /\ paused' \in BOOLEAN /\ retry' \in BOOLEAN /\ flush' \in Flush
      /\ late' \in SUBSET Interactions /\ ran' = ran /\ answered' = answered
      /\ flush'.answer = "recorded" => flush'.call \in answered
      /\ \A k \in (Heard' \ Heard) \cap Interactions : turn[k] # "idle"
  BY <1>1, <1>2, <1>4, <1>6, <1>7 DEF Outbox
<1>10. /\ \A k \in outbox'.canceled : k \in outbox.canceled \/ (k = i /\ st = "over")
       /\ Holds(outbox'.disk, (ran \ answered)', I \ {i})
       /\ Holds(outbox'.prior, (ran \ answered)', I \ {i})
  BY <1>4, <1>5, <1>6, <1>7
<1>11. bridgeUp /\ bridgeUp' /\ outbox' \in Outbox /\ outbox'.disk = outbox'.rows
  BY <1>1, <1>4
<1> QED
  BY <1>7, <1>8, <1>9, <1>10, <1>11, TurnGoesOn

\* The queue is left alone, or its rows change without a reservation: what a
\* step of the flush has to show.
LEMMA FlushGoesOn ==
  ASSUME OutboxInv, bridgeUp, bridgeUp', turn' = turn, ran' = ran,
         answered' = answered, written' = written, handling' = handling,
         outbox' \in Outbox, outbox'.canceled = outbox.canceled,
         outbox'.disk = outbox'.rows,
         Holds(outbox'.disk, ran \ answered, InState(turn, "idle")),
         Holds(outbox'.prior, ran \ answered, InState(turn, "idle")),
         ~outbox'.fenced =>
           /\ ~outbox.fenced /\ outbox'.prior = outbox'.rows
           /\ \A k \in Interactions :
                outbox'.rows[k] = "reserved" <=> outbox.rows[k] = "reserved",
         paused' \in BOOLEAN, retry' \in BOOLEAN, flush' \in Flush,
         late' \in SUBSET Interactions,
         flush'.answer = "recorded" => flush'.call \in answered,
         \A k \in (Heard' \ Heard) \cap Interactions : turn[k] # "idle"
  PROVE  OutboxInv'
<1>1. OutboxTypeOK'
  BY DEF OutboxInv, OutboxTypeOK
<1>2. QueueOnFile'
  <2>1. outbox.canceled \subseteq InState(turn, "over")
    BY DEF OutboxInv, QueueOnFile
  <2>2. ASSUME ~outbox'.fenced
        PROVE  InState(outbox'.rows, "reserved") =
                 InState(turn, "reserved") \cup InState(turn, "transcribing")
                   \cup outbox.canceled
    BY <2>2 DEF OutboxInv, QueueOnFile, InState
  <2>3. InState(turn, "over")' = InState(turn, "over")
        /\ InState(turn, "reserved")' = InState(turn, "reserved")
        /\ InState(turn, "transcribing")' = InState(turn, "transcribing")
    OBVIOUS
  <2> QED
    BY <2>1, <2>2, <2>3 DEF QueueOnFile
<1>3. SnapshotsHold'
  BY DEF SnapshotsHold
<1>4. RanIsOver'
  BY DEF OutboxInv, RanIsOver
<1>5. IdleIsUnheard'
  BY DEF OutboxInv, IdleIsUnheard, InState
<1> QED
  BY <1>1, <1>2, <1>3, <1>4, <1>5 DEF OutboxInv

\* What the retry timer starts keeps the invariant.
LEMMA RetryKeeps ==
  ASSUME OutboxInv, RetryTimerFires, UNCHANGED <<answered, written, handling>>
  PROVE  OutboxInv'
<1>1. /\ bridgeUp /\ bridgeUp' /\ StartFlush(outbox, FALSE) /\ outbox' = outbox
      /\ paused' = paused /\ turn' = turn /\ ran' = ran /\ late' = late
  BY DEF RetryTimerFires
<1>2. /\ outbox \in Outbox /\ outbox.rows \in Rows /\ outbox.disk = outbox.rows
      /\ Holds(outbox.disk, ran \ answered, InState(turn, "idle"))
      /\ Holds(outbox.prior, ran \ answered, InState(turn, "idle"))
      /\ ~outbox.fenced => outbox.prior = outbox.rows
      /\ paused \in BOOLEAN /\ flush \in Flush /\ late \in SUBSET Interactions
      /\ flush.answer = "recorded" => flush.call \in answered
  BY <1>1, QueueStands
<1>3. /\ flush' \in Flush /\ retry' \in BOOLEAN
      /\ flush'.answer = "recorded" => flush'.call \in answered
      /\ \A k \in flush'.todo \cup {flush'.call} :
           k \in flush.todo \cup {flush.call} \/ k = NoCall
           \/ (k \in Interactions /\ turn[k] # "idle")
  BY <1>1, <1>2, StartedFlushAsks
<1>4. \A k \in (Heard' \ Heard) \cap Interactions : turn[k] # "idle"
  BY <1>1, <1>3, OutboxAssumption DEF Heard
<1> QED
  BY <1>1, <1>2, <1>3, <1>4, FlushGoesOn

\* A turn that was recorded leaves the queue, and the invariant is kept.
LEMMA FlushRecordedKeeps ==
  ASSUME OutboxInv, NEW o \in WriteOutcomes, FlushRecorded(o),
         UNCHANGED <<answered, written, handling>>
  PROVE  OutboxInv'
<1> DEFINE i == flush.call
           r == Without(outbox.rows, {i})
           T == ran \ answered
           I == InState(turn, "idle")
           next == RemoveDelivered(outbox, i, o)
<1>1. /\ bridgeUp /\ bridgeUp' /\ i # NoCall /\ flush.answer = "recorded"
      /\ outbox' = next
      /\ IF o = "ok" /\ ~outbox.fenced
         THEN Continue(next, flush.todo, retry)
         ELSE flush' = NoFlush /\ retry' = TRUE
      /\ paused' = paused /\ turn' = turn /\ ran' = ran /\ late' = late
  BY DEF FlushRecorded, Removable
<1>2. /\ outbox \in Outbox /\ outbox.rows \in Rows /\ outbox.disk = outbox.rows
      /\ Holds(outbox.disk, T, I) /\ Holds(outbox.prior, T, I)
      /\ ~outbox.fenced => outbox.prior = outbox.rows
      /\ paused \in BOOLEAN /\ retry \in BOOLEAN /\ flush \in Flush
      /\ late \in SUBSET Interactions /\ i \in answered
  BY <1>1, QueueStands
<1>3. T \in SUBSET Interactions /\ I \in SUBSET Interactions /\ o \in {"ok", "pre", "post"}
  BY TurnSets, LedgerOutcomes
<1>4. /\ outbox' \in Outbox /\ outbox'.canceled = outbox.canceled
      /\ outbox'.disk = outbox'.rows
      /\ Holds(outbox'.disk, T, I) /\ Holds(outbox'.prior, T, I)
      /\ ~outbox'.fenced =>
           /\ ~outbox.fenced /\ outbox'.prior = outbox'.rows
           /\ \A k \in Interactions :
                outbox'.rows[k] = "reserved" <=> outbox.rows[k] = "reserved"
  <2>1. CASE outbox.fenced \/ outbox.rows[i] # "pending"
    <3>1. outbox' = outbox
      BY <1>1, <2>1 DEF RemoveDelivered
    <3> QED
      BY <1>2, <3>1
  <2>2. CASE ~outbox.fenced /\ outbox.rows[i] = "pending"
    <3>1. r \in Rows /\ Holds(r, T, I)
      <4>1. {i} \cap T = {}
        BY <1>2
      <4> QED
        BY <1>2, <1>3, <4>1, HoldsWithout
    <3>2. \A k \in Interactions : r[k] = IF k = i THEN "none" ELSE outbox.rows[k]
      BY DEF Without
    <3>3. outbox' = Persist(outbox, r, o)
      BY <1>1, <2>2 DEF RemoveDelivered
    <3> HIDE DEF r
    <3>4. /\ outbox' \in Outbox /\ outbox'.canceled = outbox.canceled
          /\ outbox'.disk = outbox'.rows
          /\ outbox'.disk \in {outbox.rows, r} /\ outbox'.prior \in {outbox.rows, r}
          /\ ~outbox'.fenced => outbox'.prior = outbox'.rows
      <4>1. outbox \in Outbox /\ outbox.disk = outbox.rows /\ outbox.prior = outbox.rows
        BY <1>2, <2>2
      <4> QED
        BY <1>3, <4>1, <3>1, <3>3, PersistHealthy
    <3> QED
      BY <1>2, <2>2, <3>1, <3>2, <3>4
  <2> QED
    BY <2>1, <2>2
<1> HIDE DEF next
<1>5. /\ flush' \in Flush /\ retry' \in BOOLEAN /\ flush'.answer = "sent"
      /\ flush'.todo \subseteq flush.todo /\ flush'.call \in flush.todo \cup {NoCall}
  <2>1. CASE o = "ok" /\ ~outbox.fenced
    <3>1. flush.todo \in SUBSET Interactions /\ Continue(next, flush.todo, retry)
      BY <1>1, <1>2, <2>1 DEF Flush
    <3> QED
      BY <1>2, <3>1, ContinueAsks
  <2>2. CASE ~(o = "ok" /\ ~outbox.fenced)
    <3>1. flush' = NoFlush /\ retry' = TRUE
      BY <1>1, <2>2, Zenon
    <3> QED
      BY <3>1 DEF NoFlush, Flush, Answer
  <2> QED
    BY <2>1, <2>2
<1>6. \A k \in (Heard' \ Heard) \cap Interactions : turn[k] # "idle"
  BY <1>1, <1>5, OutboxAssumption DEF Heard
<1> QED
  BY <1>1, <1>2, <1>4, <1>5, <1>6, FlushGoesOn

\* A turn that expired is marked so, or stays pending; the invariant is kept.
LEMMA FlushExpiredKeeps ==
  ASSUME OutboxInv, NEW o \in WriteOutcomes, FlushExpired(o),
         UNCHANGED <<answered, written, handling>>
  PROVE  OutboxInv'
<1> DEFINE i == flush.call
           r == [outbox.rows EXCEPT ![i] = "expired"]
           T == ran \ answered
           I == InState(turn, "idle")
           next == MarkExpired(outbox, i, o)
           marked == ~outbox.fenced /\ o = "ok"
<1>1. /\ bridgeUp /\ bridgeUp' /\ i # NoCall
      /\ outbox' = next /\ paused' = ~marked /\ flush' = NoFlush
      /\ retry' = (retry \/ ~marked \/ InState(next.rows, "pending") # {})
      /\ turn' = turn /\ ran' = ran /\ late' = late
  BY DEF FlushExpired
<1>2. /\ outbox \in Outbox /\ outbox.rows \in Rows /\ outbox.disk = outbox.rows
      /\ Holds(outbox.disk, T, I) /\ Holds(outbox.prior, T, I)
      /\ ~outbox.fenced => outbox.prior = outbox.rows
      /\ retry \in BOOLEAN /\ flush \in Flush /\ late \in SUBSET Interactions
      /\ i \in Interactions
  BY <1>1, QueueStands DEF Flush
<1>3. T \in SUBSET Interactions /\ I \in SUBSET Interactions /\ o \in {"ok", "pre", "post"}
  BY TurnSets, LedgerOutcomes
<1>4. /\ outbox' \in Outbox /\ outbox'.canceled = outbox.canceled
      /\ outbox'.disk = outbox'.rows
      /\ Holds(outbox'.disk, T, I) /\ Holds(outbox'.prior, T, I)
      /\ ~outbox'.fenced =>
           /\ ~outbox.fenced /\ outbox'.prior = outbox'.rows
           /\ \A k \in Interactions :
                outbox'.rows[k] = "reserved" <=> outbox.rows[k] = "reserved"
  <2>1. CASE outbox.fenced \/ outbox.rows[i] # "pending"
    <3>1. outbox' = outbox
      BY <1>1, <2>1 DEF MarkExpired
    <3> QED
      BY <1>2, <3>1
  <2>2. CASE ~outbox.fenced /\ outbox.rows[i] = "pending"
    <3>1. r \in Rows /\ Holds(r, T \cup {i}, I)
      BY <1>2, <1>3, <2>2, HoldsMarked
    <3>2. Holds(r, T, I)
      BY <3>1, HoldsFewer
    <3>3. \A k \in Interactions : r[k] = IF k = i THEN "expired" ELSE outbox.rows[k]
      BY <1>2 DEF Rows
    <3>4. outbox' = Persist(outbox, r, o)
      BY <1>1, <2>2 DEF MarkExpired
    <3> HIDE DEF r
    <3>5. /\ outbox' \in Outbox /\ outbox'.canceled = outbox.canceled
          /\ outbox'.disk = outbox'.rows
          /\ outbox'.disk \in {outbox.rows, r} /\ outbox'.prior \in {outbox.rows, r}
          /\ ~outbox'.fenced => outbox'.prior = outbox'.rows
      <4>1. outbox \in Outbox /\ outbox.disk = outbox.rows /\ outbox.prior = outbox.rows
        BY <1>2, <2>2
      <4> QED
        BY <1>3, <4>1, <3>1, <3>4, PersistHealthy
    <3> QED
      BY <1>2, <2>2, <3>2, <3>3, <3>5
  <2> QED
    BY <2>1, <2>2
<1> HIDE DEF next, marked
<1>5. flush' \in Flush /\ flush'.answer = "sent" /\ flush'.todo = {} /\ flush'.call = NoCall
  BY <1>1 DEF NoFlush, Flush, Answer
<1>6. \A k \in (Heard' \ Heard) \cap Interactions : turn[k] # "idle"
  BY <1>1, <1>5, OutboxAssumption DEF Heard
<1>7. paused' \in BOOLEAN /\ retry' \in BOOLEAN
  BY <1>1
<1> QED
  BY <1>1, <1>2, <1>4, <1>5, <1>6, <1>7, FlushGoesOn

\* A request that failed may still arrive, and the invariant is kept.
LEMMA FlushFailedKeeps ==
  ASSUME OutboxInv, FlushFailed, UNCHANGED <<answered, written, handling>>
  PROVE  OutboxInv'
<1>1. /\ bridgeUp /\ bridgeUp' /\ flush.call # NoCall /\ flush' = NoFlush /\ retry' = TRUE
      /\ late' = IF flush.answer = "sent" THEN late \cup {flush.call} ELSE late
      /\ outbox' = outbox /\ paused' = paused /\ turn' = turn /\ ran' = ran
  BY DEF FlushFailed
<1>2. /\ outbox \in Outbox /\ outbox.disk = outbox.rows
      /\ Holds(outbox.disk, ran \ answered, InState(turn, "idle"))
      /\ Holds(outbox.prior, ran \ answered, InState(turn, "idle"))
      /\ ~outbox.fenced => outbox.prior = outbox.rows
      /\ paused \in BOOLEAN /\ flush \in Flush /\ late \in SUBSET Interactions
  BY <1>1, QueueStands
<1>3. flush' \in Flush /\ flush'.answer = "sent" /\ flush'.todo = {} /\ flush'.call = NoCall
  BY <1>1 DEF NoFlush, Flush, Answer
<1>4. late' \in SUBSET Interactions
  BY <1>1, <1>2 DEF Flush
<1>5. \A k \in (Heard' \ Heard) \cap Interactions : turn[k] # "idle"
  BY <1>1, <1>3, OutboxAssumption DEF Heard
<1> QED
  BY <1>1, <1>2, <1>3, <1>4, <1>5, FlushGoesOn

\* A crash loses the queue in memory and ends every turn.
LEMMA BridgeCrashKeeps ==
  ASSUME OutboxInv, BridgeCrash, UNCHANGED <<answered, written, handling>>
  PROVE  OutboxInv'
<1>1. /\ bridgeUp /\ bridgeUp' = FALSE
      /\ outbox' = [outbox EXCEPT !.rows = NoRows, !.canceled = {}]
      /\ turn' = [i \in Interactions |-> IF turn[i] = "idle" THEN "idle" ELSE "over"]
      /\ late' = IF flush.call # NoCall /\ flush.answer = "sent"
                 THEN late \cup {flush.call} ELSE late
      /\ flush' = NoFlush /\ retry' = FALSE /\ paused' = FALSE /\ ran' = ran
  BY DEF BridgeCrash
<1>2. /\ outbox \in Outbox /\ turn \in [Interactions -> Turn] /\ flush \in Flush
      /\ late \in SUBSET Interactions /\ ran \in SUBSET Interactions
  BY DEF OutboxInv, OutboxTypeOK
<1>3. /\ outbox' \in Outbox /\ outbox'.disk = outbox.disk /\ outbox'.prior = outbox.prior
      /\ outbox'.canceled = {}
  BY <1>1, <1>2 DEF Outbox, NoRows, Rows
<1>4. /\ turn' \in [Interactions -> Turn]
      /\ \A k \in Interactions : turn'[k] = IF turn[k] = "idle" THEN "idle" ELSE "over"
  BY <1>1, <1>2 DEF Turn
<1>5. /\ flush' \in Flush /\ flush'.answer = "sent" /\ flush'.todo = {}
      /\ flush'.call = NoCall
  BY <1>1 DEF NoFlush, Flush, Answer
<1>6. late' \in SUBSET Interactions
  BY <1>1, <1>2 DEF Flush
<1>7. OutboxTypeOK'
  BY <1>1, <1>2, <1>3, <1>4, <1>5, <1>6 DEF OutboxTypeOK
<1>8. /\ InState(turn, "idle")' = InState(turn, "idle")
      /\ InState(turn, "over") \subseteq InState(turn, "over")'
      /\ InState(turn, "reserved")' = {} /\ InState(turn, "transcribing")' = {}
  BY <1>4 DEF InState
<1>9. QueueOnFile'
  BY <1>1, <1>3, <1>8 DEF QueueOnFile
<1>10. SnapshotsHold'
  BY <1>1, <1>3, <1>8 DEF OutboxInv, SnapshotsHold
<1>11. RanIsOver'
  BY <1>1, <1>5, <1>8 DEF OutboxInv, RanIsOver
<1>12. IdleIsUnheard'
  <2>1. InState(turn, "idle") \subseteq Interactions
    BY DEF InState
  <2> QED
    BY <1>1, <1>5, <1>8, <2>1, OutboxAssumption DEF OutboxInv, IdleIsUnheard, Heard
<1> QED
  BY <1>7, <1>9, <1>10, <1>11, <1>12 DEF OutboxInv

\* A restart drops reservations, which are nobody's by then.
LEMMA BridgeStartKeeps ==
  ASSUME OutboxInv, NEW found \in {outbox.disk, outbox.prior}, NEW o \in WriteOutcomes,
         BridgeStart(found, o), UNCHANGED <<answered, written, handling>>
  PROVE  OutboxInv'
<1> DEFINE gone == InState(found, "reserved")
           kept == Without(found, gone)
           read == [rows |-> found, disk |-> found, prior |-> found,
                    fenced |-> FALSE, canceled |-> {}]
           saved == Persist(read, kept, o)
           starts == kept = found \/ o = "ok"
           T == ran \ answered
           I == InState(turn, "idle")
<1>1. /\ ~bridgeUp
      /\ kept = found => o = "ok"
      /\ bridgeUp' = starts
      /\ starts => outbox' = saved /\ Continue(saved, InState(kept, "pending"), FALSE)
      /\ ~starts => /\ outbox' = [saved EXCEPT !.rows = NoRows, !.fenced = FALSE]
                    /\ flush' = flush /\ retry' = retry
      /\ paused' = paused /\ turn' = turn /\ ran' = ran /\ late' = late
  BY DEF BridgeStart
<1>2. /\ outbox \in Outbox /\ found \in Rows /\ Holds(found, T, I)
      /\ paused \in BOOLEAN /\ retry \in BOOLEAN /\ flush \in Flush
      /\ late \in SUBSET Interactions /\ ran \in SUBSET Interactions
      /\ turn \in [Interactions -> Turn]
      /\ InState(turn, "reserved") \cup InState(turn, "transcribing") = {}
      /\ o \in {"ok", "pre", "post"}
  <2>1. /\ outbox \in Outbox /\ paused \in BOOLEAN /\ retry \in BOOLEAN /\ flush \in Flush
        /\ late \in SUBSET Interactions /\ ran \in SUBSET Interactions
        /\ turn \in [Interactions -> Turn]
    BY DEF OutboxInv, OutboxTypeOK
  <2>2. found \in Rows
    BY <2>1 DEF Outbox
  <2>3. Holds(found, T, I)
    BY DEF OutboxInv, SnapshotsHold
  <2>4. InState(turn, "reserved") \cup InState(turn, "transcribing") = {}
    BY <1>1 DEF OutboxInv, QueueOnFile
  <2>5. o \in {"ok", "pre", "post"}
    BY LedgerOutcomes
  <2> QED
    BY <2>1, <2>2, <2>3, <2>4, <2>5
<1>3. T \in SUBSET Interactions /\ I \in SUBSET Interactions
  BY TurnSets
<1>4. kept \in Rows /\ Holds(kept, T, I)
  <2>1. gone \cap T = {}
    BY <1>2 DEF Holds, InState
  <2> QED
    BY <1>2, <1>3, <2>1, HoldsWithout
<1>5. InState(kept, "reserved") = {}
  BY DEF InState, Without
<1>6. /\ read \in Outbox /\ read.rows = found /\ read.disk = found /\ read.prior = found
      /\ read.canceled = {} /\ ~read.fenced
  BY <1>2 DEF Outbox
<1> HIDE DEF gone, kept, read
<1>7. /\ saved \in Outbox /\ saved.canceled = {}
      /\ saved.disk = saved.rows
      /\ saved.disk \in {found, kept} /\ saved.prior \in {found, kept}
      /\ o = "ok" => saved.rows = kept /\ saved.prior = kept /\ ~saved.fenced
  <2>1. /\ saved \in Outbox /\ saved.canceled = read.canceled /\ saved.disk = saved.rows
        /\ saved.disk \in {read.rows, kept} /\ saved.prior \in {read.rows, kept}
    <3>1. read.disk = read.rows /\ read.prior = read.rows
      BY <1>6
    <3> QED
      BY <1>2, <1>4, <1>6, <3>1, PersistHealthy
  <2>2. o = "ok" => saved.rows = kept /\ saved.prior = kept /\ saved.fenced = read.fenced
    BY <1>2, <1>4, <1>6, PersistLeaves
  <2> QED
    BY <1>6, <2>1, <2>2
<1> HIDE DEF saved
<1>8. /\ outbox' \in Outbox /\ outbox'.canceled = {}
      /\ outbox'.disk \in {found, kept} /\ outbox'.prior \in {found, kept}
      /\ bridgeUp' => /\ outbox'.disk = outbox'.rows /\ outbox'.prior = outbox'.rows
                      /\ InState(outbox'.rows, "reserved") = {}
  <2>1. CASE starts
    <3>1. o = "ok"
      BY <1>1, <2>1, Zenon
    <3> QED
      BY <1>1, <1>5, <1>7, <2>1, <3>1
  <2>2. CASE ~starts
    <3>1. NoRows \in Rows
      BY DEF NoRows, Rows
    <3> QED
      BY <1>1, <1>7, <2>2, <3>1 DEF Outbox
  <2> QED
    BY <2>1, <2>2
<1>9. /\ flush' \in Flush /\ retry' \in BOOLEAN
      /\ flush'.answer = "recorded" => flush'.call \in answered
      /\ \A k \in flush'.todo \cup {flush'.call} :
           k \in flush.todo \cup {flush.call} \/ k = NoCall
           \/ (k \in Interactions /\ turn[k] # "idle")
  <2>1. CASE starts
    <3>1. InState(kept, "pending") \in SUBSET Interactions
      BY DEF InState
    <3>2. /\ flush' \in Flush /\ retry' \in BOOLEAN /\ flush'.answer = "sent"
          /\ flush'.todo \subseteq InState(kept, "pending")
          /\ flush'.call \in InState(kept, "pending") \cup {NoCall}
      <4>1. Continue(saved, InState(kept, "pending"), FALSE)
        BY <1>1, <2>1
      <4> QED
        BY <3>1, <4>1, ContinueAsks
    <3> QED
      BY <1>4, <3>2, PendingIsBegun
  <2>2. CASE ~starts
    BY <1>1, <1>2, <2>2 DEF OutboxInv, RanIsOver
  <2> QED
    BY <2>1, <2>2
<1>10. \A k \in (Heard' \ Heard) \cap Interactions : turn[k] # "idle"
  BY <1>1, <1>9, OutboxAssumption DEF Heard
<1>11. OutboxTypeOK'
  <2>1. bridgeUp' \in BOOLEAN
    BY <1>1
  <2> QED
    BY <1>1, <1>2, <1>8, <1>9, <2>1 DEF OutboxTypeOK
<1>12. QueueOnFile'
  <2>1. /\ InState(turn, "reserved")' \cup InState(turn, "transcribing")' = {}
        /\ outbox'.canceled \subseteq InState(turn, "over")'
    BY <1>1, <1>2, <1>8
  <2> QED
    BY <1>8, <2>1 DEF QueueOnFile
<1>13. SnapshotsHold'
  <2>1. InState(turn, "idle")' = I /\ (ran \ answered)' = T
    BY <1>1
  <2> QED
    BY <1>2, <1>4, <1>8, <2>1 DEF SnapshotsHold
<1>14. RanIsOver'
  <2>1. InState(turn, "over")' = InState(turn, "over")
    BY <1>1
  <2> QED
    BY <1>1, <1>9, <2>1 DEF OutboxInv, RanIsOver
<1>15. IdleIsUnheard'
  <2>1. InState(turn, "idle")' = InState(turn, "idle")
    BY <1>1
  <2>2. \A k \in InState(turn, "idle") : k \in Interactions /\ turn[k] = "idle"
    BY DEF InState
  <2> QED
    BY <1>10, <2>1, <2>2 DEF OutboxInv, IdleIsUnheard
<1> QED
  BY <1>11, <1>12, <1>13, <1>14, <1>15 DEF OutboxInv

\* The bridge's own state stands, and telepathosd hears of no idle turn: what a
\* step of a request or of telepathosd has to show.
LEMMA BridgeStands ==
  ASSUME OutboxInv, bridgeUp' = bridgeUp, outbox' = outbox, paused' = paused,
         turn' = turn, ran' = ran, retry' = retry,
         answered \subseteq answered', flush' \in Flush, late' \in SUBSET Interactions,
         flush'.answer = "recorded" => flush'.call \in answered',
         \A k \in (Heard' \ Heard) \cap Interactions : turn[k] # "idle"
  PROVE  OutboxInv'
<1>1. OutboxTypeOK'
  BY DEF OutboxInv, OutboxTypeOK
<1>2. QueueOnFile'
  BY DEF OutboxInv, QueueOnFile
<1>3. SnapshotsHold'
  <2>1. InState(turn, "idle")' = InState(turn, "idle")
        /\ (ran \ answered)' \subseteq ran \ answered
    OBVIOUS
  <2>2. ASSUME NEW rows \in {outbox.disk, outbox.prior}
        PROVE  Holds(rows, (ran \ answered)', InState(turn, "idle")')
    <3>1. Holds(rows, ran \ answered, InState(turn, "idle"))
      BY DEF OutboxInv, SnapshotsHold
    <3> QED
      BY <2>1, <3>1, HoldsFewer
  <2> QED
    BY <2>2 DEF SnapshotsHold
<1>4. RanIsOver'
  BY DEF OutboxInv, RanIsOver
<1>5. IdleIsUnheard'
  BY DEF OutboxInv, IdleIsUnheard, InState
<1> QED
  BY <1>1, <1>2, <1>3, <1>4, <1>5 DEF OutboxInv

\* A request that arrives is of a turn the bridge asked for.
LEMMA ArrivesKeepsOutbox ==
  ASSUME OutboxInv, NEW i \in Interactions, Arrives(i)
  PROVE  OutboxInv'
<1>1. /\ bridgeUp' = bridgeUp /\ outbox' = outbox /\ paused' = paused
      /\ turn' = turn /\ ran' = ran /\ retry' = retry
      /\ written' = written /\ answered' = answered /\ handling'.id = i
  BY DEF Arrives, Handle
<1>2. flush \in Flush /\ late \in SUBSET Interactions
      /\ (flush.answer = "recorded" => flush.call \in answered)
  BY DEF OutboxInv, OutboxTypeOK, RanIsOver
<1>3. CASE flush.call = i /\ flush' = [flush EXCEPT !.answer = "taken"] /\ late' = late
  <2>1. /\ flush' \in Flush /\ flush'.answer = "taken"
        /\ flush'.todo = flush.todo /\ flush'.call = flush.call
    BY <1>2, <1>3 DEF Flush, Answer
  <2>2. Heard' \subseteq Heard
    BY <1>1, <1>3, <2>1 DEF Heard
  <2> QED
    BY <1>1, <1>2, <1>3, <2>1, <2>2, BridgeStands
<1>4. CASE i \in late /\ late' = late \ {i} /\ flush' = flush
  <2>1. Heard' \subseteq Heard
    BY <1>1, <1>4 DEF Heard
  <2> QED
    BY <1>1, <1>2, <1>4, <2>1, BridgeStands
<1> QED
  BY <1>3, <1>4 DEF Arrives

\* An answer reaches the flush that waits for it only for its own turn.
LEMMA AnswersKeepOutbox ==
  ASSUME OutboxInv, handling \in Handling, Answers
  PROVE  OutboxInv'
<1>1. /\ bridgeUp' = bridgeUp /\ outbox' = outbox /\ paused' = paused
      /\ turn' = turn /\ ran' = ran /\ retry' = retry /\ late' = late
      /\ written' = written /\ handling' = Idle
      /\ answered' = IF handling.result = "recorded" THEN answered \cup {handling.id}
                     ELSE answered
      /\ flush' = IF flush.call = handling.id /\ flush.answer = "taken"
                  THEN [flush EXCEPT !.answer = handling.result] ELSE flush
  BY DEF Answers, Respond
<1>2. flush \in Flush /\ late \in SUBSET Interactions
      /\ (flush.answer = "recorded" => flush.call \in answered)
  BY DEF OutboxInv, OutboxTypeOK, RanIsOver
<1>3. answered \subseteq answered'
  BY <1>1
<1>4. /\ flush' \in Flush /\ flush'.todo = flush.todo /\ flush'.call = flush.call
      /\ flush'.answer = "recorded" => flush'.call \in answered'
  <2>1. CASE flush.call = handling.id /\ flush.answer = "taken"
    <3>1. flush' = [flush EXCEPT !.answer = handling.result]
      BY <1>1, <2>1
    <3>2. handling.result \in {"recorded", "expired", "failed"}
      BY DEF Handling
    <3>3. /\ flush' \in Flush /\ flush'.todo = flush.todo /\ flush'.call = flush.call
          /\ flush'.answer = handling.result
      BY <1>2, <3>1, <3>2 DEF Flush, Answer
    <3> QED
      BY <1>1, <2>1, <3>3
  <2>2. CASE ~(flush.call = handling.id /\ flush.answer = "taken")
    <3>1. flush' = flush
      BY <1>1, <2>2, Zenon
    <3> QED
      BY <1>2, <1>3, <3>1
  <2> QED
    BY <2>1, <2>2
<1>5. \A k \in (Heard' \ Heard) \cap Interactions : turn[k] # "idle"
  BY <1>1, <1>4, LedgerAssumption DEF Heard, Idle
<1> QED
  BY <1>1, <1>2, <1>3, <1>4, <1>5, BridgeStands

\* A daemon that dies breaks the connection of the request it handled.
LEMMA DaemonDiesKeepsOutbox ==
  ASSUME OutboxInv, DaemonDies
  PROVE  OutboxInv'
<1>1. /\ bridgeUp' = bridgeUp /\ outbox' = outbox /\ paused' = paused
      /\ turn' = turn /\ ran' = ran /\ retry' = retry /\ late' = late
      /\ written' = written /\ answered' = answered /\ handling' = Idle
      /\ flush' = IF flush.answer = "taken" THEN [flush EXCEPT !.answer = "failed"]
                  ELSE flush
  BY DEF DaemonDies, DaemonCrash
<1>2. flush \in Flush /\ late \in SUBSET Interactions
      /\ (flush.answer = "recorded" => flush.call \in answered)
  BY DEF OutboxInv, OutboxTypeOK, RanIsOver
<1>3. /\ flush' \in Flush /\ flush'.todo = flush.todo /\ flush'.call = flush.call
      /\ flush'.answer = "recorded" => flush'.call \in answered'
  BY <1>1, <1>2 DEF Flush, Answer
<1>4. \A k \in (Heard' \ Heard) \cap Interactions : turn[k] # "idle"
  BY <1>1, <1>3, LedgerAssumption DEF Heard, Idle
<1> QED
  BY <1>1, <1>2, <1>3, <1>4, BridgeStands

\* Every step keeps the invariant of the outbox.
LEMMA OutboxKept ==
  ASSUME OutboxInv, handling \in Handling, [Next]_vars
  PROVE  OutboxInv'
<1>1. flush \in Flush /\ late \in SUBSET Interactions
      /\ (flush.answer = "recorded" => flush.call \in answered)
  BY DEF OutboxInv, OutboxTypeOK, RanIsOver
<1>2. ASSUME UNCHANGED outboxVars, answered' = answered, Heard' \subseteq Heard
      PROVE  OutboxInv'
  BY <1>1, <1>2, BridgeStands DEF outboxVars
<1>3. ASSUME NEW i \in Interactions, Capture(i) PROVE OutboxInv'
  BY <1>3, ReserveKeeps DEF Capture
<1>4. CASE Turns
  BY <1>4, SpeakKeeps, DiscardKeeps, PromoteKeeps, PromoteFailsKeeps DEF Turns, ledgerVars
<1>5. CASE Retries
  BY <1>5, RetryKeeps DEF Retries, ledgerVars
<1>6. CASE Flushes
  BY <1>6, FlushRecordedKeeps, FlushExpiredKeeps DEF Flushes, ledgerVars
<1>7. CASE FlushRefused \/ FlushTimesOut
  BY <1>7, FlushFailedKeeps DEF FlushRefused, FlushTimesOut, ledgerVars
<1>8. CASE BridgeStarts
  BY <1>8, BridgeStartKeeps DEF BridgeStarts, ledgerVars
<1>9. CASE BridgeCrashes \/ BridgeIsRestarted
  BY <1>9, BridgeCrashKeeps DEF BridgeCrashes, BridgeIsRestarted, ledgerVars
<1>10. ASSUME NEW i \in Interactions, Arrives(i) PROVE OutboxInv'
  BY <1>10, ArrivesKeepsOutbox
<1>11. CASE Answers
  BY <1>11, AnswersKeepOutbox
<1>12. CASE LateIsLost
  <2>1. /\ bridgeUp' = bridgeUp /\ outbox' = outbox /\ paused' = paused
        /\ turn' = turn /\ ran' = ran /\ retry' = retry /\ late' = {} /\ flush' = flush
        /\ written' = written /\ answered' = answered /\ handling' = handling
    BY <1>12 DEF LateIsLost, ledgerVars
  <2>2. Heard' \subseteq Heard
    BY <2>1 DEF Heard
  <2> QED
    BY <1>1, <2>1, <2>2, BridgeStands
<1>13. CASE Works
  <2>1. /\ UNCHANGED outboxVars /\ answered' = answered
        /\ handling'.id = handling.id
        /\ written' = written \/ written' = written \cup {handling.id}
    BY <1>13 DEF Works, CompactSnapshot, ClearJournal, SaveRegistry, AppendLine,
                 Step, Reply, Handling
  <2>2. Heard' \subseteq Heard
    BY <2>1 DEF Heard, outboxVars
  <2> QED
    BY <1>2, <2>1, <2>2
<1>14. CASE DaemonStarts
  <2>1. UNCHANGED outboxVars /\ answered' = answered /\ handling' = handling
        /\ written' = written
    BY <1>14 DEF DaemonStarts, DaemonStart
  <2>2. Heard' = Heard
    BY <2>1 DEF Heard, outboxVars
  <2> QED
    BY <1>2, <2>1, <2>2
<1>15. CASE DaemonCrashes \/ DaemonIsRestarted
  BY <1>15, DaemonDiesKeepsOutbox DEF DaemonCrashes, DaemonIsRestarted
<1>16. CASE Tick
  <2>1. UNCHANGED outboxVars /\ answered' = answered /\ handling' = handling
        /\ written' = written
    BY <1>16 DEF Tick
  <2>2. Heard' = Heard
    BY <2>1 DEF Heard, outboxVars
  <2> QED
    BY <1>2, <2>1, <2>2
<1>17. CASE UNCHANGED vars
  <2>1. UNCHANGED outboxVars /\ answered' = answered /\ handling' = handling
        /\ written' = written
    BY <1>17 DEF vars, ledgerVars
  <2>2. Heard' = Heard
    BY <2>1 DEF Heard, outboxVars
  <2> QED
    BY <1>2, <2>1, <2>2
<1> QED
  BY <1>3, <1>4, <1>5, <1>6, <1>7, <1>8, <1>9, <1>10, <1>11, <1>12, <1>13, <1>14,
     <1>15, <1>16, <1>17 DEF Next

\* It holds at the start.
LEMMA OutboxStarts ==
  ASSUME Init
  PROVE  OutboxInv
<1>1. /\ bridgeUp = TRUE /\ paused = FALSE /\ retry = FALSE
      /\ outbox = [rows |-> NoRows, disk |-> NoRows, prior |-> NoRows,
                   fenced |-> FALSE, canceled |-> {}]
      /\ turn = [i \in Interactions |-> "idle"]
      /\ ran = {} /\ late = {} /\ flush = NoFlush
      /\ handling = Idle /\ written = {} /\ answered = {}
  BY DEF Init, OutboxInit, LedgerInit
<1>2. NoRows \in Rows /\ \A i \in Interactions : NoRows[i] = "none"
  BY DEF NoRows, Rows
<1>3. OutboxTypeOK
  BY <1>1, <1>2 DEF OutboxTypeOK, Outbox, Turn, NoFlush, Flush, Answer
<1>4. QueueOnFile
  BY <1>1, <1>2 DEF QueueOnFile, InState
<1>5. SnapshotsHold
  <2>1. Occupied(NoRows) = {}
    BY <1>2 DEF Occupied
  <2>2. Cardinality(Occupied(NoRows)) <= Capacity
    BY <2>1, FS_EmptySet, OutboxAssumption
  <2>3. Holds(NoRows, {}, InState(turn, "idle"))
    BY <1>2, <2>2 DEF Holds, InState
  <2> QED
    BY <1>1, <2>3 DEF SnapshotsHold
<1>6. RanIsOver
  BY <1>1 DEF RanIsOver, NoFlush
<1>7. IdleIsUnheard
  BY <1>1, OutboxAssumption, LedgerAssumption DEF IdleIsUnheard, Heard, InState, NoFlush, Idle
<1> QED
  BY <1>3, <1>4, <1>5, <1>6, <1>7 DEF OutboxInv

-----------------------------------------------------------------------------
(* Lemmas on counts *)

\* A finite set of numbers is bounded.
LEMMA FiniteIsBounded ==
  ASSUME NEW S \in SUBSET Nat, IsFiniteSet(S)
  PROVE  \E b \in Nat : \A y \in S : y <= b
<1>1. PICK n \in Nat : ExistsSurjection(1..n, S)
  BY FS_NatSurjection
<1>2. PICK f \in [1..n -> S] : \A y \in S : \E k \in 1..n : f[k] = y
  BY <1>1 DEF ExistsSurjection, Surjection
<1> DEFINE Bounded(k) == \E b \in Nat : \A j \in 1..k : f[j] <= b
           Open == {k \in 0..n : ~Bounded(k)}
<1>5. \A k \in 0..n : k \notin Open => Bounded(k)
  OBVIOUS
<1>6. \A k \in Open : k \in 0..n /\ ~Bounded(k)
  OBVIOUS
<1>3. CASE Open = {}
  <2>1. n \in 0..n
    BY <1>1
  <2>2. Bounded(n)
    BY <1>3, <1>5, <2>1, Zenon
  <2> QED
    BY <1>2, <2>2
<1>4. CASE Open # {}
  <2>1. PICK k \in Open : \A j \in Open : k <= j
    <3>1. Open \in SUBSET Nat
      OBVIOUS
    <3> QED
      BY <1>4, <3>1, FirstPlace
  <2>2. k \in 0..n /\ ~Bounded(k)
    BY <1>6, <2>1, Zenon
  <2>3. Bounded(0)
    <3>1. \A j \in 1..0 : f[j] <= 0
      OBVIOUS
    <3> QED
      BY <3>1
  <2>4. k # 0
    BY <2>2, <2>3
  <2>5. k - 1 \in 0..n /\ k - 1 < k /\ k \in 1..n
    BY <2>2, <2>4
  <2>6. Bounded(k - 1)
    <3>1. k - 1 \notin Open
      <4>1. Open \in SUBSET Nat
        OBVIOUS
      <4> HIDE DEF Open
      <4> QED
        BY <2>1, <2>5, <4>1
    <3> QED
      BY <1>5, <2>5, <3>1, Zenon
  <2>7. PICK b \in Nat : \A j \in 1..(k - 1) : f[j] <= b
    BY <2>6
  <2>8. f[k] \in Nat
    BY <2>5
  <2>9. b + f[k] \in Nat /\ b <= b + f[k] /\ f[k] <= b + f[k]
    BY <2>7, <2>8
  <2>10. \A j \in 1..k : f[j] <= b + f[k]
    <3> SUFFICES ASSUME NEW j \in 1..k PROVE f[j] <= b + f[k]
      OBVIOUS
    <3>1. CASE j = k
      BY <2>9, <3>1
    <3>2. CASE j # k
      <4>1. j \in 1..(k - 1) /\ j \in 1..n
        BY <3>2, <2>5
      <4>2. f[j] \in Nat /\ f[j] <= b
        BY <4>1, <2>7
      <4> QED
        BY <4>2, <2>7, <2>8
    <3> QED
      BY <3>1, <3>2
  <2>11. Bounded(k)
    BY <2>9, <2>10
  <2> QED
    BY <2>2, <2>11
<1> QED
  BY <1>3, <1>4

\* Max of a finite set of numbers.
LEMMA MaxIsGreatest ==
  ASSUME NEW S \in SUBSET Nat, IsFiniteSet(S), S # {}
  PROVE  Max(S) \in S /\ Max(S) \in Nat /\ \A y \in S : y <= Max(S)
<1> DEFINE Bounds == {b \in Nat : \A y \in S : y <= b}
<1>1. Bounds # {}
  BY FiniteIsBounded
<1>2. PICK b \in Bounds : \A c \in Bounds : b <= c
  <2>1. Bounds \in SUBSET Nat
    OBVIOUS
  <2> QED
    BY <1>1, <2>1, FirstPlace
<1>3. b \in Nat /\ \A y \in S : y <= b
  BY <1>2
<1>4. b \in S
  <2> SUFFICES ASSUME b \notin S PROVE FALSE
    OBVIOUS
  <2>1. \A y \in S : y \in Nat /\ y < b
    BY <1>3
  <2>2. PICK x \in S : TRUE
    OBVIOUS
  <2>3. b # 0 /\ b - 1 \in Nat
    BY <1>3, <2>1, <2>2
  <2>4. \A y \in S : y <= b - 1
    BY <1>3, <2>1, <2>3
  <2>5. b - 1 \in Bounds
    BY <2>3, <2>4
  <2> QED
    BY <1>2, <1>3, <2>5
<1>5. \E x \in S : \A y \in S : x >= y
  BY <1>3, <1>4
<1>6. Max(S) \in S /\ \A y \in S : Max(S) >= y
  BY <1>5 DEF Max
<1> QED
  BY <1>6

\* Max of two numbers.
LEMMA MaxOfTwo ==
  ASSUME NEW a \in Nat, NEW b \in Nat
  PROVE  /\ Max({a, b}) \in Nat /\ a <= Max({a, b}) /\ b <= Max({a, b})
         /\ Max({a, b}) = a \/ Max({a, b}) = b
<1>1. IsFiniteSet({a} \cup {b})
  BY FS_Singleton, FS_AddElement
<1>2. {a} \cup {b} = {a, b}
  OBVIOUS
<1> QED
  BY <1>1, <1>2, MaxIsGreatest

\* The image of a finite set under a function is finite.
LEMMA ImageFinite ==
  ASSUME NEW S, IsFiniteSet(S), NEW f, DOMAIN f = S
  PROVE  IsFiniteSet({f[x] : x \in S})
<1> DEFINE T == {f[x] : x \in S}
           g == [x \in S |-> f[x]]
<1>1. g \in Surjection(S, T)
  BY DEF Surjection
<1> QED
  BY <1>1, FS_Surjection

\* Zero and the values a function takes on a finite set have a greatest.
LEMMA MaxWithZero ==
  ASSUME NEW S, IsFiniteSet(S), NEW f, DOMAIN f = S, \A x \in S : f[x] \in Nat,
         NEW top, top = Max({0} \cup {f[x] : x \in S})
  PROVE  /\ top \in Nat
         /\ \A x \in S : f[x] <= top
         /\ top = 0 \/ \E x \in S : top = f[x]
<1> DEFINE T == {f[x] : x \in S}
<1>1. IsFiniteSet(T)
  BY ImageFinite
<1>2. {0} \cup T = T \cup {0} /\ IsFiniteSet(T \cup {0})
  BY <1>1, FS_AddElement
<1>3. {0} \cup T \in SUBSET Nat /\ {0} \cup T # {}
  OBVIOUS
<1>4. /\ Max({0} \cup T) \in {0} \cup T /\ Max({0} \cup T) \in Nat
      /\ \A y \in {0} \cup T : y <= Max({0} \cup T)
  BY <1>2, <1>3, MaxIsGreatest
<1> QED
  BY <1>4

\* The highest count of a lane.
LEMMA LaneMaxIs ==
  ASSUME NEW e \in Entries, NEW l \in Lanes
  PROVE  /\ LaneMax(e, l) \in Nat
         /\ \A i \in Interactions : LaneOf[i] = l => e[i] <= LaneMax(e, l)
         /\ \/ LaneMax(e, l) = 0
            \/ \E i \in Interactions : LaneOf[i] = l /\ e[i] = LaneMax(e, l)
<1> DEFINE S == {j \in Interactions : LaneOf[j] = l}
           f == [i \in S |-> e[i]]
<1>1. IsFiniteSet(S) /\ S \subseteq Interactions
  BY TurnsAssumption, FS_Subset
<1>2. \A x \in S : f[x] \in Nat /\ f[x] = e[x]
  BY DEF Entries
<1>3. {f[x] : x \in S} = {e[i] : i \in S}
  OBVIOUS
<1>4. LaneMax(e, l) = Max({0} \cup {f[x] : x \in S})
  BY <1>3 DEF LaneMax
<1>5. DOMAIN f = S
  OBVIOUS
<1> HIDE DEF f, S
<1>6. /\ LaneMax(e, l) \in Nat
      /\ \A x \in S : f[x] <= LaneMax(e, l)
      /\ LaneMax(e, l) = 0 \/ \E x \in S : LaneMax(e, l) = f[x]
  BY <1>1, <1>2, <1>4, <1>5, MaxWithZero
<1> USE DEF S
<1> QED
  BY <1>2, <1>6

\* What the journal folded over the snapshot holds of a turn.
LEMMA FoldedIs ==
  ASSUME NEW f \in Files, IsFiniteSet(f.lines)
  PROVE  /\ Folded(f) \in Entries
         /\ \A i \in Interactions :
              /\ Folded(f)[i] = 0 \/ Bears(f, i, Folded(f)[i])
              /\ \A n \in Nat : Bears(f, i, n) => n <= Folded(f)[i]
<1>1. f.snap \in Entries /\ f.lines \subseteq Line
  BY DEF Files
<1> DEFINE H == {j \in Interactions : f.snap[j] # 0}
           pair == [i \in H |-> <<i, f.snap[i]>>]
<1>2. IsFiniteSet({pair[i] : i \in H})
  <2>1. IsFiniteSet(H)
    BY TurnsAssumption, FS_Subset
  <2> QED
    BY <2>1, ImageFinite
<1>3. {pair[i] : i \in H} = {<<i, f.snap[i]>> : i \in H}
  OBVIOUS
<1>4. IsFiniteSet(Records(f))
  BY <1>2, <1>3, FS_Union DEF Records
<1>5. Records(f) \subseteq Line
  BY <1>1 DEF Records, Entries, Line
<1>6. \A i \in Interactions, n \in Nat : n # 0 => (<<i, n>> \in Records(f) <=> Bears(f, i, n))
  BY <1>1 DEF Records, Bears
<1>7. ASSUME NEW i \in Interactions
      PROVE  LET top == Max({0} \cup {x[2] : x \in {r \in Records(f) : r[1] = i}})
             IN  /\ top \in Nat
                 /\ top = 0 \/ Bears(f, i, top)
                 /\ \A n \in Nat : Bears(f, i, n) => n <= top
  <2> DEFINE R == {r \in Records(f) : r[1] = i}
             g == [x \in R |-> x[2]]
             top == Max({0} \cup {g[x] : x \in R})
  <2>1. IsFiniteSet(R) /\ R \subseteq Records(f)
    BY <1>4, FS_Subset
  <2>2. \A x \in R : x = <<i, x[2]>> /\ x[2] \in Nat /\ g[x] = x[2] /\ g[x] \in Nat
    BY <1>5 DEF Line
  <2>3. {g[x] : x \in R} = {x[2] : x \in R}
    OBVIOUS
  <2>4. DOMAIN g = R
    OBVIOUS
  <2>8. \A n \in Nat : <<i, n>> \in Records(f) => <<i, n>> \in R
    OBVIOUS
  <2>10. PICK t : t = top
    OBVIOUS
  <2> HIDE DEF g, R
  <2>5. /\ top \in Nat /\ \A x \in R : g[x] <= top
        /\ top = 0 \/ \E x \in R : top = g[x]
    BY <2>1, <2>2, <2>4, <2>10, MaxWithZero
  <2>9. top = Max({0} \cup {x[2] : x \in R})
    BY <2>3
  <2> USE DEF R
  <2> HIDE DEF top
  <2>6. top = 0 \/ Bears(f, i, top)
    BY <2>2, <2>5, <1>6, <2>1
  <2>7. \A n \in Nat : Bears(f, i, n) => n <= top
    <3> SUFFICES ASSUME NEW n \in Nat, Bears(f, i, n) PROVE n <= top
      OBVIOUS
    <3>1. <<i, n>> \in R
      BY <1>6, <2>8 DEF Bears
    <3>2. g[<<i, n>>] = n
      BY <2>2, <3>1
    <3> QED
      BY <2>5, <3>1, <3>2
  <2> QED
    BY <2>5, <2>6, <2>7, <2>9
<1>8. \A i \in Interactions :
        Folded(f)[i] = Max({0} \cup {x[2] : x \in {r \in Records(f) : r[1] = i}})
  BY DEF Folded
<1>9. Folded(f) = [i \in Interactions |-> Folded(f)[i]]
  BY DEF Folded
<1>10. \A i \in Interactions : Folded(f)[i] \in Nat
  BY <1>7, <1>8
<1>11. Folded(f) \in Entries
  BY <1>9, <1>10 DEF Entries
<1> QED
  BY <1>7, <1>8, <1>11

-----------------------------------------------------------------------------
(* The types of the ledger *)

\* Journals are finite, and a request on its way is one of a turn.
LedgerShape ==
  /\ LedgerTypeOK
  /\ IsFiniteSet(disk.lines) /\ IsFiniteSet(settled.lines)
  /\ handling.step # "idle" => handling.id \in Interactions

\* A file kept or replaced.
LEMMA ReplaceKeeps ==
  ASSUME LedgerShape, NEW files \in Files, IsFiniteSet(files.lines),
         NEW o \in WriteOutcomes, Replace(files, o)
  PROVE  /\ disk' \in Files /\ settled' \in Files
         /\ IsFiniteSet(disk'.lines) /\ IsFiniteSet(settled'.lines)
  BY DEF LedgerShape, LedgerTypeOK, Replace

\* A request on its way keeps its turn.
LEMMA StepKeeps ==
  ASSUME handling \in Handling, NEW step, NEW result,
         step \in {"clear", "append", "save"}, result \in {"recorded", "failed"},
         Step(step) \/ Reply(result)
  PROVE  /\ handling' \in Handling /\ handling'.id = handling.id
         /\ handling'.step # "idle"
  BY DEF Handling, Step, Reply

\* The journal after an append is a file with at most one more line.
LEMMA AppendedAsIs ==
  ASSUME NEW files \in Files, NEW x \in Line, NEW o \in AppendOutcomes
  PROVE  LET after == AppendedAs(files, x, o)
         IN  /\ after \in Files
             /\ after.snap = files.snap /\ after.reg = files.reg
             /\ after.lines \in {files.lines, files.lines \cup {x}}
             /\ o = "ok" /\ files.tail = "clean" =>
                  after.lines = files.lines \cup {x} /\ after.tail = "clean"
             /\ after.lines # files.lines => files.tail = "clean"
             /\ after.tail # files.tail => after.tail \in {"bad", "open"}
             /\ after.tail = "open" => files.tail = "open" \/ o = "open"
             /\ files.tail = "bad" => after.tail = "bad"
             /\ o = "ok" /\ files.tail # "clean" => after.tail = "bad"
             /\ o \in {"definite", "lost"} => after = files
<1>1. /\ files.snap \in Entries /\ files.lines \in SUBSET Line
      /\ files.tail \in {"clean", "open", "bad"} /\ files.reg \in [Lanes -> Nat]
  BY DEF Files
<1>2. files = [snap |-> files.snap, lines |-> files.lines, tail |-> files.tail,
               reg |-> files.reg]
  BY DEF Files
<1>3. files.lines \cup {x} \in SUBSET Line
  BY <1>1
<1>4. LET a == Appended(files, x)
          u == Unterminated(files, x)
          t == [files EXCEPT !.tail = "bad"]
      IN  /\ files.tail = "clean" => a.lines = files.lines \cup {x} /\ a.tail = "clean"
          /\ files.tail # "clean" => a.lines = files.lines /\ a.tail = "bad"
          /\ files.tail = "clean" => u.lines = files.lines \cup {x} /\ u.tail = "open"
          /\ files.tail # "clean" => u.lines = files.lines /\ u.tail = "bad"
          /\ a.snap = files.snap /\ a.reg = files.reg
          /\ u.snap = files.snap /\ u.reg = files.reg
          /\ t.snap = files.snap /\ t.reg = files.reg /\ t.tail = "bad"
          /\ t.lines = files.lines
          /\ a \in Files /\ u \in Files /\ t \in Files
  BY <1>1, <1>2, <1>3 DEF Files, Appended, Unterminated
<1>5. \/ o \in {"ok", "whole"} /\ AppendedAs(files, x, o) = Appended(files, x)
      \/ o = "open" /\ AppendedAs(files, x, o) = Unterminated(files, x)
      \/ o = "torn" /\ AppendedAs(files, x, o) = [files EXCEPT !.tail = "bad"]
      \/ o \notin {"ok", "whole", "open", "torn"} /\ AppendedAs(files, x, o) = files
  BY Zenon DEF AppendedAs
<1> PICK after : after = AppendedAs(files, x, o)
  OBVIOUS
<1> QED
  BY <1>1, <1>4, <1>5

\* The next count of a lane.
LEMMA NextCountIs ==
  ASSUME registry \in [Lanes -> Nat], ledger.entries \in Entries, NEW l \in Lanes
  PROVE  /\ NextCount(l) \in Nat /\ NextCount(l) # 0
         /\ registry[l] < NextCount(l)
         /\ \A i \in Interactions : LaneOf[i] = l => ledger.entries[i] < NextCount(l)
         /\ \/ NextCount(l) = registry[l] + 1
            \/ \E i \in Interactions :
                 LaneOf[i] = l /\ ledger.entries[i] # 0 /\ NextCount(l) = ledger.entries[i] + 1
<1>1. registry[l] \in Nat /\ \A i \in Interactions : ledger.entries[i] \in Nat
  BY DEF Entries
<1> PICK m : m = LaneMax(ledger.entries, l)
  OBVIOUS
<1>2. /\ m \in Nat
      /\ \A i \in Interactions : LaneOf[i] = l => ledger.entries[i] <= m
      /\ m = 0 \/ \E i \in Interactions : LaneOf[i] = l /\ ledger.entries[i] = m
  BY LaneMaxIs
<1> PICK t : t = Max({registry[l], m})
  OBVIOUS
<1>3. /\ t \in Nat /\ registry[l] <= t /\ m <= t
      /\ t = registry[l] \/ t = m
  BY <1>1, <1>2, MaxOfTwo
<1> PICK n : n = NextCount(l)
  OBVIOUS
<1>4. n = t + 1
  BY DEF NextCount
<1>8. /\ n \in Nat /\ n # 0 /\ registry[l] < n
      /\ \A i \in Interactions : LaneOf[i] = l => ledger.entries[i] < n
  BY <1>1, <1>2, <1>3, <1>4
<1>5. CASE t = registry[l]
  BY <1>4, <1>5, <1>8
<1>6. CASE t = m /\ m # 0
  <2>1. PICK i \in Interactions : LaneOf[i] = l /\ ledger.entries[i] = m
    BY <1>2, <1>6
  <2>2. n = ledger.entries[i] + 1 /\ ledger.entries[i] # 0
    BY <1>4, <1>6, <2>1
  <2> QED
    BY <1>8, <2>1, <2>2
<1>7. CASE t = m /\ m = 0
  <2>1. t = registry[l]
    BY <1>1, <1>3, <1>7
  <2> QED
    BY <1>5, <2>1
<1> QED
  BY <1>3, <1>5, <1>6, <1>7

\* The registry raised to the counts of entries.
LEMMA ReconciledIs ==
  ASSUME NEW reg \in [Lanes -> Nat], NEW e \in Entries
  PROVE  /\ Reconciled(reg, e) \in [Lanes -> Nat]
         /\ \A l \in Lanes :
              /\ reg[l] <= Reconciled(reg, e)[l]
              /\ \/ Reconciled(reg, e)[l] = reg[l]
                 \/ \E i \in Interactions :
                      LaneOf[i] = l /\ Reconciled(reg, e)[l] = e[i] /\ e[i] # 0
<1>1. ASSUME NEW l \in Lanes
      PROVE  /\ Reconciled(reg, e)[l] \in Nat /\ reg[l] <= Reconciled(reg, e)[l]
             /\ \/ Reconciled(reg, e)[l] = reg[l]
                \/ \E i \in Interactions :
                     LaneOf[i] = l /\ Reconciled(reg, e)[l] = e[i] /\ e[i] # 0
  <2>1. reg[l] \in Nat
    OBVIOUS
  <2> PICK m : m = LaneMax(e, l)
    OBVIOUS
  <2>2. m \in Nat /\ (m = 0 \/ \E i \in Interactions : LaneOf[i] = l /\ e[i] = m)
    BY LaneMaxIs
  <2> PICK t : t = Max({reg[l], m})
    OBVIOUS
  <2>3. t \in Nat /\ reg[l] <= t /\ m <= t /\ (t = reg[l] \/ t = m)
    BY <2>1, <2>2, MaxOfTwo
  <2>4. Reconciled(reg, e)[l] = t
    BY DEF Reconciled
  <2> QED
    BY <2>1, <2>2, <2>3, <2>4
<1>2. Reconciled(reg, e) = [l \in Lanes |-> Reconciled(reg, e)[l]]
  BY DEF Reconciled
<1>3. Reconciled(reg, e) \in [Lanes -> Nat]
  BY <1>1, <1>2
<1> QED
  BY <1>1, <1>3

\* Pruned entries are entries, and no file is ever more than a record.
LEMMA PrunedIs ==
  ASSUME NEW e \in Entries
  PROVE  /\ Pruned(e) \in Entries
         /\ \A i \in Interactions : Pruned(e)[i] = IF Live(i) THEN e[i] ELSE 0
<1>1. \A i \in Interactions : Pruned(e)[i] = IF Live(i) THEN e[i] ELSE 0
  BY DEF Pruned
<1>2. \A i \in Interactions : Pruned(e)[i] \in Nat
  BY <1>1 DEF Entries
<1>3. Pruned(e) = [i \in Interactions |-> Pruned(e)[i]]
  BY DEF Pruned
<1> QED
  BY <1>1, <1>2, <1>3 DEF Entries

\* The ledger an append makes is one.
LEMMA EntryAdded ==
  ASSUME NEW l \in Ledger, NEW i \in Interactions, NEW n \in Nat
  PROVE  [l EXCEPT !.entries[i] = n, !.lines = @ + 1] \in Ledger
<1>1. l.entries \in Entries /\ l.lines \in Nat
  BY DEF Ledger
<1>2. l.lines + 1 \in Nat /\ [l.entries EXCEPT ![i] = n] \in Entries
  BY <1>1 DEF Entries
<1> QED
  BY <1>2 DEF Ledger

\* Where a request goes that takes the locks.
LEMMA HandleGoes ==
  ASSUME NEW i \in Interactions, Handle(i)
  PROVE  \/ /\ handling' = [id |-> i, step |-> "reply", result |-> "failed"]
         \/ /\ handling' = [id |-> i, step |-> "reply", result |-> "expired"]
         \/ /\ handling' = [id |-> i, step |-> "save", result |-> "failed"]
            /\ ~uncertain /\ ~laneUncertain /\ Live(i) /\ Known(i)
            /\ registry[LaneOf[i]] < ledger.entries[i]
         \/ /\ handling' = [id |-> i, step |-> "reply", result |-> "recorded"]
            /\ ~uncertain /\ ~laneUncertain /\ Live(i) /\ Known(i)
            /\ ~(registry[LaneOf[i]] < ledger.entries[i])
         \/ /\ handling' = [id |-> i, step |-> "compact", result |-> "failed"]
            /\ ~uncertain /\ ~laneUncertain /\ Live(i) /\ ~Known(i)
         \/ /\ handling' = [id |-> i, step |-> "append", result |-> "failed"]
            /\ ~uncertain /\ ~laneUncertain /\ Live(i) /\ ~Known(i)
            /\ ~NeedsCompaction
<1> DEFINE Answers1(result) == handling' = [id |-> i, step |-> "reply", result |-> result]
           Goes(step) == handling' = [id |-> i, step |-> step, result |-> "failed"]
<1>1. CASE uncertain \/ laneUncertain
  BY <1>1, Zenon DEF Handle
<1>2. CASE ~uncertain /\ ~laneUncertain /\ ~Live(i)
  BY <1>2, Zenon DEF Handle
<1>3. CASE ~uncertain /\ ~laneUncertain /\ Live(i) /\ created[i] > clock + Skew
  BY <1>3, Zenon DEF Handle
<1>4. CASE ~uncertain /\ ~laneUncertain /\ Live(i) /\ ~(created[i] > clock + Skew)
  <2>1. IF Known(i)
        THEN IF registry[LaneOf[i]] < ledger.entries[i]
             THEN handling' = [id |-> i, step |-> "save", result |-> "failed"]
             ELSE handling' = [id |-> i, step |-> "reply", result |-> "recorded"]
        ELSE handling' = [id |-> i, step |-> IF NeedsCompaction THEN "compact" ELSE "append",
                          result |-> "failed"]
    BY <1>4, Zenon DEF Handle
  <2> QED
    BY <1>4, <2>1, Zenon
<1> QED
  BY <1>1, <1>2, <1>3, <1>4, Zenon

\* A capture stamps its turn.
LEMMA StampKeeps ==
  ASSUME created \in Entries, clock \in Nat, NEW i \in Interactions,
         created' = [created EXCEPT ![i] = clock + Ahead]
  PROVE  created' \in Entries
<1>1. clock + Ahead \in Nat
  BY ActivityAssumption
<1> QED
  BY <1>1 DEF Entries

\* Every write of the daemon leaves records and files.
LEMMA WorksKeepsShape ==
  ASSUME LedgerShape, Works
  PROVE  LedgerShape'
<1>1. /\ ledger.entries \in Entries /\ ledger.lines \in Nat /\ ledger.stale \in BOOLEAN
      /\ ledger = [entries |-> ledger.entries, lines |-> ledger.lines, stale |-> ledger.stale]
      /\ disk \in Files /\ settled \in Files /\ registry \in [Lanes -> Nat]
      /\ handling \in Handling /\ Compacted \in Entries
  BY PrunedIs DEF LedgerShape, LedgerTypeOK, Ledger, Compacted
<1>2. ASSUME NEW snap \in Entries, NEW lines \in SUBSET Line,
             NEW tail \in {"clean", "open", "bad"}, NEW reg \in [Lanes -> Nat]
      PROVE  [snap |-> snap, lines |-> lines, tail |-> tail, reg |-> reg] \in Files
  BY DEF Files
<1>3. /\ disk = [snap |-> disk.snap, lines |-> disk.lines, tail |-> disk.tail,
                 reg |-> disk.reg]
      /\ disk.snap \in Entries /\ disk.lines \in SUBSET Line
      /\ disk.tail \in {"clean", "open", "bad"} /\ disk.reg \in [Lanes -> Nat]
  BY <1>1 DEF Files
<1>4. ASSUME NEW o \in WriteOutcomes, CompactSnapshot(o) PROVE LedgerShape'
  <2> PICK f : f = [disk EXCEPT !.snap = Compacted]
    OBVIOUS
  <2>1. f \in Files /\ IsFiniteSet(f.lines)
    BY <1>1, <1>3, <1>2 DEF LedgerShape
  <2>2. Replace(f, o)
    BY <1>4 DEF CompactSnapshot
  <2>3. /\ disk' \in Files /\ settled' \in Files
        /\ IsFiniteSet(disk'.lines) /\ IsFiniteSet(settled'.lines)
    BY <2>1, <2>2, ReplaceKeeps
  <2>4. /\ handling' \in Handling /\ handling'.id = handling.id
        /\ handling.step # "idle"
    BY <1>1, <1>4, StepKeeps DEF CompactSnapshot
  <2> QED
    BY <1>4, <2>3, <2>4 DEF LedgerShape, LedgerTypeOK, CompactSnapshot
<1>5. ASSUME NEW o \in WriteOutcomes, ClearJournal(o) PROVE LedgerShape'
  <2> PICK f : f = [disk EXCEPT !.lines = {}, !.tail = "clean"]
    OBVIOUS
  <2>0. f = [snap |-> disk.snap, lines |-> {}, tail |-> "clean", reg |-> disk.reg]
    BY <1>3
  <2>1. f \in Files /\ IsFiniteSet(f.lines)
    <3>1. {} \in SUBSET Line /\ f.lines = {} /\ "clean" \in {"clean", "open", "bad"}
      BY <2>0
    <3>2. f \in Files
      <4>1. [snap |-> disk.snap, lines |-> {}, tail |-> "clean", reg |-> disk.reg] \in Files
        BY <1>2, <1>3, <3>1
      <4> QED
        BY <2>0, <4>1
    <3> QED
      BY <3>1, <3>2, FS_EmptySet
  <2>2. Replace(f, o)
    BY <1>5 DEF ClearJournal
  <2>3. /\ disk' \in Files /\ settled' \in Files
        /\ IsFiniteSet(disk'.lines) /\ IsFiniteSet(settled'.lines)
    BY <2>1, <2>2, ReplaceKeeps
  <2>4. /\ handling' \in Handling /\ handling'.id = handling.id
        /\ handling.step # "idle"
    BY <1>1, <1>5, StepKeeps DEF ClearJournal
  <2>5. ledger' \in Ledger
    BY <1>1, <1>5 DEF ClearJournal, Ledger
  <2> QED
    BY <1>5, <2>3, <2>4, <2>5 DEF LedgerShape, LedgerTypeOK, ClearJournal
<1>6. ASSUME NEW o \in WriteOutcomes, SaveRegistry(o) PROVE LedgerShape'
  <2>1. handling.id \in Interactions
    BY <1>6 DEF SaveRegistry, LedgerShape
  <2>2. ledger.entries[handling.id] \in Nat /\ LaneOf[handling.id] \in Lanes
    BY <1>1, <2>1, LedgerAssumption DEF Entries
  <2> PICK raised : raised = [registry EXCEPT ![LaneOf[handling.id]] = ledger.entries[handling.id]]
    OBVIOUS
  <2>3. raised \in [Lanes -> Nat]
    BY <1>1, <2>2
  <2> PICK f : f = [disk EXCEPT !.reg = raised]
    OBVIOUS
  <2>4. f \in Files /\ IsFiniteSet(f.lines)
    BY <1>2, <1>3, <2>3 DEF LedgerShape
  <2>5. Replace(f, o) /\ registry' = Saved(raised, o)
    BY <1>6 DEF SaveRegistry
  <2>6. /\ disk' \in Files /\ settled' \in Files
        /\ IsFiniteSet(disk'.lines) /\ IsFiniteSet(settled'.lines)
    BY <2>4, <2>5, ReplaceKeeps
  <2>7. registry' \in [Lanes -> Nat]
    BY <1>1, <2>3, <2>5 DEF Saved
  <2>8. /\ handling' \in Handling /\ handling'.id = handling.id
        /\ handling.step # "idle"
    BY <1>1, <1>6, StepKeeps DEF SaveRegistry
  <2> QED
    BY <1>6, <2>6, <2>7, <2>8 DEF LedgerShape, LedgerTypeOK, SaveRegistry
<1>7. ASSUME NEW o \in AppendOutcomes, AppendLine(o) PROVE LedgerShape'
  <2>1. handling.id \in Interactions
    BY <1>7 DEF AppendLine, LedgerShape
  <2> PICK n : n = NextCount(LaneOf[handling.id])
    OBVIOUS
  <2>2. n \in Nat
    BY <1>1, <2>1, NextCountIs, LedgerAssumption
  <2> PICK f : f = AppendedAs(disk, <<handling.id, n>>, o)
    OBVIOUS
  <2>3. <<handling.id, n>> \in Line
    BY <2>1, <2>2 DEF Line
  <2>4. f \in Files /\ f.lines \in {disk.lines, disk.lines \cup {<<handling.id, n>>}}
    BY <1>1, <2>3, AppendedAsIs
  <2>5. IsFiniteSet(f.lines)
    <3>1. IsFiniteSet(disk.lines)
      BY DEF LedgerShape
    <3> QED
      <4>1. IsFiniteSet(disk.lines \cup {<<handling.id, n>>})
        BY <3>1, FS_AddElement
      <4> QED
        BY <2>4, <3>1, <4>1
  <2>6. /\ disk' \in {disk, f} /\ settled' \in {settled, f}
        /\ written' \in {written, written \cup {handling.id}}
        /\ uncertain' \in BOOLEAN
        /\ \/ ledger' = ledger
           \/ ledger' = [ledger EXCEPT !.entries[handling.id] = n, !.lines = @ + 1]
    BY <1>7 DEF AppendLine, InDoubt, LedgerShape, LedgerTypeOK
  <2>7. ledger' \in Ledger
    <3> PICK l : l = ledger
      OBVIOUS
    <3>1. l \in Ledger
      BY DEF LedgerShape, LedgerTypeOK
    <3>2. [l EXCEPT !.entries[handling.id] = n, !.lines = @ + 1] \in Ledger
      BY <2>1, <2>2, <3>1, EntryAdded
    <3> QED
      BY <2>6, <3>1, <3>2
  <2>8. /\ handling' \in Handling /\ handling'.id = handling.id
        /\ handling.step # "idle"
    BY <1>1, <1>7, StepKeeps DEF AppendLine
  <2>9. /\ disk' \in Files /\ settled' \in Files
        /\ IsFiniteSet(disk'.lines) /\ IsFiniteSet(settled'.lines)
    BY <2>4, <2>5, <2>6 DEF LedgerShape, LedgerTypeOK
  <2>10. written' \subseteq Interactions
    BY <2>1, <2>6 DEF LedgerShape, LedgerTypeOK
  <2> QED
    BY <1>7, <2>1, <2>6, <2>7, <2>8, <2>9, <2>10 DEF LedgerShape, LedgerTypeOK, AppendLine
<1> QED
  BY <1>4, <1>5, <1>6, <1>7 DEF Works

\* A start and a death leave records and files.
LEMMA RestartKeepsShape ==
  ASSUME LedgerShape, DaemonCrash \/ \E o \in WriteOutcomes : DaemonStart(o)
  PROVE  LedgerShape'
<1>1. /\ disk \in Files /\ settled \in Files /\ registry \in [Lanes -> Nat]
      /\ IsFiniteSet(disk.lines) /\ IsFiniteSet(settled.lines)
  BY DEF LedgerShape, LedgerTypeOK
<1>2. ASSUME NEW snap \in Entries, NEW lines \in SUBSET Line,
             NEW tail \in {"clean", "open", "bad"}, NEW reg \in [Lanes -> Nat]
      PROVE  [snap |-> snap, lines |-> lines, tail |-> tail, reg |-> reg] \in Files
  BY DEF Files
<1>3. \A f \in {disk, settled} :
        /\ f = [snap |-> f.snap, lines |-> f.lines, tail |-> f.tail, reg |-> f.reg]
        /\ f.snap \in Entries /\ f.lines \in SUBSET Line
        /\ f.tail \in {"clean", "open", "bad"} /\ f.reg \in [Lanes -> Nat]
  BY <1>1 DEF Files
<1>4. ASSUME DaemonCrash PROVE LedgerShape'
  <2>1. PICK snap \in {disk.snap, settled.snap}, reg \in {disk.reg, settled.reg},
             journal \in {disk, settled} :
          disk' = [snap |-> snap, lines |-> journal.lines, tail |-> journal.tail, reg |-> reg]
    BY <1>4 DEF DaemonCrash
  <2>2. disk' \in Files /\ IsFiniteSet(disk'.lines)
    BY <1>1, <1>2, <1>3, <2>1
  <2>3. /\ registry' \in [Lanes -> Nat] /\ ledger' \in Ledger /\ handling' = Idle
        /\ Idle \in Handling /\ Idle.step = "idle"
    BY <1>4 DEF DaemonCrash, Ledger, Entries, NoEntries, Idle, Handling
  <2>4. /\ settled' = disk' /\ ~daemonUp' /\ ~laneUncertain' /\ ~uncertain'
        /\ clock' = clock /\ created' = created /\ written' = written
        /\ answered' = answered /\ daemonUp' \in BOOLEAN
        /\ laneUncertain' \in BOOLEAN /\ uncertain' \in BOOLEAN
    BY <1>4 DEF DaemonCrash
  <2> QED
    BY <2>2, <2>3, <2>4 DEF LedgerShape, LedgerTypeOK
<1>5. ASSUME NEW o \in WriteOutcomes, DaemonStart(o) PROVE LedgerShape'
  <2> PICK found : found = Folded(disk)
    OBVIOUS
  <2> PICK live : live = Pruned(found)
    OBVIOUS
  <2> PICK repaired : repaired = Reconciled(disk.reg, live)
    OBVIOUS
  <2>1. live \in Entries /\ repaired \in [Lanes -> Nat]
    BY <1>1, <1>3, FoldedIs, PrunedIs, ReconciledIs
  <2> PICK f : f = [disk EXCEPT !.reg = repaired]
    OBVIOUS
  <2>2. f \in Files /\ IsFiniteSet(f.lines)
    BY <1>1, <1>2, <1>3, <2>1
  <2>3. Replace(f, o) \/ UNCHANGED <<disk, settled>>
    BY <1>5 DEF DaemonStart
  <2>4. /\ disk' \in Files /\ settled' \in Files
        /\ IsFiniteSet(disk'.lines) /\ IsFiniteSet(settled'.lines)
    BY <1>1, <2>2, <2>3, ReplaceKeeps
  <2>5. /\ registry' \in {registry, repaired}
        /\ ledger' \in {ledger, [entries |-> live, lines |-> Cardinality(disk.lines),
                                 stale |-> live # found]}
        /\ daemonUp' \in BOOLEAN /\ laneUncertain' \in BOOLEAN
        /\ UNCHANGED <<clock, created, uncertain, handling, written, answered>>
    BY <1>5 DEF DaemonStart
  <2>6. Cardinality(disk.lines) \in Nat
    BY <1>1, FS_CardinalityType
  <2>8. (live # found) \in BOOLEAN
    OBVIOUS
  <2>9. [entries |-> live, lines |-> Cardinality(disk.lines), stale |-> live # found] \in Ledger
    BY <2>1, <2>6, <2>8, Zenon DEF Ledger
  <2>7. ledger' \in Ledger
    BY <2>5, <2>9 DEF LedgerShape, LedgerTypeOK
  <2> QED
    BY <2>1, <2>4, <2>5, <2>7 DEF LedgerShape, LedgerTypeOK
<1> QED
  BY <1>4, <1>5

\* Every step leaves records and files.
LEMMA ShapeKept ==
  ASSUME LedgerShape, flush \in Flush, late \in SUBSET Interactions, [Next]_vars
  PROVE  LedgerShape'
<1>1. ASSUME UNCHANGED ledgerVars PROVE LedgerShape'
  BY <1>1 DEF ledgerVars, LedgerShape, LedgerTypeOK
<1>2. ASSUME NEW i \in Interactions, Capture(i) PROVE LedgerShape'
  <2>1. created' \in Entries
    BY <1>2, StampKeeps DEF Capture, LedgerShape, LedgerTypeOK
  <2> QED
    BY <1>2, <2>1 DEF Capture, LedgerShape, LedgerTypeOK
<1>3. ASSUME NEW i \in Interactions, Arrives(i) PROVE LedgerShape'
  <2>1. Handle(i)
    BY <1>3 DEF Arrives
  <2>2. handling' \in Handling /\ handling'.id = i
    BY <2>1, HandleGoes DEF Handling
  <2> QED
    BY <2>1, <2>2 DEF Handle, LedgerShape, LedgerTypeOK
<1>4. CASE Answers
  <2>1. Respond /\ Idle \in Handling /\ Idle.step = "idle"
    BY <1>4 DEF Answers, Idle, Handling
  <2> QED
    BY <2>1 DEF Respond, LedgerShape, LedgerTypeOK
<1>5. CASE Tick
  <2>1. clock' \in Nat
    BY <1>5 DEF Tick, LedgerShape, LedgerTypeOK
  <2> QED
    BY <1>5, <2>1 DEF Tick, LedgerShape, LedgerTypeOK
<1>6. CASE Works \/ DaemonStarts \/ DaemonCrashes \/ DaemonIsRestarted
  BY <1>6, WorksKeepsShape, RestartKeepsShape
     DEF DaemonStarts, DaemonCrashes, DaemonIsRestarted, DaemonDies
<1>7. CASE Turns \/ Retries \/ Flushes \/ FlushRefused \/ FlushTimesOut \/ BridgeStarts
           \/ BridgeCrashes \/ BridgeIsRestarted \/ LateIsLost \/ UNCHANGED vars
  BY <1>1, <1>7 DEF Turns, Retries, Flushes, FlushRefused, FlushTimesOut, BridgeStarts,
     BridgeCrashes, BridgeIsRestarted, LateIsLost, vars
<1> QED
  BY <1>2, <1>3, <1>4, <1>5, <1>6, <1>7 DEF Next

\* The count of faults stays within its bound.
LEMMA FaultsCounted ==
  ASSUME faults \in 0..MaxFaults, [Next]_vars
  PROVE  faults' \in 0..MaxFaults
<1>1. Fault => faults' \in 0..MaxFaults
  BY ActivityAssumption DEF Fault
<1>2. faults' = faults \/ Fault
  BY DEF Next, Capture, Turns, Retries, Flushes, FlushRefused, FlushTimesOut, BridgeStarts,
     BridgeCrashes, BridgeIsRestarted, Arrives, Answers, LateIsLost, Works, DaemonStarts,
     DaemonCrashes, DaemonIsRestarted, DaemonDies, Tick, Costs, vars
<1> QED
  BY <1>1, <1>2

\* The whole of what is kept about the outbox.
TurnInv == OutboxInv /\ LedgerShape /\ faults \in 0..MaxFaults

\* It holds in every state.
LEMMA TurnInvHolds == Spec => []TurnInv
<1>1. Init => TurnInv
  <2> SUFFICES ASSUME Init PROVE TurnInv
    OBVIOUS
  <2>1. LedgerShape
    <3>1. /\ NoEntries \in Entries /\ Idle \in Handling /\ Idle.step = "idle"
          /\ [l \in Lanes |-> 0] \in [Lanes -> Nat]
      BY DEF NoEntries, Entries, Idle, Handling
    <3> QED
      BY <3>1, FS_EmptySet DEF Init, LedgerInit, LedgerShape, LedgerTypeOK, Files, Ledger
  <2> QED
    BY <2>1, OutboxStarts, ActivityAssumption DEF Init, TurnInv
<1>2. TurnInv /\ [Next]_vars => TurnInv'
  <2> SUFFICES ASSUME TurnInv, [Next]_vars PROVE TurnInv'
    OBVIOUS
  <2>1. handling \in Handling /\ flush \in Flush /\ late \in SUBSET Interactions
    BY DEF TurnInv, LedgerShape, LedgerTypeOK, OutboxInv, OutboxTypeOK
  <2> QED
    BY <2>1, OutboxKept, ShapeKept, FaultsCounted DEF TurnInv
<1> QED
  BY <1>1, <1>2, PTL DEF Spec

\* However captures, failed writes and restarts of either process fall, the
\* outbox has a queue that a restart loads, in both snapshots it may find, and
\* none of its slots is lost.
THEOREM QueueSurvives == Spec => []OutboxIsSound
<1>1. TurnInv => OutboxIsSound
  <2> SUFFICES ASSUME TurnInv PROVE OutboxIsSound
    OBVIOUS
  <2>1. ActivityTypeOK
    BY DEF TurnInv, OutboxInv, LedgerShape, ActivityTypeOK
  <2>2. OutboxLoads
    BY DEF TurnInv, OutboxInv, SnapshotsHold, Holds, OutboxLoads
  <2>3. SlotsAreOwned
    BY DEF TurnInv, OutboxInv, QueueOnFile, SlotsAreOwned, InState
  <2> QED
    BY <2>1, <2>2, <2>3 DEF OutboxIsSound
<1> QED
  BY <1>1, TurnInvHolds, PTL

\* A turn that had a remote effect is never dropped by the bridge before
\* telepathosd answered it as recorded.
THEOREM RanIsNeverLost == Spec => []RanIsRecorded
<1>1. TurnInv => RanIsRecorded
  BY DEF TurnInv, OutboxInv, SnapshotsHold, Holds, RanIsRecorded
<1> QED
  BY <1>1, TurnInvHolds, PTL

-----------------------------------------------------------------------------
(* Lemmas on marks and the turns of a lane *)

\* The turns of a lane are finitely many, and fewer of fewer turns.
LEMMA OfIs ==
  ASSUME NEW T \in SUBSET Interactions, NEW l
  PROVE  /\ IsFiniteSet(Of(l, T)) /\ Cardinality(Of(l, T)) \in Nat
         /\ \A U \in SUBSET T : Cardinality(Of(l, U)) <= Cardinality(Of(l, T))
<1>1. IsFiniteSet(Of(l, T))
  <2>1. Of(l, T) \in SUBSET Interactions
    BY DEF Of
  <2> QED
    BY <2>1, TurnsAssumption, FS_Subset
<1>2. ASSUME NEW U \in SUBSET T PROVE Cardinality(Of(l, U)) <= Cardinality(Of(l, T))
  <2>1. Of(l, U) \in SUBSET Of(l, T)
    BY DEF Of
  <2> QED
    BY <1>1, <2>1, FS_Subset
<1> QED
  BY <1>1, <1>2, FS_CardinalityType

\* One more turn of the lane is one more.
LEMMA OfOneMore ==
  ASSUME NEW T \in SUBSET Interactions, NEW i \in Interactions \ T,
         NEW U \in SUBSET Interactions, T \cup {i} \subseteq U, NEW l, l = LaneOf[i]
  PROVE  Cardinality(Of(l, T)) + 1 <= Cardinality(Of(l, U))
<1>1. IsFiniteSet(Of(l, T)) /\ i \notin Of(l, T) /\ Cardinality(Of(l, T)) \in Nat
  BY OfIs DEF Of
<1>2. Cardinality(Of(l, T) \cup {i}) = Cardinality(Of(l, T)) + 1
  BY <1>1, FS_AddElement
<1>3. Of(l, T) \cup {i} \in SUBSET Of(l, U)
  BY DEF Of
<1>4. IsFiniteSet(Of(l, U))
  BY OfIs
<1> QED
  BY <1>2, <1>3, <1>4, FS_Subset

\* Within a set of turns is within a larger one.
LEMMA WithinMore ==
  ASSUME NEW f \in Files, NEW T \in SUBSET Interactions, NEW U \in SUBSET T, Within(f, U)
  PROVE  Within(f, T)
<1>1. \A l \in Lanes : f.reg[l] \in Nat
  BY DEF Files
<1>2. \A l : /\ Cardinality(Of(l, U)) <= Cardinality(Of(l, T))
             /\ Cardinality(Of(l, U)) \in Nat /\ Cardinality(Of(l, T)) \in Nat
  BY OfIs
<1>3. ASSUME NEW l \in Lanes PROVE f.reg[l] <= Cardinality(Of(l, T))
  <2>1. f.reg[l] <= Cardinality(Of(l, U))
    BY DEF Within
  <2> QED
    BY <1>1, <1>2, <2>1
<1>4. ASSUME NEW i \in Interactions, NEW n \in Nat, Bears(f, i, n)
      PROVE  n <= Cardinality(Of(LaneOf[i], T))
  <2>1. n <= Cardinality(Of(LaneOf[i], U))
    BY <1>4 DEF Within
  <2> QED
    BY <1>2, <2>1
<1> QED
  BY <1>3, <1>4 DEF Within

\* What a crash may leave holds no count that is not in one of the files.
LEMMA SurvivorIs ==
  ASSUME LedgerShape, NEW f \in Survivors
  PROVE  /\ f \in Files /\ IsFiniteSet(f.lines)
         /\ f.reg \in {disk.reg, settled.reg}
         /\ \E snap \in {disk.snap, settled.snap}, journal \in {disk, settled} :
              f.snap = snap /\ f.lines = journal.lines /\ f.tail = journal.tail
         /\ \A i, n : Bears(f, i, n) => Bears(disk, i, n) \/ Bears(settled, i, n)
<1>1. PICK snap \in {disk.snap, settled.snap}, journal \in {disk, settled},
           reg \in {disk.reg, settled.reg} :
        f = [snap |-> snap, lines |-> journal.lines, tail |-> journal.tail, reg |-> reg]
  BY DEF Survivors
<1>2. f.snap = snap /\ f.lines = journal.lines /\ f.tail = journal.tail /\ f.reg = reg
  BY <1>1
<1>3. /\ disk \in Files /\ settled \in Files
      /\ IsFiniteSet(disk.lines) /\ IsFiniteSet(settled.lines)
  BY DEF LedgerShape, LedgerTypeOK
<1>4. f \in Files
  BY <1>1, <1>3 DEF Files
<1>5. \A i, n : Bears(f, i, n) => Bears(disk, i, n) \/ Bears(settled, i, n)
  BY <1>2 DEF Bears
<1> QED
  BY <1>2, <1>3, <1>4, <1>5

\* The files themselves are among what a crash may leave.
LEMMA FilesSurvive ==
  ASSUME disk \in Files, settled \in Files
  PROVE  disk \in Survivors /\ settled \in Survivors
<1>1. /\ disk = [snap |-> disk.snap, lines |-> disk.lines, tail |-> disk.tail,
                 reg |-> disk.reg]
      /\ settled = [snap |-> settled.snap, lines |-> settled.lines,
                    tail |-> settled.tail, reg |-> settled.reg]
  BY DEF Files
<1> QED
  BY <1>1 DEF Survivors

\* A step that records no count that was not recorded keeps the marks apart.
LEMMA MarksKept ==
  ASSUME MarksAgree, written \subseteq written',
         \A i \in Interactions, n \in Nat : Mark(i, n)' => Mark(i, n),
         disk'.lines \cup settled'.lines \subseteq disk.lines \cup settled.lines
  PROVE  MarksAgree'
<1>1. IsFiniteSet(disk'.lines) /\ IsFiniteSet(settled'.lines)
  <2>1. IsFiniteSet(disk.lines \cup settled.lines)
    BY FS_Union DEF MarksAgree
  <2> QED
    BY <2>1, FS_Subset
<1>2. \A x \in disk'.lines \cup settled'.lines : x[2] # 0
  BY DEF MarksAgree
<1>3. \A i \in Interactions, n \in Nat : Mark(i, n)' => i \in written'
  BY DEF MarksAgree
<1>4. \A i \in Interactions, m, n \in Nat : Mark(i, m)' /\ Mark(i, n)' => m = n
  BY DEF MarksAgree
<1> QED
  BY <1>1, <1>2, <1>3, <1>4 DEF MarksAgree

\* Nor does it make counts shared, while no registry falls behind them all.
LEMMA SharedKept ==
  ASSUME LedgerShape, LedgerShape', CountsAreShared, answered' = answered,
         \A i \in Interactions, n \in Nat : Mark(i, n)' => Mark(i, n),
         \A l \in Lanes, f \in {disk', settled'} :
           \E g \in {disk, settled} : g.reg[l] <= f.reg[l]
  PROVE  CountsAreShared'
<1> SUFFICES ASSUME NEW l \in Lanes, NEW f \in {disk', settled'}, NEW m \in Nat,
                    f.reg[l] <= m
             PROVE  Cardinality(Of(l, answered') \cup Marked(l, m)') <= m
  BY DEF CountsAreShared
<1>1. PICK g \in {disk, settled} : g.reg[l] <= f.reg[l]
  OBVIOUS
<1>2. g.reg[l] \in Nat /\ f.reg[l] \in Nat
  BY DEF LedgerShape, LedgerTypeOK, Files
<1>3. Cardinality(Of(l, answered) \cup Marked(l, m)) <= m
  BY <1>1, <1>2 DEF CountsAreShared
<1>4. Marked(l, m)' \subseteq Marked(l, m)
  BY DEF Marked
<1>5. Of(l, answered') = Of(l, answered)
  BY DEF Of
<1> DEFINE S == Of(l, answered) \cup Marked(l, m)
           R == Of(l, answered') \cup Marked(l, m)'
<1>6. S \subseteq Interactions /\ R \in SUBSET S
  BY <1>4, <1>5 DEF Marked, Of, LedgerShape, LedgerTypeOK
<1>7. IsFiniteSet(S)
  BY <1>6, TurnsAssumption, FS_Subset
<1>8. Cardinality(R) <= Cardinality(S) /\ Cardinality(R) \in Nat /\ Cardinality(S) \in Nat
  BY <1>6, <1>7, FS_Subset, FS_CardinalityType
<1> QED
  BY <1>3, <1>8

\* Files are within a set of turns when the files and the ledger were, and they
\* hold nothing else.
LEMMA CountsWithin ==
  ASSUME NEW T, \A f \in {disk, settled} : Within(f, T),
         \A i \in Interactions : ledger.entries[i] <= Cardinality(Of(LaneOf[i], T)),
         NEW g, \A l \in Lanes : g.reg[l] <= Cardinality(Of(l, T)),
         \A i \in Interactions, n \in Nat :
           Bears(g, i, n) => \/ Bears(disk, i, n) \/ Bears(settled, i, n)
                             \/ n # 0 /\ ledger.entries[i] = n
  PROVE  Within(g, T)
  BY DEF Within

\* While the ledger is on file, what it says of the counts says it of whatever
\* a crash may leave.  (Stated of the state after a step.)
LEMMA EarnedUp ==
  ASSUME LedgerShape', LedgerOnFile', daemonUp', ~uncertain',
         \A f \in {disk', settled'} : Within(f, written' \ FreshHere')
  PROVE  /\ \A f \in {disk', settled'} : Within(f, written')
         /\ \A f \in Survivors' : f.tail # "bad" => Within(f, written' \ Fresh(f)')
<1>1. written' \in SUBSET Interactions /\ disk' \in Files /\ settled' \in Files
  BY DEF LedgerShape, LedgerTypeOK
<1>2. \A f \in {disk', settled'} : Within(f, written')
  <2>1. written' \ FreshHere' \in SUBSET written'
    OBVIOUS
  <2> QED
    BY <1>1, <2>1, WithinMore
<1>3. ASSUME NEW f \in Survivors', f.tail # "bad" PROVE Within(f, written' \ Fresh(f)')
  <2>1. PICK snap \in {disk'.snap, settled'.snap}, journal \in {disk', settled'},
             reg \in {disk'.reg, settled'.reg} :
          f = [snap |-> snap, lines |-> journal.lines, tail |-> journal.tail, reg |-> reg]
    BY <1>3 DEF Survivors
  <2>2. f.snap = snap /\ f.lines = journal.lines /\ f.tail = journal.tail /\ f.reg = reg
    BY <2>1
  <2>3. f \in Files
    BY <1>1, <2>1 DEF Files
  <2>4. ASSUME NEW i \in Fresh(f)', ledger'.entries[i] # 0 PROVE FALSE
    <3>1. i \in Interactions /\ Live(i)' /\ \A n \in Nat : ~Bears(f, i, n)
      BY <1>1, <2>4 DEF Fresh, Bears
    <3>2. KnownIn(snap, journal, i, ledger'.entries[i])
      BY <2>4, <3>1 DEF LedgerOnFile, KnownIn
    <3>3. ledger'.entries[i] \in Nat
      BY <3>1 DEF LedgerShape, LedgerTypeOK, Ledger, Entries
    <3>4. Bears(f, i, ledger'.entries[i])
      BY <1>3, <2>2, <2>4, <3>2 DEF KnownIn, Bears
    <3> QED
      BY <3>1, <3>3, <3>4
  <2>5. Fresh(f)' \subseteq FreshHere'
    BY <2>4 DEF Fresh, FreshHere
  <2>6. Within(f, written' \ FreshHere')
    BY <2>2 DEF Within, Bears
  <2>7. written' \ FreshHere' \in SUBSET (written' \ Fresh(f)')
        /\ written' \ Fresh(f)' \in SUBSET Interactions
    BY <1>1, <2>5
  <2> QED
    BY <2>3, <2>6, <2>7, WithinMore
<1> QED
  BY <1>2, <1>3

-----------------------------------------------------------------------------
(* Every step keeps the counts *)

\* Nothing is lost where only the request moves.
LEMMA CountsStand ==
  ASSUME MarksAgree, LedgerOnFile, CountsAreEarned,
         UNCHANGED <<clock, created, daemonUp, ledger, disk, settled, uncertain, written>>
  PROVE  MarksAgree' /\ LedgerOnFile' /\ CountsAreEarned'
<1>1. \A i, n : Mark(i, n)' = Mark(i, n)
  BY DEF Mark, Bears
<1>2. MarksAgree'
  BY <1>1 DEF MarksAgree
<1>3. LedgerOnFile'
  BY DEF LedgerOnFile, Live, Bears, KnownIn, EntryCount
<1>4. Survivors' = Survivors /\ FreshHere' = FreshHere
  BY DEF Survivors, FreshHere, Live
<1>5. \A f : Fresh(f)' = Fresh(f)
  BY DEF Fresh, Live, Bears
<1>6. CountsAreEarned'
  BY <1>4, <1>5 DEF CountsAreEarned, Within, Of, Bears
<1> QED
  BY <1>2, <1>3, <1>6

\* A request that takes the locks.
LEMMA HandleKeepsCounts ==
  ASSUME LedgerShape, LedgerShape', CountInv, NEW i \in Interactions, Handle(i)
  PROVE  CountInv'
<1>1. /\ UNCHANGED <<clock, created, daemonUp, registry, ledger, disk, settled,
                     laneUncertain, uncertain, written, answered>>
      /\ daemonUp
  BY DEF Handle
<1>2. MarksAgree' /\ LedgerOnFile' /\ CountsAreEarned'
  BY <1>1, CountsStand DEF CountInv
<1>3. CountsAreShared'
  <2>1. \A j, n : Mark(j, n)' = Mark(j, n)
    BY <1>1 DEF Mark, Bears
  <2>2. \A l \in Lanes, f \in {disk', settled'} :
          \E g \in {disk, settled} : g.reg[l] <= f.reg[l]
    BY <1>1 DEF LedgerShape, LedgerTypeOK, Files
  <2> QED
    BY <1>1, <2>1, <2>2, SharedKept DEF CountInv
<1>4. HandlingIsSound'
  <2>1. registry = disk.reg /\ (~laneUncertain => settled.reg = registry)
    BY <1>1 DEF CountInv, HandlingIsSound
  <2>2. /\ ledger.entries[i] \in Nat /\ registry[LaneOf[i]] \in Nat
        /\ ledger.lines \in Nat /\ LaneOf[i] \in Lanes
    BY LedgerAssumption DEF LedgerShape, LedgerTypeOK, Ledger, Entries
  <2>3. Live(i)' = Live(i) /\ Compacted' = Compacted
    BY <1>1 DEF Live, Compacted, Pruned
  <2>4. CASE handling' = [id |-> i, step |-> "reply", result |-> "failed"]
              \/ handling' = [id |-> i, step |-> "reply", result |-> "expired"]
    BY <1>1, <2>1, <2>4 DEF HandlingIsSound
  <2>5. CASE /\ handling' = [id |-> i, step |-> "save", result |-> "failed"]
             /\ ~uncertain /\ ~laneUncertain /\ Live(i) /\ Known(i)
             /\ registry[LaneOf[i]] < ledger.entries[i]
    BY <1>1, <2>1, <2>5 DEF HandlingIsSound
  <2>6. CASE /\ handling' = [id |-> i, step |-> "reply", result |-> "recorded"]
             /\ ~uncertain /\ ~laneUncertain /\ Live(i) /\ Known(i)
             /\ ~(registry[LaneOf[i]] < ledger.entries[i])
    <3>1. ledger.entries[i] # 0 /\ ledger.entries[i] <= registry[LaneOf[i]]
      BY <2>2, <2>6 DEF Known
    <3> QED
      BY <1>1, <2>1, <2>6, <3>1 DEF HandlingIsSound
  <2>7. CASE /\ handling' = [id |-> i, step |-> "compact", result |-> "failed"]
             /\ ~uncertain /\ ~laneUncertain /\ Live(i) /\ ~Known(i)
    BY <1>1, <2>1, <2>3, <2>7 DEF HandlingIsSound, Known
  <2>8. CASE /\ handling' = [id |-> i, step |-> "append", result |-> "failed"]
             /\ ~uncertain /\ ~laneUncertain /\ Live(i) /\ ~Known(i)
             /\ ~NeedsCompaction
    <3>1. Compacted = ledger.entries /\ ~ledger.stale /\ ledger.lines < MaxLines
      BY <2>2, <2>8, LedgerAssumption DEF NeedsCompaction, Compacted
    <3> QED
      BY <1>1, <2>1, <2>3, <2>8, <3>1 DEF HandlingIsSound, Known
  <2> QED
    BY <2>4, <2>5, <2>6, <2>7, <2>8, HandleGoes
<1> QED
  BY <1>2, <1>3, <1>4 DEF CountInv, LedgerShape

\* A response; a turn answered as recorded has a count both registries hold.
LEMMA RespondKeepsCounts ==
  ASSUME LedgerShape, LedgerShape', CountInv, Respond
  PROVE  CountInv'
<1>1. /\ UNCHANGED <<clock, created, daemonUp, registry, ledger, disk, settled,
                     laneUncertain, uncertain, written>>
      /\ daemonUp /\ handling.step = "reply" /\ handling' = Idle
      /\ answered' = IF handling.result = "recorded" THEN answered \cup {handling.id}
                     ELSE answered
  BY DEF Respond
<1>2. MarksAgree' /\ LedgerOnFile' /\ CountsAreEarned'
  BY <1>1, CountsStand DEF CountInv
<1>3. \A j, n : Mark(j, n)' = Mark(j, n)
  BY <1>1 DEF Mark, Bears
<1>4. CountsAreShared'
  <2> SUFFICES ASSUME NEW l \in Lanes, NEW f \in {disk, settled}, NEW m \in Nat,
                      f.reg[l] <= m
               PROVE  Cardinality(Of(l, answered') \cup Marked(l, m)') <= m
    BY <1>1 DEF CountsAreShared
  <2>1. Marked(l, m)' = Marked(l, m)
    BY <1>3 DEF Marked
  <2>2. Of(l, answered') \cup Marked(l, m) = Of(l, answered) \cup Marked(l, m)
    <3>1. CASE handling.result = "recorded"
      <4> PICK i : i = handling.id
        OBVIOUS
      <4>1. i \in Interactions /\ answered' = answered \cup {i}
        BY <1>1, <3>1 DEF LedgerShape
      <4>2. ledger.entries[i] # 0 /\ ledger.entries[i] <= f.reg[LaneOf[i]]
        BY <1>1, <3>1 DEF CountInv, HandlingIsSound
      <4>3. CASE LaneOf[i] = l
        <5>1. ledger.entries[i] \in Nat /\ f.reg[l] \in Nat
          BY <4>1 DEF LedgerShape, LedgerTypeOK, Ledger, Entries, Files
        <5>2. ledger.entries[i] \in 1..m
          BY <4>2, <4>3, <5>1
        <5>3. Mark(i, ledger.entries[i])
          BY <4>2 DEF Mark
        <5>4. i \in Marked(l, m)
          BY <4>1, <4>3, <5>2, <5>3 DEF Marked
        <5> QED
          BY <4>1, <5>4 DEF Of
      <4>4. CASE LaneOf[i] # l
        BY <4>1, <4>4 DEF Of
      <4> QED
        BY <4>3, <4>4
    <3>2. CASE handling.result # "recorded"
      BY <1>1, <3>2
    <3> QED
      BY <3>1, <3>2
  <2> QED
    BY <2>1, <2>2 DEF CountInv, CountsAreShared
<1>5. HandlingIsSound'
  BY <1>1 DEF CountInv, HandlingIsSound, Idle
<1> QED
  BY <1>2, <1>4, <1>5 DEF CountInv, LedgerShape

\* Time passes between requests: fewer turns may be tried again.
LEMMA TickKeepsCounts ==
  ASSUME LedgerShape, LedgerShape', CountInv, Tick
  PROVE  CountInv'
<1>1. /\ UNCHANGED <<created, daemonUp, registry, ledger, disk, settled,
                     laneUncertain, uncertain, handling, written, answered>>
      /\ handling = Idle /\ clock' = clock + 1
  BY DEF Tick
<1>2. \A j, n : Mark(j, n)' = Mark(j, n)
  BY <1>1 DEF Mark, Bears
<1>3. MarksAgree'
  BY <1>1, <1>2, MarksKept DEF CountInv
<1>4. CountsAreShared'
  <2>1. \A l \in Lanes, f \in {disk', settled'} :
          \E g \in {disk, settled} : g.reg[l] <= f.reg[l]
    BY <1>1 DEF LedgerShape, LedgerTypeOK, Files
  <2> QED
    BY <1>1, <1>2, <2>1, SharedKept DEF CountInv
<1>5. HandlingIsSound'
  BY <1>1 DEF CountInv, HandlingIsSound, Idle
<1>6. \A i \in Interactions : Live(i)' => Live(i)
  <2> SUFFICES ASSUME NEW i \in Interactions, created'[i] + Window >= clock'
               PROVE  created[i] + Window >= clock
    BY DEF Live
  <2>1. created[i] \in Nat /\ Window \in Nat /\ clock \in Nat /\ created'[i] = created[i]
    BY <1>1, LedgerAssumption DEF LedgerShape, LedgerTypeOK, Entries
  <2>2. clock <= clock'
    BY <1>1, <2>1
  <2>3. created[i] + Window >= clock + 1
    BY <1>1, <2>1
  <2> PICK w \in Nat : w = created[i] + Window
    BY <2>1
  <2> QED
    BY <2>1, <2>3
<1>7. LedgerOnFile'
  <2>1. \A f, i, n : Bears(f, i, n)' = Bears(f, i, n)
    BY DEF Bears
  <2> SUFFICES ASSUME daemonUp, ~uncertain PROVE LedgerOnFile'
    BY <1>1 DEF LedgerOnFile
  <2>2. \A i \in Interactions, n \in Nat :
          (Live(i)' \/ ~ledger.stale) /\ (Bears(disk, i, n) \/ Bears(settled, i, n)) =>
            ledger.entries[i] = n
    BY <1>6 DEF CountInv, LedgerOnFile
  <2>3. \A i \in Interactions : Live(i)' /\ ledger.entries[i] # 0 =>
         \A snap \in {disk.snap, settled.snap}, journal \in {disk, settled} :
           KnownIn(snap, journal, i, ledger.entries[i])
    BY <1>6 DEF CountInv, LedgerOnFile
  <2>4. /\ \A f \in {disk, settled} : Cardinality(f.lines) <= ledger.lines
        /\ ledger.lines <= MaxLines /\ EntryCount(ledger.entries) <= MaxEntries
    BY DEF CountInv, LedgerOnFile
  <2> QED
    BY <1>1, <2>2, <2>3, <2>4 DEF LedgerOnFile, Bears, KnownIn, EntryCount
<1>8. CountsAreEarned'
  <2>1. \A f, T : Within(f, T)' = Within(f, T)
    BY DEF Within, Of, Bears
  <2>2. Survivors' = Survivors
    BY <1>1 DEF Survivors
  <2>3. \A f : Fresh(f)' \subseteq Fresh(f)
    BY <1>1, <1>6 DEF Fresh, Bears, LedgerShape, LedgerTypeOK
  <2>4. FreshHere' \subseteq FreshHere
    BY <1>1, <1>6 DEF FreshHere, LedgerShape, LedgerTypeOK
  <2>5. written \in SUBSET Interactions /\ disk \in Files /\ settled \in Files
    BY DEF LedgerShape, LedgerTypeOK
  <2>6. \A f \in {disk, settled} : Within(f, written)
    BY DEF CountInv, CountsAreEarned
  <2>7. ASSUME NEW f \in Survivors, f.tail # "bad" PROVE Within(f, written \ Fresh(f)')
    <3>1. Within(f, written \ Fresh(f)) /\ f \in Files
      BY <2>7, SurvivorIs DEF CountInv, CountsAreEarned
    <3>2. written \ Fresh(f) \in SUBSET (written \ Fresh(f)')
          /\ written \ Fresh(f)' \in SUBSET Interactions
      BY <2>3, <2>5
    <3> QED
      BY <3>1, <3>2, WithinMore
  <2>8. ASSUME daemonUp, ~uncertain
        PROVE  /\ \A f \in {disk, settled} : Within(f, written \ FreshHere')
               /\ \A i \in Interactions :
                    ledger.entries[i] <= Cardinality(Of(LaneOf[i], written \ FreshHere'))
    <3>1. /\ \A f \in {disk, settled} : Within(f, written \ FreshHere)
          /\ \A i \in Interactions :
               ledger.entries[i] <= Cardinality(Of(LaneOf[i], written \ FreshHere))
      BY <2>8 DEF CountInv, CountsAreEarned
    <3>2. written \ FreshHere \in SUBSET (written \ FreshHere')
          /\ written \ FreshHere' \in SUBSET Interactions
      BY <2>4, <2>5
    <3>3. \A f \in {disk, settled} : Within(f, written \ FreshHere')
      BY <2>5, <3>1, <3>2, WithinMore
    <3>4. ASSUME NEW i \in Interactions
          PROVE  ledger.entries[i] <= Cardinality(Of(LaneOf[i], written \ FreshHere'))
      <4>1. /\ Cardinality(Of(LaneOf[i], written \ FreshHere))
                 <= Cardinality(Of(LaneOf[i], written \ FreshHere'))
            /\ Cardinality(Of(LaneOf[i], written \ FreshHere)) \in Nat
            /\ Cardinality(Of(LaneOf[i], written \ FreshHere')) \in Nat
        BY <3>2, OfIs
      <4>2. ledger.entries[i] \in Nat
        BY DEF LedgerShape, LedgerTypeOK, Ledger, Entries
      <4> QED
        BY <3>1, <4>1, <4>2
    <3> QED
      BY <3>3, <3>4
  <2>9. \A f : Fresh(f)' = {i \in written : Live(i)' /\ \A n \in Nat : ~Bears(f, i, n)}
    BY <1>1 DEF Fresh, Bears
  <2> QED
    BY <1>1, <2>1, <2>2, <2>6, <2>7, <2>8 DEF CountsAreEarned
<1> QED
  BY <1>3, <1>4, <1>5, <1>7, <1>8 DEF CountInv, LedgerShape

\* A capture stamps a turn that the daemon has not heard of.
LEMMA StampKeepsCounts ==
  ASSUME LedgerShape, LedgerShape', CountInv, NEW i \in Interactions,
         i \notin written, i # handling.id,
         created' = [created EXCEPT ![i] = clock + Ahead],
         UNCHANGED <<clock, daemonUp, registry, ledger, disk, settled,
                     laneUncertain, uncertain, handling, written, answered>>
  PROVE  CountInv'
<1>1. \A j, n : Mark(j, n)' = Mark(j, n)
  BY DEF Mark, Bears
<1>2. MarksAgree'
  BY <1>1, MarksKept DEF CountInv
<1>3. CountsAreShared'
  <2>1. \A l \in Lanes, f \in {disk', settled'} :
          \E g \in {disk, settled} : g.reg[l] <= f.reg[l]
    BY DEF LedgerShape, LedgerTypeOK, Files
  <2> QED
    BY <1>1, <2>1, SharedKept DEF CountInv
<1>4. \A j \in Interactions \ {i} : Live(j)' = Live(j)
  BY DEF Live, LedgerShape, LedgerTypeOK, Entries
<1>5. /\ ledger.entries \in Entries /\ ledger.entries[i] \in Nat
      /\ disk.snap[i] \in Nat /\ settled.snap[i] \in Nat
  BY DEF LedgerShape, LedgerTypeOK, Ledger, Entries, Files
<1>6. /\ ledger.entries[i] = 0
      /\ \A n \in Nat : ~Bears(disk, i, n) /\ ~Bears(settled, i, n)
  BY <1>5 DEF CountInv, MarksAgree, Mark
<1>7. Compacted' = Compacted
  <2>1. \A j \in Interactions : (IF Live(j)' THEN ledger.entries[j] ELSE 0)
                                  = (IF Live(j) THEN ledger.entries[j] ELSE 0)
    BY <1>4, <1>6
  <2>2. Compacted' = [j \in Interactions |-> IF Live(j)' THEN ledger.entries[j] ELSE 0]
    BY DEF Compacted, Pruned
  <2>3. Compacted = [j \in Interactions |-> IF Live(j) THEN ledger.entries[j] ELSE 0]
    BY DEF Compacted, Pruned
  <2> QED
    BY <2>1, <2>2, <2>3
<1>8. HandlingIsSound'
  <2>1. handling.id \in Interactions => Live(handling.id)' = Live(handling.id)
    BY <1>4
  <2> QED
    BY <1>7, <2>1 DEF CountInv, HandlingIsSound, Live, Idle
<1>9. LedgerOnFile'
  <2> SUFFICES ASSUME daemonUp, ~uncertain PROVE LedgerOnFile'
    BY DEF LedgerOnFile
  <2>1. \A j \in Interactions, n \in Nat :
          (Live(j)' \/ ~ledger.stale) /\ (Bears(disk, j, n) \/ Bears(settled, j, n)) =>
            ledger.entries[j] = n
    BY <1>4, <1>6 DEF CountInv, LedgerOnFile
  <2>2. \A j \in Interactions : Live(j)' /\ ledger.entries[j] # 0 =>
         \A snap \in {disk.snap, settled.snap}, journal \in {disk, settled} :
           KnownIn(snap, journal, j, ledger.entries[j])
    BY <1>4, <1>6 DEF CountInv, LedgerOnFile
  <2>3. /\ \A f \in {disk, settled} : Cardinality(f.lines) <= ledger.lines
        /\ ledger.lines <= MaxLines /\ EntryCount(ledger.entries) <= MaxEntries
    BY DEF CountInv, LedgerOnFile
  <2> QED
    BY <2>1, <2>2, <2>3 DEF LedgerOnFile, Bears, KnownIn, EntryCount
<1>10. CountsAreEarned'
  <2>1. \A f, T : Within(f, T)' = Within(f, T)
    BY DEF Within, Of, Bears
  <2>2. Survivors' = Survivors
    BY DEF Survivors
  <2>3. written \subseteq Interactions \ {i}
    BY DEF LedgerShape, LedgerTypeOK
  <2>4. \A f : Fresh(f)' = Fresh(f)
    BY <1>4, <2>3 DEF Fresh, Bears
  <2>5. FreshHere' = FreshHere
    BY <1>4, <2>3 DEF FreshHere
  <2> QED
    BY <2>1, <2>2, <2>4, <2>5 DEF CountInv, CountsAreEarned, Of
<1> QED
  BY <1>2, <1>3, <1>8, <1>9, <1>10 DEF CountInv, LedgerShape

\* The compaction's snapshot holds entries of the ledger, and all that are live.
LEMMA CompactKeepsCounts ==
  ASSUME LedgerShape, LedgerShape', CountInv,
         NEW o \in WriteOutcomes, CompactSnapshot(o)
  PROVE  CountInv'
<1>1. /\ UNCHANGED <<clock, created, daemonUp, registry, ledger, laneUncertain,
                     uncertain, written, answered>>
      /\ daemonUp /\ handling.step = "compact"
  BY DEF CompactSnapshot
<1>2. /\ ~uncertain /\ ~laneUncertain /\ handling.id \in Interactions
      /\ registry = disk.reg /\ settled.reg = registry
      /\ Live(handling.id) /\ ledger.entries[handling.id] = 0
  BY <1>1 DEF CountInv, HandlingIsSound
<1>3. /\ disk \in Files /\ settled \in Files /\ ledger.entries \in Entries
      /\ handling \in Handling /\ written \in SUBSET Interactions
  BY DEF LedgerShape, LedgerTypeOK, Ledger
<1> PICK f : f = [disk EXCEPT !.snap = Compacted]
  OBVIOUS
<1>4. f.snap = Compacted /\ f.lines = disk.lines /\ f.tail = disk.tail /\ f.reg = disk.reg
  BY <1>3 DEF Files
<1>5. Replace(f, o)
  BY DEF CompactSnapshot
<1>6. /\ disk' \in {disk, f} /\ settled' \in {settled, f}
      /\ o = "ok" => disk' = f /\ settled' = f
  BY <1>5 DEF Replace
<1>7. \A j \in Interactions : Compacted[j] = IF Live(j) THEN ledger.entries[j] ELSE 0
  BY <1>3, PrunedIs DEF Compacted
<1>8. \A g \in {disk', settled'}, j \in Interactions, n \in Nat :
        Bears(g, j, n) => \/ Bears(disk, j, n) \/ Bears(settled, j, n)
                          \/ n # 0 /\ ledger.entries[j] = n
  BY <1>4, <1>6, <1>7 DEF Bears
<1>9. \A j \in Interactions, n \in Nat : Mark(j, n)' => Mark(j, n)
  <2>1. \A j, n : Bears(disk, j, n)' = Bears(disk', j, n)
                  /\ Bears(settled, j, n)' = Bears(settled', j, n)
    BY DEF Bears
  <2> QED
    BY <1>1, <1>8, <2>1 DEF Mark
<1>10. disk'.lines \cup settled'.lines \subseteq disk.lines \cup settled.lines
  BY <1>4, <1>6
<1>11. MarksAgree'
  BY <1>1, <1>9, <1>10, MarksKept DEF CountInv
<1>12. CountsAreShared'
  <2>1. \A l \in Lanes, g \in {disk', settled'} :
          \E h \in {disk, settled} : h.reg[l] <= g.reg[l]
    BY <1>3, <1>4, <1>6 DEF Files
  <2> QED
    BY <1>1, <1>9, <2>1, SharedKept DEF CountInv
<1>13. HandlingIsSound'
  <2>1. /\ disk'.reg = registry /\ settled'.reg = registry
    BY <1>2, <1>4, <1>6
  <2>2. Compacted' = Compacted
    BY <1>1 DEF Compacted, Pruned, Live
  <2>3. CASE o = "ok"
    <3>1. handling'.step = "clear" /\ handling'.id = handling.id
      BY <1>3, <2>3 DEF CompactSnapshot, Step, Handling
    <3> QED
      BY <1>1, <1>2, <1>4, <1>6, <2>1, <2>2, <2>3, <3>1 DEF HandlingIsSound, Live, Idle
  <2>4. CASE o # "ok"
    <3>1. /\ handling'.step = "reply" /\ handling'.id = handling.id
          /\ handling'.result = "failed"
      BY <1>3, <2>4 DEF CompactSnapshot, Reply, Handling
    <3> QED
      BY <1>1, <1>2, <2>1, <3>1 DEF HandlingIsSound
  <2> QED
    BY <2>3, <2>4
<1>14. LedgerOnFile'
  <2>1. \A j \in Interactions, n \in Nat :
          (Live(j) \/ ~ledger.stale) /\ (Bears(disk', j, n) \/ Bears(settled', j, n)) =>
            ledger.entries[j] = n
    BY <1>1, <1>2, <1>8 DEF CountInv, LedgerOnFile
  <2>2. ASSUME NEW j \in Interactions, Live(j), ledger.entries[j] # 0,
               NEW snap \in {disk'.snap, settled'.snap}, NEW journal \in {disk', settled'}
        PROVE  KnownIn(snap, journal, j, ledger.entries[j])
    <3>1. \A s \in {disk.snap, settled.snap}, g \in {disk, settled} :
            KnownIn(s, g, j, ledger.entries[j])
      BY <1>1, <1>2, <2>2 DEF CountInv, LedgerOnFile
    <3>2. snap \in {disk.snap, settled.snap, Compacted}
      BY <1>4, <1>6
    <3>3. PICK g \in {disk, settled} : journal.lines = g.lines /\ journal.tail = g.tail
      BY <1>4, <1>6
    <3>4. CASE snap = Compacted
      BY <1>7, <2>2, <3>4 DEF KnownIn
    <3>5. CASE snap \in {disk.snap, settled.snap}
      BY <3>1, <3>3, <3>5 DEF KnownIn
    <3> QED
      BY <3>2, <3>4, <3>5
  <2>3. /\ \A g \in {disk', settled'} : Cardinality(g.lines) <= ledger.lines
        /\ ledger.lines <= MaxLines /\ EntryCount(ledger.entries) <= MaxEntries
    BY <1>1, <1>2, <1>4, <1>6 DEF CountInv, LedgerOnFile
  <2>4. \A j : Live(j)' = Live(j)
    BY <1>1 DEF Live
  <2>5. \A j, n : Bears(disk, j, n)' = Bears(disk', j, n)
                  /\ Bears(settled, j, n)' = Bears(settled', j, n)
    BY DEF Bears
  <2> QED
    BY <1>1, <2>1, <2>2, <2>3, <2>4, <2>5 DEF LedgerOnFile, KnownIn, EntryCount
<1>15. CountsAreEarned'
  <2>1. /\ \A g \in {disk, settled} : Within(g, written \ FreshHere)
        /\ \A j \in Interactions :
             ledger.entries[j] <= Cardinality(Of(LaneOf[j], written \ FreshHere))
    BY <1>1, <1>2 DEF CountInv, CountsAreEarned
  <2>2. \A g \in {disk', settled'} : Within(g, written \ FreshHere)
    <3>1. ASSUME NEW g \in {disk', settled'}
          PROVE  \A l \in Lanes : g.reg[l] <= Cardinality(Of(l, written \ FreshHere))
      BY <1>4, <1>6, <2>1 DEF Within
    <3> QED
      BY <1>8, <2>1, <3>1, CountsWithin
  <2>3. FreshHere' = FreshHere
    BY <1>1 DEF FreshHere, Live
  <2>4. \A g, T : Within(g, T)' = Within(g, T)
    BY DEF Within, Of, Bears
  <2>5. /\ \A g \in {disk', settled'} : Within(g, written')
        /\ \A g \in Survivors' : g.tail # "bad" => Within(g, written' \ Fresh(g)')
    BY <1>1, <1>2, <1>14, <2>2, <2>3, <2>4, EarnedUp
  <2> QED
    BY <1>1, <2>1, <2>2, <2>3, <2>4, <2>5 DEF CountsAreEarned
<1> QED
  BY <1>11, <1>12, <1>13, <1>14, <1>15 DEF CountInv, LedgerShape

\* A count is an entry's, and the sum of entries falls with them.
LEMMA EntryCountFewer ==
  ASSUME NEW d, NEW e, \A i \in Interactions : d[i] # 0 => e[i] # 0
  PROVE  EntryCount(d) <= EntryCount(e) /\ EntryCount(d) \in Nat /\ EntryCount(e) \in Nat
<1> DEFINE D == {i \in Interactions : d[i] # 0}
           E == {i \in Interactions : e[i] # 0}
<1>1. E \in SUBSET Interactions /\ D \in SUBSET E
  OBVIOUS
<1>2. IsFiniteSet(E) /\ IsFiniteSet(D)
  BY <1>1, TurnsAssumption, FS_Subset
<1>3. Cardinality(D) <= Cardinality(E) /\ Cardinality(D) \in Nat /\ Cardinality(E) \in Nat
  BY <1>1, <1>2, FS_Subset, FS_CardinalityType
<1> QED
  BY <1>3 DEF EntryCount

\* The cleared journal leaves what the snapshot holds; then the ledger drops
\* what expired.
LEMMA ClearKeepsCounts ==
  ASSUME LedgerShape, LedgerShape', CountInv,
         NEW o \in WriteOutcomes, ClearJournal(o)
  PROVE  CountInv'
<1>1. /\ UNCHANGED <<clock, created, daemonUp, registry, laneUncertain,
                     uncertain, written, answered>>
      /\ daemonUp /\ handling.step = "clear"
  BY DEF ClearJournal
<1>2. /\ ~uncertain /\ ~laneUncertain /\ handling.id \in Interactions
      /\ registry = disk.reg /\ settled.reg = registry
      /\ Live(handling.id) /\ ledger.entries[handling.id] = 0
      /\ disk.snap = Compacted /\ settled.snap = Compacted
  BY <1>1 DEF CountInv, HandlingIsSound
<1>3. /\ disk \in Files /\ settled \in Files /\ ledger.entries \in Entries
      /\ handling \in Handling /\ written \in SUBSET Interactions
  BY DEF LedgerShape, LedgerTypeOK, Ledger
<1> PICK f : f = [disk EXCEPT !.lines = {}, !.tail = "clean"]
  OBVIOUS
<1>4. f.snap = disk.snap /\ f.lines = {} /\ f.tail = "clean" /\ f.reg = disk.reg
  BY <1>3 DEF Files
<1>5. Replace(f, o)
  BY DEF ClearJournal
<1>6. /\ disk' \in {disk, f} /\ settled' \in {settled, f}
      /\ o = "ok" => disk' = f /\ settled' = f
  BY <1>5 DEF Replace
<1>7. \A j \in Interactions : Compacted[j] = IF Live(j) THEN ledger.entries[j] ELSE 0
  BY <1>3, PrunedIs DEF Compacted
<1>17. /\ o = "ok" => /\ ledger'.entries = Compacted /\ ledger'.lines = 0
                      /\ ledger'.stale = FALSE
       /\ o # "ok" => ledger' = ledger
  BY DEF ClearJournal
<1>18. \A j : Live(j)' = Live(j)
  BY <1>1 DEF Live
<1>19. \A j, n : Bears(disk, j, n)' = Bears(disk', j, n)
                  /\ Bears(settled, j, n)' = Bears(settled', j, n)
  BY DEF Bears
<1>20. \A j \in Interactions : ledger'.entries[j] \in {0, ledger.entries[j]}
                               /\ (Live(j) => ledger'.entries[j] = ledger.entries[j])
  BY <1>7, <1>17
<1>8. \A g \in {disk', settled'}, j \in Interactions, n \in Nat :
        Bears(g, j, n) => Bears(disk, j, n) \/ Bears(settled, j, n)
  BY <1>4, <1>6 DEF Bears
<1>9. \A j \in Interactions, n \in Nat : Mark(j, n)' => Mark(j, n)
  BY <1>8, <1>19, <1>20 DEF Mark
<1>10. disk'.lines \cup settled'.lines \subseteq disk.lines \cup settled.lines
  BY <1>4, <1>6
<1>11. MarksAgree'
  BY <1>1, <1>9, <1>10, MarksKept DEF CountInv
<1>12. CountsAreShared'
  <2>1. \A l \in Lanes, g \in {disk', settled'} :
          \E h \in {disk, settled} : h.reg[l] <= g.reg[l]
    <3>1. \A g \in {disk', settled'} : g.reg \in {disk.reg, settled.reg}
      BY <1>4, <1>6
    <3>2. \A l \in Lanes : disk.reg[l] \in Nat /\ settled.reg[l] \in Nat
      BY <1>3 DEF Files
    <3> QED
      BY <3>1, <3>2
  <2> QED
    BY <1>1, <1>9, <2>1, SharedKept DEF CountInv
<1>13. HandlingIsSound'
  <2>1. /\ disk'.reg = registry /\ settled'.reg = registry
    BY <1>2, <1>4, <1>6
  <2>2. CASE o = "ok"
    <3>1. handling'.step = "append" /\ handling'.id = handling.id
      BY <1>3, <2>2 DEF ClearJournal, Step, Handling
    <3>2. Compacted' = [j \in Interactions |-> IF Live(j) THEN Compacted[j] ELSE 0]
      BY <1>17, <1>18, <2>2 DEF Compacted, Pruned
    <3>3. Compacted = [j \in Interactions |-> Compacted[j]]
      BY DEF Compacted, Pruned
    <3>4. \A j \in Interactions : (IF Live(j) THEN Compacted[j] ELSE 0) = Compacted[j]
      BY <1>7
    <3>5. Compacted' = ledger'.entries
      BY <1>17, <2>2, <3>2, <3>3, <3>4
    <3>6. ledger'.lines < MaxLines
      <4>1. ledger'.lines = 0
        BY <1>17, <2>2
      <4> QED
        BY <4>1, LedgerAssumption
    <3>8. ~ledger'.stale
      BY <1>17, <2>2
    <3>7. ledger'.entries[handling.id] = 0 /\ Live(handling.id)'
      BY <1>1, <1>2, <1>20, <3>1 DEF Live
    <3>9. /\ daemonUp' /\ ~uncertain' /\ ~laneUncertain' /\ registry' = registry
          /\ handling'.id \in Interactions
      BY <1>1, <1>2, <3>1
    <3> QED
      BY <2>1, <3>1, <3>5, <3>6, <3>7, <3>8, <3>9 DEF HandlingIsSound
  <2>4. CASE o # "ok"
    <3>1. /\ handling'.step = "reply" /\ handling'.id = handling.id
          /\ handling'.result = "failed"
      BY <1>3, <2>4 DEF ClearJournal, Reply, Handling
    <3> QED
      BY <1>1, <1>2, <2>1, <3>1 DEF HandlingIsSound
  <2> QED
    BY <2>2, <2>4
<1>14. LedgerOnFile'
  <2>1. ASSUME NEW j \in Interactions, NEW n \in Nat, Live(j) \/ ~ledger'.stale,
               Bears(disk', j, n) \/ Bears(settled', j, n)
        PROVE  ledger'.entries[j] = n
    <3>1. CASE o = "ok"
      <4>1. Bears(f, j, n)
        BY <1>6, <2>1, <3>1
      <4> QED
        BY <1>2, <1>4, <1>17, <3>1, <4>1 DEF Bears
    <3>2. CASE o # "ok"
      BY <1>1, <1>2, <1>8, <1>17, <2>1, <3>2 DEF CountInv, LedgerOnFile
    <3> QED
      BY <3>1, <3>2
  <2>2. ASSUME NEW j \in Interactions, Live(j), ledger'.entries[j] # 0,
               NEW snap \in {disk'.snap, settled'.snap}, NEW journal \in {disk', settled'}
        PROVE  KnownIn(snap, journal, j, ledger'.entries[j])
    <3>1. snap = Compacted
      BY <1>2, <1>4, <1>6
    <3> QED
      BY <1>7, <1>20, <2>2, <3>1 DEF KnownIn
  <2>3. /\ \A g \in {disk', settled'} : Cardinality(g.lines) <= ledger'.lines
        /\ ledger'.lines <= MaxLines /\ EntryCount(ledger'.entries) <= MaxEntries
    <3>1. /\ \A g \in {disk, settled} : Cardinality(g.lines) <= ledger.lines
          /\ ledger.lines <= MaxLines /\ EntryCount(ledger.entries) <= MaxEntries
      BY <1>1, <1>2 DEF CountInv, LedgerOnFile
    <3>2. Cardinality(f.lines) = 0 /\ MaxLines \in Nat /\ ledger.lines \in Nat
      BY <1>4, FS_EmptySet, LedgerAssumption DEF LedgerShape, LedgerTypeOK, Ledger
    <3>3. EntryCount(ledger'.entries) <= MaxEntries
      <4>1. /\ EntryCount(ledger'.entries) <= EntryCount(ledger.entries)
            /\ EntryCount(ledger'.entries) \in Nat /\ EntryCount(ledger.entries) \in Nat
        BY <1>20, EntryCountFewer
      <4>2. EntryCount(ledger.entries) <= MaxEntries /\ MaxEntries \in Nat
        BY <3>1, LedgerAssumption
      <4> PICK a, b : a = EntryCount(ledger'.entries) /\ b = EntryCount(ledger.entries)
        OBVIOUS
      <4>3. a \in Nat /\ b \in Nat /\ a <= b /\ b <= MaxEntries
        BY <4>1, <4>2
      <4> QED
        BY <4>2, <4>3
    <3>4. CASE o = "ok"
      <4>1. \A g \in {disk', settled'} : Cardinality(g.lines) = 0
        BY <1>6, <3>2, <3>4
      <4>2. ledger'.lines = 0 /\ 0 <= MaxLines
        BY <1>17, <3>2, <3>4
      <4> QED
        BY <3>3, <4>1, <4>2
    <3>5. CASE o # "ok"
      <4>1. ledger' = ledger
        BY <1>17, <3>5
      <4>2. \A g \in {disk', settled'} : g \in {disk, settled} \/ Cardinality(g.lines) = 0
        BY <1>6, <3>2
      <4> QED
        BY <3>1, <3>2, <3>3, <4>1, <4>2
    <3> QED
      BY <3>4, <3>5
  <2> QED
    BY <1>1, <1>18, <1>19, <2>1, <2>2, <2>3 DEF LedgerOnFile, KnownIn, EntryCount
<1>15. CountsAreEarned'
  <2>1. /\ \A g \in {disk, settled} : Within(g, written \ FreshHere)
        /\ \A j \in Interactions :
             ledger.entries[j] <= Cardinality(Of(LaneOf[j], written \ FreshHere))
    BY <1>1, <1>2 DEF CountInv, CountsAreEarned
  <2>2. \A g \in {disk', settled'} : Within(g, written \ FreshHere)
    <3>1. ASSUME NEW g \in {disk', settled'}
          PROVE  \A l \in Lanes : g.reg[l] <= Cardinality(Of(l, written \ FreshHere))
      BY <1>4, <1>6, <2>1 DEF Within
    <3> QED
      BY <1>8, <2>1, <3>1, CountsWithin
  <2>3. FreshHere' = FreshHere
    BY <1>1, <1>3, <1>18, <1>20 DEF FreshHere
  <2>4. \A j \in Interactions :
          ledger'.entries[j] <= Cardinality(Of(LaneOf[j], written \ FreshHere))
    <3>1. \A j \in Interactions : Cardinality(Of(LaneOf[j], written \ FreshHere)) \in Nat
      <4>1. written \ FreshHere \in SUBSET Interactions
        BY <1>3
      <4> QED
        BY <4>1, OfIs
    <3> QED
      BY <1>20, <2>1, <3>1
  <2>5. /\ \A g \in {disk', settled'} : Within(g, written')
        /\ \A g \in Survivors' : g.tail # "bad" => Within(g, written' \ Fresh(g)')
    BY <1>1, <1>2, <1>14, <2>2, <2>3, EarnedUp
  <2> QED
    BY <1>1, <2>2, <2>3, <2>4, <2>5 DEF CountsAreEarned, Within, Of, Bears
<1> QED
  BY <1>11, <1>12, <1>13, <1>14, <1>15 DEF CountInv, LedgerShape

\* The saved registry holds the count of an entry.
LEMMA SaveKeepsCounts ==
  ASSUME LedgerShape, LedgerShape', CountInv,
         NEW o \in WriteOutcomes, SaveRegistry(o)
  PROVE  CountInv'
<1> PICK i : i = handling.id
  OBVIOUS
<1> PICK l : l = LaneOf[i]
  OBVIOUS
<1> PICK n : n = ledger.entries[i]
  OBVIOUS
<1> PICK raised : raised = [registry EXCEPT ![l] = n]
  OBVIOUS
<1>1. /\ UNCHANGED <<clock, created, daemonUp, ledger, uncertain, written, answered>>
      /\ daemonUp /\ handling.step = "save"
      /\ registry' = Saved(raised, o)
      /\ laneUncertain' = (o = "post")
      /\ Replace([disk EXCEPT !.reg = raised], o)
  BY DEF SaveRegistry
<1>2. /\ ~uncertain /\ ~laneUncertain /\ i \in Interactions
      /\ registry = disk.reg /\ settled.reg = registry
      /\ registry[l] < n
  BY <1>1 DEF CountInv, HandlingIsSound
<1>3. /\ disk \in Files /\ settled \in Files /\ ledger.entries \in Entries
      /\ handling \in Handling /\ written \in SUBSET Interactions
      /\ registry \in [Lanes -> Nat] /\ l \in Lanes /\ n \in Nat
  BY <1>2, LedgerAssumption DEF LedgerShape, LedgerTypeOK, Ledger, Entries
<1> PICK f : f = [disk EXCEPT !.reg = raised]
  OBVIOUS
<1>4. f.snap = disk.snap /\ f.lines = disk.lines /\ f.tail = disk.tail /\ f.reg = raised
  BY <1>3 DEF Files
<1>5. Replace(f, o)
  BY <1>1
<1>6. /\ disk' \in {disk, f} /\ settled' \in {settled, f}
      /\ o = "ok" => disk' = f /\ settled' = f
      /\ o = "pre" => disk' = disk /\ settled' = settled
      /\ o # "pre" => disk' = f
  BY <1>5 DEF Replace
<1>7. /\ raised \in [Lanes -> Nat] /\ raised[l] = n
      /\ \A k \in Lanes : registry[k] <= raised[k] /\ (k # l => raised[k] = registry[k])
  BY <1>2, <1>3
<1>8. \A g \in {disk', settled'}, j \in Interactions, m \in Nat :
        Bears(g, j, m) => Bears(disk, j, m) \/ Bears(settled, j, m)
  BY <1>4, <1>6 DEF Bears
<1>18. \A j : Live(j)' = Live(j)
  BY <1>1 DEF Live
<1>19. \A j, m : Bears(disk, j, m)' = Bears(disk', j, m)
                 /\ Bears(settled, j, m)' = Bears(settled', j, m)
  BY DEF Bears
<1>9. \A j \in Interactions, m \in Nat : Mark(j, m)' => Mark(j, m)
  BY <1>1, <1>8, <1>19 DEF Mark
<1>10. disk'.lines \cup settled'.lines \subseteq disk.lines \cup settled.lines
  BY <1>4, <1>6
<1>11. MarksAgree'
  BY <1>1, <1>9, <1>10, MarksKept DEF CountInv
<1>12. CountsAreShared'
  <2>1. \A k \in Lanes, g \in {disk', settled'} :
          \E h \in {disk, settled} : h.reg[k] <= g.reg[k]
    BY <1>2, <1>3, <1>4, <1>6, <1>7 DEF Files
  <2> QED
    BY <1>1, <1>9, <2>1, SharedKept DEF CountInv
<1>13. HandlingIsSound'
  <2>1. /\ handling'.step = "reply" /\ handling'.id = i
        /\ handling'.result = "recorded" => o = "ok"
    BY <1>3 DEF SaveRegistry, Reply, Handling
  <2>2. registry' = disk'.reg /\ (o # "post" => settled'.reg = registry')
    BY <1>1, <1>2, <1>4, <1>6, LedgerOutcomes DEF Saved
  <2>3. o = "ok" => disk'.reg[l] = n /\ settled'.reg[l] = n
    BY <1>4, <1>6, <1>7
  <2>4. n # 0 /\ n <= n
    BY <1>2, <1>3
  <2>5. handling'.result = "recorded" =>
          /\ ledger'.entries[handling'.id] # 0
          /\ \A g \in {disk', settled'} :
               ledger'.entries[handling'.id] <= g.reg[LaneOf[handling'.id]]
    BY <1>1, <2>1, <2>3, <2>4
  <2>6. daemonUp' /\ (laneUncertain' = (o = "post")) /\ i \in Interactions
    BY <1>1, <1>2
  <2> QED
    BY <2>1, <2>2, <2>5, <2>6 DEF HandlingIsSound
<1>14. LedgerOnFile'
  <2>1. \A j \in Interactions, m \in Nat :
          (Live(j) \/ ~ledger.stale) /\ (Bears(disk', j, m) \/ Bears(settled', j, m)) =>
            ledger.entries[j] = m
    BY <1>1, <1>2, <1>8 DEF CountInv, LedgerOnFile
  <2>2. ASSUME NEW j \in Interactions, Live(j), ledger.entries[j] # 0,
               NEW snap \in {disk'.snap, settled'.snap}, NEW journal \in {disk', settled'}
        PROVE  KnownIn(snap, journal, j, ledger.entries[j])
    <3>1. \A s \in {disk.snap, settled.snap}, g \in {disk, settled} :
            KnownIn(s, g, j, ledger.entries[j])
      BY <1>1, <1>2, <2>2 DEF CountInv, LedgerOnFile
    <3>2. snap \in {disk.snap, settled.snap}
      BY <1>4, <1>6
    <3>3. PICK g \in {disk, settled} : journal.lines = g.lines /\ journal.tail = g.tail
      BY <1>4, <1>6
    <3> QED
      BY <3>1, <3>2, <3>3 DEF KnownIn
  <2>3. /\ \A g \in {disk', settled'} : Cardinality(g.lines) <= ledger.lines
        /\ ledger.lines <= MaxLines /\ EntryCount(ledger.entries) <= MaxEntries
    BY <1>1, <1>2, <1>4, <1>6 DEF CountInv, LedgerOnFile
  <2> QED
    BY <1>1, <1>18, <1>19, <2>1, <2>2, <2>3 DEF LedgerOnFile, KnownIn, EntryCount
<1>15. CountsAreEarned'
  <2>1. /\ \A g \in {disk, settled} : Within(g, written \ FreshHere)
        /\ \A j \in Interactions :
             ledger.entries[j] <= Cardinality(Of(LaneOf[j], written \ FreshHere))
    BY <1>1, <1>2 DEF CountInv, CountsAreEarned
  <2>2. \A g \in {disk', settled'} : Within(g, written \ FreshHere)
    <3>1. ASSUME NEW g \in {disk', settled'}, NEW k \in Lanes
          PROVE  g.reg[k] <= Cardinality(Of(k, written \ FreshHere))
      <4>1. /\ \A h \in {disk, settled} : h.reg[k] <= Cardinality(Of(k, written \ FreshHere))
            /\ n <= Cardinality(Of(l, written \ FreshHere))
        BY <1>2, <2>1 DEF Within
      <4>2. g.reg[k] \in {disk.reg[k], settled.reg[k], raised[k]}
        <5>1. g = disk \/ g = settled \/ g = f
          BY <1>6
        <5> QED
          BY <1>4, <5>1
      <4> QED
        BY <1>2, <1>7, <4>1, <4>2
    <3> QED
      BY <1>8, <2>1, <3>1, CountsWithin
  <2>3. FreshHere' = FreshHere
    BY <1>1, <1>18 DEF FreshHere
  <2>5. /\ \A g \in {disk', settled'} : Within(g, written')
        /\ \A g \in Survivors' : g.tail # "bad" => Within(g, written' \ Fresh(g)')
    BY <1>1, <1>2, <1>14, <2>2, <2>3, EarnedUp
  <2> QED
    BY <1>1, <2>1, <2>2, <2>3, <2>5 DEF CountsAreEarned, Within, Of, Bears
<1> QED
  BY <1>11, <1>12, <1>13, <1>14, <1>15 DEF CountInv, LedgerShape

\* What holds before an append: the turn has no count, every count is an entry,
\* and the new one is next to one that is earned.
LEMMA BeforeAppend ==
  ASSUME LedgerShape, CountInv, daemonUp, handling.step = "append",
         NEW i, i = handling.id, NEW l, l = LaneOf[i], NEW n, n = NextCount(l)
  PROVE  /\ ~uncertain /\ ~laneUncertain /\ ~ledger.stale
         /\ ledger.lines < MaxLines /\ Live(i) /\ ledger.entries[i] = 0
         /\ i \in Interactions /\ l \in Lanes /\ n \in Nat /\ n # 0
         /\ registry[l] < n /\ registry = disk.reg /\ settled.reg = registry
         /\ \A j \in Interactions, m \in Nat : Mark(j, m) => m # 0 /\ ledger.entries[j] = m
         /\ \A j \in Interactions : LaneOf[j] = l => ledger.entries[j] < n
         /\ n <= Cardinality(Of(l, written \ FreshHere)) + 1
         /\ i \notin written \ FreshHere
<1>1. /\ ~uncertain /\ ~laneUncertain /\ i \in Interactions
      /\ Live(i) /\ ledger.entries[i] = 0 /\ ~ledger.stale /\ ledger.lines < MaxLines
      /\ registry = disk.reg /\ settled.reg = registry
  BY DEF CountInv, HandlingIsSound
<1>2. l \in Lanes /\ registry \in [Lanes -> Nat] /\ ledger.entries \in Entries
  BY <1>1, LedgerAssumption DEF LedgerShape, LedgerTypeOK, Ledger
<1>3. /\ n \in Nat /\ n # 0 /\ registry[l] < n
      /\ \A j \in Interactions : LaneOf[j] = l => ledger.entries[j] < n
      /\ \/ n = registry[l] + 1
         \/ \E j \in Interactions :
              LaneOf[j] = l /\ ledger.entries[j] # 0 /\ n = ledger.entries[j] + 1
  BY <1>2, NextCountIs
<1>4. ASSUME NEW j \in Interactions, NEW m \in Nat, Mark(j, m)
      PROVE  m # 0 /\ ledger.entries[j] = m
  BY <1>1, <1>4 DEF Mark, CountInv, LedgerOnFile, Bears
<1>5. n <= Cardinality(Of(l, written \ FreshHere)) + 1
  <2> PICK c : c = Cardinality(Of(l, written \ FreshHere))
    OBVIOUS
  <2>1. c \in Nat
    <3>1. written \ FreshHere \in SUBSET Interactions
      BY DEF LedgerShape, LedgerTypeOK
    <3> QED
      BY <3>1, OfIs
  <2>2. Within(disk, written \ FreshHere)
    BY <1>1 DEF CountInv, CountsAreEarned
  <2>3. registry[l] <= c
    BY <1>1, <1>2, <2>2 DEF Within
  <2>4. \A j \in Interactions : LaneOf[j] = l => ledger.entries[j] <= c
    BY <1>1 DEF CountInv, CountsAreEarned
  <2>5. registry[l] \in Nat /\ \A j \in Interactions : ledger.entries[j] \in Nat
    BY <1>2 DEF Entries
  <2>6. CASE n = registry[l] + 1
    BY <2>1, <2>3, <2>5, <2>6
  <2>7. ASSUME NEW j \in Interactions, LaneOf[j] = l, n = ledger.entries[j] + 1
        PROVE  n <= c + 1
    <3> PICK m : m = ledger.entries[j]
      OBVIOUS
    <3>1. m \in Nat /\ m <= c /\ n = m + 1
      BY <2>4, <2>5, <2>7
    <3> QED
      BY <2>1, <3>1
  <2> QED
    BY <1>3, <2>6, <2>7
<1>6. i \notin written \ FreshHere
  BY <1>1 DEF FreshHere
<1> QED
  BY <1>1, <1>2, <1>3, <1>4, <1>5, <1>6

\* An append that adds at most this one count keeps the marks apart.
LEMMA AppendMarks ==
  ASSUME LedgerShape, LedgerShape', CountInv, daemonUp, handling.step = "append",
         NEW i, i = handling.id, NEW l, l = LaneOf[i], NEW n, n = NextCount(l),
         written' = written \cup {i} \/ written' = written,
         \A j \in Interactions, m \in Nat :
           Mark(j, m)' => Mark(j, m) \/ (j = i /\ m = n /\ i \in written'),
         disk'.lines \cup settled'.lines
           \subseteq disk.lines \cup settled.lines \cup {<<i, n>>}
  PROVE  MarksAgree'
<1>1. IsFiniteSet(disk'.lines) /\ IsFiniteSet(settled'.lines)
  BY DEF LedgerShape
<1>2. n # 0 /\ i \in Interactions /\ \A m \in Nat : ~Mark(i, m)
  <2>1. /\ n # 0 /\ i \in Interactions /\ ledger.entries[i] = 0
        /\ \A j \in Interactions, m \in Nat : Mark(j, m) => m # 0 /\ ledger.entries[j] = m
    BY BeforeAppend
  <2> QED
    BY <2>1
<1>3. \A x \in disk'.lines \cup settled'.lines : x[2] # 0
  BY <1>2 DEF CountInv, MarksAgree
<1>4. \A j \in Interactions, m \in Nat : Mark(j, m)' => j \in written'
  BY DEF CountInv, MarksAgree
<1>5. \A j \in Interactions, m, k \in Nat : Mark(j, m)' /\ Mark(j, k)' => m = k
  BY <1>2 DEF CountInv, MarksAgree
<1> QED
  BY <1>1, <1>3, <1>4, <1>5 DEF MarksAgree

\* Nor does it make counts shared: it is above all others of its lane.
LEMMA AppendShares ==
  ASSUME LedgerShape, LedgerShape', CountInv, daemonUp, handling.step = "append",
         NEW i, i = handling.id, NEW l, l = LaneOf[i], NEW n, n = NextCount(l),
         answered' = answered,
         \A j \in Interactions, m \in Nat :
           Mark(j, m)' => Mark(j, m) \/ (j = i /\ m = n /\ i \in written'),
         disk'.reg = disk.reg, settled'.reg = disk.reg
  PROVE  CountsAreShared'
<1>1. /\ i \in Interactions /\ l \in Lanes /\ n \in Nat /\ n # 0
      /\ registry[l] < n /\ registry = disk.reg /\ settled.reg = registry
      /\ \A j \in Interactions, m \in Nat : Mark(j, m) => m # 0 /\ ledger.entries[j] = m
      /\ \A j \in Interactions : LaneOf[j] = l => ledger.entries[j] < n
  BY BeforeAppend
<1>2. \A k \in Lanes, m \in Nat :
        disk.reg[k] <= m => Cardinality(Of(k, answered) \cup Marked(k, m)) <= m
  BY DEF CountInv, CountsAreShared
<1> SUFFICES ASSUME NEW k \in Lanes, NEW m \in Nat, disk.reg[k] <= m
             PROVE  Cardinality(Of(k, answered) \cup Marked(k, m)') <= m
  <2>1. \A k : Of(k, answered)' = Of(k, answered)
    BY DEF Of
  <2> QED
    BY <2>1 DEF CountsAreShared, Of
<1> DEFINE Counted(c) == Of(k, answered) \cup Marked(k, c)
<1>3. \A c : Counted(c) \in SUBSET Interactions /\ IsFiniteSet(Counted(c))
  <2>1. \A c : Counted(c) \in SUBSET Interactions
    BY DEF Of, Marked, LedgerShape, LedgerTypeOK
  <2> QED
    BY <2>1, TurnsAssumption, FS_Subset
<1>4. \A c : Cardinality(Counted(c)) \in Nat
  BY <1>3, FS_CardinalityType
<1>5. CASE k # l \/ m < n
  <2>1. Marked(k, m)' \subseteq Marked(k, m)
    BY <1>1, <1>5 DEF Marked
  <2>2. Of(k, answered) \cup Marked(k, m)' \in SUBSET Counted(m)
    BY <2>1
  <2> DEFINE R == Of(k, answered) \cup Marked(k, m)'
  <2>3. Cardinality(R) <= Cardinality(Counted(m)) /\ Cardinality(R) \in Nat
    BY <1>3, <2>2, FS_Subset, FS_CardinalityType
  <2>4. Cardinality(Counted(m)) <= m
    BY <1>2
  <2> QED
    BY <1>4, <2>3, <2>4
<1>6. CASE k = l /\ n <= m
  <2> PICK c : c = n - 1
    OBVIOUS
  <2>1. c \in Nat /\ n = c + 1 /\ disk.reg[k] <= c
    <3>1. disk.reg[k] \in Nat /\ disk.reg[k] < n
      BY <1>1, <1>6 DEF LedgerShape, LedgerTypeOK, Files
    <3> QED
      BY <1>1, <3>1
  <2>2. Marked(k, m)' \subseteq Marked(k, c) \cup {i}
    <3> SUFFICES ASSUME NEW j \in Marked(k, m)', j # i PROVE j \in Marked(k, c)
      OBVIOUS
    <3>1. j \in Interactions /\ LaneOf[j] = k /\ \E d \in 1..m : Mark(j, d)'
      BY DEF Marked
    <3>2. PICK d \in 1..m : Mark(j, d)
      BY <3>1
    <3>3. ledger.entries[j] = d /\ ledger.entries[j] < n
      BY <1>1, <1>6, <3>1, <3>2
    <3>4. d \in 1..c
      BY <2>1, <3>3
    <3> QED
      BY <3>1, <3>2, <3>4 DEF Marked
  <2> DEFINE R == Of(k, answered) \cup Marked(k, m)'
             S == Counted(c)
  <2>3. R \in SUBSET (S \cup {i})
    BY <2>2
  <2>4. IsFiniteSet(S \cup {i}) /\ Cardinality(S \cup {i}) <= Cardinality(S) + 1
        /\ Cardinality(S \cup {i}) \in Nat /\ Cardinality(S) \in Nat
    <3>1. IsFiniteSet(S)
      BY <1>3
    <3> HIDE DEF S
    <3>2. IsFiniteSet(S \cup {i}) /\ Cardinality(S) \in Nat
          /\ Cardinality(S \cup {i}) \in Nat
      BY <3>1, FS_AddElement, FS_CardinalityType
    <3>3. Cardinality(S \cup {i}) = Cardinality(S)
          \/ Cardinality(S \cup {i}) = Cardinality(S) + 1
      BY <3>1, FS_AddElement, Zenon
    <3> QED
      BY <3>2, <3>3
  <2>5. Cardinality(R) <= Cardinality(S \cup {i}) /\ Cardinality(R) \in Nat
    <3> HIDE DEF R, S
    <3> QED
      BY <2>3, <2>4, FS_Subset, FS_CardinalityType
  <2>6. Cardinality(S) <= c
    BY <1>2, <2>1
  <2> HIDE DEF R, S
  <2>7. Cardinality(R) <= m
    BY <1>6, <2>1, <2>4, <2>5, <2>6
  <2> QED
    BY <2>7 DEF R
<1> QED
  BY <1>1, <1>5, <1>6

\* An append that was refused, or wrote nothing, only leaves a turn that was tried.
LEMMA RefusedKeepsCounts ==
  ASSUME LedgerShape, LedgerShape', CountInv, daemonUp, handling.step = "append",
         Reply("failed"), NEW i, i = handling.id,
         written' = written \cup {i} \/ written' = written,
         UNCHANGED <<clock, created, daemonUp, registry, ledger, disk, settled,
                     laneUncertain, uncertain, answered>>
  PROVE  CountInv'
<1> PICK l : l = LaneOf[i]
  OBVIOUS
<1> PICK n : n = NextCount(l)
  OBVIOUS
<1>1. /\ ~uncertain /\ ~laneUncertain /\ Live(i) /\ ledger.entries[i] = 0
      /\ i \in Interactions /\ registry = disk.reg /\ settled.reg = registry
      /\ i \notin written \ FreshHere
  BY BeforeAppend
<1>2. \A j, m : Mark(j, m)' = Mark(j, m)
  BY DEF Mark, Bears
<1>3. MarksAgree'
  BY <1>2, MarksKept DEF CountInv
<1>4. CountsAreShared'
  <2>1. \A k \in Lanes, f \in {disk', settled'} :
          \E g \in {disk, settled} : g.reg[k] <= f.reg[k]
    BY DEF LedgerShape, LedgerTypeOK, Files
  <2> QED
    BY <1>2, <2>1, SharedKept DEF CountInv
<1>5. HandlingIsSound'
  <2>1. /\ handling'.step = "reply" /\ handling'.id = i /\ handling'.result = "failed"
    BY DEF Reply, LedgerShape, LedgerTypeOK, Handling
  <2> QED
    BY <1>1, <2>1 DEF HandlingIsSound
<1>6. LedgerOnFile'
  BY DEF CountInv, LedgerOnFile, Live, Bears, KnownIn, EntryCount
<1>7. CountsAreEarned'
  <2>1. \A j : Live(j)' = Live(j)
    BY DEF Live
  <2>2. written' \ FreshHere' = written \ FreshHere
    BY <1>1, <2>1 DEF FreshHere
  <2>3. /\ \A g \in {disk', settled'} : Within(g, written' \ FreshHere')
        /\ \A j \in Interactions :
             ledger'.entries[j] <= Cardinality(Of(LaneOf[j], written' \ FreshHere'))
    BY <1>1, <2>2 DEF CountInv, CountsAreEarned
  <2>4. /\ \A g \in {disk', settled'} : Within(g, written')
        /\ \A g \in Survivors' : g.tail # "bad" => Within(g, written' \ Fresh(g)')
    BY <1>1, <1>6, <2>3, EarnedUp
  <2> QED
    BY <2>3, <2>4 DEF CountsAreEarned, Within, Of, Bears
<1> QED
  BY <1>3, <1>4, <1>5, <1>6, <1>7 DEF CountInv, LedgerShape

\* An append that succeeded: both files and the ledger hold the new count.
LEMMA RecordedKeepsCounts ==
  ASSUME LedgerShape, LedgerShape', CountInv, daemonUp, handling.step = "append",
         Step("save"), ~LedgerFull, NEW i, i = handling.id,
         NEW l, l = LaneOf[i], NEW n, n = NextCount(l),
         NEW f, f = AppendedAs(disk, <<i, n>>, "ok"), disk' = f, settled' = f,
         ledger' = [ledger EXCEPT !.entries[i] = n, !.lines = @ + 1],
         written' = written \cup {i}, uncertain' = FALSE,
         UNCHANGED <<clock, created, daemonUp, registry, laneUncertain, answered>>
  PROVE  CountInv'
<1>1. /\ ~uncertain /\ ~laneUncertain /\ ~ledger.stale
      /\ ledger.lines < MaxLines /\ Live(i) /\ ledger.entries[i] = 0
      /\ i \in Interactions /\ l \in Lanes /\ n \in Nat /\ n # 0
      /\ registry[l] < n /\ registry = disk.reg /\ settled.reg = registry
      /\ \A j \in Interactions, m \in Nat : Mark(j, m) => m # 0 /\ ledger.entries[j] = m
      /\ n <= Cardinality(Of(l, written \ FreshHere)) + 1
      /\ i \notin written \ FreshHere
  BY BeforeAppend
<1>2. /\ disk \in Files /\ settled \in Files /\ ledger \in Ledger
      /\ ledger.entries \in Entries /\ ledger.lines \in Nat
      /\ handling \in Handling /\ written \in SUBSET Interactions
      /\ IsFiniteSet(disk.lines)
  BY DEF LedgerShape, LedgerTypeOK, Ledger
<1>3. <<i, n>> \in Line /\ "ok" \in AppendOutcomes
  BY <1>1, LedgerOutcomes DEF Line
<1>4. /\ f.snap = disk.snap /\ f.reg = disk.reg
      /\ f.lines \in {disk.lines, disk.lines \cup {<<i, n>>}}
      /\ <<i, n>> \in f.lines \/ f.tail = "bad"
      /\ disk.tail = "bad" => f.tail = "bad"
  BY <1>2, <1>3, AppendedAsIs
<1>5. /\ ledger'.entries = [ledger.entries EXCEPT ![i] = n]
      /\ ledger'.lines = ledger.lines + 1 /\ ledger'.stale = ledger.stale
  <2> PICK g : g = ledger
    OBVIOUS
  <2> PICK h : h = [g EXCEPT !.entries[i] = n, !.lines = @ + 1]
    OBVIOUS
  <2>1. g \in Ledger
    BY <1>2
  <2>2. /\ h.entries = [g.entries EXCEPT ![i] = n]
        /\ h.lines = g.lines + 1 /\ h.stale = g.stale
    <3>1. h.entries = [g.entries EXCEPT ![i] = n]
      BY <2>1 DEF Ledger
    <3>2. h.lines = g.lines + 1
      BY <2>1 DEF Ledger
    <3>3. h.stale = g.stale
      BY <2>1 DEF Ledger
    <3> QED
      BY <3>1, <3>2, <3>3
  <2>3. ledger' = h
    OBVIOUS
  <2> QED
    BY <2>2, <2>3
<1>6. /\ ledger'.entries[i] = n
      /\ \A j \in Interactions \ {i} : ledger'.entries[j] = ledger.entries[j]
  BY <1>1, <1>2, <1>5 DEF Entries
<1>7. \A j, m : Bears(f, j, m) => Bears(disk, j, m) \/ (j = i /\ m = n)
  BY <1>4 DEF Bears
<1>8. \A j, m : /\ Bears(disk, j, m)' = Bears(f, j, m)
                /\ Bears(settled, j, m)' = Bears(f, j, m)
  BY DEF Bears
<1>9. \A j \in Interactions, m \in Nat :
        Mark(j, m)' => Mark(j, m) \/ (j = i /\ m = n /\ i \in written')
  <2> SUFFICES ASSUME NEW j \in Interactions, NEW m \in Nat, Mark(j, m)', ~(j = i /\ m = n)
               PROVE  Mark(j, m)
    OBVIOUS
  <2>1. Bears(f, j, m) \/ (m # 0 /\ ledger'.entries[j] = m)
    BY <1>8 DEF Mark
  <2> QED
    BY <1>6, <1>7, <2>1 DEF Mark
<1>10. MarksAgree'
  <2>1. disk'.lines \cup settled'.lines
          \subseteq disk.lines \cup settled.lines \cup {<<i, n>>}
    BY <1>4
  <2> QED
    BY <1>9, <2>1, AppendMarks
<1>11. CountsAreShared'
  BY <1>4, <1>9, AppendShares
<1>12. HandlingIsSound'
  <2>1. /\ handling'.step = "save" /\ handling'.id = i
    BY <1>2 DEF Step, Handling
  <2> QED
    BY <1>1, <1>4, <1>6, <2>1 DEF HandlingIsSound
<1>13. LedgerOnFile'
  <2>1. ASSUME NEW j \in Interactions, NEW m \in Nat, Bears(f, j, m)
        PROVE  ledger'.entries[j] = m
    <3>1. CASE j = i /\ m = n
      BY <1>6, <3>1
    <3>2. CASE ~(j = i /\ m = n)
      <4>1. Mark(j, m)
        BY <1>7, <2>1, <3>2 DEF Mark
      <4>2. m # 0 /\ ledger.entries[j] = m /\ j # i
        BY <1>1, <4>1
      <4> QED
        BY <1>6, <4>2
    <3> QED
      BY <3>1, <3>2
  <2>2. ASSUME NEW j \in Interactions, Live(j), ledger'.entries[j] # 0
        PROVE  KnownIn(f.snap, f, j, ledger'.entries[j])
    <3>1. CASE j = i
      BY <1>4, <1>6, <3>1 DEF KnownIn
    <3>2. CASE j # i
      <4>1. ledger'.entries[j] = ledger.entries[j]
        BY <1>6, <3>2
      <4>2. KnownIn(disk.snap, disk, j, ledger.entries[j])
        BY <1>1, <2>2, <4>1 DEF CountInv, LedgerOnFile
      <4> QED
        BY <1>4, <4>1, <4>2 DEF KnownIn
    <3> QED
      BY <3>1, <3>2
  <2>3. /\ Cardinality(f.lines) <= ledger'.lines
        /\ ledger'.lines <= MaxLines /\ EntryCount(ledger'.entries) <= MaxEntries
    <3>1. /\ Cardinality(disk.lines) <= ledger.lines
          /\ ledger.lines <= MaxLines /\ EntryCount(ledger.entries) <= MaxEntries
      BY <1>1 DEF CountInv, LedgerOnFile
    <3>2. Cardinality(f.lines) <= ledger.lines + 1
      <4>1. /\ Cardinality(disk.lines) \in Nat
            /\ \/ Cardinality(disk.lines \cup {<<i, n>>}) = Cardinality(disk.lines)
               \/ Cardinality(disk.lines \cup {<<i, n>>}) = Cardinality(disk.lines) + 1
        BY <1>2, FS_AddElement, FS_CardinalityType
      <4> QED
        BY <1>2, <1>4, <3>1, <4>1
    <3>3. ledger'.lines <= MaxLines
      BY <1>1, <1>2, <1>5, LedgerAssumption
    <3>4. EntryCount(ledger'.entries) <= MaxEntries
      <4> DEFINE E == {j \in Interactions : ledger.entries[j] # 0}
                 D == {j \in Interactions : ledger'.entries[j] # 0}
      <4>1. IsFiniteSet(E)
        BY TurnsAssumption, FS_Subset
      <4>2. D = E \cup {i}
        BY <1>1, <1>6
      <4>3. Cardinality(E) = EntryCount(ledger.entries)
            /\ Cardinality(D) = EntryCount(ledger'.entries)
        BY DEF EntryCount
      <4>4. ~(Cardinality(E) >= MaxEntries)
        BY <4>3 DEF LedgerFull
      <4> HIDE DEF D, E
      <4>5. Cardinality(E) \in Nat
        BY <4>1, FS_CardinalityType
      <4>6. Cardinality(D) = Cardinality(E) \/ Cardinality(D) = Cardinality(E) + 1
        BY <4>1, <4>2, FS_AddElement, Zenon
      <4> QED
        BY <4>3, <4>4, <4>5, <4>6, LedgerAssumption
    <3> QED
      BY <1>5, <3>2, <3>3, <3>4
  <2>4. \A j : Live(j)' = Live(j)
    BY DEF Live
  <2> QED
    BY <1>8, <2>1, <2>2, <2>3, <2>4 DEF LedgerOnFile, KnownIn, EntryCount
<1>14. CountsAreEarned'
  <2> DEFINE T == written \ FreshHere
             U == written' \ FreshHere'
  <2>1. T \in SUBSET Interactions /\ U \in SUBSET Interactions /\ i \in Interactions \ T
        /\ T \cup {i} \subseteq U /\ T \in SUBSET U
    <3>1. \A j : Live(j)' = Live(j)
      BY DEF Live
    <3>2. \A j \in Interactions : ledger.entries[j] # 0 => ledger'.entries[j] # 0
      BY <1>1, <1>6
    <3>3. ledger'.entries[i] # 0
      BY <1>1, <1>6
    <3> QED
      BY <1>1, <1>2, <3>1, <3>2, <3>3 DEF FreshHere
  <2>2. /\ \A g \in {disk, settled} : Within(g, T)
        /\ \A j \in Interactions : ledger.entries[j] <= Cardinality(Of(LaneOf[j], T))
    BY <1>1 DEF CountInv, CountsAreEarned
  <2>10. n <= Cardinality(Of(l, T)) + 1
    BY <1>1
  <2> HIDE DEF T, U
  <2>3. Cardinality(Of(l, T)) + 1 <= Cardinality(Of(l, U))
    BY <2>1, OfOneMore
  <2>4. \A k : /\ Cardinality(Of(k, T)) <= Cardinality(Of(k, U))
               /\ Cardinality(Of(k, T)) \in Nat /\ Cardinality(Of(k, U)) \in Nat
    BY <2>1, OfIs
  <2>5. n <= Cardinality(Of(l, U))
    BY <1>1, <2>3, <2>4, <2>10
  <2>6. Within(disk, U)
    BY <1>2, <2>1, <2>2, WithinMore
  <2>7. Within(f, U)
    BY <1>4, <1>7, <2>5, <2>6 DEF Within
  <2>8. \A j \in Interactions : ledger'.entries[j] <= Cardinality(Of(LaneOf[j], U))
    <3> SUFFICES ASSUME NEW j \in Interactions
                 PROVE  ledger'.entries[j] <= Cardinality(Of(LaneOf[j], U))
      OBVIOUS
    <3>1. CASE j = i
      BY <1>6, <2>5, <3>1
    <3>2. CASE j # i
      <4>1. ledger.entries[j] \in Nat /\ ledger'.entries[j] = ledger.entries[j]
        BY <1>2, <1>6, <3>2 DEF Entries
      <4> QED
        BY <2>2, <2>4, <4>1
    <3> QED
      BY <3>1, <3>2
  <2> USE DEF U
  <2>9. /\ \A g \in {disk', settled'} : Within(g, written')
        /\ \A g \in Survivors' : g.tail # "bad" => Within(g, written' \ Fresh(g)')
    BY <1>1, <1>13, <2>7, EarnedUp
  <2>11. /\ \A g \in {disk', settled'} : Within(g, written' \ FreshHere')
         /\ \A j \in Interactions :
              ledger'.entries[j] <= Cardinality(Of(LaneOf[j], written' \ FreshHere'))
    BY <1>1, <2>7, <2>8
  <2> QED
    BY <2>9, <2>11 DEF CountsAreEarned, Within, Of, Bears
<1> QED
  BY <1>10, <1>11, <1>12, <1>13, <1>14 DEF CountInv, LedgerShape

\* An append in doubt: the count is in the journal as seen, or it is not, and
\* the ledger is fenced.
LEMMA DoubtKeepsCounts ==
  ASSUME LedgerShape, LedgerShape', CountInv, daemonUp, handling.step = "append",
         Reply("failed"), NEW i, i = handling.id,
         NEW l, l = LaneOf[i], NEW n, n = NextCount(l),
         NEW o \in AppendOutcomes, NEW f, f = AppendedAs(disk, <<i, n>>, o), disk' = f,
         written' = written \cup {i}, uncertain' = TRUE,
         UNCHANGED <<clock, created, daemonUp, registry, ledger, settled,
                     laneUncertain, answered>>
  PROVE  CountInv'
<1>1. /\ ~uncertain /\ ~laneUncertain /\ ~ledger.stale
      /\ Live(i) /\ ledger.entries[i] = 0
      /\ i \in Interactions /\ l \in Lanes /\ n \in Nat /\ n # 0
      /\ registry[l] < n /\ registry = disk.reg /\ settled.reg = registry
      /\ \A j \in Interactions, m \in Nat : Mark(j, m) => m # 0 /\ ledger.entries[j] = m
      /\ n <= Cardinality(Of(l, written \ FreshHere)) + 1
      /\ i \notin written \ FreshHere
  <2>1. /\ ~uncertain /\ ~laneUncertain /\ ~ledger.stale
        /\ Live(i) /\ ledger.entries[i] = 0
        /\ i \in Interactions /\ l \in Lanes /\ n \in Nat /\ n # 0
        /\ registry[l] < n /\ registry = disk.reg /\ settled.reg = registry
    BY BeforeAppend
  <2>2. \A j \in Interactions, m \in Nat : Mark(j, m) => m # 0 /\ ledger.entries[j] = m
    BY BeforeAppend
  <2>3. n <= Cardinality(Of(l, written \ FreshHere)) + 1 /\ i \notin written \ FreshHere
    BY BeforeAppend
  <2> QED
    BY <2>1, <2>2, <2>3
<1>2. /\ disk \in Files /\ settled \in Files
      /\ handling \in Handling /\ written \in SUBSET Interactions
      /\ f \in Files /\ ledger.entries \in Entries
  BY DEF LedgerShape, LedgerTypeOK, Ledger
<1>3. <<i, n>> \in Line
  BY <1>1 DEF Line
<1>4. /\ f.snap = disk.snap /\ f.reg = disk.reg
      /\ f.lines \in {disk.lines, disk.lines \cup {<<i, n>>}}
      /\ f.lines # disk.lines => disk.tail = "clean"
      /\ disk.tail = "bad" => f.tail = "bad"
  BY <1>2, <1>3, AppendedAsIs
<1>7. \A j, m : Bears(f, j, m) => Bears(disk, j, m) \/ (j = i /\ m = n)
  BY <1>4 DEF Bears
<1>8. \A j, m : /\ Bears(disk, j, m)' = Bears(f, j, m)
                /\ Bears(settled, j, m)' = Bears(settled, j, m)
  BY DEF Bears
<1>9. \A j \in Interactions, m \in Nat :
        Mark(j, m)' => Mark(j, m) \/ (j = i /\ m = n /\ i \in written')
  BY <1>7, <1>8 DEF Mark
<1>10. MarksAgree'
  <2>1. disk'.lines \cup settled'.lines
          \subseteq disk.lines \cup settled.lines \cup {<<i, n>>}
    BY <1>4
  <2> QED
    BY <1>9, <2>1, AppendMarks
<1>11. CountsAreShared'
  BY <1>1, <1>4, <1>9, AppendShares
<1>12. HandlingIsSound'
  <2>1. /\ handling'.step = "reply" /\ handling'.id = i /\ handling'.result = "failed"
    BY <1>2 DEF Reply, Handling
  <2> QED
    BY <1>1, <1>4, <2>1 DEF HandlingIsSound
<1>13. LedgerOnFile'
  BY DEF LedgerOnFile
<1>14. CountsAreEarned'
  <2> DEFINE T == written \ FreshHere
  <2>1. T \in SUBSET Interactions /\ i \in Interactions \ T
        /\ written' \in SUBSET Interactions /\ T \cup {i} \subseteq written'
        /\ T \in SUBSET written'
    BY <1>1, <1>2
  <2>2. Within(disk, T) /\ Within(settled, T)
    BY <1>1 DEF CountInv, CountsAreEarned
  <2>10. n <= Cardinality(Of(l, T)) + 1
    BY <1>1
  <2>11. \A j \in T : Live(j) => ledger.entries[j] # 0
    BY DEF FreshHere
  <2> HIDE DEF T
  <2>3. \A U \in SUBSET Interactions : T \cup {i} \subseteq U => n <= Cardinality(Of(l, U))
    <3> SUFFICES ASSUME NEW U \in SUBSET Interactions, T \cup {i} \subseteq U
                 PROVE  n <= Cardinality(Of(l, U))
      OBVIOUS
    <3>1. Cardinality(Of(l, T)) + 1 <= Cardinality(Of(l, U))
      BY <2>1, OfOneMore
    <3>2. Cardinality(Of(l, T)) \in Nat /\ Cardinality(Of(l, U)) \in Nat
      BY <2>1, OfIs
    <3> QED
      BY <1>1, <2>10, <3>1, <3>2
  <2>4. \A g \in {disk', settled'} : Within(g, written')
    <3>1. Within(disk, written') /\ Within(settled, written')
      BY <1>2, <2>1, <2>2, WithinMore
    <3>2. n <= Cardinality(Of(l, written'))
      BY <2>1, <2>3
    <3>3. Within(f, written')
      BY <1>4, <1>7, <3>1, <3>2 DEF Within
    <3> QED
      BY <3>1, <3>3
  <2>5. ASSUME NEW g \in Survivors', g.tail # "bad"
        PROVE  Within(g, written' \ Fresh(g)')
    <3> DEFINE U == written' \ Fresh(g)'
    <3>1. PICK snap \in {disk.snap, settled.snap}, journal \in {f, settled},
               reg \in {disk.reg, settled.reg} :
            g = [snap |-> snap, lines |-> journal.lines, tail |-> journal.tail, reg |-> reg]
      BY <1>4, <2>5 DEF Survivors
    <3>2. g.snap = snap /\ g.lines = journal.lines /\ g.tail = journal.tail /\ g.reg = reg
      BY <3>1
    <3>3. PICK old \in {disk, settled} :
            /\ old.lines \subseteq g.lines /\ g.lines \subseteq old.lines \cup {<<i, n>>}
            /\ old.tail # "bad"
      BY <1>4, <2>5, <3>2
    <3>4. T \subseteq U
      <4> SUFFICES ASSUME NEW j \in T, j \in Fresh(g)' PROVE FALSE
        BY <2>1
      <4>1. j \in Interactions /\ Live(j) /\ \A m \in Nat : ~Bears(g, j, m)
        BY <2>1 DEF Fresh, Live, Bears
      <4>2. ledger.entries[j] # 0 /\ ledger.entries[j] \in Nat
        BY <1>2, <2>11, <4>1 DEF Entries
      <4>3. KnownIn(snap, old, j, ledger.entries[j])
        BY <1>1, <4>1, <4>2 DEF CountInv, LedgerOnFile
      <4>4. Bears(g, j, ledger.entries[j])
        BY <3>2, <3>3, <4>2, <4>3 DEF KnownIn, Bears
      <4> QED
        BY <4>1, <4>2, <4>4
    <3>5. U \in SUBSET Interactions
      BY <2>1
    <3>6. Within(disk, U) /\ Within(settled, U)
      BY <1>2, <2>2, <3>4, <3>5, WithinMore
    <3>7. \A k \in Lanes : g.reg[k] <= Cardinality(Of(k, U))
      BY <3>2, <3>6 DEF Within
    <3>8. ASSUME NEW j \in Interactions, NEW m \in Nat, Bears(g, j, m)
          PROVE  m <= Cardinality(Of(LaneOf[j], U))
      <4>1. CASE j = i /\ m = n
        <5>1. i \in U
          BY <1>1, <3>8, <4>1 DEF Fresh, Bears
        <5>2. T \cup {i} \subseteq U
          BY <3>4, <5>1
        <5> QED
          BY <2>3, <3>5, <4>1, <5>2
      <4>2. CASE ~(j = i /\ m = n)
        <5>1. Bears(disk, j, m) \/ Bears(settled, j, m)
          BY <3>2, <3>3, <3>8, <4>2 DEF Bears
        <5> QED
          BY <3>6, <5>1 DEF Within
      <4> QED
        BY <4>1, <4>2
    <3> QED
      BY <3>7, <3>8 DEF Within
  <2> QED
    BY <2>4, <2>5 DEF CountsAreEarned, Within, Of, Bears
<1> QED
  BY <1>10, <1>11, <1>12, <1>13, <1>14 DEF CountInv, LedgerShape

\* An append, however it ends.
LEMMA AppendKeepsCounts ==
  ASSUME LedgerShape, LedgerShape', CountInv,
         NEW o \in AppendOutcomes, AppendLine(o)
  PROVE  CountInv'
<1> PICK i : i = handling.id
  OBVIOUS
<1> PICK l : l = LaneOf[i]
  OBVIOUS
<1> PICK n : n = NextCount(l)
  OBVIOUS
<1> PICK f : f = AppendedAs(disk, <<i, n>>, o)
  OBVIOUS
<1>1. /\ daemonUp /\ handling.step = "append"
      /\ UNCHANGED <<clock, created, daemonUp, registry, laneUncertain, answered>>
      /\ IF o = "ok" THEN Step("save") ELSE Reply("failed")
  BY DEF AppendLine
<1>2. CASE LedgerFull
  <2>1. /\ o = "definite" /\ UNCHANGED <<ledger, disk, settled, uncertain, written>>
    BY <1>2 DEF AppendLine
  <2> QED
    BY <1>1, <2>1, RefusedKeepsCounts
<1>3. CASE ~LedgerFull
  <2>1. /\ disk' = f
        /\ settled' = IF o = "ok" THEN f ELSE settled
        /\ written' = written \cup {i}
        /\ uncertain' = InDoubt(o)
        /\ ledger' = IF o = "ok"
                     THEN [ledger EXCEPT !.entries[i] = n, !.lines = @ + 1] ELSE ledger
    BY <1>3 DEF AppendLine
  <2>2. CASE o = "ok"
    <3>1. uncertain' = FALSE /\ disk' = f /\ settled' = f /\ Step("save")
          /\ ledger' = [ledger EXCEPT !.entries[i] = n, !.lines = @ + 1]
      BY <1>1, <2>1, <2>2 DEF InDoubt
    <3> QED
      BY <1>1, <1>3, <2>1, <2>2, <3>1, RecordedKeepsCounts
  <2>3. CASE o = "definite"
    <3>1. /\ handling.id \in Interactions /\ disk \in Files /\ ~uncertain
          /\ n \in Nat
      BY <1>1, BeforeAppend DEF LedgerShape, LedgerTypeOK
    <3>2. f = disk
      <4>1. <<i, n>> \in Line
        BY <3>1 DEF Line
      <4> QED
        BY <2>3, <3>1, <4>1, AppendedAsIs
    <3>3. uncertain' = uncertain
      BY <2>1, <2>3, <3>1 DEF InDoubt, LedgerShape, LedgerTypeOK
    <3> QED
      BY <1>1, <2>1, <2>3, <3>2, <3>3, RefusedKeepsCounts
  <2>4. CASE o # "ok" /\ o # "definite"
    <3>1. uncertain' = TRUE /\ settled' = settled /\ ledger' = ledger
      BY <2>1, <2>4 DEF InDoubt
    <3> QED
      BY <1>1, <2>1, <2>4, <3>1, DoubtKeepsCounts
  <2> QED
    BY <2>2, <2>3, <2>4
<1> QED
  BY <1>2, <1>3

\* A death of the daemon leaves one of the mixtures that were allowed for.
LEMMA CrashKeepsCounts ==
  ASSUME LedgerShape, LedgerShape', CountInv, DaemonCrash
  PROVE  CountInv'
<1>1. /\ ~daemonUp' /\ settled' = disk' /\ ~laneUncertain' /\ ~uncertain'
      /\ handling' = Idle /\ ledger'.entries = NoEntries
      /\ UNCHANGED <<clock, created, written, answered>>
  BY DEF DaemonCrash
<1>2. disk' \in Survivors
  BY DEF DaemonCrash, Survivors
<1>3. PICK d : d = disk'
  OBVIOUS
<1>4. /\ d \in Files /\ d.reg \in {disk.reg, settled.reg}
      /\ d.lines \in {disk.lines, settled.lines}
      /\ \A j, m : Bears(d, j, m) => Bears(disk, j, m) \/ Bears(settled, j, m)
  BY <1>2, <1>3, SurvivorIs
<1>5. \A j \in Interactions : NoEntries[j] = 0
  BY DEF NoEntries
<1>6. \A j \in Interactions, m \in Nat : Mark(j, m)' => Mark(j, m)
  <2>1. \A j \in Interactions, m \in Nat : Mark(j, m)' => Bears(d, j, m)
    BY <1>1, <1>3, <1>5 DEF Mark, Bears
  <2> QED
    BY <1>4, <2>1 DEF Mark
<1>7. MarksAgree'
  <2>1. disk'.lines \cup settled'.lines \subseteq disk.lines \cup settled.lines
    BY <1>1, <1>3, <1>4
  <2> QED
    BY <1>1, <1>6, <2>1, MarksKept DEF CountInv
<1>8. CountsAreShared'
  <2>1. \A k \in Lanes, f \in {disk', settled'} :
          \E g \in {disk, settled} : g.reg[k] <= f.reg[k]
    <3>1. \A k \in Lanes : disk.reg[k] \in Nat /\ settled.reg[k] \in Nat
      BY DEF LedgerShape, LedgerTypeOK, Files
    <3> QED
      BY <1>1, <1>3, <1>4, <3>1
  <2> QED
    BY <1>1, <1>6, <2>1, SharedKept DEF CountInv
<1>9. HandlingIsSound'
  BY <1>1 DEF HandlingIsSound, Idle
<1>10. LedgerOnFile'
  BY <1>1 DEF LedgerOnFile
<1>11. CountsAreEarned'
  <2>1. Within(d, written)
    <3>1. Within(disk, written) /\ Within(settled, written)
      BY DEF CountInv, CountsAreEarned
    <3> QED
      BY <1>4, <3>1 DEF Within
  <2>2. d.tail # "bad" => Within(d, written \ Fresh(d))
    BY <1>2, <1>3 DEF CountInv, CountsAreEarned
  <2>3. Survivors' = {d}
    <3>1. d = [snap |-> d.snap, lines |-> d.lines, tail |-> d.tail, reg |-> d.reg]
      BY <1>4 DEF Files
    <3> QED
      BY <1>1, <1>3, <3>1 DEF Survivors
  <2>4. Fresh(d)' = Fresh(d)
    BY <1>1 DEF Fresh, Live, Bears
  <2> QED
    BY <1>1, <1>3, <2>1, <2>2, <2>3, <2>4 DEF CountsAreEarned
<1> QED
  BY <1>7, <1>8, <1>9, <1>10, <1>11 DEF CountInv, LedgerShape

\* A start finds the counts that the files hold, and raises the registry to them.
LEMMA StartKeepsCounts ==
  ASSUME LedgerShape, LedgerShape', CountInv,
         NEW o \in WriteOutcomes, DaemonStart(o)
  PROVE  CountInv'
<1> PICK found : found = Folded(disk)
  OBVIOUS
<1> PICK live : live = Pruned(found)
  OBVIOUS
<1> PICK repaired : repaired = Reconciled(disk.reg, live)
  OBVIOUS
<1> PICK f : f = [disk EXCEPT !.reg = repaired]
  OBVIOUS
<1>1. /\ ~daemonUp /\ Loads(disk)
      /\ UNCHANGED <<clock, created, uncertain, handling, written, answered>>
  BY DEF DaemonStart
<1>2. /\ settled = disk /\ handling = Idle /\ ~uncertain /\ ~laneUncertain
      /\ ledger.entries = NoEntries
  BY <1>1 DEF CountInv, HandlingIsSound
<1>3. \/ /\ ~daemonUp' /\ disk' = disk /\ settled' = settled
         /\ registry' = registry /\ ledger' = ledger /\ ~laneUncertain'
      \/ /\ daemonUp' /\ registry' = repaired
         /\ ledger' = [entries |-> live, lines |-> Cardinality(disk.lines),
                       stale |-> live # found]
         /\ \/ repaired = disk.reg /\ disk' = disk /\ settled' = settled
            \/ disk' = f /\ settled' = f
            \/ disk' = f /\ settled' = settled /\ laneUncertain'
  <2>1. /\ (repaired # disk.reg) \/ o = "ok"
        /\ daemonUp' = (~(repaired # disk.reg) \/ o # "pre")
        /\ IF repaired # disk.reg THEN Replace(f, o)
           ELSE UNCHANGED <<disk, settled>>
        /\ IF ~(repaired # disk.reg) \/ o # "pre"
           THEN /\ registry' = repaired
                /\ ledger' = [entries |-> live, lines |-> Cardinality(disk.lines),
                              stale |-> live # found]
           ELSE UNCHANGED <<registry, ledger>>
        /\ laneUncertain' = ((~(repaired # disk.reg) \/ o # "pre") /\ o = "post")
    BY DEF DaemonStart
  <2>2. o \in {"ok", "pre", "post"}
    BY LedgerOutcomes
  <2>3. CASE repaired = disk.reg
    BY <2>1, <2>3
  <2>4. CASE repaired # disk.reg /\ o = "ok"
    BY <2>1, <2>4 DEF Replace
  <2>5. CASE repaired # disk.reg /\ o = "pre"
    BY <2>1, <2>4, <2>5 DEF Replace
  <2>6. CASE repaired # disk.reg /\ o = "post"
    BY <2>1, <2>4, <2>6 DEF Replace
  <2> QED
    BY <2>2, <2>3, <2>4, <2>5, <2>6
<1>4. CASE ~daemonUp'
  <2>1. /\ ~daemonUp' /\ disk' = disk /\ settled' = settled
        /\ ledger' = ledger /\ ~laneUncertain' /\ daemonUp' = daemonUp
    BY <1>1, <1>3, <1>4 DEF LedgerShape, LedgerTypeOK
  <2>2. MarksAgree' /\ LedgerOnFile' /\ CountsAreEarned'
    BY <1>1, <2>1, CountsStand DEF CountInv
  <2>3. CountsAreShared'
    <3>1. \A j, n : Mark(j, n)' = Mark(j, n)
      BY <2>1 DEF Mark, Bears
    <3>2. \A l \in Lanes, g \in {disk', settled'} :
            \E h \in {disk, settled} : h.reg[l] <= g.reg[l]
      BY <2>1 DEF LedgerShape, LedgerTypeOK, Files
    <3> QED
      BY <1>1, <3>1, <3>2, SharedKept DEF CountInv
  <2>4. HandlingIsSound'
    BY <1>1, <1>2, <2>1 DEF HandlingIsSound, Idle
  <2> QED
    BY <2>2, <2>3, <2>4 DEF CountInv, LedgerShape
<1>5. CASE daemonUp'
  <2>1. /\ disk \in Files /\ IsFiniteSet(disk.lines) /\ written \in SUBSET Interactions
        /\ disk.reg \in [Lanes -> Nat] /\ MarksAgree
    BY DEF LedgerShape, LedgerTypeOK, Files, CountInv
  <2>2. /\ found \in Entries
        /\ \A i \in Interactions : /\ found[i] \in Nat
                                   /\ found[i] = 0 \/ Bears(disk, i, found[i])
    BY <2>1, FoldedIs DEF Entries
  <2>3. \A i \in Interactions, n \in Nat : Bears(disk, i, n) => found[i] = n
    <3> SUFFICES ASSUME NEW i \in Interactions, NEW n \in Nat, Bears(disk, i, n)
                 PROVE  found[i] = n
      OBVIOUS
    <3>1. n <= found[i] /\ n # 0
      BY <2>1, FoldedIs DEF Bears
    <3>2. Bears(disk, i, found[i])
      BY <2>2, <3>1
    <3> QED
      BY <2>1, <2>2, <3>2 DEF MarksAgree, Mark
  <2>4. /\ live \in Entries
        /\ \A i \in Interactions : live[i] = IF Live(i) THEN found[i] ELSE 0
    BY <2>2, PrunedIs
  <2>5. /\ repaired \in [Lanes -> Nat]
        /\ \A l \in Lanes : /\ disk.reg[l] <= repaired[l]
                            /\ \/ repaired[l] = disk.reg[l]
                               \/ \E i \in Interactions :
                                    LaneOf[i] = l /\ repaired[l] = live[i] /\ live[i] # 0
    BY <2>1, <2>4, ReconciledIs
  <2>6. f.snap = disk.snap /\ f.lines = disk.lines /\ f.tail = disk.tail /\ f.reg = repaired
    BY <2>1 DEF Files
  <2>7. /\ ledger'.entries = live /\ ledger'.lines = Cardinality(disk.lines)
        /\ (ledger'.stale <=> live # found)
        /\ registry' = repaired
        /\ disk' \in {disk, f} /\ settled' \in {disk, f}
        /\ disk'.reg = repaired
        /\ ~laneUncertain' => settled'.reg = repaired
    <3>1. /\ registry' = repaired
          /\ ledger' = [entries |-> live, lines |-> Cardinality(disk.lines),
                        stale |-> live # found]
      BY <1>3, <1>5
    <3>2. \/ repaired = disk.reg /\ disk' = disk /\ settled' = disk
          \/ disk' = f /\ settled' = f
          \/ disk' = f /\ settled' = disk /\ laneUncertain'
      BY <1>2, <1>3, <1>5
    <3>3. /\ ledger'.entries = live /\ ledger'.lines = Cardinality(disk.lines)
          /\ (ledger'.stale <=> live # found)
      BY <3>1
    <3> QED
      BY <2>6, <3>1, <3>2, <3>3
  <2>8. \A g \in {disk', settled'} : \A i, n : Bears(g, i, n) = Bears(disk, i, n)
    BY <2>6, <2>7 DEF Bears
  <2>9. \A i, n : /\ Bears(disk, i, n)' = Bears(disk, i, n)
                  /\ Bears(settled, i, n)' = Bears(disk, i, n)
    <3>1. \A i, n : /\ Bears(disk, i, n)' = Bears(disk', i, n)
                    /\ Bears(settled, i, n)' = Bears(settled', i, n)
      BY DEF Bears
    <3> QED
      BY <2>8, <3>1
  <2>10. \A i \in Interactions, n \in Nat : Mark(i, n)' => Bears(disk, i, n)
    <3> SUFFICES ASSUME NEW i \in Interactions, NEW n \in Nat, n # 0, live[i] = n
                 PROVE  Bears(disk, i, n)
      BY <2>7, <2>9 DEF Mark
    <3>1. found[i] = n
      BY <2>4
    <3> QED
      BY <2>2, <3>1
  <2>11. \A i \in Interactions, n \in Nat : Mark(i, n)' => Mark(i, n)
    BY <2>10 DEF Mark
  <2>12. MarksAgree'
    <3>1. disk'.lines \cup settled'.lines \subseteq disk.lines \cup settled.lines
      BY <2>6, <2>7
    <3> QED
      BY <1>1, <2>11, <3>1, MarksKept DEF CountInv
  <2>13. CountsAreShared'
    <3>1. \A l \in Lanes, g \in {disk', settled'} :
            \E h \in {disk, settled} : h.reg[l] <= g.reg[l]
      <4>1. \A g \in {disk', settled'} : g.reg = disk.reg \/ g.reg = repaired
        BY <2>6, <2>7
      <4>2. \A l \in Lanes : disk.reg[l] <= disk.reg[l] /\ disk.reg[l] <= repaired[l]
        BY <2>1, <2>5
      <4> QED
        BY <4>1, <4>2
    <3> QED
      BY <1>1, <2>11, <3>1, SharedKept DEF CountInv
  <2>14. HandlingIsSound'
    <3>1. handling'.step = "idle"
      BY <1>1, <1>2 DEF Idle
    <3> QED
      BY <1>5, <2>7, <3>1 DEF HandlingIsSound
  <2>15. \A i : Live(i)' = Live(i)
    BY <1>1 DEF Live
  <2>16. LedgerOnFile'
    <3>1. ASSUME NEW i \in Interactions, NEW n \in Nat, Live(i) \/ ~ledger'.stale,
                 Bears(disk, i, n)
          PROVE  live[i] = n
      <4>1. found[i] = n
        BY <2>3, <3>1
      <4>2. live[i] = found[i]
        BY <2>4, <2>7, <3>1
      <4> QED
        BY <4>1, <4>2
    <3>2. ASSUME NEW i \in Interactions, Live(i), live[i] # 0,
                 NEW snap \in {disk'.snap, settled'.snap}, NEW journal \in {disk', settled'}
          PROVE  KnownIn(snap, journal, i, live[i])
      <4>1. snap = disk.snap /\ journal.lines = disk.lines
        BY <2>6, <2>7
      <4>2. live[i] = found[i] /\ Bears(disk, i, found[i])
        BY <2>2, <2>4, <3>2
      <4> QED
        BY <4>1, <4>2 DEF KnownIn, Bears
    <3>3. /\ \A g \in {disk', settled'} : Cardinality(g.lines) <= ledger'.lines
          /\ ledger'.lines <= MaxLines /\ EntryCount(live) <= MaxEntries
      <4>1. Cardinality(disk.lines) <= MaxLines /\ EntryCount(live) <= MaxEntries
        BY <1>1 DEF Loads
      <4>2. Cardinality(disk.lines) \in Nat
        BY <2>1, FS_CardinalityType
      <4>3. \A g \in {disk', settled'} : g.lines = disk.lines
        BY <2>6, <2>7
      <4> QED
        BY <2>7, <4>1, <4>2, <4>3
    <3> QED
      BY <2>7, <2>9, <2>15, <3>1, <3>2, <3>3 DEF LedgerOnFile, KnownIn, EntryCount
  <2>17. CountsAreEarned'
    <3> DEFINE T == written \ Fresh(disk)
    <3>1. T \in SUBSET Interactions /\ written' \ FreshHere' = T
      <4>1. ASSUME NEW i \in Interactions, Live(i)
            PROVE  live[i] = 0 <=> \A n \in Nat : ~Bears(disk, i, n)
        <5>1. live[i] = found[i]
          BY <2>4, <4>1
        <5>2. \A n \in Nat : Bears(disk, i, n) => n # 0
          BY DEF Bears
        <5> QED
          BY <2>2, <2>3, <5>1, <5>2
      <4>2. FreshHere' = {i \in written : Live(i) /\ live[i] = 0}
        BY <1>1, <2>7, <2>15 DEF FreshHere
      <4>3. FreshHere' = Fresh(disk)
        BY <2>1, <4>1, <4>2 DEF Fresh
      <4> QED
        BY <1>1, <2>1, <4>3
    <3>2. Within(disk, T)
      <4>1. disk \in Survivors /\ disk.tail # "bad"
        BY <1>1, <1>2, <2>1, FilesSurvive DEF Loads
      <4> QED
        BY <4>1 DEF CountInv, CountsAreEarned
    <3> HIDE DEF T
    <3>3. \A l : Cardinality(Of(l, T)) \in Nat
      BY <3>1, OfIs
    <3>4. \A i \in Interactions : live[i] <= Cardinality(Of(LaneOf[i], T))
      <4> SUFFICES ASSUME NEW i \in Interactions
                   PROVE  live[i] <= Cardinality(Of(LaneOf[i], T))
        OBVIOUS
      <4>1. CASE live[i] = 0
        BY <3>3, <4>1
      <4>2. CASE live[i] # 0
        <5>1. live[i] = found[i] /\ found[i] \in Nat /\ Bears(disk, i, found[i])
          BY <2>2, <2>4, <4>2
        <5> QED
          BY <3>2, <5>1 DEF Within
      <4> QED
        BY <4>1, <4>2
    <3>5. \A l \in Lanes : repaired[l] <= Cardinality(Of(l, T))
                           /\ disk.reg[l] <= Cardinality(Of(l, T))
      BY <2>5, <3>2, <3>4 DEF Within
    <3>6. \A g \in {disk', settled'} : Within(g, T)
      <4>1. \A g \in {disk', settled'} : g.reg = disk.reg \/ g.reg = repaired
        BY <2>6, <2>7
      <4> QED
        BY <2>8, <3>2, <3>5, <4>1 DEF Within
    <3>7. /\ \A g \in {disk', settled'} : Within(g, written')
          /\ \A g \in Survivors' : g.tail # "bad" => Within(g, written' \ Fresh(g)')
      BY <1>1, <1>2, <1>5, <2>16, <3>1, <3>6, EarnedUp
    <3> QED
      BY <2>7, <3>1, <3>4, <3>6, <3>7 DEF CountsAreEarned, Within, Of, Bears
  <2> QED
    BY <2>12, <2>13, <2>14, <2>16, <2>17 DEF CountInv, LedgerShape
<1> QED
  BY <1>4, <1>5

\* Every step keeps the counts.
LEMMA CountsKept ==
  ASSUME OutboxInv, LedgerShape, LedgerShape', CountInv, [Next]_vars
  PROVE  CountInv'
<1>1. ASSUME UNCHANGED ledgerVars PROVE CountInv'
  <2>1. /\ UNCHANGED <<clock, created, daemonUp, registry, ledger, disk, settled,
                       laneUncertain, uncertain, handling, written, answered>>
    BY <1>1 DEF ledgerVars
  <2>2. MarksAgree' /\ LedgerOnFile' /\ CountsAreEarned'
    BY <2>1, CountsStand DEF CountInv
  <2>3. CountsAreShared'
    <3>1. \A j, n : Mark(j, n)' = Mark(j, n)
      BY <2>1 DEF Mark, Bears
    <3>2. \A l \in Lanes, g \in {disk', settled'} :
            \E h \in {disk, settled} : h.reg[l] <= g.reg[l]
      BY <2>1 DEF LedgerShape, LedgerTypeOK, Files
    <3> QED
      BY <2>1, <3>1, <3>2, SharedKept DEF CountInv
  <2>4. HandlingIsSound'
    BY <2>1 DEF CountInv, HandlingIsSound, Live, Compacted, Pruned, Idle, NoEntries
  <2> QED
    BY <2>2, <2>3, <2>4 DEF CountInv, LedgerShape
<1>2. ASSUME NEW i \in Interactions, Capture(i) PROVE CountInv'
  <2>1. turn[i] = "idle"
    BY <1>2 DEF Capture, Reserve
  <2>2. i \notin written /\ i # handling.id
    BY <2>1 DEF OutboxInv, IdleIsUnheard, Heard, InState
  <2>3. /\ created' = [created EXCEPT ![i] = clock + Ahead]
        /\ UNCHANGED <<clock, daemonUp, registry, ledger, disk, settled,
                       laneUncertain, uncertain, handling, written, answered>>
    BY <1>2 DEF Capture
  <2> QED
    BY <2>2, <2>3, StampKeepsCounts
<1>3. ASSUME NEW i \in Interactions, Arrives(i) PROVE CountInv'
  BY <1>3, HandleKeepsCounts DEF Arrives
<1>4. CASE Answers
  BY <1>4, RespondKeepsCounts DEF Answers
<1>5. CASE Tick
  BY <1>5, TickKeepsCounts
<1>6. CASE Works
  BY <1>6, CompactKeepsCounts, ClearKeepsCounts, SaveKeepsCounts, AppendKeepsCounts DEF Works
<1>7. CASE DaemonStarts \/ DaemonCrashes \/ DaemonIsRestarted
  BY <1>7, StartKeepsCounts, CrashKeepsCounts
     DEF DaemonStarts, DaemonCrashes, DaemonIsRestarted, DaemonDies
<1>8. CASE Turns \/ Retries \/ Flushes \/ FlushRefused \/ FlushTimesOut \/ BridgeStarts
           \/ BridgeCrashes \/ BridgeIsRestarted \/ LateIsLost \/ UNCHANGED vars
  BY <1>1, <1>8 DEF Turns, Retries, Flushes, FlushRefused, FlushTimesOut, BridgeStarts,
     BridgeCrashes, BridgeIsRestarted, LateIsLost, vars
<1> QED
  BY <1>2, <1>3, <1>4, <1>5, <1>6, <1>7, <1>8 DEF Next

\* The counts hold at the start.
LEMMA CountsStart ==
  ASSUME Init, LedgerShape
  PROVE  CountInv
<1> DEFINE NoFiles == [snap |-> NoEntries, lines |-> {}, tail |-> "clean",
                       reg |-> [l \in Lanes |-> 0]]
<1>1. /\ daemonUp /\ disk = NoFiles /\ settled = NoFiles
      /\ registry = [l \in Lanes |-> 0]
      /\ ledger = [entries |-> NoEntries, lines |-> 0, stale |-> FALSE]
      /\ ~laneUncertain /\ ~uncertain
      /\ handling = Idle /\ written = {} /\ answered = {}
  BY DEF Init, LedgerInit
<1>2. \A i \in Interactions : NoEntries[i] = 0
  BY DEF NoEntries
<1>3. \A i \in Interactions : \A n : ~Bears(disk, i, n) /\ ~Bears(settled, i, n)
  BY <1>1, <1>2 DEF Bears
<1>4. \A i \in Interactions : \A n : ~Mark(i, n)
  BY <1>1, <1>2, <1>3 DEF Mark
<1>5. MarksAgree
  BY <1>1, <1>4, FS_EmptySet DEF MarksAgree
<1>6. HandlingIsSound
  BY <1>1 DEF HandlingIsSound, Idle
<1>7. LedgerOnFile
  <2>1. EntryCount(NoEntries) = 0
    <3>1. {i \in Interactions : NoEntries[i] # 0} = {}
      BY <1>2
    <3> QED
      BY <3>1, FS_EmptySet DEF EntryCount
  <2>2. Cardinality({}) = 0 /\ 0 <= MaxLines /\ 0 <= MaxEntries /\ 0 <= 0
    BY FS_EmptySet, LedgerAssumption
  <2>3. /\ \A f \in {disk, settled} : Cardinality(f.lines) <= ledger.lines
        /\ ledger.lines <= MaxLines /\ EntryCount(ledger.entries) <= MaxEntries
    BY <1>1, <2>1, <2>2
  <2> QED
    BY <1>1, <1>2, <1>3, <2>3 DEF LedgerOnFile
<1>8. CountsAreEarned
  <2>1. \A l : Cardinality(Of(l, {})) \in Nat /\ Cardinality(Of(l, {})) = 0
    <3>1. \A l : Of(l, {}) = {}
      BY DEF Of
    <3> QED
      BY <3>1, FS_EmptySet
  <2>2. Within(NoFiles, {})
    <3>1. \A l \in Lanes : NoFiles.reg[l] <= Cardinality(Of(l, {}))
      BY <2>1
    <3> QED
      BY <1>1, <1>3, <3>1 DEF Within
  <2>3. Survivors = {NoFiles}
    BY <1>1 DEF Survivors
  <2>4. Fresh(NoFiles) = {} /\ FreshHere = {}
    BY <1>1 DEF Fresh, FreshHere
  <2>5. \A i \in Interactions :
          ledger.entries[i] <= Cardinality(Of(LaneOf[i], {}))
    BY <1>1, <1>2, <2>1
  <2> QED
    BY <1>1, <2>2, <2>3, <2>4, <2>5 DEF CountsAreEarned
<1>9. CountsAreShared
  <2>1. \A l \in Lanes, m \in Nat : Of(l, {}) \cup Marked(l, m) = {}
    BY <1>4 DEF Of, Marked
  <2>2. \A m \in Nat : Cardinality({}) <= m
    BY FS_EmptySet
  <2> QED
    BY <1>1, <2>1, <2>2 DEF CountsAreShared
<1> QED
  BY <1>5, <1>6, <1>7, <1>8, <1>9 DEF CountInv, LedgerShape

\* The whole of what is kept about the outbox and the counts.
LEMMA CountInvHolds == Spec => [](TurnInv /\ CountInv)
<1>1. Init /\ TurnInv => CountInv
  BY CountsStart DEF TurnInv
<1>2. TurnInv /\ TurnInv' /\ CountInv /\ [Next]_vars => CountInv'
  BY CountsKept DEF TurnInv
<1> QED
  BY <1>1, <1>2, TurnInvHolds, PTL DEF Spec

\* A turn answered as recorded is counted in its lane for ever: whichever
\* registry a restart finds holds a count at least as high as the number of
\* such turns, over any failed writes, restarts and compactions.
THEOREM AnsweredIsCounted == Spec => []CountCoversAnswers
<1>1. LedgerShape /\ CountsAreShared => CountCoversAnswers
  <2> SUFFICES ASSUME LedgerShape, CountsAreShared, NEW l \in Lanes,
                      NEW f \in {disk, settled}
               PROVE  f.reg[l] >= Cardinality(Of(l, answered))
    BY DEF CountCoversAnswers
  <2>1. f.reg[l] \in Nat
    BY DEF LedgerShape, LedgerTypeOK, Files
  <2> DEFINE S == Of(l, answered) \cup Marked(l, f.reg[l])
  <2>2. S \in SUBSET Interactions /\ Of(l, answered) \in SUBSET S
    BY DEF Of, Marked, LedgerShape, LedgerTypeOK
  <2>3. IsFiniteSet(S)
    BY <2>2, TurnsAssumption, FS_Subset
  <2>4. Cardinality(S) <= f.reg[l]
    BY <2>1 DEF CountsAreShared
  <2> HIDE DEF S
  <2>5. /\ Cardinality(Of(l, answered)) <= Cardinality(S)
        /\ Cardinality(Of(l, answered)) \in Nat /\ Cardinality(S) \in Nat
    BY <2>2, <2>3, FS_Subset, FS_CardinalityType
  <2> QED
    BY <2>1, <2>4, <2>5
<1> QED
  BY <1>1, CountInvHolds, PTL DEF TurnInv, CountInv

\* No turn is counted twice, however often it is reported: neither a registry
\* nor the entries a restart would find exceed the turns whose append was tried.
THEOREM CountedOnce == Spec => []CountNeverExceeds
<1>1. LedgerShape /\ CountsAreEarned => CountNeverExceeds
  <2> SUFFICES ASSUME LedgerShape, CountsAreEarned, NEW l \in Lanes,
                      NEW f \in {disk, settled}
               PROVE  /\ f.reg[l] <= Cardinality(Of(l, written))
                      /\ LaneMax(Folded(f), l) <= Cardinality(Of(l, written))
    BY DEF CountNeverExceeds
  <2>1. f \in Files /\ IsFiniteSet(f.lines) /\ written \in SUBSET Interactions
    BY DEF LedgerShape, LedgerTypeOK
  <2>2. Within(f, written)
    BY DEF CountsAreEarned
  <2> PICK e : e = Folded(f)
    OBVIOUS
  <2>3. /\ e \in Entries
        /\ \A i \in Interactions : e[i] \in Nat /\ (e[i] = 0 \/ Bears(f, i, e[i]))
    BY <2>1, FoldedIs DEF Entries
  <2> PICK m : m = LaneMax(e, l)
    OBVIOUS
  <2>4. m \in Nat /\ (m = 0 \/ \E i \in Interactions : LaneOf[i] = l /\ e[i] = m)
    BY <2>3, LaneMaxIs
  <2>5. Cardinality(Of(l, written)) \in Nat
    BY <2>1, OfIs
  <2>6. m <= Cardinality(Of(l, written))
    <3>1. CASE m = 0
      BY <2>5, <3>1
    <3>2. CASE m # 0
      <4>1. PICK i \in Interactions : LaneOf[i] = l /\ e[i] = m
        BY <2>4, <3>2
      <4>2. Bears(f, i, m)
        BY <2>3, <3>2, <4>1
      <4> QED
        BY <2>2, <2>4, <4>1, <4>2 DEF Within
    <3> QED
      BY <3>1, <3>2
  <2> QED
    BY <2>2, <2>6 DEF Within
<1> QED
  BY <1>1, CountInvHolds, PTL DEF TurnInv, CountInv

-----------------------------------------------------------------------------
(* The journal's last line *)

\* While no append leaves a whole record without its newline, every step leaves
\* journals that end with one or are torn, and none that are torn while the
\* ledger is not fenced.
LEMMA TailsKept ==
  ASSUME NewlinesKept, LedgerShape, LedgerShape', CountInv, TailsAreClean, [Next]_vars
  PROVE  TailsAreClean'
<1>1. ASSUME UNCHANGED <<daemonUp, disk, settled, uncertain>> PROVE TailsAreClean'
  BY <1>1 DEF TailsAreClean
<1>2. ASSUME NEW i \in Interactions, Capture(i) \/ Arrives(i) PROVE TailsAreClean'
  BY <1>1, <1>2 DEF Capture, Arrives, Handle
<1>3. CASE Answers \/ Tick
  BY <1>1, <1>3 DEF Answers, Respond, Tick
<1>4. /\ disk \in Files /\ settled \in Files
  BY DEF LedgerShape, LedgerTypeOK
<1>5. ASSUME daemonUp, ~uncertain, daemonUp' = daemonUp, uncertain' = uncertain,
             disk'.tail \in {disk.tail, "clean"},
             settled'.tail \in {settled.tail, disk.tail, "clean"}
      PROVE  TailsAreClean'
  BY <1>5 DEF TailsAreClean
<1>6. ASSUME NEW o \in WriteOutcomes, CompactSnapshot(o) PROVE TailsAreClean'
  <2>1. ~uncertain /\ daemonUp /\ daemonUp' = daemonUp /\ uncertain' = uncertain
        /\ Replace([disk EXCEPT !.snap = Compacted], o)
    BY <1>6 DEF CompactSnapshot, CountInv, HandlingIsSound
  <2>2. disk'.tail = disk.tail /\ settled'.tail \in {settled.tail, disk.tail}
    BY <1>4, <2>1 DEF Replace, Files
  <2> QED
    BY <1>5, <2>1, <2>2
<1>7. ASSUME NEW o \in WriteOutcomes, ClearJournal(o) PROVE TailsAreClean'
  <2>1. ~uncertain /\ daemonUp /\ daemonUp' = daemonUp /\ uncertain' = uncertain
        /\ Replace([disk EXCEPT !.lines = {}, !.tail = "clean"], o)
    BY <1>7 DEF ClearJournal, CountInv, HandlingIsSound
  <2>2. disk'.tail \in {disk.tail, "clean"} /\ settled'.tail \in {settled.tail, "clean"}
    BY <1>4, <2>1 DEF Replace, Files
  <2> QED
    BY <1>5, <2>1, <2>2
<1>8. ASSUME NEW o \in WriteOutcomes, SaveRegistry(o) PROVE TailsAreClean'
  <2> PICK raised : Replace([disk EXCEPT !.reg = raised], o)
    BY <1>8 DEF SaveRegistry
  <2>1. ~uncertain /\ daemonUp /\ daemonUp' = daemonUp /\ uncertain' = uncertain
    BY <1>8 DEF SaveRegistry, CountInv, HandlingIsSound
  <2>2. disk'.tail = disk.tail /\ settled'.tail \in {settled.tail, disk.tail}
    BY <1>4 DEF Replace, Files
  <2> QED
    BY <1>5, <2>1, <2>2
<1>9. ASSUME NEW o \in AppendOutcomes, AppendLine(o) PROVE TailsAreClean'
  <2> PICK i : i = handling.id
    OBVIOUS
  <2> PICK n : n = NextCount(LaneOf[i])
    OBVIOUS
  <2> PICK f : f = AppendedAs(disk, <<i, n>>, o)
    OBVIOUS
  <2>1. /\ daemonUp /\ daemonUp' = daemonUp /\ ~uncertain
        /\ <<i, n>> \in Line
    <3>1. daemonUp /\ daemonUp' = daemonUp /\ handling.step = "append"
      BY <1>9 DEF AppendLine
    <3>2. ~uncertain /\ i \in Interactions /\ n \in Nat
      BY <3>1, BeforeAppend
    <3> QED
      BY <3>1, <3>2 DEF Line
  <2>2. disk.tail = "clean" /\ settled.tail = "clean"
    BY <2>1 DEF TailsAreClean
  <2>3. \/ UNCHANGED <<disk, settled, uncertain>>
        \/ /\ disk' = f
           /\ settled' = IF o = "ok" THEN f ELSE settled
           /\ uncertain' = InDoubt(o)
    BY <1>9 DEF AppendLine
  <2>4. /\ f.tail # "open" /\ (o = "ok" => f.tail = "clean")
        /\ (o = "definite" => f = disk)
    BY <1>4, <2>1, <2>2, AppendedAsIs DEF NewlinesKept
  <2>5. CASE UNCHANGED <<disk, settled, uncertain>>
    BY <1>1, <2>1, <2>5
  <2>6. CASE /\ disk' = f
             /\ settled' = IF o = "ok" THEN f ELSE settled
             /\ uncertain' = InDoubt(o)
    BY <2>2, <2>4, <2>6 DEF TailsAreClean, InDoubt
  <2> QED
    BY <2>3, <2>5, <2>6
<1>10. CASE DaemonCrash
  BY <1>10 DEF DaemonCrash, TailsAreClean
<1>11. ASSUME NEW o \in WriteOutcomes, DaemonStart(o) PROVE TailsAreClean'
  <2> PICK repaired : Replace([disk EXCEPT !.reg = repaired], o)
                      \/ UNCHANGED <<disk, settled>>
    BY <1>11 DEF DaemonStart
  <2>1. disk.tail # "bad" /\ settled = disk
    BY <1>11 DEF DaemonStart, Loads, CountInv, HandlingIsSound
  <2>2. disk.tail = "clean"
    BY <1>4, <2>1 DEF TailsAreClean, Files
  <2>3. disk'.tail = "clean" /\ settled'.tail = "clean"
    BY <1>4, <2>1, <2>2 DEF Replace, Files
  <2> QED
    BY <2>3 DEF TailsAreClean
<1>12. CASE Turns \/ Retries \/ Flushes \/ FlushRefused \/ FlushTimesOut \/ BridgeStarts
            \/ BridgeCrashes \/ BridgeIsRestarted \/ LateIsLost \/ UNCHANGED vars
  BY <1>1, <1>12 DEF Turns, Retries, Flushes, FlushRefused, FlushTimesOut, BridgeStarts,
     BridgeCrashes, BridgeIsRestarted, LateIsLost, vars, ledgerVars
<1> QED
  BY <1>2, <1>3, <1>6, <1>7, <1>8, <1>9, <1>10, <1>11, <1>12
     DEF Next, Works, DaemonStarts, DaemonCrashes, DaemonIsRestarted, DaemonDies

\* While the ledger is not fenced, whatever a crash leaves can be loaded again,
\* within the bounds of the journal and of the entries.
LEMMA LoadsAgain ==
  ASSUME LedgerShape, CountInv, TailsAreClean
  PROVE  LedgerLoads
<1> SUFFICES ASSUME daemonUp, ~uncertain,
                    NEW snap \in {disk.snap, settled.snap}, NEW journal \in {disk, settled}
             PROVE  Loads([journal EXCEPT !.snap = snap])
  BY DEF LedgerLoads
<1> PICK f : f = [journal EXCEPT !.snap = snap]
  OBVIOUS
<1>1. /\ disk \in Files /\ settled \in Files /\ ledger.entries \in Entries
      /\ IsFiniteSet(disk.lines) /\ IsFiniteSet(settled.lines)
  BY DEF LedgerShape, LedgerTypeOK, Ledger
<1>2. /\ f.snap = snap /\ f.lines = journal.lines /\ f.tail = journal.tail
      /\ f \in Files
  BY <1>1 DEF Files
<1>3. f.tail # "bad"
  BY <1>2 DEF TailsAreClean
<1>4. \A i \in Interactions, n \in Nat : Bears(f, i, n) => Mark(i, n)
  BY <1>2 DEF Bears, Mark
<1>5. \A x, y \in Records(f) : x[1] = y[1] => x[2] = y[2]
  <2>1. ASSUME NEW x \in Records(f)
        PROVE  x[1] \in Interactions /\ x[2] \in Nat /\ Mark(x[1], x[2])
    <3>1. CASE x \in f.lines
      <4>1. x \in Line /\ x[2] # 0
        BY <1>2, <3>1 DEF Files, CountInv, MarksAgree
      <4>2. x = <<x[1], x[2]>> /\ x[1] \in Interactions /\ x[2] \in Nat
        BY <4>1 DEF Line
      <4>3. Bears(f, x[1], x[2])
        BY <3>1, <4>1, <4>2 DEF Bears
      <4> QED
        BY <1>4, <4>2, <4>3
    <3>2. CASE x \in {<<i, f.snap[i]>> : i \in {j \in Interactions : f.snap[j] # 0}}
      <4>1. PICK i \in Interactions : f.snap[i] # 0 /\ x = <<i, f.snap[i]>>
        BY <3>2
      <4>2. x[1] = i /\ x[2] = f.snap[i] /\ f.snap[i] \in Nat
        BY <1>2, <4>1 DEF Files, Entries
      <4>3. Bears(f, i, f.snap[i])
        BY <4>1 DEF Bears
      <4> QED
        BY <1>4, <4>2, <4>3
    <3> QED
      BY <3>1, <3>2 DEF Records
  <2> QED
    BY <2>1 DEF CountInv, MarksAgree
<1>6. Cardinality(f.lines) <= MaxLines
  <2>1. /\ \A g \in {disk, settled} : Cardinality(g.lines) <= ledger.lines
        /\ ledger.lines <= MaxLines
    BY DEF CountInv, LedgerOnFile
  <2>2. ledger.lines \in Nat /\ Cardinality(f.lines) \in Nat /\ MaxLines \in Nat
    BY <1>1, <1>2, FS_CardinalityType, LedgerAssumption DEF LedgerShape, LedgerTypeOK, Ledger
  <2> QED
    BY <1>2, <2>1, <2>2
<1>7. EntryCount(Pruned(Folded(f))) <= MaxEntries
  <2> PICK e : e = Folded(f)
    OBVIOUS
  <2> PICK d : d = Pruned(e)
    OBVIOUS
  <2>1. IsFiniteSet(f.lines)
    BY <1>1, <1>2
  <2>2. /\ e \in Entries
        /\ \A i \in Interactions : e[i] \in Nat /\ (e[i] = 0 \/ Bears(f, i, e[i]))
    BY <1>2, <2>1, FoldedIs DEF Entries
  <2>3. \A i \in Interactions : d[i] = IF Live(i) THEN e[i] ELSE 0
    BY <2>2, PrunedIs
  <2>4. ASSUME NEW i \in Interactions, d[i] # 0 PROVE ledger.entries[i] # 0
    <3>1. Live(i) /\ e[i] # 0 /\ Bears(f, i, e[i]) /\ e[i] \in Nat
      BY <2>2, <2>3, <2>4
    <3>2. Bears(disk, i, e[i]) \/ Bears(settled, i, e[i])
      BY <1>2, <3>1 DEF Bears
    <3> QED
      BY <3>1, <3>2 DEF CountInv, LedgerOnFile
  <2>5. /\ EntryCount(d) <= EntryCount(ledger.entries)
        /\ EntryCount(d) \in Nat /\ EntryCount(ledger.entries) \in Nat
    BY <2>4, EntryCountFewer
  <2>6. EntryCount(ledger.entries) <= MaxEntries /\ MaxEntries \in Nat
    BY LedgerAssumption DEF CountInv, LedgerOnFile
  <2> PICK a, b : a = EntryCount(d) /\ b = EntryCount(ledger.entries)
    OBVIOUS
  <2>7. a <= MaxEntries
    BY <2>5, <2>6
  <2> QED
    BY <2>7
<1> QED
  BY <1>3, <1>5, <1>6, <1>7 DEF Loads

\* If no append leaves a whole record without its newline, the count of a lane
\* is exact between what was answered and what was tried, and whatever a crash
\* leaves can be loaded again unless an append is in doubt.  Where one does leave
\* such a record, the start after it takes the record for whole and the next
\* append spoils its line.
THEOREM LedgerStaysExact == NewlinesKept => (Spec => []LedgerIsExact)
<1> SUFFICES ASSUME NewlinesKept PROVE Spec => []LedgerIsExact
  OBVIOUS
<1>1. Init => TailsAreClean
  BY DEF Init, LedgerInit, TailsAreClean
<1>2. TurnInv /\ TurnInv' /\ CountInv /\ TailsAreClean /\ [Next]_vars => TailsAreClean'
  BY TailsKept DEF TurnInv
<1>3. Spec => []TailsAreClean
  BY <1>1, <1>2, CountInvHolds, PTL DEF Spec
<1>4. TurnInv /\ CountInv /\ TailsAreClean => LedgerLoads
  BY LoadsAgain DEF TurnInv
<1>5. LedgerLoads /\ CountCoversAnswers /\ CountNeverExceeds => LedgerIsExact
  BY DEF LedgerIsExact
<1> QED
  BY <1>3, <1>4, <1>5, CountInvHolds, AnsweredIsCounted, CountedOnce, PTL
=============================================================================
