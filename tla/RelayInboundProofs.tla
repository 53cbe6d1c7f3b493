--------------------------- MODULE RelayInboundProofs ---------------------------
(***************************************************************************)
(* For any turns, numbers of connections, limits and faults.  First: a     *)
(* superseded socket writes no row and acknowledges none.  The checks of   *)
(* ownership are made before the step they guard, so what matters is that  *)
(* connection_writer_lock is held from the first frame of a connection to  *)
(* its last, and that a step under way keeps its connection's task alive.  *)
(* Then, on top of it: the queue, the answers to pushers, the handover.    *)
(***************************************************************************)
EXTENDS RelayInbound, QueueLemmas

Phases == {"off", "waiting", "hello", "replay", "serve", "closed"}

\* The phases of a connection that handles frames.
Serving == {"hello", "replay", "serve"}

\* Who handles frames holds the lock, and nobody else is busy with one.
WriterInv ==
  /\ latest \in Nat
  /\ phase \in [Connections -> Phases]
  /\ frame = [c \in Connections |-> frame[c]]
  /\ wire = [c \in Connections |-> wire[c]]
  /\ \A c \in Connections : c > latest => phase[c] = "off"
  /\ \A c \in Connections : phase[c] \in Serving => writer = c
  /\ \A c \in Connections : frame[c] # NoFrame => phase[c] \in Serving

-----------------------------------------------------------------------------
\* No connection exists at first.
LEMMA InitWriter == Init => WriterInv
  BY DEF Init, WriterInv, Phases, Serving, NoFrame

\* Pushers and faults that leave connections alone keep the invariant.
LEMMA StillWriter ==
  ASSUME WriterInv, UNCHANGED <<latest, writer, phase, frame, wire>> PROVE WriterInv'
  BY DEF WriterInv

\* A new connection is one nobody knew, and waits.
LEMMA BeginWriter ==
  ASSUME WriterInv, NEW c \in Connections, BeginConnection(c) PROVE WriterInv'
<1> USE DEF BeginConnection, WriterInv, Phases, Serving, Connections
<1>1. c \in Nat /\ latest' = c /\ phase[c] = "off" BY InboundAssumption
<1>2. /\ phase' = [phase EXCEPT ![c] = "waiting"]
      /\ UNCHANGED <<writer, frame, wire>>
  BY DEF task, history
<1> QED BY <1>1, <1>2

\* It becomes active only once the lock is free: then nobody handles frames.
LEMMA ActivateWriter ==
  ASSUME WriterInv, NEW c \in Connections, ActivateConnection(c) PROVE WriterInv'
<1> USE DEF ActivateConnection, WriterInv, Phases, Serving, WriterIsFree, history
<1>1. c # 0 /\ 0 \notin Connections BY InboundAssumption DEF Connections
<1>2. \A d \in Connections : phase[d] \notin Serving BY <1>1
<1>3. CASE latest = c BY <1>1, <1>2, <1>3
<1>4. CASE latest # c BY <1>1, <1>2, <1>4
<1> QED BY <1>3, <1>4

\* A step of a connection that handles frames, from one frame to the next.
LEMMA ServeWriter ==
  ASSUME WriterInv, NEW c \in Connections, NEW f,
         phase[c] \in Serving,
         UNCHANGED <<latest, writer>>,
         phase' = phase \/ phase' = [phase EXCEPT ![c] = "replay"]
                        \/ phase' = [phase EXCEPT ![c] = "serve"],
         frame' = [frame EXCEPT ![c] = f],
         wire' = [x \in Connections |-> wire'[x]]
  PROVE  WriterInv'
<1> USE DEF WriterInv, Phases, Serving
<1>1. phase' \in [Connections -> Phases] OBVIOUS
<1>2. \A d \in Connections : /\ phase'[d] \in Serving <=> phase[d] \in Serving
                             /\ d # c => phase'[d] = phase[d] /\ frame'[d] = frame[d]
  OBVIOUS
<1>3. phase[c] # "off" /\ c <= latest BY InboundAssumption DEF Connections
<1> QED BY <1>1, <1>2, <1>3

\* The end of a connection releases the lock if it holds it.
LEMMA EndsWriter == ASSUME WriterInv, NEW c \in Connections, phase[c] \in Serving, Ends(c)
                    PROVE  WriterInv'
<1> USE DEF Ends, WriterInv, Phases, Serving, history
<1>1. phase[c] # "off" /\ c <= latest BY InboundAssumption DEF Connections
<1>2. writer = c BY <1>1
<1>3. \A d \in Connections : d # c => phase[d] \notin Serving BY <1>2
<1> QED BY <1>1, <1>3

\* After a restart every socket is closed.
LEMMA RestartWriter == ASSUME WriterInv, Restart PROVE WriterInv'
  BY DEF Restart, WriterInv, Phases, Serving, history, NoFrame

\* A connection that is ready for a step, or in the middle of one, serves.
LEMMA BusyServes ==
  ASSUME WriterInv, NEW c \in Connections,
         OwnsFrame(c) \/ frame[c].kind = "write" \/ frame[c].kind = "ack" \/ Running(c)
  PROVE  phase[c] \in Serving
  BY DEF WriterInv, OwnsFrame, Ready, Running, Serving, NoFrame

\* Every step keeps the invariant.
LEMMA NextWriter == WriterInv /\ [Next]_vars => WriterInv'
<1> SUFFICES ASSUME WriterInv, [Next]_vars PROVE WriterInv' OBVIOUS
<1> DEFINE Quiet == UNCHANGED <<latest, writer, phase, frame, wire>>
<1>1. ASSUME NEW t \in Turns,
             \/ Capture(t) \/ Send(t) \/ HangUp(t)
             \/ \E outcome \in WriteOutcomes : Enqueue(t, outcome)
      PROVE  WriterInv'
  BY <1>1, StillWriter DEF Capture, Send, HangUp, Enqueue, owner, task, history
<1>2. ASSUME NEW c \in Connections, BeginConnection(c) PROVE WriterInv'
  BY <1>2, BeginWriter
<1>3. ASSUME NEW c \in Connections, ActivateConnection(c) PROVE WriterInv'
  BY <1>3, ActivateWriter
<1>4. ASSUME NEW c \in Connections,
             StartReplay(c) \/ EndReplay(c) \/ ReplayNext(c) \/ TakeFromChannel(c)
      PROVE  WriterInv'
  <2>1. phase[c] \in Serving /\ wire' = wire /\ UNCHANGED <<latest, writer>>
    BY <1>4 DEF StartReplay, EndReplay, ReplayNext, TakeFromChannel, Ready, Serving,
                owner, history
  <2>2. frame[c] = NoFrame
    BY <1>4 DEF StartReplay, EndReplay, ReplayNext, TakeFromChannel, Ready
  <2>3. \/ phase' = phase \/ phase' = [phase EXCEPT ![c] = "replay"]
        \/ phase' = [phase EXCEPT ![c] = "serve"]
    BY <1>4 DEF StartReplay, EndReplay, ReplayNext, TakeFromChannel
  <2>4. frame = [frame EXCEPT ![c] = NoFrame] BY <2>2 DEF WriterInv
  <2>5. \E f : frame' = [frame EXCEPT ![c] = f]
    BY <1>4, <2>4 DEF StartReplay, EndReplay, ReplayNext, TakeFromChannel, Writes
  <2>6. wire' = [x \in Connections |-> wire'[x]] BY <2>1 DEF WriterInv
  <2> QED BY <2>1, <2>3, <2>5, <2>6, ServeWriter
<1>5. ASSUME NEW c \in Connections, FinishWrite(c) PROVE WriterInv'
  <2>1. phase[c] \in Serving BY <1>5, BusyServes DEF FinishWrite
  <2>2. /\ UNCHANGED <<latest, writer>> /\ phase' = phase
        /\ frame' = [frame EXCEPT ![c] = NoFrame]
    BY <1>5 DEF FinishWrite, owner
  <2>3. wire' = [x \in Connections |-> wire'[x]] BY <1>5 DEF FinishWrite, WriterInv
  <2> QED BY <2>1, <2>2, <2>3, ServeWriter
<1>6. ASSUME NEW c \in Connections, NEW row, CheckAck(c, row) PROVE WriterInv'
  <2>1. phase[c] \in Serving BY <1>6, BusyServes DEF CheckAck
  <2>2. /\ UNCHANGED <<latest, writer>> /\ phase' = phase /\ wire' = wire
        /\ frame' = [frame EXCEPT ![c] = [kind |-> "ack", row |-> row]]
    BY <1>6 DEF CheckAck, owner, history
  <2>3. wire' = [x \in Connections |-> wire'[x]] BY <2>2 DEF WriterInv
  <2> QED BY <2>1, <2>2, <2>3, ServeWriter
<1>7. ASSUME NEW c \in Connections, NEW outcome, ApplyAck(c, outcome) PROVE WriterInv'
  <2>1. phase[c] \in Serving BY <1>7, BusyServes DEF ApplyAck
  <2>2. /\ UNCHANGED <<latest, writer>> /\ phase' = phase /\ wire' = wire
        /\ frame' = [frame EXCEPT ![c] = NoFrame]
    BY <1>7 DEF ApplyAck, owner
  <2>3. wire' = [x \in Connections |-> wire'[x]] BY <2>2 DEF WriterInv
  <2> QED BY <2>1, <2>2, <2>3, ServeWriter
<1>8. ASSUME NEW c \in Connections, Superseded(c) \/ Disconnect(c) PROVE WriterInv'
  BY <1>8, BusyServes, EndsWriter DEF Superseded, Disconnect
<1>9. CASE FencedElsewhere
  BY <1>9, StillWriter DEF FencedElsewhere, owner, task, history
<1>10. CASE Restart BY <1>10, RestartWriter
<1>11. CASE UNCHANGED vars BY <1>11, StillWriter DEF vars
<1> QED
  BY <1>1, <1>2, <1>3, <1>4, <1>5, <1>6, <1>7, <1>8, <1>9, <1>10, <1>11 DEF Next

-----------------------------------------------------------------------------
\* A connection with a successor is busy with nothing.
LEMMA SuccessorWaits ==
  ASSUME WriterInv, NEW c \in Connections, Successor(c) PROVE frame[c] = NoFrame
  BY InboundAssumption DEF WriterInv, Successor, Serving, Connections

\* So none of its steps writes, and the acknowledgement it may have checked is
\* over.
LEMMA OwnerStep ==
  ASSUME WriterInv, [Next]_vars, NEW c \in Connections, Successor(c)
  PROVE  /\ wire'[c] = wire[c]
         /\ frame[c].kind = "ack" => UNCHANGED <<store, acked>>
<1>1. frame[c].kind = "idle" BY SuccessorWaits DEF NoFrame
<1>2. \/ wire' = wire
      \/ \E d \in Connections : /\ frame[d].kind = "write"
                                /\ wire' = [wire EXCEPT ![d] = Append(@, frame[d].row)]
  BY DEF Next, vars, history, Capture, Send, HangUp, Enqueue, BeginConnection,
         ActivateConnection, StartReplay, ReplayNext, EndReplay, TakeFromChannel,
         FinishWrite, Superseded, Disconnect, Ends, ApplyAck, CheckAck,
         FencedElsewhere, Restart
<1>3. wire'[c] = wire[c] BY <1>1, <1>2 DEF WriterInv
<1> QED BY <1>1, <1>3

\* inbound_ack and send_owned_text (relay.rs:5818-5887, 6118-6182): once a
\* successor is active, a superseded socket hands over and acknowledges nothing,
\* though its ownership was checked in an earlier step.
THEOREM SupersededIsSilent == Spec => OwnerActsAlone
<1>1. Init => WriterInv BY InitWriter
<1>2. WriterInv /\ [Next]_vars => WriterInv' BY NextWriter
<1>3. WriterInv /\ [Next]_vars =>
        [\A c \in Connections : Successor(c) =>
           /\ wire'[c] = wire[c]
           /\ frame[c].kind = "ack" => UNCHANGED <<store, acked>>]_vars
  BY OwnerStep
<1> QED BY <1>1, <1>2, <1>3, PTL DEF Spec, OwnerActsAlone

-----------------------------------------------------------------------------
(***************************************************************************)
(* For any turns, connections, limits and faults: the queue loads, the     *)
(* answers to POST /api/message are true, and nothing is handed over       *)
(* twice.  What these rest on:                                             *)
(*   - the row of a turn is made once, so every copy of it, in memory, in  *)
(*     a file or under way to the gateway, is the one its pusher remembers;*)
(*   - memory and the file agree, and an older file may come back only     *)
(*     while the fence is up, when nothing is accepted or acknowledged;    *)
(*   - acknowledgements are handled before a replay or after it, by the    *)
(*     connection that would write, never between a row's last check and   *)
(*     its write.                                                          *)
(***************************************************************************)

\* The row its pusher remembers.
Known(x) == x \in Row /\ push[x.turn].row = x

\* A snapshot a restart may find.
SnapshotIsSound(s) ==
  /\ s \in Store /\ Loads(s)
  /\ \A x \in ToSet(s.rows) \cup ToSet(s.tombs) : Known(x)
  /\ ToSet(s.rows) \cap acked = {}
  /\ \A t \in Turns :
       push[t].step \in {"queued", "accepted"} /\ push[t].row \notin asked
         => push[t].row \in ToSet(s.rows)

PushersFit ==
  /\ push \in [Turns -> Push]
  /\ \A t \in Turns :
       /\ push[t].row = NoRow \/ push[t].row.turn = t
       /\ push[t].step \in {"new", "captured", "refused"} => push[t].row = NoRow
       /\ push[t].step \in {"queued", "accepted"} => push[t].row # NoRow

FilesFit ==
  /\ store = disk /\ fenced \in BOOLEAN /\ faults \in 0..MaxFaults
  /\ fenced \/ prior = {}
  /\ \A s \in {disk} \cup prior : SnapshotIsSound(s)
  /\ acked \subseteq asked /\ \A x \in asked : Known(x)

\* What a connection has written, writes and has left to replay.
TaskFits(c) ==
  /\ todo[c] \in Seq(Row) /\ sent[c] \subseteq Row /\ channel[c] \in Seq(Row)
  /\ frame[c] \in Frame /\ wire[c] \in Seq(Row)
  /\ \A x \in ToSet(wire[c]) \cup ToSet(todo[c]) : Known(x)
  /\ phase[c] \in {"off", "waiting", "hello"} => wire[c] = <<>>
  /\ phase[c] # "replay" => todo[c] = <<>>
  /\ IsInjective(todo[c]) /\ ToSet(todo[c]) \cap (acked \cup ToSet(wire[c])) = {}
  /\ frame[c].kind = "write" =>
       /\ phase[c] \in {"replay", "serve"} /\ Known(frame[c].row)
       /\ frame[c].row \notin acked \cup ToSet(wire[c]) \cup ToSet(todo[c])
  /\ frame[c].kind = "ack" => phase[c] \in {"hello", "serve"}
  /\ phase[c] \in Serving /\ IsActive(c) => ToSet(wire[c]) \subseteq sent[c]

Owners ==
  outbound \in 0..latest /\ writer \in 0..latest /\ latest \in 0..MaxConnections

Shapes ==
  /\ todo = [c \in Connections |-> todo[c]] /\ sent = [c \in Connections |-> sent[c]]
  /\ channel = [c \in Connections |-> channel[c]]
  /\ frame = [c \in Connections |-> frame[c]] /\ wire = [c \in Connections |-> wire[c]]
  /\ phase = [c \in Connections |-> phase[c]]

TasksFit == Owners /\ Shapes /\ \A c \in Connections : TaskFits(c)

InboundInv == WriterInv /\ PushersFit /\ FilesFit /\ TasksFit

-----------------------------------------------------------------------------
(* Snapshots *)

\* A turn that is not in the queue yet joins it.
LEMMA WithRowLoads ==
  ASSUME store \in Store, Loads(store), HasRoom, NEW row \in Row,
         row.gen = store.next + 1,
         \A x \in ToSet(store.rows) \cup ToSet(store.tombs) : x.turn # row.turn
  PROVE  /\ WithRow(row) \in Store /\ Loads(WithRow(row))
         /\ ToSet(WithRow(row).rows) = ToSet(store.rows) \cup {row}
         /\ WithRow(row).tombs = store.tombs
<1> DEFINE a == Append(store.rows, row)
<1>1. /\ store.rows \in Seq(Row) /\ store.tombs \in Seq(Row) /\ store.next \in Nat
      /\ MaxRows \in Nat
  BY InboundAssumption DEF Store
<1>2. a \in Seq(Row) /\ ToSet(a) = ToSet(store.rows) \cup {row}
  BY <1>1, ToSetAppend
<1>3. /\ Len(a) = Len(store.rows) + 1 /\ a[Len(store.rows) + 1] = row
      /\ \A i \in 1..Len(store.rows) : a[i] = store.rows[i]
      /\ DOMAIN a = 1..(Len(store.rows) + 1)
      /\ DOMAIN store.rows = 1..Len(store.rows) /\ Len(store.rows) \in Nat
  BY <1>1, AppendProperties
<1>4. WithRow(row) = [rows |-> a, next |-> row.gen, tombs |-> store.tombs]
  BY DEF WithRow
<1>5. WithRow(row).rows = a /\ WithRow(row).next = row.gen /\ WithRow(row).tombs = store.tombs
  BY <1>4
<1> HIDE DEF a
<1>6. row.gen \in Nat
  BY DEF Row
<1>7. WithRow(row) \in Store
  BY <1>1, <1>2, <1>4, <1>6 DEF Store
<1>8. Loads(WithRow(row))
  <2>1. Len(a) <= MaxRows /\ Len(store.tombs) <= MaxTombstones
    BY <1>1, <1>3 DEF HasRoom, Loads
  <2>2. \A i \in DOMAIN a : a[i].gen <= row.gen
    <3>1. ASSUME NEW i \in 1..Len(store.rows)
          PROVE  a[i].gen <= store.next /\ a[i].gen \in Nat
      <4>1. store.rows[i] \in Row /\ i \in DOMAIN store.rows
        BY <1>1, <1>3
      <4> QED
        BY <1>3, <4>1 DEF Loads, Row
    <3>2. store.next <= row.gen /\ store.next \in Nat
      BY <1>1
    <3>3. ASSUME NEW i \in 1..Len(store.rows) PROVE a[i].gen <= row.gen
      <4>1. a[i].gen <= store.next /\ a[i].gen \in Nat
        BY <3>1
      <4> QED
        BY <4>1, <3>2, <1>6
    <3>4. a[Len(store.rows) + 1].gen <= row.gen
      BY <1>3, <1>6
    <3>5. ASSUME NEW i \in DOMAIN a
          PROVE  i \in 1..Len(store.rows) \/ i = Len(store.rows) + 1
      BY <1>3
    <3> QED
      BY <3>3, <3>4, <3>5, Zenon
  <2>3. ASSUME NEW i \in DOMAIN a, NEW j \in DOMAIN a, i # j PROVE a[i].turn # a[j].turn
    <3>1. ASSUME NEW k \in 1..Len(store.rows)
          PROVE  a[k] = store.rows[k] /\ a[k].turn # row.turn
      BY <1>3 DEF ToSet
    <3>2. CASE i = Len(store.rows) + 1
      BY <1>3, <2>3, <3>1, <3>2
    <3>3. CASE j = Len(store.rows) + 1
      BY <1>3, <2>3, <3>1, <3>3
    <3>4. CASE i \in 1..Len(store.rows) /\ j \in 1..Len(store.rows)
      <4>1. store.rows[i].turn # store.rows[j].turn
        BY <1>3, <2>3, <3>4 DEF Loads
      <4> QED
        BY <3>1, <3>4, <4>1
    <3> QED
      BY <1>3, <3>2, <3>3, <3>4
  <2>4. \A i \in DOMAIN store.tombs : store.tombs[i].gen <= row.gen
    <3>1. ASSUME NEW i \in DOMAIN store.tombs
          PROVE  store.tombs[i].gen <= store.next /\ store.tombs[i].gen \in Nat
      <4>1. store.tombs[i] \in Row
        BY <1>1
      <4> QED
        BY <4>1 DEF Loads, Row
    <3> QED
      BY <1>1, <3>1
  <2>5. IsInjective(store.tombs) /\ ToSet(store.tombs) \cap ToSet(a) = {}
    BY <1>2 DEF Loads
  <2> QED
    BY <1>5, <2>1, <2>2, <2>3, <2>4, <2>5 DEF Loads
<1> QED
  BY <1>2, <1>5, <1>7, <1>8

\* The tombstones with one more, or with one more and without the oldest.
LEMMA EntombedLoads ==
  ASSUME store \in Store, Loads(store), NEW row \in Row, Pending(row)
  PROVE  /\ Entombed(row) \in Seq(Row) /\ Len(Entombed(row)) <= MaxTombstones
         /\ IsInjective(Entombed(row))
         /\ ToSet(Entombed(row)) \subseteq ToSet(store.tombs) \cup {row}
<1> DEFINE all == Append(store.tombs, row)
<1>1. /\ store.tombs \in Seq(Row) /\ row \notin ToSet(store.tombs)
      /\ IsInjective(store.tombs) /\ Len(store.tombs) <= MaxTombstones
      /\ MaxTombstones \in Nat \ {0}
  BY InboundAssumption DEF Store, Pending, Loads
<1>2. /\ all \in Seq(Row) /\ IsInjective(all) /\ Len(all) = Len(store.tombs) + 1
      /\ ToSet(all) = ToSet(store.tombs) \cup {row} /\ Len(store.tombs) \in Nat
  BY <1>1, ToSetAppend, AppendProperties
<1>3. Entombed(row) = IF Len(all) > MaxTombstones THEN Tail(all) ELSE all
  BY DEF Entombed
<1> HIDE DEF all
<1>4. all # <<>> /\ Len(Tail(all)) = Len(all) - 1
  BY <1>1, <1>2, HeadTailProperties
<1>5. /\ Tail(all) \in Seq(Row) /\ IsInjective(Tail(all))
      /\ ToSet(Tail(all)) \subseteq ToSet(all)
  BY <1>2, <1>4, ToSetTail
<1>6. CASE Len(all) > MaxTombstones
  BY <1>1, <1>2, <1>3, <1>4, <1>5, <1>6
<1>7. CASE ~(Len(all) > MaxTombstones)
  BY <1>1, <1>2, <1>3, <1>7
<1> QED
  BY <1>6, <1>7

\* An acknowledged row, and only it, leaves the queue.
LEMMA WithoutRowLoads ==
  ASSUME store \in Store, Loads(store), NEW row \in Row, Pending(row)
  PROVE  /\ WithoutRow(row) \in Store /\ Loads(WithoutRow(row))
         /\ ToSet(WithoutRow(row).rows) = ToSet(store.rows) \ {row}
         /\ ToSet(WithoutRow(row).tombs) \subseteq ToSet(store.tombs) \cup {row}
<1> DEFINE place == CHOOSE i \in DOMAIN store.rows : store.rows[i] = row
           s == store.rows
           r == RemoveAt(s, place)
           N == Len(s) - 1
<1>1. /\ s \in Seq(Row) /\ store.next \in Nat /\ MaxRows \in Nat /\ Len(s) \in Nat
      /\ DOMAIN s = 1..Len(s)
  BY InboundAssumption DEF Store
<1>2. place \in DOMAIN s /\ s[place] = row
  BY DEF Pending, ToSet
<1>3. WithoutRow(row) = [rows |-> r, next |-> store.next, tombs |-> Entombed(row)]
  BY DEF WithoutRow
<1>4. /\ WithoutRow(row).rows = r /\ WithoutRow(row).next = store.next
      /\ WithoutRow(row).tombs = Entombed(row)
  BY <1>3
<1> HIDE DEF place
<1>5. /\ r \in Seq(Row) /\ Len(r) = N
      /\ \A j \in 1..N : r[j] = IF j < place THEN s[j] ELSE s[j + 1]
  BY <1>1, <1>2, RemoveAtPlaces
<1> HIDE DEF r
<1>6. DOMAIN r = 1..N /\ N \in Nat /\ place \in 1..Len(s)
  BY <1>1, <1>2, <1>5
<1>7. \A i, j \in 1..Len(s) : i # j => s[i].turn # s[j].turn
  BY <1>1 DEF Loads
<1>8. ToSet(r) = ToSet(s) \ {row}
  <2>1. ASSUME NEW j \in 1..N PROVE r[j] \in ToSet(s) \ {row}
    <3>1. PICK k \in 1..Len(s) : r[j] = s[k] /\ k # place
      BY <1>1, <1>5, <1>6
    <3> QED
      BY <1>1, <1>2, <1>6, <1>7, <3>1 DEF ToSet
  <2>2. ASSUME NEW k \in 1..Len(s), s[k] # row PROVE s[k] \in ToSet(r)
    <3>1. k # place
      BY <1>2, <2>2
    <3>2. CASE k < place
      <4>1. k \in 1..N
        BY <1>1, <1>6, <3>2
      <4>2. r[k] = s[k] /\ k \in DOMAIN r
        BY <1>5, <1>6, <3>2, <4>1
      <4> HIDE DEF N, s
      <4> QED
        BY <4>2 DEF ToSet
    <3>3. CASE k > place
      <4>1. k - 1 \in 1..N /\ ~(k - 1 < place) /\ (k - 1) + 1 = k
        BY <1>1, <1>6, <3>3
      <4>2. r[k - 1] = s[k]
        BY <1>5, <4>1
      <4>3. k - 1 \in DOMAIN r
        BY <1>6, <4>1
      <4> HIDE DEF N, s
      <4> QED
        BY <4>2, <4>3 DEF ToSet
    <3> QED
      BY <1>6, <3>1, <3>2, <3>3
  <2> QED
    BY <1>1, <1>6, <2>1, <2>2 DEF ToSet
<1>9. /\ Entombed(row) \in Seq(Row) /\ Len(Entombed(row)) <= MaxTombstones
      /\ IsInjective(Entombed(row))
      /\ ToSet(Entombed(row)) \subseteq ToSet(store.tombs) \cup {row}
  BY EntombedLoads
<1>10. WithoutRow(row) \in Store
  BY <1>1, <1>3, <1>5, <1>9 DEF Store
<1>11. Loads(WithoutRow(row))
  <2>1. Len(r) <= MaxRows
    BY <1>1, <1>5 DEF Loads
  <2>2. ASSUME NEW i \in DOMAIN r PROVE r[i].gen <= store.next
    <3>1. r[i] \in ToSet(s)
      BY <1>8 DEF ToSet
    <3> QED
      BY <3>1 DEF Loads, ToSet
  <2>3. ASSUME NEW i \in DOMAIN r, NEW j \in DOMAIN r, i # j PROVE r[i].turn # r[j].turn
    <3> DEFINE At(x) == IF x < place THEN x ELSE x + 1
    <3>1. \A x \in 1..N : At(x) \in 1..Len(s) /\ r[x] = s[At(x)]
      BY <1>1, <1>5, <1>6
    <3>2. At(i) # At(j) /\ i \in 1..N /\ j \in 1..N
      BY <1>6, <2>3
    <3> HIDE DEF At, N, s
    <3> QED
      BY <1>7, <3>1, <3>2
  <2>4. ASSUME NEW i \in DOMAIN Entombed(row) PROVE Entombed(row)[i].gen <= store.next
    <3>1. Entombed(row)[i] \in ToSet(store.tombs) \cup {row}
      BY <1>9 DEF ToSet
    <3>2. \A x \in ToSet(store.tombs) : x.gen <= store.next
      BY DEF Loads, ToSet
    <3>3. row.gen <= store.next
      BY <1>2 DEF Loads
    <3> QED
      BY <3>1, <3>2, <3>3
  <2>5. ToSet(Entombed(row)) \cap ToSet(r) = {}
    BY <1>8, <1>9 DEF Loads
  <2> QED
    BY <1>4, <1>9, <2>1, <2>2, <2>3, <2>4, <2>5 DEF Loads
<1> QED
  BY <1>4, <1>8, <1>9, <1>10, <1>11

-----------------------------------------------------------------------------
(* Rows that are remembered *)

\* No pusher forgets its row.
Remembers == \A t \in Turns : push[t].row # NoRow => push'[t].row = push[t].row

\* A row is not the mark for none, and its turn is a turn.
LEMMA RowIsSome == ASSUME NEW x \in Row PROVE x # NoRow /\ x.turn \in Turns /\ x.gen \in Nat
  BY DEF Row, NoRow

\* What a pusher remembers it goes on remembering.
LEMMA KnownStays == ASSUME Remembers, NEW x, Known(x) PROVE Known(x)'
  BY RowIsSome DEF Remembers, Known

\* The row of a pusher that has one.
LEMMA PushersRow ==
  ASSUME PushersFit, NEW t \in Turns
  PROVE  /\ push[t] \in Push
         /\ push[t].row # NoRow => push[t].row \in Row /\ push[t].row.turn = t
         /\ push[t].step \in {"new", "captured", "refused"} => push[t].row = NoRow
         /\ push[t].step \in {"queued", "accepted"} => push[t].row # NoRow
<1>1. push[t] \in Push
  BY DEF PushersFit
<1>2. push[t].row \in Row \cup {NoRow}
  BY <1>1 DEF Push
<1> QED
  BY <1>1, <1>2 DEF PushersFit

\* A snapshot stays sound while its rows are not acknowledged and whatever is
\* accepted was so before, or is in it.
LEMMA SnapshotStays ==
  ASSUME NEW s, SnapshotIsSound(s), Remembers, ToSet(s.rows) \cap acked' = {},
         \A t \in Turns :
           push'[t].step \in {"queued", "accepted"} /\ push'[t].row \notin asked' =>
             \/ /\ push[t].step \in {"queued", "accepted"} /\ push[t].row \notin asked
                /\ push'[t].row = push[t].row
             \/ push'[t].row \in ToSet(s.rows)
  PROVE  SnapshotIsSound(s)'
<1>1. \A x \in ToSet(s.rows) \cup ToSet(s.tombs) : Known(x)'
  BY KnownStays DEF SnapshotIsSound
<1>2. \A t \in Turns :
        push'[t].step \in {"queued", "accepted"} /\ push'[t].row \notin asked'
          => push'[t].row \in ToSet(s.rows)
  BY DEF SnapshotIsSound
<1>3. s \in Store /\ Loads(s)
  BY DEF SnapshotIsSound
<1>4. Loads(s)'
  BY <1>3 DEF Loads
<1> QED
  BY <1>1, <1>2, <1>3, <1>4 DEF SnapshotIsSound

\* Steps that leave the files alone.
LEMMA FilesStay ==
  ASSUME FilesFit, UNCHANGED <<store, disk, prior, asked, acked>>, Remembers,
         fenced' \in BOOLEAN, faults' \in 0..MaxFaults, fenced => fenced',
         \A t \in Turns :
           push'[t].step \in {"queued", "accepted"} =>
             push[t].step \in {"queued", "accepted"} /\ push'[t].row = push[t].row
  PROVE  FilesFit'
<1>1. \A s \in {disk} \cup prior : SnapshotIsSound(s)'
  <2> SUFFICES ASSUME NEW s \in {disk} \cup prior PROVE SnapshotIsSound(s)'
    OBVIOUS
  <2>1. SnapshotIsSound(s) /\ ToSet(s.rows) \cap acked' = {}
    BY DEF FilesFit, SnapshotIsSound
  <2> QED
    BY <2>1, SnapshotStays
<1>2. \A x \in asked : Known(x)'
  BY KnownStays DEF FilesFit
<1> QED
  BY <1>1, <1>2 DEF FilesFit

-----------------------------------------------------------------------------
(* Pushers *)

\* A pusher moves on, with the row it has.
LEMMA PusherMoves ==
  ASSUME PushersFit, NEW t \in Turns, NEW step,
         \/ step \in {"refused", "captured"} /\ push[t].step = "new"
         \/ step \in {"accepted", "gone"} /\ push[t].step = "queued"
         \/ step = "refused" /\ push[t].step = "captured",
         NEW to \in Connections \cup {0},
         \/ push' = [push EXCEPT ![t].step = step]
         \/ push' = [push EXCEPT ![t].step = step, ![t].to = to]
  PROVE  /\ PushersFit' /\ Remembers
         /\ \A u \in Turns : push'[u].step \in {"queued", "accepted"} =>
              push[u].step \in {"queued", "accepted"} /\ push'[u].row = push[u].row
<1>1. /\ push \in [Turns -> Push] /\ push[t] \in Push
      /\ step \in {"refused", "captured", "accepted", "gone"}
  BY DEF PushersFit
<1>2. /\ push'[t].step = step /\ push'[t].row = push[t].row
      /\ \A u \in Turns : u # t => push'[u] = push[u]
  BY <1>1 DEF Push
<1>3. push' \in [Turns -> Push]
  BY <1>1 DEF Push
<1>4. \A u \in Turns : push'[u].row = push[u].row
  BY <1>2
<1> QED
  BY <1>2, <1>3, <1>4 DEF PushersFit, Remembers

\* How a write ends: not at all, well, or unsynced with the fence up.
LEMMA PersistEnds ==
  ASSUME NEW s, NEW outcome \in WriteOutcomes, Persist(s, outcome)
  PROVE  \/ outcome = "ok" /\ store' = s /\ disk' = s /\ UNCHANGED <<prior, fenced, faults>>
         \/ outcome = "pre" /\ UNCHANGED <<store, disk, prior, fenced>> /\ Faulty
         \/ /\ outcome = "post" /\ store' = s /\ disk' = s
            /\ prior' = prior \cup {disk} /\ fenced' = TRUE /\ Faulty
<1>1. outcome = "ok" \/ outcome = "pre" \/ outcome = "post"
  BY InboundAssumption
<1>2. CASE outcome = "ok"
  BY <1>2, Zenon DEF Persist
<1>3. CASE outcome = "pre"
  BY <1>3, Zenon DEF Persist
<1>4. CASE outcome = "post"
  BY <1>4, Zenon DEF Persist
<1> QED
  BY <1>1, <1>2, <1>3, <1>4

\* What a pusher makes of it.
LEMMA AnswerIs == Answer("ok") = "queued" /\ Answer("pre") = "refused" /\ Answer("post") = "unknown"
<1>1. Answer("ok") = "queued"
  BY Zenon DEF Answer
<1>2. Answer("pre") = "refused"
  BY Zenon DEF Answer
<1>3. Answer("post") = "unknown"
  BY Zenon DEF Answer
<1> QED
  BY <1>1, <1>2, <1>3

\* One more fault.
LEMMA FaultyCounts == ASSUME faults \in 0..MaxFaults, Faulty PROVE faults' \in 0..MaxFaults
  BY InboundAssumption DEF Faulty

\* Parts of the invariant of the files that steps need.
LEMMA StoreIsSound ==
  ASSUME FilesFit
  PROVE  /\ SnapshotIsSound(store) /\ store \in Store /\ Loads(store)
         /\ \A x \in ToSet(store.rows) \cup ToSet(store.tombs) : Known(x)
  BY DEF FilesFit, SnapshotIsSound

\* The row of a turn that joins the queue: the file that is written has it.
LEMMA EnqueueFits ==
  ASSUME PushersFit, FilesFit, NEW t \in Turns, NEW outcome \in WriteOutcomes,
         Enqueue(t, outcome)
  PROVE  PushersFit' /\ FilesFit' /\ Remembers
<1>1. push[t].step = "captured" /\ push[t].row = NoRow /\ asked' = asked /\ acked' = acked
  BY PushersRow DEF Enqueue, history
<1>2. CASE fenced \/ ~HasRoom
  <2>1. push' = [push EXCEPT ![t].step = "refused"] /\ UNCHANGED file
    BY <1>2 DEF Enqueue, Moves
  <2>2. UNCHANGED <<store, disk, prior, fenced, faults>>
    BY <2>1 DEF file
  <2>3. /\ PushersFit' /\ Remembers
        /\ \A u \in Turns : push'[u].step \in {"queued", "accepted"} =>
             push[u].step \in {"queued", "accepted"} /\ push'[u].row = push[u].row
    BY <1>1, <2>1, PusherMoves
  <2>4. fenced' \in BOOLEAN /\ faults' \in 0..MaxFaults /\ (fenced => fenced')
    BY <2>2 DEF FilesFit
  <2> QED
    BY <1>1, <2>2, <2>3, <2>4, FilesStay
<1>3. CASE ~fenced /\ HasRoom
  <2> PICK row : row = [turn |-> t, gen |-> store.next + 1]
    OBVIOUS
  <2> PICK s : s = WithRow(row)
    OBVIOUS
  <2> PICK old : old = disk
    OBVIOUS
  <2>1. /\ Persist(s, outcome)
        /\ push' = [push EXCEPT ![t].step = Answer(outcome),
                                ![t].row = IF outcome = "pre" THEN NoRow ELSE row]
    BY <1>3 DEF Enqueue
  <2>2. /\ store \in Store /\ Loads(store) /\ SnapshotIsSound(store) /\ prior = {}
        /\ \A x \in ToSet(store.rows) \cup ToSet(store.tombs) : Known(x)
        /\ store = disk
    BY <1>3, StoreIsSound DEF FilesFit
  <2>3. row \in Row /\ row.gen = store.next + 1 /\ row.turn = t /\ row # NoRow
    BY <2>2 DEF Store, Row, NoRow
  <2>4. \A x : Known(x) => x.turn # t /\ x # row
    BY <1>1, <2>3, RowIsSome DEF Known
  <2>5. /\ s \in Store /\ Loads(s) /\ ToSet(s.rows) = ToSet(store.rows) \cup {row}
        /\ s.tombs = store.tombs
    BY <1>3, <2>2, <2>3, <2>4, WithRowLoads
  <2>6. /\ push \in [Turns -> Push] /\ push[t] \in Push
        /\ Answer(outcome) \in {"queued", "refused", "unknown"}
    BY AnswerIs, InboundAssumption DEF PushersFit
  <2>7. /\ push'[t].step = Answer(outcome)
        /\ push'[t].row = IF outcome = "pre" THEN NoRow ELSE row
        /\ \A u \in Turns : u # t => push'[u] = push[u]
    BY <2>1, <2>6 DEF Push
  <2>8. push' \in [Turns -> Push]
    BY <2>1, <2>3, <2>6 DEF Push
  <2>9. PushersFit' /\ Remembers
    BY <1>1, <2>3, <2>7, <2>8, AnswerIs, InboundAssumption DEF PushersFit, Remembers
  <2>10. ASSUME store' = s, disk' = s, outcome # "pre" PROVE SnapshotIsSound(s)'
    <3>1. \A x \in ToSet(s.rows) \cup ToSet(s.tombs) : Known(x)'
      <4>1. Known(row)'
        BY <2>3, <2>7, <2>10 DEF Known
      <4> QED
        BY <2>2, <2>5, <2>9, <4>1, KnownStays
    <3>2. ToSet(s.rows) \cap acked' = {}
      <4>1. row \notin acked
        BY <2>4 DEF FilesFit
      <4> QED
        BY <1>1, <2>2, <2>5, <4>1 DEF SnapshotIsSound
    <3>3. ASSUME NEW u \in Turns, push'[u].step \in {"queued", "accepted"},
                 push'[u].row \notin asked'
          PROVE  push'[u].row \in ToSet(s.rows)
      <4>1. CASE u = t
        BY <2>5, <2>7, <2>10, <4>1
      <4>2. CASE u # t
        BY <1>1, <2>2, <2>5, <2>7, <3>3, <4>2 DEF SnapshotIsSound
      <4> QED
        BY <4>1, <4>2
    <3>4. s \in Store /\ Loads(s)'
      BY <2>5 DEF Loads
    <3> QED
      BY <3>1, <3>2, <3>3, <3>4 DEF SnapshotIsSound
  <2>11. \A x \in asked : Known(x)'
    BY <2>9, KnownStays DEF FilesFit
  <2>12. CASE outcome = "ok"
    <3>1. store' = s /\ disk' = s /\ UNCHANGED <<prior, fenced, faults>>
      BY <2>1, <2>12, PersistEnds
    <3>2. SnapshotIsSound(s)'
      BY <2>10, <2>12, <3>1
    <3>3. \A x \in {disk'} \cup prior' : SnapshotIsSound(x)'
      BY <2>2, <3>1, <3>2
    <3> QED
      BY <1>1, <2>2, <2>9, <2>11, <3>1, <3>3 DEF FilesFit
  <2>13. CASE outcome = "pre"
    <3>1. UNCHANGED <<store, disk, prior, fenced>> /\ faults' \in 0..MaxFaults
      BY <2>1, <2>13, PersistEnds, FaultyCounts DEF FilesFit
    <3>2. \A u \in Turns : push'[u].step \in {"queued", "accepted"} =>
            push[u].step \in {"queued", "accepted"} /\ push'[u].row = push[u].row
      BY <2>7, <2>13, AnswerIs
    <3> QED
      BY <1>1, <2>9, <3>1, <3>2, FilesStay DEF FilesFit
  <2>14. CASE outcome = "post"
    <3>1. /\ store' = s /\ disk' = s /\ prior' = prior \cup {disk} /\ fenced' = TRUE
          /\ faults' \in 0..MaxFaults
      BY <2>1, <2>14, PersistEnds, FaultyCounts DEF FilesFit
    <3>2. SnapshotIsSound(s)'
      BY <2>10, <2>14, <3>1
    <3>3. SnapshotIsSound(old)'
      BY <1>1, <2>2, <2>7, <2>9, <2>14, AnswerIs, SnapshotStays DEF SnapshotIsSound
    <3>4. \A x \in {disk'} \cup prior' : SnapshotIsSound(x)'
      BY <2>2, <3>1, <3>2, <3>3
    <3> QED
      BY <1>1, <2>9, <2>11, <3>1, <3>4 DEF FilesFit
  <2> QED
    BY <2>12, <2>13, <2>14, InboundAssumption
<1> QED
  BY <1>2, <1>3

\* An acknowledged row leaves the files; whatever else is accepted stays.
LEMMA ApplyAckFits ==
  ASSUME PushersFit, FilesFit, NEW c \in Connections, NEW outcome \in WriteOutcomes,
         ApplyAck(c, outcome)
  PROVE  /\ PushersFit' /\ FilesFit' /\ Remembers
         /\ acked' \in {acked, acked \cup {frame[c].row}}
<1>1. push' = push
  BY DEF ApplyAck
<1>2. PushersFit' /\ Remembers
  BY <1>1 DEF PushersFit, Remembers
<1>3. CASE fenced \/ ~Pending(frame[c].row)
  <2>1. UNCHANGED <<store, disk, prior, fenced, faults, asked, acked>>
    BY <1>3 DEF ApplyAck, file
  <2> QED
    BY <1>1, <1>2, <2>1, FilesStay DEF FilesFit
<1>4. CASE ~fenced /\ Pending(frame[c].row)
  <2> PICK row : row = frame[c].row
    OBVIOUS
  <2> PICK s : s = WithoutRow(row)
    OBVIOUS
  <2> PICK old : old = disk
    OBVIOUS
  <2>1. /\ Persist(s, outcome)
        /\ asked' = IF outcome = "pre" THEN asked ELSE asked \cup {row}
        /\ acked' = IF outcome = "ok" THEN acked \cup {row} ELSE acked
    BY <1>4 DEF ApplyAck
  <2>2. /\ store \in Store /\ Loads(store) /\ SnapshotIsSound(store) /\ prior = {}
        /\ \A x \in ToSet(store.rows) \cup ToSet(store.tombs) : Known(x)
        /\ store = disk /\ Pending(row)
    BY <1>4, StoreIsSound DEF FilesFit
  <2>3. Known(row) /\ row \in Row
    BY <2>2 DEF Pending, Known
  <2>4. /\ s \in Store /\ Loads(s) /\ ToSet(s.rows) = ToSet(store.rows) \ {row}
        /\ ToSet(s.tombs) \subseteq ToSet(store.tombs) \cup {row}
    BY <2>2, <2>3, WithoutRowLoads
  <2>5. ASSUME outcome # "pre" PROVE SnapshotIsSound(s)'
    <3>1. \A x \in ToSet(s.rows) \cup ToSet(s.tombs) : Known(x)'
      BY <1>2, <2>2, <2>3, <2>4, KnownStays
    <3>2. ToSet(s.rows) \cap acked' = {}
      BY <2>1, <2>2, <2>4 DEF SnapshotIsSound
    <3>3. \A u \in Turns :
            push'[u].step \in {"queued", "accepted"} /\ push'[u].row \notin asked'
              => push'[u].row \in ToSet(s.rows)
      BY <1>1, <2>1, <2>2, <2>4, <2>5 DEF SnapshotIsSound
    <3>4. s \in Store /\ Loads(s)'
      BY <2>4 DEF Loads
    <3> QED
      BY <3>1, <3>2, <3>3, <3>4 DEF SnapshotIsSound
  <2>6. acked' \subseteq asked' /\ \A x \in asked' : Known(x)'
    BY <1>2, <2>1, <2>3, KnownStays, InboundAssumption DEF FilesFit
  <2>7. acked' \in {acked, acked \cup {frame[c].row}}
    BY <2>1
  <2>8. CASE outcome = "ok"
    <3>1. store' = s /\ disk' = s /\ UNCHANGED <<prior, fenced, faults>>
      BY <2>1, <2>8, PersistEnds
    <3>2. SnapshotIsSound(s)'
      BY <2>5, <2>8
    <3>3. \A x \in {disk'} \cup prior' : SnapshotIsSound(x)'
      BY <2>2, <3>1, <3>2
    <3> QED
      BY <1>2, <2>2, <2>6, <2>7, <3>1, <3>3 DEF FilesFit
  <2>9. CASE outcome = "pre"
    <3>1. UNCHANGED <<store, disk, prior, fenced>> /\ faults' \in 0..MaxFaults
      BY <2>1, <2>9, PersistEnds, FaultyCounts DEF FilesFit
    <3>2. UNCHANGED <<asked, acked>>
      BY <2>1, <2>9
    <3> QED
      BY <1>1, <1>2, <2>7, <3>1, <3>2, FilesStay DEF FilesFit
  <2>10. CASE outcome = "post"
    <3>1. /\ store' = s /\ disk' = s /\ prior' = prior \cup {disk} /\ fenced' = TRUE
          /\ faults' \in 0..MaxFaults
      BY <2>1, <2>10, PersistEnds, FaultyCounts DEF FilesFit
    <3>2. SnapshotIsSound(s)'
      BY <2>5, <2>10
    <3>3. SnapshotIsSound(old)'
      <4>1. asked' = asked \cup {row} /\ acked' = acked
        BY <2>1, <2>10
      <4> QED
        BY <1>1, <1>2, <2>2, <4>1, SnapshotStays DEF SnapshotIsSound
    <3>4. \A x \in {disk'} \cup prior' : SnapshotIsSound(x)'
      BY <2>2, <3>1, <3>2, <3>3
    <3> QED
      BY <1>2, <2>6, <2>7, <3>1, <3>4 DEF FilesFit
  <2> QED
    BY <2>8, <2>9, <2>10, InboundAssumption
<1> QED
  BY <1>3, <1>4

\* A restart finds one of the sound snapshots, and no pusher waits any more.
LEMMA RestartFits ==
  ASSUME PushersFit, FilesFit, Restart
  PROVE  PushersFit' /\ FilesFit' /\ Remembers
<1>1. PICK s \in {disk} \cup prior :
        /\ store' = s /\ disk' = s /\ prior' = {} /\ fenced' = FALSE
        /\ asked' = asked /\ acked' = acked
  BY DEF Restart, history
<1>2. push' = [t \in Turns |-> IF push[t].step \in {"captured", "queued"}
                               THEN [push[t] EXCEPT !.step = "gone"] ELSE push[t]]
  BY DEF Restart
<1>3. ASSUME NEW t \in Turns
      PROVE  /\ push'[t] \in Push /\ push'[t].row = push[t].row
             /\ push'[t].step \in {"gone", push[t].step}
             /\ push'[t].step # "captured" /\ push'[t].step # "queued"
  <2>1. push[t] \in Push
    BY DEF PushersFit
  <2>2. CASE push[t].step \in {"captured", "queued"}
    <3>1. push'[t] = [push[t] EXCEPT !.step = "gone"]
      BY <1>2, <2>2
    <3> QED
      BY <2>1, <3>1 DEF Push
  <2>3. CASE push[t].step \notin {"captured", "queued"}
    BY <1>2, <2>1, <2>3
  <2> QED
    BY <2>2, <2>3
<1>4. PushersFit' /\ Remembers
  BY <1>2, <1>3 DEF PushersFit, Remembers
<1>5. SnapshotIsSound(s)'
  <2>1. SnapshotIsSound(s) /\ ToSet(s.rows) \cap acked' = {}
    BY <1>1 DEF FilesFit, SnapshotIsSound
  <2>2. \A t \in Turns :
          push'[t].step \in {"queued", "accepted"} /\ push'[t].row \notin asked' =>
            /\ push[t].step \in {"queued", "accepted"} /\ push[t].row \notin asked
            /\ push'[t].row = push[t].row
    BY <1>1, <1>3
  <2> QED
    BY <1>4, <2>1, <2>2, SnapshotStays
<1>6. \A x \in asked : Known(x)'
  BY <1>4, KnownStays DEF FilesFit
<1>7. faults' \in 0..MaxFaults
  BY FaultyCounts DEF FilesFit, Restart
<1> QED
  BY <1>1, <1>4, <1>5, <1>6, <1>7 DEF FilesFit

-----------------------------------------------------------------------------
(* Tasks of connections *)

\* Nothing but the task of connection c changes.
OnlyBy(c) ==
  \A d \in Connections : d # c =>
    /\ todo'[d] = todo[d] /\ sent'[d] = sent[d] /\ channel'[d] = channel[d]
    /\ frame'[d] = frame[d] /\ wire'[d] = wire[d] /\ phase'[d] = phase[d]

\* A connection that takes no step fits still, whatever is acknowledged while
\* it has nothing left to replay and writes nothing.  The frame it was busy
\* with may be over.
LEMMA TaskStays ==
  ASSUME NEW c \in Connections, TaskFits(c), Remembers,
         todo'[c] = todo[c], sent'[c] = sent[c], wire'[c] = wire[c], phase'[c] = phase[c],
         channel'[c] \in Seq(Row), frame'[c] = frame[c] \/ frame'[c] = NoFrame,
         phase[c] \in Serving /\ IsActive(c)' => IsActive(c),
         acked' = acked \/ (todo[c] = <<>> /\ frame'[c].kind # "write")
  PROVE  TaskFits(c)'
<1>1. NoFrame \in Frame /\ NoFrame.kind = "idle"
  BY DEF Frame, NoFrame, NoRow
<1>2. /\ todo'[c] \in Seq(Row) /\ sent'[c] \subseteq Row /\ frame'[c] \in Frame
      /\ wire'[c] \in Seq(Row) /\ channel'[c] \in Seq(Row)
  BY <1>1 DEF TaskFits
<1>3. \A x \in ToSet(wire'[c]) \cup ToSet(todo'[c]) : Known(x)'
  BY KnownStays DEF TaskFits
<1>4. IsInjective(todo'[c]) /\ ToSet(todo'[c]) \cap (acked' \cup ToSet(wire'[c])) = {}
  <2>1. ToSet(<<>>) = {}
    BY DEF ToSet
  <2> QED
    BY <2>1 DEF TaskFits
<1>5. frame'[c].kind = "write" =>
        /\ phase'[c] \in {"replay", "serve"} /\ Known(frame[c].row)'
        /\ frame'[c].row \notin acked' \cup ToSet(wire'[c]) \cup ToSet(todo'[c])
  <2> SUFFICES ASSUME frame'[c].kind = "write"
               PROVE  /\ phase'[c] \in {"replay", "serve"} /\ Known(frame[c].row)'
                      /\ frame'[c].row \notin acked' \cup ToSet(wire'[c]) \cup ToSet(todo'[c])
    OBVIOUS
  <2>1. frame'[c] = frame[c]
    BY <1>1
  <2>2. /\ phase[c] \in {"replay", "serve"} /\ Known(frame[c].row)
        /\ frame[c].row \notin acked \cup ToSet(wire[c]) \cup ToSet(todo[c])
    BY <2>1 DEF TaskFits
  <2>3. PICK row : row = frame[c].row
    OBVIOUS
  <2>4. Known(row)'
    BY <2>2, <2>3, KnownStays
  <2>5. acked' = acked \/ todo[c] = <<>>
    OBVIOUS
  <2>6. Known(frame[c].row)'
    BY <2>1, <2>3, <2>4 DEF Known
  <2> QED
    BY <2>1, <2>2, <2>6
<1>6. frame'[c].kind = "ack" => phase'[c] \in {"hello", "serve"}
  BY <1>1 DEF TaskFits
<1>7. /\ phase'[c] \in {"off", "waiting", "hello"} => wire'[c] = <<>>
      /\ phase'[c] # "replay" => todo'[c] = <<>>
      /\ phase'[c] \in Serving /\ IsActive(c)' => ToSet(wire'[c]) \subseteq sent'[c]
  BY DEF TaskFits
<1> QED
  BY <1>2, <1>3, <1>4, <1>5, <1>6, <1>7 DEF TaskFits

\* A step of one connection, its own task put right.
LEMMA TasksFrom ==
  ASSUME NEW c \in Connections, TasksFit, Remembers, acked' = acked, OnlyBy(c),
         TaskFits(c)', Shapes', Owners',
         \A d \in Connections : d # c /\ phase[d] \in Serving /\ IsActive(d)' => IsActive(d)
  PROVE  TasksFit'
<1>1. ASSUME NEW d \in Connections, d # c PROVE TaskFits(d)'
  <2>1. /\ TaskFits(d) /\ todo'[d] = todo[d] /\ sent'[d] = sent[d] /\ wire'[d] = wire[d]
        /\ phase'[d] = phase[d] /\ channel'[d] = channel[d] /\ frame'[d] = frame[d]
    BY <1>1 DEF TasksFit, OnlyBy
  <2>2. channel'[d] \in Seq(Row)
    BY <2>1 DEF TaskFits
  <2>3. phase[d] \in Serving /\ IsActive(d)' => IsActive(d)
    BY <1>1
  <2> QED
    BY <2>1, <2>2, <2>3, TaskStays
<1> QED
  BY <1>1 DEF TasksFit

\* A step that leaves the ownership, the pushers and acknowledgements alone.
LEMMA OwnedStep ==
  ASSUME NEW c \in Connections, TasksFit, UNCHANGED <<owner, push, acked>>,
         OnlyBy(c), Shapes', Remembers => TaskFits(c)'
  PROVE  TasksFit'
<1>1. Remembers
  BY DEF Remembers
<1>2. /\ Owners' /\ acked' = acked
      /\ \A d \in Connections : d # c /\ phase[d] \in Serving /\ IsActive(d)' => IsActive(d)
  BY DEF owner, TasksFit, Owners, IsActive
<1>3. TaskFits(c)'
  BY <1>1
<1> QED
  BY <1>1, <1>2, <1>3, TasksFrom

\* The task of c is idle between two frames.
LEMMA IdleTask ==
  ASSUME NEW c \in Connections, TasksFit, frame[c] = NoFrame \/ phase[c] \notin Serving
  PROVE  /\ TaskFits(c) /\ Shapes
         /\ frame[c].kind # "write" /\ frame[c].kind # "ack"
  BY DEF TasksFit, TaskFits, NoFrame, Serving

\* A replay starts with every pending row, none of them acknowledged or written
\* by this connection.
LEMMA StartReplayFits ==
  ASSUME NEW c \in Connections, TasksFit, FilesFit, StartReplay(c) PROVE TasksFit'
<1>1. /\ Ready(c, "hello") /\ IsActive(c) /\ todo' = [todo EXCEPT ![c] = store.rows]
      /\ phase' = [phase EXCEPT ![c] = "replay"]
      /\ UNCHANGED <<owner, sent, channel, frame, push, wire, acked, latest, outbound>>
  BY DEF StartReplay, history, Snapshot, owner
<1>2. /\ TaskFits(c) /\ Shapes /\ frame[c].kind # "write" /\ frame[c].kind # "ack"
      /\ frame[c] = NoFrame /\ phase[c] = "hello"
  BY <1>1, IdleTask DEF Ready
<1>3. OnlyBy(c) /\ Shapes' /\ todo'[c] = store.rows /\ phase'[c] = "replay"
  BY <1>1, <1>2 DEF OnlyBy, Shapes
<1>4. /\ store.rows \in Seq(Row) /\ \A x \in ToSet(store.rows) : Known(x)
      /\ ToSet(store.rows) \cap acked = {} /\ IsInjective(store.rows)
  BY StoreIsSound DEF SnapshotIsSound, Store, Loads, IsInjective
<1>5. wire[c] = <<>> /\ ToSet(<<>>) = {}
  BY <1>2 DEF TaskFits, ToSet
<1>6. ASSUME Remembers PROVE TaskFits(c)'
  <2>1. \A x \in ToSet(wire'[c]) \cup ToSet(todo'[c]) : Known(x)'
    BY <1>1, <1>3, <1>4, <1>5, <1>6, KnownStays
  <2> QED
    BY <1>1, <1>2, <1>3, <1>4, <1>5, <2>1 DEF TaskFits
<1> QED
  BY <1>1, <1>3, <1>6, OwnedStep

\* The next row of a replay is written once.
LEMMA ReplayNextFits ==
  ASSUME NEW c \in Connections, TasksFit, ReplayNext(c) PROVE TasksFit'
<1>1. /\ Ready(c, "replay") /\ IsActive(c) /\ todo[c] # <<>>
      /\ frame' = [frame EXCEPT ![c] = [kind |-> "write", row |-> Head(todo[c])]]
      /\ todo' = [todo EXCEPT ![c] = Tail(todo[c])]
      /\ UNCHANGED <<owner, phase, sent, channel, push, wire, acked, latest, outbound>>
  BY DEF ReplayNext, history, Writes, owner
<1>2. TaskFits(c) /\ Shapes /\ phase[c] = "replay"
  BY <1>1 DEF TasksFit, Ready
<1>3. OnlyBy(c) /\ Shapes'
  BY <1>1, <1>2 DEF OnlyBy, Shapes
<1> PICK row : row = Head(todo[c])
  OBVIOUS
<1>4. todo'[c] = Tail(todo[c]) /\ frame'[c] = [kind |-> "write", row |-> row]
  BY <1>1, <1>2 DEF Shapes
<1>5. /\ todo[c] \in Seq(Row) /\ Tail(todo[c]) \in Seq(Row) /\ row \in ToSet(todo[c])
      /\ ToSet(Tail(todo[c])) \subseteq ToSet(todo[c]) /\ IsInjective(Tail(todo[c]))
      /\ row \notin ToSet(Tail(todo[c]))
  BY <1>1, <1>2, ToSetTail DEF TaskFits
<1>6. Known(row) /\ row \notin acked \cup ToSet(wire[c])
  BY <1>2, <1>5 DEF TaskFits
<1>7. ASSUME Remembers PROVE TaskFits(c)'
  <2>1. \A x \in ToSet(wire'[c]) \cup ToSet(todo'[c]) : Known(x)'
    BY <1>1, <1>2, <1>4, <1>5, <1>7, KnownStays DEF TaskFits
  <2>2. Known(row)' /\ frame'[c].row = row /\ frame'[c].kind = "write"
    BY <1>4, <1>6, <1>7, KnownStays
  <2>3. frame'[c] \in Frame
    BY <1>4, <1>6 DEF Frame, Known
  <2>4. Known(frame[c].row)'
    BY <2>2 DEF Known
  <2> QED
    BY <1>1, <1>2, <1>4, <1>5, <1>6, <2>1, <2>2, <2>3, <2>4 DEF TaskFits
<1> QED
  BY <1>1, <1>3, <1>7, OwnedStep

\* The replay ends when nothing is left of it.
LEMMA EndReplayFits ==
  ASSUME NEW c \in Connections, TasksFit, EndReplay(c) PROVE TasksFit'
<1>1. /\ Ready(c, "replay") /\ todo[c] = <<>> /\ phase' = [phase EXCEPT ![c] = "serve"]
      /\ UNCHANGED <<owner, todo, sent, channel, frame, push, wire, acked, latest, outbound>>
  BY DEF EndReplay, history, owner
<1>2. /\ TaskFits(c) /\ Shapes /\ frame[c].kind # "write" /\ frame[c].kind # "ack"
      /\ phase[c] = "replay"
  BY <1>1, IdleTask DEF Ready
<1>3. OnlyBy(c) /\ Shapes' /\ phase'[c] = "serve"
  BY <1>1, <1>2 DEF OnlyBy, Shapes
<1>4. ASSUME Remembers PROVE TaskFits(c)'
  <2>1. \A x \in ToSet(wire'[c]) \cup ToSet(todo'[c]) : Known(x)'
    BY <1>1, <1>2, <1>4, KnownStays DEF TaskFits
  <2>2. phase[c] \in Serving /\ (IsActive(c)' <=> IsActive(c))
    BY <1>1, <1>2 DEF Serving, IsActive
  <2> QED
    BY <1>1, <1>2, <1>3, <2>1, <2>2 DEF TaskFits
<1> QED
  BY <1>1, <1>3, <1>4, OwnedStep

\* A row from the channel is written if it is pending, so not acknowledged, and
\* is not among those sent, so not written either.
LEMMA TakeFromChannelFits ==
  ASSUME NEW c \in Connections, TasksFit, FilesFit, TakeFromChannel(c) PROVE TasksFit'
<1> PICK row : row = Head(channel[c])
  OBVIOUS
<1>1. /\ Ready(c, "serve") /\ IsActive(c) /\ channel[c] # <<>>
      /\ channel' = [channel EXCEPT ![c] = Tail(channel[c])]
      /\ \/ frame' = [frame EXCEPT ![c] = [kind |-> "write", row |-> row]] /\ Wanted(c, row)
         \/ frame' = frame
      /\ UNCHANGED <<owner, phase, todo, sent, push, wire, acked, latest, outbound>>
  BY DEF TakeFromChannel, history, Writes, owner
<1>2. /\ TaskFits(c) /\ Shapes /\ frame[c].kind # "write" /\ frame[c].kind # "ack"
      /\ phase[c] = "serve"
  BY <1>1, IdleTask DEF Ready
<1>3. OnlyBy(c) /\ Shapes'
  BY <1>1, <1>2 DEF OnlyBy, Shapes
<1>4. channel'[c] = Tail(channel[c]) /\ Tail(channel[c]) \in Seq(Row)
  BY <1>1, <1>2, ToSetTail DEF Shapes, TaskFits
<1>5. todo[c] = <<>> /\ ToSet(<<>>) = {}
  BY <1>2 DEF TaskFits, ToSet
<1>6. ASSUME Remembers PROVE TaskFits(c)'
  <2>1. \A x \in ToSet(wire'[c]) \cup ToSet(todo'[c]) : Known(x)'
    BY <1>1, <1>2, <1>6, KnownStays DEF TaskFits
  <2>2. IsActive(c)' <=> IsActive(c)
    BY <1>1 DEF IsActive
  <2>3. CASE frame' = frame
    BY <1>1, <1>2, <1>4, <1>5, <2>1, <2>2, <2>3 DEF TaskFits
  <2>4. CASE frame' = [frame EXCEPT ![c] = [kind |-> "write", row |-> row]] /\ Wanted(c, row)
    <3>1. frame'[c] = [kind |-> "write", row |-> row]
      BY <1>2, <2>4 DEF Shapes
    <3>2. frame'[c].row = row /\ frame'[c].kind = "write"
      BY <3>1
    <3>3. Known(row) /\ row \notin acked /\ row \notin ToSet(wire[c])
      <4>1. row \notin sent[c] /\ row \in ToSet(store.rows)
        BY <2>4 DEF Wanted, Pending
      <4>2. Known(row) /\ row \notin acked
        BY <4>1, StoreIsSound DEF SnapshotIsSound
      <4>3. ToSet(wire[c]) \subseteq sent[c]
        BY <1>1, <1>2 DEF TaskFits, Serving
      <4> QED
        BY <4>1, <4>2, <4>3
    <3>4. Known(row)'
      BY <1>6, <3>3, KnownStays
    <3>5. Known(frame[c].row)' /\ frame'[c] \in Frame
      BY <3>1, <3>2, <3>3, <3>4 DEF Known, Frame
    <3> QED
      BY <1>1, <1>2, <1>4, <1>5, <2>1, <2>2, <3>2, <3>3, <3>5 DEF TaskFits
  <2> QED
    BY <1>1, <2>3, <2>4
<1> QED
  BY <1>1, <1>3, <1>6, OwnedStep

\* A row that was written is among those sent, unless the connection has a
\* successor and will write no more.
LEMMA FinishWriteFits ==
  ASSUME NEW c \in Connections, TasksFit, FinishWrite(c) PROVE TasksFit'
<1> PICK row : row = frame[c].row
  OBVIOUS
<1>1. /\ frame[c].kind = "write" /\ frame' = [frame EXCEPT ![c] = NoFrame]
      /\ wire' = [wire EXCEPT ![c] = Append(wire[c], row)]
      /\ sent' = IF IsActive(c) THEN [sent EXCEPT ![c] = sent[c] \cup {row}] ELSE sent
      /\ UNCHANGED <<owner, phase, todo, channel, push, acked, latest, outbound>>
  BY DEF FinishWrite, owner
<1>2. TaskFits(c) /\ Shapes
  BY DEF TasksFit
<1>3. OnlyBy(c) /\ Shapes'
  BY <1>1, <1>2 DEF OnlyBy, Shapes
<1>4. /\ phase[c] \in {"replay", "serve"} /\ Known(row) /\ row \in Row
      /\ row \notin acked \cup ToSet(wire[c]) \cup ToSet(todo[c])
  BY <1>1, <1>2 DEF TaskFits, Known
<1>5. /\ frame'[c] = NoFrame /\ NoFrame.kind = "idle" /\ NoFrame \in Frame
      /\ wire'[c] = Append(wire[c], row)
      /\ sent'[c] = IF IsActive(c) THEN sent[c] \cup {row} ELSE sent[c]
  BY <1>1, <1>2 DEF Shapes, NoFrame, Frame
<1>6. wire'[c] \in Seq(Row) /\ ToSet(wire'[c]) = ToSet(wire[c]) \cup {row}
  BY <1>2, <1>4, <1>5, ToSetAppend DEF TaskFits
<1>7. ASSUME Remembers PROVE TaskFits(c)'
  <2>1. \A x \in ToSet(wire'[c]) \cup ToSet(todo'[c]) : Known(x)'
    BY <1>1, <1>2, <1>4, <1>6, <1>7, KnownStays DEF TaskFits
  <2>2. IsActive(c)' <=> IsActive(c)
    BY <1>1 DEF IsActive
  <2>3. ToSet(todo[c]) \cap (acked \cup ToSet(wire'[c])) = {}
    BY <1>2, <1>4, <1>6 DEF TaskFits
  <2>4. /\ phase'[c] \in Serving /\ IsActive(c)' => ToSet(wire'[c]) \subseteq sent'[c]
        /\ sent'[c] \subseteq Row
    BY <1>1, <1>2, <1>4, <1>5, <1>6, <2>2 DEF TaskFits
  <2>5. phase'[c] \notin {"off", "waiting", "hello"}
    BY <1>1, <1>4
  <2> QED
    BY <1>1, <1>2, <1>5, <1>6, <2>1, <2>3, <2>4, <2>5 DEF TaskFits
<1> QED
  BY <1>1, <1>3, <1>7, OwnedStep

\* Acknowledgements are checked before a replay or after it.
LEMMA CheckAckFits ==
  ASSUME NEW c \in Connections, TasksFit, NEW row, CheckAck(c, row) PROVE TasksFit'
<1>1. /\ Ready(c, "hello") \/ Ready(c, "serve")
      /\ row \in Received /\ frame' = [frame EXCEPT ![c] = [kind |-> "ack", row |-> row]]
      /\ UNCHANGED <<owner, phase, todo, sent, channel, push, wire, acked, latest, outbound>>
  BY DEF CheckAck, OwnsFrame, history, owner
<1>2. /\ TaskFits(c) /\ Shapes /\ phase[c] \in {"hello", "serve"}
      /\ \A d \in Connections : TaskFits(d)
  BY <1>1 DEF Ready, TasksFit
<1>3. OnlyBy(c) /\ Shapes' /\ frame'[c] = [kind |-> "ack", row |-> row]
  BY <1>1, <1>2 DEF OnlyBy, Shapes
<1>4. row \in Row
  BY <1>1, <1>2 DEF Received, TaskFits, Known
<1>5. frame'[c].kind = "ack" /\ frame'[c] \in Frame
  BY <1>3, <1>4 DEF Frame
<1>6. ASSUME Remembers PROVE TaskFits(c)'
  <2>1. \A x \in ToSet(wire'[c]) \cup ToSet(todo'[c]) : Known(x)'
    BY <1>1, <1>2, <1>6, KnownStays DEF TaskFits
  <2>2. IsActive(c)' <=> IsActive(c)
    BY <1>1 DEF IsActive
  <2> QED
    BY <1>1, <1>2, <1>5, <2>1, <2>2 DEF TaskFits
<1> QED
  BY <1>1, <1>3, <1>6, OwnedStep

\* A new connection has written nothing, and nobody is active until it is.
LEMMA BeginFits ==
  ASSUME NEW c \in Connections, WriterInv, TasksFit, BeginConnection(c) PROVE TasksFit'
<1>1. /\ c = latest + 1 /\ latest' = c /\ outbound' = 0
      /\ phase' = [phase EXCEPT ![c] = "waiting"]
      /\ UNCHANGED <<writer, todo, sent, channel, frame, push, wire, acked>>
  BY DEF BeginConnection, history
<1>2. c \in Nat /\ c <= MaxConnections /\ c # 0 /\ latest \in Nat
  BY <1>1, InboundAssumption DEF Connections, WriterInv
<1>3. phase[c] = "off"
  BY <1>1, <1>2 DEF WriterInv
<1>4. /\ TaskFits(c) /\ Shapes /\ frame[c].kind # "write" /\ frame[c].kind # "ack"
  BY <1>3, IdleTask DEF Serving
<1>5. OnlyBy(c) /\ Shapes' /\ phase'[c] = "waiting"
  BY <1>1, <1>4 DEF OnlyBy, Shapes
<1>6. Owners'
  BY <1>1, <1>2, InboundAssumption DEF TasksFit, Owners
<1>7. Remembers /\ acked' = acked
  BY <1>1 DEF Remembers
<1>8. \A d \in Connections : d # c /\ phase[d] \in Serving /\ IsActive(d)' => IsActive(d)
  BY <1>1, <1>2 DEF IsActive
<1>9. TaskFits(c)'
  <2>1. \A x \in ToSet(wire'[c]) \cup ToSet(todo'[c]) : Known(x)'
    BY <1>1, <1>4, <1>7, KnownStays DEF TaskFits
  <2>2. phase'[c] \notin Serving
    BY <1>5 DEF Serving
  <2> QED
    BY <1>1, <1>3, <1>4, <1>5, <2>1, <2>2 DEF TaskFits
<1> QED
  BY <1>5, <1>6, <1>7, <1>8, <1>9, TasksFrom

\* A connection that becomes active has written nothing.
LEMMA ActivateFits ==
  ASSUME NEW c \in Connections, WriterInv, TasksFit, ActivateConnection(c) PROVE TasksFit'
<1>1. /\ phase[c] = "waiting"
      /\ \/ /\ latest = c /\ outbound' = c /\ writer' = c
            /\ phase' = [phase EXCEPT ![c] = "hello"]
         \/ /\ UNCHANGED <<outbound, writer>>
            /\ phase' = [phase EXCEPT ![c] = "closed"]
      /\ UNCHANGED <<latest, todo, sent, channel, frame, push, wire, acked>>
  BY DEF ActivateConnection, history
<1>2. /\ TaskFits(c) /\ Shapes /\ frame[c].kind # "write" /\ frame[c].kind # "ack"
  BY <1>1, IdleTask DEF Serving
<1>3. OnlyBy(c) /\ Shapes' /\ phase'[c] \in {"hello", "closed"}
  BY <1>1, <1>2 DEF OnlyBy, Shapes
<1>4. Owners'
  BY <1>1, InboundAssumption DEF TasksFit, Owners, Connections
<1>5. Remembers /\ acked' = acked
  BY <1>1 DEF Remembers
<1>6. \A d \in Connections : d # c /\ phase[d] \in Serving /\ IsActive(d)' => IsActive(d)
  BY <1>1 DEF IsActive
<1>7. wire[c] = <<>> /\ todo[c] = <<>> /\ ToSet(<<>>) = {}
  BY <1>1, <1>2 DEF TaskFits, ToSet
<1>8. TaskFits(c)'
  <2>1. \A x \in ToSet(wire'[c]) \cup ToSet(todo'[c]) : Known(x)'
    BY <1>1, <1>2, <1>5, KnownStays DEF TaskFits
  <2> QED
    BY <1>1, <1>2, <1>3, <1>7, <2>1 DEF TaskFits
<1> QED
  BY <1>3, <1>4, <1>5, <1>6, <1>8, TasksFrom

\* A connection that ended does nothing more.
LEMMA EndsFits ==
  ASSUME NEW c \in Connections, TasksFit, Ends(c) PROVE TasksFit'
<1>1. /\ phase' = [phase EXCEPT ![c] = "closed"] /\ todo' = [todo EXCEPT ![c] = <<>>]
      /\ sent' = [sent EXCEPT ![c] = {}] /\ channel' = [channel EXCEPT ![c] = <<>>]
      /\ frame' = [frame EXCEPT ![c] = NoFrame]
      /\ outbound' \in {0, outbound} /\ writer' \in {0, writer}
      /\ UNCHANGED <<latest, push, wire, acked>>
  BY DEF Ends, history
<1>2. TaskFits(c) /\ Shapes /\ Owners
  BY DEF TasksFit
<1>3. OnlyBy(c) /\ Shapes'
  BY <1>1, <1>2 DEF OnlyBy, Shapes
<1>4. /\ phase'[c] = "closed" /\ todo'[c] = <<>> /\ sent'[c] = {} /\ channel'[c] = <<>>
      /\ frame'[c] = NoFrame
  BY <1>1, <1>2 DEF Shapes
<1>5. Owners'
  BY <1>1, <1>2, InboundAssumption DEF Owners
<1>6. Remembers /\ acked' = acked
  BY <1>1 DEF Remembers
<1>7. \A d \in Connections : d # c /\ phase[d] \in Serving /\ IsActive(d)' => IsActive(d)
  BY <1>1, InboundAssumption DEF IsActive, Connections
<1>8. TaskFits(c)'
  <2>1. \A x \in ToSet(wire'[c]) : Known(x)'
    BY <1>1, <1>2, <1>6, KnownStays DEF TaskFits
  <2>2. ToSet(<<>>) = {} /\ IsInjective(<<>>) /\ <<>> \in Seq(Row)
    BY DEF ToSet, IsInjective
  <2>3. NoFrame.kind = "idle" /\ NoFrame \in Frame
    BY DEF NoFrame, Frame
  <2>4. phase'[c] \notin Serving
    BY <1>4 DEF Serving
  <2> QED
    BY <1>1, <1>2, <1>4, <2>1, <2>2, <2>3, <2>4 DEF TaskFits
<1> QED
  BY <1>3, <1>5, <1>6, <1>7, <1>8, TasksFrom

\* A row is acknowledged while its connection has nothing left to replay, and
\* nobody else writes.
LEMMA AcknowledgeFits ==
  ASSUME NEW c \in Connections, NEW outcome, WriterInv, TasksFit, ApplyAck(c, outcome)
  PROVE  TasksFit'
<1>1. /\ frame[c].kind = "ack" /\ frame' = [frame EXCEPT ![c] = NoFrame]
      /\ UNCHANGED <<owner, phase, todo, sent, channel, push, wire, latest, outbound, writer>>
  BY DEF ApplyAck, owner
<1>2. Shapes /\ Owners /\ \A d \in Connections : TaskFits(d)
  BY DEF TasksFit
<1>3. Shapes' /\ Owners' /\ Remembers
  BY <1>1, <1>2 DEF Shapes, Owners, Remembers
<1>4. phase[c] \in {"hello", "serve"} /\ todo[c] = <<>> /\ writer = c
  BY <1>1, <1>2 DEF TaskFits, WriterInv, Serving
<1>5. NoFrame.kind = "idle"
  BY DEF NoFrame
<1>6. ASSUME NEW d \in Connections
      PROVE  /\ todo[d] = <<>> /\ frame'[d].kind # "write"
             /\ frame'[d] = frame[d] \/ frame'[d] = NoFrame
  <2>1. CASE d = c
    BY <1>1, <1>2, <1>4, <1>5, <2>1 DEF Shapes
  <2>2. CASE d # c
    <3>1. phase[d] \notin Serving
      BY <1>4, <2>2 DEF WriterInv
    <3>2. frame[d] = NoFrame /\ phase[d] # "replay"
      BY <3>1 DEF WriterInv, Serving
    <3>3. frame'[d] = frame[d]
      BY <1>1, <1>2, <2>2 DEF Shapes
    <3> QED
      BY <1>2, <1>5, <3>2, <3>3 DEF TaskFits
  <2> QED
    BY <2>1, <2>2
<1>7. ASSUME NEW d \in Connections PROVE TaskFits(d)'
  <2>1. IsActive(d)' <=> IsActive(d)
    BY <1>1 DEF IsActive
  <2>2. channel'[d] \in Seq(Row)
    BY <1>1, <1>2 DEF TaskFits
  <2>3. /\ todo'[d] = todo[d] /\ sent'[d] = sent[d] /\ wire'[d] = wire[d]
        /\ phase'[d] = phase[d]
    BY <1>1
  <2> QED
    BY <1>2, <1>3, <1>6, <2>1, <2>2, <2>3, TaskStays
<1> QED
  BY <1>3, <1>7 DEF TasksFit

\* Steps of pushers leave the tasks alone, except for a row in a channel.
LEMMA PushedFits ==
  ASSUME TasksFit, Remembers, UNCHANGED <<owner, phase, todo, sent, frame, wire, acked>>,
         channel' = [c \in Connections |-> channel'[c]],
         \A c \in Connections : channel'[c] \in Seq(Row)
  PROVE  TasksFit'
<1>1. Owners' /\ Shapes' /\ \A c \in Connections : IsActive(c)' <=> IsActive(c)
  BY DEF TasksFit, owner, Owners, Shapes, IsActive
<1>2. ASSUME NEW c \in Connections PROVE TaskFits(c)'
  BY <1>1, TaskStays DEF TasksFit
<1> QED
  BY <1>1, <1>2 DEF TasksFit

\* The channels as they are.
LEMMA ChannelsStay ==
  ASSUME TasksFit, channel' = channel
  PROVE  /\ channel' = [c \in Connections |-> channel'[c]]
         /\ \A c \in Connections : channel'[c] \in Seq(Row)
  BY DEF TasksFit, Shapes, TaskFits

\* A restart closes every connection.
LEMMA RestartTasks ==
  ASSUME TasksFit, Remembers, Restart PROVE TasksFit'
<1>1. /\ outbound' = 0 /\ writer' = 0 /\ UNCHANGED <<latest, wire, acked>>
      /\ phase' = [c \in Connections |-> IF phase[c] = "off" THEN "off" ELSE "closed"]
      /\ todo' = [c \in Connections |-> <<>>] /\ sent' = [c \in Connections |-> {}]
      /\ channel' = [c \in Connections |-> <<>>]
      /\ frame' = [c \in Connections |-> NoFrame]
  BY DEF Restart, history
<1>2. Owners' /\ Shapes'
  BY <1>1, InboundAssumption DEF TasksFit, Owners, Shapes
<1>3. ASSUME NEW c \in Connections PROVE TaskFits(c)'
  <2>1. TaskFits(c)
    BY DEF TasksFit
  <2>2. /\ phase'[c] = IF phase[c] = "off" THEN "off" ELSE "closed"
        /\ todo'[c] = <<>> /\ sent'[c] = {} /\ channel'[c] = <<>> /\ frame'[c] = NoFrame
    BY <1>1
  <2>3. \A x \in ToSet(wire'[c]) : Known(x)'
    BY <1>1, <2>1, KnownStays DEF TaskFits
  <2>4. ToSet(<<>>) = {} /\ IsInjective(<<>>) /\ <<>> \in Seq(Row)
    BY DEF ToSet, IsInjective
  <2>5. NoFrame.kind = "idle" /\ NoFrame \in Frame
    BY DEF NoFrame, Frame
  <2>6. phase'[c] \notin Serving
    BY <2>2 DEF Serving
  <2> QED
    BY <1>1, <2>1, <2>2, <2>3, <2>4, <2>5, <2>6 DEF TaskFits
<1> QED
  BY <1>2, <1>3 DEF TasksFit

-----------------------------------------------------------------------------
(* Every step *)

\* Nothing is there at first.
LEMMA InitFits == Init => InboundInv
<1> SUFFICES ASSUME Init PROVE InboundInv
  OBVIOUS
<1>1. ToSet(<<>>) = {} /\ IsInjective(<<>>) /\ <<>> \in Seq(Row) /\ Len(<<>>) = 0
  BY DEF ToSet, IsInjective
<1>2. NoFrame.kind = "idle" /\ NoFrame \in Frame /\ NoPush \in Push
      /\ NoPush.step = "new" /\ NoPush.row = NoRow
  BY DEF NoFrame, Frame, NoPush, Push
<1>3. PushersFit
  BY <1>2 DEF Init, PushersFit
<1>4. SnapshotIsSound(store)
  <2>1. /\ store = [rows |-> <<>>, next |-> 0, tombs |-> <<>>]
        /\ store.rows = <<>> /\ store.next = 0 /\ store.tombs = <<>>
    BY DEF Init, EmptyStore
  <2>2. store \in Store /\ Loads(store)
    BY <1>1, <2>1, InboundAssumption DEF Store, Loads
  <2>3. \A t \in Turns : push[t].step = "new"
    BY <1>2 DEF Init
  <2> QED
    BY <1>1, <2>1, <2>2, <2>3 DEF SnapshotIsSound
<1>5. FilesFit
  <2>1. /\ store = disk /\ prior = {} /\ fenced = FALSE /\ faults = 0
        /\ asked = {} /\ acked = {}
    BY DEF Init
  <2>2. \A s \in {disk} \cup prior : SnapshotIsSound(s)
    <3> SUFFICES ASSUME NEW s, s = store PROVE SnapshotIsSound(s)
      BY <2>1
    <3> QED
      BY <1>4
  <2>3. fenced \in BOOLEAN
    BY <2>1
  <2>4. faults \in 0..MaxFaults
    BY <2>1, InboundAssumption
  <2>5. fenced \/ prior = {}
    BY <2>1
  <2>6. acked \subseteq asked /\ \A x \in asked : Known(x)
    BY <2>1
  <2> QED
    BY <2>1, <2>2, <2>3, <2>4, <2>5, <2>6 DEF FilesFit
<1>6. ASSUME NEW c \in Connections PROVE TaskFits(c)
  BY <1>1, <1>2 DEF Init, TaskFits, Serving
<1>7. Owners /\ Shapes
  BY InboundAssumption DEF Init, Owners, Shapes
<1> QED
  BY <1>3, <1>5, <1>6, <1>7, InitWriter DEF InboundInv, TasksFit

\* A pusher's step that leaves the files alone.
LEMMA PusherFits ==
  ASSUME InboundInv, NEW t \in Turns, Capture(t) \/ Send(t) \/ HangUp(t)
  PROVE  PushersFit' /\ FilesFit' /\ TasksFit'
<1>1. /\ UNCHANGED <<owner, phase, todo, sent, frame, wire, acked, asked>>
      /\ UNCHANGED <<store, disk, prior, fenced, faults>>
  BY DEF Capture, Send, HangUp, task, file, history
<1>2. PushersFit /\ FilesFit /\ TasksFit
  BY DEF InboundInv
<1>3. /\ PushersFit' /\ Remembers
      /\ \A u \in Turns : push'[u].step \in {"queued", "accepted"} =>
           push[u].step \in {"queued", "accepted"} /\ push'[u].row = push[u].row
  <2>1. CASE Capture(t)
    <3>1. outbound \in Connections \cup {0}
      BY <1>2, InboundAssumption DEF TasksFit, Owners, Connections
    <3>2. /\ push[t].step = "new"
          /\ push' = [push EXCEPT ![t].step = IF outbound = 0 THEN "refused" ELSE "captured",
                                  ![t].to = outbound]
      BY <2>1 DEF Capture
    <3> QED
      BY <1>2, <3>1, <3>2, PusherMoves
  <2>2. CASE Send(t)
    BY <1>2, <2>2, PusherMoves DEF Send, Moves
  <2>3. CASE HangUp(t)
    BY <1>2, <2>3, PusherMoves DEF HangUp, Moves
  <2> QED
    BY <2>1, <2>2, <2>3
<1>4. FilesFit'
  BY <1>1, <1>2, <1>3, FilesStay DEF FilesFit
<1>5. /\ channel' = [c \in Connections |-> channel'[c]]
      /\ \A c \in Connections : channel'[c] \in Seq(Row)
  <2>1. CASE channel' = channel
    BY <1>2, <2>1, ChannelsStay
  <2>2. CASE Send(t) /\ channel' # channel
    <3> PICK d : d = push[t].to
      OBVIOUS
    <3>1. channel' = [channel EXCEPT ![d] = Append(channel[d], push[t].row)]
      BY <2>2 DEF Send
    <3>2. push[t].row \in Row
      BY <1>2, <2>2, PushersRow DEF Send
    <3>3. Shapes /\ \A c \in Connections : channel[c] \in Seq(Row)
      BY <1>2 DEF TasksFit, TaskFits
    <3>4. ASSUME NEW c \in Connections PROVE channel'[c] \in Seq(Row)
      <4>1. CASE c = d
        BY <3>1, <3>2, <3>3, <4>1 DEF Shapes
      <4>2. CASE c # d
        BY <3>1, <3>3, <4>2 DEF Shapes
      <4> QED
        BY <4>1, <4>2
    <3> QED
      BY <3>1, <3>3, <3>4 DEF Shapes
  <2>3. CASE Capture(t) \/ HangUp(t)
    BY <1>2, <2>3, ChannelsStay DEF Capture, HangUp, task
  <2> QED
    BY <2>1, <2>2, <2>3
<1>6. TasksFit'
  BY <1>1, <1>2, <1>3, <1>5, PushedFits
<1> QED
  BY <1>3, <1>4, <1>6

\* Every step keeps the files, the pushers and the tasks in order.
LEMMA NextFits == InboundInv /\ [Next]_vars => InboundInv'
<1> SUFFICES ASSUME InboundInv, [Next]_vars PROVE InboundInv'
  OBVIOUS
<1>1. WriterInv /\ PushersFit /\ FilesFit /\ TasksFit /\ WriterInv'
  BY NextWriter DEF InboundInv
<1> SUFFICES PushersFit' /\ FilesFit' /\ TasksFit'
  BY <1>1 DEF InboundInv
<1>2. ASSUME NEW t \in Turns, Capture(t) \/ Send(t) \/ HangUp(t)
      PROVE  PushersFit' /\ FilesFit' /\ TasksFit'
  BY <1>2, PusherFits
<1>3. ASSUME NEW t \in Turns, NEW outcome \in WriteOutcomes, Enqueue(t, outcome)
      PROVE  PushersFit' /\ FilesFit' /\ TasksFit'
  <2>1. PushersFit' /\ FilesFit' /\ Remembers
    BY <1>1, <1>3, EnqueueFits
  <2>2. UNCHANGED <<owner, phase, todo, sent, frame, wire, acked>> /\ channel' = channel
    BY <1>3 DEF Enqueue, task, history
  <2> QED
    BY <1>1, <2>1, <2>2, ChannelsStay, PushedFits
<1>4. ASSUME UNCHANGED <<store, disk, prior, asked, acked, push>>,
             fenced' \in BOOLEAN, faults' \in 0..MaxFaults, fenced => fenced'
      PROVE  PushersFit' /\ FilesFit'
  <2>1. PushersFit' /\ Remembers
    BY <1>1, <1>4 DEF PushersFit, Remembers
  <2> QED
    BY <1>1, <1>4, <2>1, FilesStay
<1>5. ASSUME NEW c \in Connections,
             \/ BeginConnection(c) \/ ActivateConnection(c) \/ StartReplay(c)
             \/ ReplayNext(c) \/ EndReplay(c) \/ TakeFromChannel(c) \/ FinishWrite(c)
             \/ Superseded(c) \/ Disconnect(c) \/ \E row \in Received : CheckAck(c, row)
      PROVE  PushersFit' /\ FilesFit' /\ TasksFit'
  <2>1. UNCHANGED <<store, disk, prior, asked, acked, push, fenced, faults>>
    BY <1>5 DEF BeginConnection, ActivateConnection, StartReplay, ReplayNext, EndReplay,
                TakeFromChannel, FinishWrite, Superseded, Disconnect, Ends, CheckAck,
                file, history
  <2>2. PushersFit' /\ FilesFit'
    BY <1>1, <1>4, <2>1 DEF FilesFit
  <2>3. TasksFit'
    BY <1>1, <1>5, BeginFits, ActivateFits, StartReplayFits, ReplayNextFits, EndReplayFits,
       TakeFromChannelFits, FinishWriteFits, CheckAckFits, EndsFits
       DEF Superseded, Disconnect
  <2> QED
    BY <2>2, <2>3
<1>6. ASSUME NEW c \in Connections, NEW outcome \in WriteOutcomes, ApplyAck(c, outcome)
      PROVE  PushersFit' /\ FilesFit' /\ TasksFit'
  BY <1>1, <1>6, ApplyAckFits, AcknowledgeFits
<1>7. CASE FencedElsewhere
  <2>1. /\ UNCHANGED <<store, disk, prior, push, asked, acked>> /\ fenced' = TRUE
        /\ UNCHANGED <<owner, phase, todo, sent, frame, wire, acked>> /\ channel' = channel
        /\ faults' \in 0..MaxFaults
    BY <1>1, <1>7, FaultyCounts DEF FencedElsewhere, task, history, FilesFit
  <2>2. PushersFit' /\ FilesFit'
    BY <1>4, <2>1
  <2>3. Remembers
    BY <2>1 DEF Remembers
  <2> QED
    BY <1>1, <2>1, <2>2, <2>3, ChannelsStay, PushedFits
<1>8. CASE Restart
  <2>1. PushersFit' /\ FilesFit' /\ Remembers
    BY <1>1, <1>8, RestartFits
  <2> QED
    BY <1>1, <1>8, <2>1, RestartTasks
<1>9. CASE UNCHANGED vars
  <2>1. /\ UNCHANGED <<store, disk, prior, push, asked, acked, fenced, faults>>
        /\ UNCHANGED <<owner, phase, todo, sent, frame, wire, acked>> /\ channel' = channel
    BY <1>9 DEF vars, owner
  <2>2. PushersFit' /\ FilesFit'
    BY <1>1, <1>4, <2>1 DEF FilesFit
  <2>3. Remembers
    BY <2>1 DEF Remembers
  <2> QED
    BY <1>1, <2>1, <2>2, <2>3, ChannelsStay, PushedFits
<1> QED
  BY <1>2, <1>3, <1>5, <1>6, <1>7, <1>8, <1>9 DEF Next

\* The invariant of the inbound queue: relay.rs loads what it wrote, memory and
\* file agree, and every row is where its pusher and its connections think.
THEOREM InboundCorrect == Spec => []InboundInv
<1>1. Init => InboundInv
  BY InitFits
<1>2. InboundInv /\ [Next]_vars => InboundInv'
  BY NextFits
<1> QED
  BY <1>1, <1>2, PTL DEF Spec

-----------------------------------------------------------------------------
\* The parts of the type invariant, from those of InboundInv.
LEMMA TypesFollow == ASSUME InboundInv PROVE InboundTypeOK
<1>1. /\ Owners /\ Shapes /\ \A c \in Connections : TaskFits(c)
      /\ PushersFit /\ FilesFit /\ WriterInv
  BY DEF InboundInv, TasksFit
<1>2. /\ todo \in [Connections -> Seq(Row)] /\ sent \in [Connections -> SUBSET Row]
      /\ channel \in [Connections -> Seq(Row)] /\ frame \in [Connections -> Frame]
      /\ wire \in [Connections -> Seq(Row)]
  BY <1>1 DEF Shapes, TaskFits
<1>3. store \in Store /\ disk \in Store /\ prior \subseteq Store
  BY <1>1 DEF FilesFit, SnapshotIsSound
<1>4. acked \subseteq asked /\ asked \subseteq Row
  BY <1>1 DEF FilesFit, Known
<1> QED
  BY <1>1, <1>2, <1>3, <1>4
     DEF InboundTypeOK, Owners, PushersFit, FilesFit, WriterInv, Phases

\* set_persist_path never refuses the queue that a daemon left
\* (validate_inbound_snapshot, relay.rs:1315), whatever failed before.
THEOREM QueueAlwaysLoads == Spec => []QueueIsSound
<1>1. InboundInv => QueueIsSound
  <2> SUFFICES ASSUME InboundInv PROVE QueueIsSound
    OBVIOUS
  <2>1. \A s \in {store, disk} \cup prior : Loads(s)
    BY DEF InboundInv, FilesFit, SnapshotIsSound
  <2> QED
    BY <2>1, TypesFollow DEF QueueIsSound, InboundLoads
<1> QED
  BY <1>1, InboundCorrect, PTL

\* The answer to POST /api/message (push_inbound_inner) is true either way: an
\* accepted row is in every file until its acknowledgement may be, and a
\* refused turn reaches no gateway.
THEOREM AnswersHold == Spec => []AnswersAreTrue
<1>1. InboundInv => AnswersAreTrue
  <2> SUFFICES ASSUME InboundInv PROVE AnswersAreTrue
    OBVIOUS
  <2>1. PushersFit /\ FilesFit /\ \A c \in Connections : TaskFits(c)
    BY DEF InboundInv, TasksFit
  <2>2. AcceptedIsKept
    BY <2>1 DEF AcceptedIsKept, FilesFit, SnapshotIsSound
  <2>3. ASSUME NEW t \in Turns, push[t].step = "refused", NEW x \in Received
        PROVE  x.turn # t
    <3>1. Known(x)
      BY <2>1 DEF Received, TaskFits
    <3>2. push[t].row = NoRow
      BY <2>1, <2>3, PushersRow
    <3> QED
      BY <3>1, <3>2, RowIsSome DEF Known
  <2> QED
    BY <2>2, <2>3 DEF AnswersAreTrue, RefusedNeverReaches
<1> QED
  BY <1>1, InboundCorrect, PTL

\* What is written was neither acknowledged nor written on this connection.
LEMMA WriteStep ==
  ASSUME InboundInv, [Next]_vars, NEW c \in Connections, wire'[c] # wire[c]
  PROVE  Last(wire'[c]) \notin acked \cup ToSet(wire[c])
<1>1. \/ wire' = wire
      \/ \E d \in Connections : /\ frame[d].kind = "write"
                                /\ wire' = [wire EXCEPT ![d] = Append(@, frame[d].row)]
  BY DEF Next, vars, history, Capture, Send, HangUp, Enqueue, BeginConnection,
         ActivateConnection, StartReplay, ReplayNext, EndReplay, TakeFromChannel,
         FinishWrite, Superseded, Disconnect, Ends, ApplyAck, CheckAck,
         FencedElsewhere, Restart
<1>2. Shapes /\ TaskFits(c)
  BY DEF InboundInv, TasksFit
<1> PICK row : row = frame[c].row
  OBVIOUS
<1>3. frame[c].kind = "write" /\ wire'[c] = Append(wire[c], row)
  BY <1>1, <1>2 DEF Shapes
<1>4. row \notin acked \cup ToSet(wire[c]) /\ row \in Row /\ wire[c] \in Seq(Row)
  BY <1>2, <1>3 DEF TaskFits, Known
<1>5. Last(Append(wire[c], row)) = row
  BY <1>4, AppendProperties DEF Last
<1> QED
  BY <1>3, <1>4, <1>5

\* The replay and the channel hand a row to a connection once, and never
\* one that was acknowledged (sent_inbound, relay.rs:5656-5725), on whatever way it came.
THEOREM NeverHandedTwice == Spec => HandedOverOnce
<1>1. InboundInv /\ [Next]_vars =>
        [\A c \in Connections : wire'[c] # wire[c] =>
           Last(wire'[c]) \notin acked \cup ToSet(wire[c])]_vars
  BY WriteStep
<1> QED
  BY <1>1, InboundCorrect, PTL DEF Spec, HandedOverOnce
=============================================================================
