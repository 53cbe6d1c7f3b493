------------------------------ MODULE RelayInbound ------------------------------
(***************************************************************************)
(* The inbound half of telepathosd's relay (telepathosd/src/relay.rs):     *)
(* spoken turns become durable rows, written to the one gateway connection *)
(* that owns the relay until the gateway acknowledges them, and replayed   *)
(* to the connection that takes its place.                                 *)
(*                                                                         *)
(* A connection is a task: after the handshake it supersedes the current   *)
(* one, waits for connection_writer_lock, becomes active, handles what     *)
(* came with the hello, replays the rows, then serves its channel and the  *)
(* gateway's frames.  A pusher is one POST /api/message.                   *)
(***************************************************************************)
EXTENDS Naturals, SequencesExt

CONSTANTS
  Turns,          \* messages, each pushed once under an id of its own
  MaxConnections,
  Capacity,       \* RELAY_CHANNEL_CAP
  MaxRows,        \* MAX_PENDING_DELIVERIES
  MaxTombstones,  \* MAX_INBOUND_TOMBSTONES
  WriteOutcomes,  \* how the replacement of the file may end
  MaxFaults       \* failed writes and restarts of a behaviour

ASSUME InboundAssumption ==
  /\ {MaxConnections, Capacity, MaxRows, MaxTombstones} \subseteq Nat \ {0}
  /\ MaxFaults \in Nat
  /\ "ok" \in WriteOutcomes /\ WriteOutcomes \subseteq {"ok", "pre", "post"}

Connections == 1..MaxConnections

VARIABLES
  latest,    \* the newest connection that finished its handshake
  outbound,  \* the active connection, or 0
  writer,    \* the holder of connection_writer_lock, or 0
  phase,     \* what each connection does
  todo,      \* its snapshot of rows left to replay
  sent,      \* sent_inbound
  channel,   \* the mpsc channel of its pushers
  frame,     \* what it is busy with: a row it writes, an ack it applies
  store,     \* rows, next_inbound_generation, tombstones
  disk,      \* the inbound snapshot file
  prior,     \* the snapshot a power failure may put back, if a sync failed
  fenced,    \* persistence_failure, shared with the outbound half
  push,      \* the pushers
  wire,      \* history: what each connection wrote
  asked,     \* history: rows whose acknowledgement may have reached the file
  acked,     \* history: rows whose acknowledgement was answered
  faults

vars == <<latest, outbound, writer, phase, todo, sent, channel, frame, store,
          disk, prior, fenced, push, wire, asked, acked, faults>>
owner == <<latest, outbound, writer>>
task == <<phase, todo, sent, channel, frame>>
file == <<store, disk, prior, fenced, faults>>
history == <<wire, asked, acked>>

-----------------------------------------------------------------------------
(* Types *)

Row == [turn : Turns, gen : Nat \ {0}]
NoRow == [turn |-> "none", gen |-> 0]
Store == [rows : Seq(Row), next : Nat, tombs : Seq(Row)]
Frame == [kind : {"idle", "write", "ack"}, row : Row \cup {NoRow}]
NoFrame == [kind |-> "idle", row |-> NoRow]
\* refused is a definite error, unknown an error after the row may be on disk;
\* a pusher whose caller hangs up is gone.
Push == [step : {"new", "captured", "queued", "accepted", "refused", "unknown", "gone"},
         to : Connections \cup {0}, row : Row \cup {NoRow}]
NoPush == [step |-> "new", to |-> 0, row |-> NoRow]

Pending(row) == row \in ToSet(store.rows)

\* validate_inbound_snapshot
Loads(s) ==
  /\ Len(s.rows) <= MaxRows /\ Len(s.tombs) <= MaxTombstones
  /\ \A i \in DOMAIN s.rows : s.rows[i].gen <= s.next
  /\ \A i, j \in DOMAIN s.rows : i # j => s.rows[i].turn # s.rows[j].turn
  /\ \A i \in DOMAIN s.tombs : s.tombs[i].gen <= s.next
  /\ IsInjective(s.tombs)
  /\ ToSet(s.tombs) \cap ToSet(s.rows) = {}

InboundTypeOK ==
  /\ latest \in 0..MaxConnections /\ outbound \in 0..latest /\ writer \in 0..latest
  /\ phase \in [Connections -> {"off", "waiting", "hello", "replay", "serve", "closed"}]
  /\ todo \in [Connections -> Seq(Row)] /\ sent \in [Connections -> SUBSET Row]
  /\ channel \in [Connections -> Seq(Row)] /\ frame \in [Connections -> Frame]
  /\ store \in Store /\ disk \in Store /\ prior \subseteq Store
  /\ fenced \in BOOLEAN /\ faults \in 0..MaxFaults
  /\ push \in [Turns -> Push]
  /\ wire \in [Connections -> Seq(Row)] /\ acked \subseteq asked /\ asked \subseteq Row

-----------------------------------------------------------------------------
(* The file *)

Faulty == faults < MaxFaults /\ faults' = faults + 1

\* persist_inbound of store s and the rollback of its callers.
Persist(s, outcome) ==
  CASE outcome = "ok" -> store' = s /\ disk' = s /\ UNCHANGED <<prior, fenced, faults>>
    [] outcome = "pre" -> UNCHANGED <<store, disk, prior, fenced>> /\ Faulty
    [] outcome = "post" -> /\ store' = s /\ disk' = s /\ prior' = prior \cup {disk}
                           /\ fenced' = TRUE /\ Faulty

\* Wrong on purpose: tombstones without a limit.
EntombedUnbounded(row) == Append(store.tombs, row)

\* The oldest tombstones make room: append_inbound_tombstone.  It could refuse
\* only a tombstone larger than all of them may be; ids are short.
Entombed(row) ==
  LET all == Append(store.tombs, row)
  IN  IF Len(all) > MaxTombstones THEN Tail(all) ELSE all

\* validate_inbound_enqueue
HasRoom == Len(store.rows) < MaxRows

\* enqueue_inbound
WithRow(row) ==
  [rows |-> Append(store.rows, row), next |-> row.gen, tombs |-> store.tombs]

\* Wrong on purpose: an acknowledgement takes the rows before it along.
WithoutRowsBefore(row) ==
  [store EXCEPT !.rows = SelectSeq(@, LAMBDA x : x.gen > row.gen), !.tombs = Entombed(row)]

\* acknowledge_inbound: exactly this row goes.
WithoutRow(row) ==
  LET place == CHOOSE i \in DOMAIN store.rows : store.rows[i] = row
  IN  [rows |-> RemoveAt(store.rows, place), next |-> store.next, tombs |-> Entombed(row)]

-----------------------------------------------------------------------------
(* Pushers *)

Moves(t, step) == push' = [push EXCEPT ![t].step = step]

\* push_inbound_inner: the channel is taken from the connection of this moment.
Capture(t) ==
  /\ push[t].step = "new"
  /\ push' = [push EXCEPT ![t].step = IF outbound = 0 THEN "refused" ELSE "captured",
                          ![t].to = outbound]
  /\ UNCHANGED <<owner, task, file, history>>

\* What its caller learns of a write that ended so.
Answer(outcome) ==
  CASE outcome = "ok" -> "queued"
    [] outcome = "pre" -> "refused"
    [] outcome = "post" -> "unknown"

Enqueue(t, outcome) ==
  LET row == [turn |-> t, gen |-> store.next + 1]
  IN  /\ push[t].step = "captured"
      /\ IF fenced \/ ~HasRoom
         THEN Moves(t, "refused") /\ outcome = "ok" /\ UNCHANGED file
         ELSE /\ Persist(WithRow(row), outcome)
              /\ push' = [push EXCEPT ![t].step = Answer(outcome),
                                      ![t].row = IF outcome = "pre" THEN NoRow ELSE row]
      /\ UNCHANGED <<owner, task, history>>

\* The row is handed to the captured channel once it has room; a channel whose
\* connection has ended is an error that is ignored.
Send(t) ==
  LET c == push[t].to
  IN  /\ push[t].step = "queued"
      /\ Moves(t, "accepted")
      /\ \/ phase[c] = "closed" /\ UNCHANGED channel
         \/ /\ phase[c] # "closed" /\ Len(channel[c]) < Capacity
            /\ channel' = [channel EXCEPT ![c] = Append(@, push[t].row)]
      /\ UNCHANGED <<owner, phase, todo, sent, frame, file, history>>

\* The caller hangs up; its handler is dropped where it waits.
HangUp(t) ==
  /\ push[t].step = "queued"
  /\ Moves(t, "gone")
  /\ UNCHANGED <<owner, task, file, history>>

-----------------------------------------------------------------------------
(* Connections *)

IsActive(c) == latest = c /\ outbound = c

\* begin_connection, once the gateway's hello was answered.
BeginConnection(c) ==
  /\ c = latest + 1 /\ latest' = c /\ outbound' = 0
  /\ phase' = [phase EXCEPT ![c] = "waiting"]
  /\ UNCHANGED <<writer, todo, sent, channel, frame, file, push, history>>

\* Wrong on purpose: a successor does not wait for connection_writer_lock.
WriterNeverAwaited == TRUE

\* connection_writer_lock
WriterIsFree == writer = 0

\* connection_writer_lock and activate_connection; one that was overtaken
\* while it waited returns at once.
ActivateConnection(c) ==
  /\ phase[c] = "waiting" /\ WriterIsFree
  /\ IF latest = c
     THEN outbound' = c /\ writer' = c /\ phase' = [phase EXCEPT ![c] = "hello"]
     ELSE UNCHANGED <<outbound, writer>> /\ phase' = [phase EXCEPT ![c] = "closed"]
  /\ UNCHANGED <<latest, todo, sent, channel, frame, file, push, history>>

Ready(c, p) == phase[c] = p /\ frame[c] = NoFrame

\* Wrong on purpose: the channel is trusted to hold what is pending.
NothingToReplay == <<>>

\* pending_inbound
Snapshot == store.rows

StartReplay(c) ==
  /\ Ready(c, "hello") /\ IsActive(c)
  /\ todo' = [todo EXCEPT ![c] = Snapshot]
  /\ phase' = [phase EXCEPT ![c] = "replay"]
  /\ UNCHANGED <<owner, sent, channel, frame, file, push, history>>

Writes(c, row) == frame' = [frame EXCEPT ![c] = [kind |-> "write", row |-> row]]

ReplayNext(c) ==
  /\ Ready(c, "replay") /\ IsActive(c) /\ todo[c] # <<>>
  /\ Writes(c, Head(todo[c]))
  /\ todo' = [todo EXCEPT ![c] = Tail(@)]
  /\ UNCHANGED <<owner, phase, sent, channel, file, push, history>>

EndReplay(c) ==
  /\ Ready(c, "replay") /\ todo[c] = <<>>
  /\ phase' = [phase EXCEPT ![c] = "serve"]
  /\ UNCHANGED <<owner, todo, sent, channel, frame, file, push, history>>

\* Wrong on purpose: rows of the replay are not remembered.
WantedTwice(c, row) == Pending(row)

\* A row from the channel is skipped if it was replayed or acknowledged already.
Wanted(c, row) == row \notin sent[c] /\ Pending(row)

TakeFromChannel(c) ==
  /\ Ready(c, "serve") /\ IsActive(c) /\ channel[c] # <<>>
  /\ channel' = [channel EXCEPT ![c] = Tail(@)]
  /\ IF Wanted(c, Head(channel[c])) THEN Writes(c, Head(channel[c])) ELSE UNCHANGED frame
  /\ UNCHANGED <<owner, phase, todo, sent, file, push, history>>

\* send_owned_text: the socket takes the frame; what was sent counts only if
\* the connection is still active then.
FinishWrite(c) ==
  LET row == frame[c].row
  IN  /\ frame[c].kind = "write"
      /\ frame' = [frame EXCEPT ![c] = NoFrame]
      /\ wire' = [wire EXCEPT ![c] = Append(@, row)]
      /\ sent' = IF IsActive(c) THEN [sent EXCEPT ![c] = @ \cup {row}] ELSE sent
      /\ UNCHANGED <<owner, phase, todo, channel, file, push, asked, acked>>

\* drain_gateway_lines: the frames that came with the hello are handled before
\* the replay, the others after it.
OwnsFrame(c) == (Ready(c, "hello") \/ Ready(c, "serve")) /\ IsActive(c)

\* An inbound_ack for a row the gateway received, now or on an earlier
\* connection, passes the ownership check.
Received == UNION {ToSet(wire[c]) : c \in Connections}
CheckAck(c, row) ==
  /\ OwnsFrame(c) /\ row \in Received
  /\ frame' = [frame EXCEPT ![c] = [kind |-> "ack", row |-> row]]
  /\ UNCHANGED <<owner, phase, todo, sent, channel, file, push, history>>

\* acknowledge_inbound, after the lock of that check was released.
ApplyAck(c, outcome) ==
  LET row == frame[c].row
  IN  /\ frame[c].kind = "ack"
      /\ frame' = [frame EXCEPT ![c] = NoFrame]
      /\ IF fenced \/ ~Pending(row)
         THEN outcome = "ok" /\ UNCHANGED <<file, asked, acked>>
         ELSE /\ Persist(WithoutRow(row), outcome)
              /\ asked' = IF outcome = "pre" THEN asked ELSE asked \cup {row}
              /\ acked' = IF outcome = "ok" THEN acked \cup {row} ELSE acked
      /\ UNCHANGED <<owner, phase, todo, sent, channel, push, wire>>

\* The task ends: clear_outbound_if, the lock and the channel are dropped.
Ends(c) ==
  /\ phase' = [phase EXCEPT ![c] = "closed"]
  /\ todo' = [todo EXCEPT ![c] = <<>>] /\ sent' = [sent EXCEPT ![c] = {}]
  /\ channel' = [channel EXCEPT ![c] = <<>>]
  /\ frame' = [frame EXCEPT ![c] = NoFrame]
  /\ outbound' = IF outbound = c THEN 0 ELSE outbound
  /\ writer' = IF writer = c THEN 0 ELSE writer
  /\ UNCHANGED <<latest, file, push, history>>

Running(c) == phase[c] \in {"hello", "replay", "serve"} /\ frame[c].kind # "ack"

\* A superseded connection notices, also in the middle of a write.
Superseded(c) == Running(c) /\ ~IsActive(c) /\ Ends(c)
Disconnect(c) == Running(c) /\ IsActive(c) /\ Ends(c)

-----------------------------------------------------------------------------
(* Faults of the whole daemon *)

\* A write of the outbound half fails after its rename.
FencedElsewhere ==
  /\ ~fenced /\ fenced' = TRUE /\ Faulty
  /\ UNCHANGED <<owner, task, store, disk, prior, push, history>>

\* The daemon dies and set_persist_path loads what the file held.
Restart ==
  /\ Faulty
  /\ \E s \in {disk} \cup prior : Loads(s) /\ store' = s /\ disk' = s
  /\ prior' = {} /\ fenced' = FALSE
  /\ outbound' = 0 /\ writer' = 0
  /\ phase' = [c \in Connections |-> IF phase[c] = "off" THEN "off" ELSE "closed"]
  /\ todo' = [c \in Connections |-> <<>>] /\ sent' = [c \in Connections |-> {}]
  /\ channel' = [c \in Connections |-> <<>>]
  /\ frame' = [c \in Connections |-> NoFrame]
  /\ push' = [t \in Turns |->
       IF push[t].step \in {"captured", "queued"}
       THEN [push[t] EXCEPT !.step = "gone"] ELSE push[t]]
  /\ UNCHANGED <<latest, history>>

-----------------------------------------------------------------------------
EmptyStore == [rows |-> <<>>, next |-> 0, tombs |-> <<>>]

Init ==
  /\ latest = 0 /\ outbound = 0 /\ writer = 0
  /\ phase = [c \in Connections |-> "off"]
  /\ todo = [c \in Connections |-> <<>>] /\ sent = [c \in Connections |-> {}]
  /\ channel = [c \in Connections |-> <<>>] /\ frame = [c \in Connections |-> NoFrame]
  /\ store = EmptyStore /\ disk = EmptyStore /\ prior = {} /\ fenced = FALSE
  /\ push = [t \in Turns |-> NoPush]
  /\ wire = [c \in Connections |-> <<>>] /\ asked = {} /\ acked = {} /\ faults = 0

Next ==
  \/ \E t \in Turns : Capture(t) \/ Send(t) \/ HangUp(t)
                      \/ \E outcome \in WriteOutcomes : Enqueue(t, outcome)
  \/ \E c \in Connections :
       \/ BeginConnection(c) \/ ActivateConnection(c) \/ StartReplay(c)
       \/ ReplayNext(c) \/ EndReplay(c) \/ TakeFromChannel(c) \/ FinishWrite(c)
       \/ Superseded(c) \/ Disconnect(c)
       \/ \E outcome \in WriteOutcomes : ApplyAck(c, outcome)
       \/ \E row \in Received : CheckAck(c, row)
  \/ FencedElsewhere
  \/ Restart

Spec == Init /\ [][Next]_vars

\* The tasks of connections and of pushers run on; nothing else must.  Frames
\* of the gateway come between: those that came with the hello are finitely
\* many, and select! picks its ready branches in random order.
FairSpec ==
  /\ Spec
  /\ \A c \in Connections :
       /\ WF_vars(ActivateConnection(c)) /\ SF_vars(StartReplay(c))
       /\ WF_vars(ReplayNext(c)) /\ WF_vars(EndReplay(c))
       /\ SF_vars(TakeFromChannel(c))
       /\ WF_vars(FinishWrite(c)) /\ WF_vars(Superseded(c))
       /\ WF_vars(\E outcome \in WriteOutcomes : ApplyAck(c, outcome))
  /\ \A t \in Turns : WF_vars(Send(t))

-----------------------------------------------------------------------------
(* Properties *)

\* validate_inbound_snapshot accepts whatever a restart may find.
InboundLoads == \A s \in {store, disk} \cup prior : Loads(s)

\* No order of failed writes, acknowledgements and tombstones leaves a queue
\* that set_persist_path refuses.
QueueIsSound == InboundTypeOK /\ InboundLoads

\* POST /api/message was answered with success: the row is in memory and in
\* every file a restart may read, until the gateway's acknowledgement of it is
\* written.
AcceptedIsKept ==
  \A t \in Turns : push[t].step = "accepted" /\ push[t].row \notin asked
    => \A s \in {store, disk} \cup prior : push[t].row \in ToSet(s.rows)

\* A turn whose request definitely failed, and will be spoken again under
\* another id, never reaches a gateway.
RefusedNeverReaches ==
  \A t \in Turns : push[t].step = "refused" => \A x \in Received : x.turn # t

\* The phone can believe the answer to POST /api/message, either way.
AnswersAreTrue == AcceptedIsKept /\ RefusedNeverReaches

\* No turn is handed over twice for what the gateway could tell apart: a
\* connection is given a row once, though it finds it both in its replay and in
\* its channel, and a row that was acknowledged is not written again, from a
\* channel, a replay or a restarted daemon.
HandedOverOnce ==
  [][\A c \in Connections : wire'[c] # wire[c] =>
       Last(wire'[c]) \notin acked \cup ToSet(wire[c])]_vars

\* inbound_ack (relay.rs:6118) and send_owned_text: once a successor is active,
\* a superseded socket writes no row and acknowledges none, though it checks
\* its ownership before the step and not with it.
Successor(c) == \E d \in Connections : d > c /\ phase[d] \in {"hello", "replay", "serve"}
OwnerActsAlone ==
  [][\A c \in Connections : Successor(c) =>
       /\ wire'[c] = wire[c]
       /\ frame[c].kind = "ack" => UNCHANGED <<store, acked>>]_vars

\* Row t reaches connection c, unless the connection ends or the row goes.
Reaches(t, c) ==
  \/ push[t].row \in ToSet(wire[c])
  \/ phase[c] = "closed"
  \/ ~Pending(push[t].row)

\* A row that was accepted before a connection replays reaches it.
ReplayReaches ==
  \A t \in Turns, c \in Connections :
    push[t].step = "accepted" /\ phase[c] = "hello" ~> Reaches(t, c)

\* push_inbound_inner (relay.rs:2346) says so of every accepted row: "A
\* successor will replay the row."
AcceptedReaches ==
  \A t \in Turns, c \in Connections :
    push[t].step = "accepted" /\ phase[c] = "serve" ~> Reaches(t, c)
=============================================================================
