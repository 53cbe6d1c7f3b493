----------------------------- MODULE RelayRequests -----------------------------
(***************************************************************************)
(* What POST /api/message (telepathosd/src/main.rs) and the relay          *)
(* (relay.rs) give a spoken turn before a gateway can see it: an id of its *)
(* own, a row of the inbound queue, and a note in the request sidecar that *)
(* a reply is awaited.                                                     *)
(*                                                                         *)
(* Ids count up from the wall clock of the start.  A caller looks at the   *)
(* next id, looks in the queue for it, and takes it only if nobody did     *)
(* meanwhile; the queue is searched again when the row is written, for the *)
(* clock may have been set back.  How rows reach a gateway, and what an    *)
(* ambiguous write of their file does, is in RelayInbound.                 *)
(***************************************************************************)
EXTENDS Naturals, SequencesExt

CONSTANTS
  Turns,        \* calls of POST /api/message with a known lane and a text
  Says,         \* turn :> its event but for the id: lane and text
  MaxRequests,  \* the limit of the sidecar, 200
  MaxRollback,  \* how far the clock is set back before a start
  WriteOutcomes,\* how a replacement of the sidecar's file may end
  MaxFaults     \* failed writes and restarts of a behaviour

ASSUME RequestsAssumption ==
  /\ MaxRequests \in Nat \ {0} /\ {MaxRollback, MaxFaults} \subseteq Nat
  /\ Says = [t \in Turns |-> Says[t]]
  /\ "ok" \in WriteOutcomes /\ WriteOutcomes \subseteq {"ok", "pre", "post"}

VARIABLES
  seq,       \* msg_seq, the next id
  post,      \* the calls
  rows,      \* inbound, in memory and in its file; generations are left out
  requests,  \* pending_requests: ids that await a reply, the oldest first
  saved,     \* the sidecar's file
  fenced,    \* persistence_failure
  owed,      \* history: rows no gateway has replied to
  setBack,   \* history: a start found the clock behind the ids given out
  faults

vars == <<seq, post, rows, requests, saved, fenced, owed, setBack, faults>>
sidecar == <<requests, saved, fenced>>
history == <<owed, setBack>>

-----------------------------------------------------------------------------
Row == [id : Nat, says : Range(Says)]
NoRow == [id |-> 0, says |-> "nothing"]

\* loaded: the next id was read; named: it is the caller's; queued: the row is
\* durable.  mistaken is the error that the id is already queued with different
\* content, refused any other.
Steps == {"new", "loaded", "named", "queued", "accepted", "refused", "mistaken", "gone"}
NoPost == [step |-> "new", id |-> 0, row |-> NoRow]

Faulty == faults < MaxFaults /\ faults' = faults + 1

Moves(t, step) == post' = [post EXCEPT ![t].step = step]

\* message_event: the turn's lane and words; the id is the row's.
Event(t) == Says[t]

Queued(id) == {r \in ToSet(rows) : r.id = id}

\* The row that has the id holds another event.
Clash(t) == \E r \in Queued(post[t].id) : r.says # Event(t)

-----------------------------------------------------------------------------
(* A call *)

\* The head of post_message's loop.
Load(t) ==
  /\ post[t].step = "new"
  /\ post' = [post EXCEPT ![t] = [step |-> "loaded", id |-> seq, row |-> @.row]]
  /\ UNCHANGED <<seq, rows, sidecar, history, faults>>

\* Wrong on purpose: the id is taken without a look at who took it meanwhile.
AllocateUnchecked(t) ==
  /\ post[t].step = "loaded"
  /\ IF Clash(t) THEN Moves(t, "mistaken") /\ UNCHANGED seq
     ELSE Moves(t, "named") /\ seq' = post[t].id + 1
  /\ UNCHANGED <<rows, sidecar, history, faults>>

\* Wrong on purpose: the id is read once, before the loop.
AllocateStale(t) ==
  /\ post[t].step = "loaded"
  /\ \/ Clash(t) /\ Moves(t, "mistaken") /\ UNCHANGED seq
     \/ ~Clash(t) /\ seq # post[t].id /\ Moves(t, "loaded") /\ UNCHANGED seq
     \/ ~Clash(t) /\ seq = post[t].id /\ Moves(t, "named") /\ seq' = seq + 1
  /\ UNCHANGED <<rows, sidecar, history, faults>>

\* preflight_inbound and the compare_exchange; who lost the id starts again.
Allocate(t) ==
  /\ post[t].step = "loaded"
  /\ \/ Clash(t) /\ Moves(t, "mistaken") /\ UNCHANGED seq
     \/ ~Clash(t) /\ seq # post[t].id /\ Moves(t, "new") /\ UNCHANGED seq
     \/ ~Clash(t) /\ seq = post[t].id /\ Moves(t, "named") /\ seq' = seq + 1
  /\ UNCHANGED <<rows, sidecar, history, faults>>

Existing(t) == Queued(post[t].id)

Refuses(t, step) == Moves(t, step) /\ UNCHANGED <<rows, owed, faults>>

\* push_inbound_inner, as far as its file: no row without a connection; one
\* that has the id already is not written again; a write that fails is rolled
\* back.
Enqueue(t) ==
  /\ post[t].step = "named"
  /\ LET row == [id |-> post[t].id, says |-> Event(t)]
     IN  \/ Refuses(t, "refused")
         \/ Clash(t) /\ Refuses(t, "mistaken")
         \/ /\ ~fenced /\ ~Clash(t) /\ Existing(t) = {}
            /\ \/ Moves(t, "refused") /\ Faulty /\ UNCHANGED <<rows, owed>>
               \/ /\ post' = [post EXCEPT ![t] = [step |-> "queued", id |-> @.id, row |-> row]]
                  /\ rows' = Append(rows, row)
                  /\ owed' = owed \cup {row} /\ UNCHANGED faults
         \/ /\ ~fenced /\ ~Clash(t)
            /\ \E r \in Existing(t) :
                 post' = [post EXCEPT ![t] = [step |-> "queued", id |-> @.id, row |-> r]]
            /\ UNCHANGED <<rows, owed, faults>>
  /\ UNCHANGED <<seq, sidecar, setBack>>

\* persist_requests is best effort; a directory that was not synced leaves
\* either file and fences every later write.
PersistRequests(list, outcome) ==
  /\ requests' = list
  /\ IF fenced THEN outcome = "ok" /\ UNCHANGED <<saved, fenced, faults>>
     ELSE CASE outcome = "ok" -> saved' = list /\ UNCHANGED <<fenced, faults>>
            [] outcome = "pre" -> Faulty /\ UNCHANGED <<saved, fenced>>
            [] outcome = "post" -> Faulty /\ fenced' = TRUE /\ saved' \in {list, saved}

\* Wrong on purpose: one more than the limit is kept.
WithRequestOver(id) ==
  LET all == Append(requests, id)
  IN  IF Len(requests) > MaxRequests THEN Tail(all) ELSE all

\* register_request: the oldest make room.
WithRequest(id) ==
  LET all == Append(requests, id)
  IN  IF Len(all) > MaxRequests THEN Tail(all) ELSE all

Register(t, outcome) ==
  /\ post[t].step = "queued" /\ Moves(t, "accepted")
  /\ PersistRequests(WithRequest(post[t].id), outcome)
  /\ UNCHANGED <<seq, rows, history>>

-----------------------------------------------------------------------------
(* The gateway, the sidecar and a restart *)

\* acknowledge_inbound: the row with this identity goes; ids are not queued twice.
Acknowledge(r) ==
  /\ ~fenced /\ rows' = RemoveAt(rows, CHOOSE i \in DOMAIN rows : rows[i] = r)
  /\ UNCHANGED <<seq, post, sidecar, history, faults>>

\* Wrong on purpose: the oldest request is taken to be the one answered.
WithoutOldest(id) == IF requests = <<>> THEN <<>> ELSE Tail(requests)

\* take_specific_request
WithoutRequest(id) ==
  LET S == {i \in DOMAIN requests : requests[i] = id}
  IN  IF S = {} THEN requests
      ELSE RemoveAt(requests, CHOOSE i \in S : \A j \in S : i <= j)

\* A reply to the row was committed: queue_gateway_delivery_for_request.  It may
\* come before the call that queued the row goes on.  The file is not written
\* when no request was found.
Reply(r, outcome) ==
  /\ ~fenced /\ owed' = owed \ {r}
  /\ IF WithoutRequest(r.id) = requests
     THEN outcome = "ok" /\ UNCHANGED <<sidecar, faults>>
     ELSE PersistRequests(WithoutRequest(r.id), outcome)
  /\ UNCHANGED <<seq, post, rows, setBack>>

\* validate_pending_requests
SidecarLoads(list) == Len(list) <= MaxRequests

InFlight == {"new", "loaded", "named", "queued"}

\* The daemon dies and starts again: ids count from the clock.
Restart(back) ==
  /\ back <= seq /\ Faulty /\ SidecarLoads(saved)
  /\ seq' = seq - back /\ setBack' = (setBack \/ back > 0)
  /\ requests' = saved /\ fenced' = FALSE
  /\ post' = [t \in Turns |->
       IF post[t].step \in InFlight \ {"new"} THEN [post[t] EXCEPT !.step = "gone"] ELSE post[t]]
  /\ UNCHANGED <<rows, saved, owed>>

-----------------------------------------------------------------------------
Init ==
  /\ seq = 0 /\ post = [t \in Turns |-> NoPost]
  /\ rows = <<>> /\ requests = <<>> /\ saved = <<>> /\ fenced = FALSE
  /\ owed = {} /\ setBack = FALSE /\ faults = 0

Called(t) ==
  \/ Load(t) \/ Allocate(t) \/ Enqueue(t)
  \/ \E outcome \in WriteOutcomes : Register(t, outcome)

Next ==
  \/ \E t \in Turns : Called(t)
  \/ \E r \in ToSet(rows) : Acknowledge(r)
  \/ \E r \in owed, outcome \in WriteOutcomes : Reply(r, outcome)
  \/ \E back \in 0..MaxRollback : Restart(back)

\* A handler runs on; nothing else must.
FairSpec == Init /\ [][Next]_vars /\ \A t \in Turns : WF_vars(Called(t))

-----------------------------------------------------------------------------
(* Properties *)

RequestsTypeOK ==
  /\ seq \in Nat /\ rows \in Seq(Row)
  /\ post \in [Turns -> [step : Steps, id : Nat, row : Row \cup {NoRow}]]
  /\ requests \in Seq(Nat) /\ Len(requests) <= MaxRequests
  /\ saved \in Seq(Nat) /\ fenced \in BOOLEAN
  /\ owed \subseteq Row
  /\ setBack \in BOOLEAN /\ faults \in 0..MaxFaults

\* "A compare-exchange retry keeps concurrent callers from sharing an ID"
\* (main.rs:1322): each call that was answered with success has a row of its
\* own, also when two say the same, unless a start found the clock set back.
RowOfItsOwn ==
  ~setBack => \A t, u \in Turns :
    post[t].step = "accepted" /\ post[u].step = "accepted" /\ t # u
      => post[t].row # post[u].row

\* Even then a turn is never answered with success for the words of another.
WordsAreKept ==
  \A t \in Turns : post[t].step = "accepted" => post[t].row.says = Says[t]

\* Success of a call means its own words, in a row no other call owns.
SuccessIsItsOwn == RowOfItsOwn /\ WordsAreKept

\* validate_inbound_snapshot and validate_pending_requests: the daemon starts
\* again, for no id is queued twice and the sidecar is within its limit.
FilesLoad ==
  /\ \A i, j \in DOMAIN rows : i # j => rows[i].id # rows[j].id
  /\ SidecarLoads(saved)

\* Neither a reused id nor a full sidecar keeps the daemon from starting again.
RequestsAreSound == RequestsTypeOK /\ FilesLoad

\* take_specific_request: an accepted turn stays in the sidecar until its own
\* reply comes, so long as nothing failed and no newer turns displaced it.
AwaitedIsKnown ==
  \A t \in Turns :
    post[t].step = "accepted" /\ post[t].row \in owed /\ faults = 0
      => \/ post[t].id \in ToSet(requests)
         \/ Cardinality({u \in Turns : post[u].step = "accepted"}) > MaxRequests

\* The loop of post_message ends for every caller: each call is answered or dies
\* with the daemon.
CallsEnd == \A t \in Turns : post[t].step = "loaded" ~> post[t].step \notin InFlight
=============================================================================
