-------------------------- MODULE InteractionOutbox --------------------------
(***************************************************************************)
(* The durable outbox of remote turns in the Node bridge                   *)
(* (server/src/interaction-outbox.ts) and the parts of server/src/index.ts *)
(* that use it.  A capture reserves a slot before it starts; a transcribed *)
(* turn is promoted to pending before it may have a remote effect; a flush *)
(* reports pending turns to telepathosd one by one and removes each when   *)
(* it is recorded there.                                                   *)
(*                                                                         *)
(* An interaction has its lane, id and time of creation for life; ids are  *)
(* never reused.  telepathosd is the environment: it may answer the        *)
(* request in flight in any way.                                           *)
(***************************************************************************)
EXTENDS RemoteTurns

CONSTANTS
  Capacity,       \* TELEPATHOS_INTERACTION_OUTBOX_MAX
  NoCall

ASSUME OutboxAssumption ==
  /\ NoCall \notin Interactions
  /\ Capacity \in Nat \ {0}

VARIABLES
  bridgeUp,  \* the bridge process is up
  outbox,    \* the queue in memory, its file and its fences
  paused,    \* remoteOutboxPersistenceFailure
  turn,      \* how far each remote turn is on its socket
  ran,       \* history: turns that went on to their remote effect
  flush,     \* interactionFlushPromise: the snapshot's rest and the request
  retry,     \* interactionRetryTimer
  late       \* requests the bridge gave up on, that may still arrive

outboxVars == <<bridgeUp, outbox, paused, turn, ran, flush, retry, late>>

-----------------------------------------------------------------------------
(* Types *)

Rows == [Interactions -> {"none", "reserved", "pending", "expired"}]
NoRows == [i \in Interactions |-> "none"]

\* canceled is pendingReservationCleanups; prior is the snapshot a crash may
\* bring back after a write whose directory sync failed.
Outbox == [rows : Rows, disk : Rows, prior : Rows, fenced : BOOLEAN,
           canceled : SUBSET Interactions]

Turn == {"idle", "reserved", "transcribing", "over"}

\* sent: on its way.  taken: telepathosd handles it.
Answer == {"sent", "taken", "recorded", "expired", "failed"}
Flush == [todo : SUBSET Interactions, call : Interactions \cup {NoCall},
          answer : Answer]
NoFlush == [todo |-> {}, call |-> NoCall, answer |-> "sent"]

OutboxTypeOK ==
  /\ bridgeUp \in BOOLEAN /\ paused \in BOOLEAN /\ retry \in BOOLEAN
  /\ outbox \in Outbox
  /\ turn \in [Interactions -> Turn]
  /\ ran \subseteq Interactions /\ late \subseteq Interactions
  /\ flush \in Flush

Occupied(rows) == {i \in Interactions : rows[i] # "none"}
InState(rows, st) == {i \in Interactions : rows[i] = st}
Without(rows, gone) == [i \in Interactions |-> IF i \in gone THEN "none" ELSE rows[i]]

-----------------------------------------------------------------------------
(* The queue *)

\* Install rows and write them.  A failure before the rename restores the old
\* rows; one after it leaves the file in doubt and fences the queue for good.
Persist(ob, rows, outcome) ==
  CASE outcome = "ok" ->
         [ob EXCEPT !.rows = rows, !.disk = rows, !.prior = rows]
    [] outcome = "pre" -> ob
    [] outcome = "post" ->
         [ob EXCEPT !.rows = rows, !.disk = rows, !.prior = ob.disk,
                    !.fenced = TRUE]

\* Wrong on purpose: a delete that failed is forgotten.
CancelForgetting(ob, i, outcome) ==
  IF ob.fenced \/ ob.rows[i] # "reserved" THEN ob
  ELSE Persist(ob, Without(ob.rows, {i}), outcome)

\* cancelReservation: a delete that failed before the rename is remembered.
Cancel(ob, i, outcome) ==
  IF ob.fenced \/ ob.rows[i] # "reserved" THEN ob
  ELSE LET saved == Persist(ob, Without(ob.rows, {i}), outcome)
       IN  [saved EXCEPT !.canceled = IF outcome = "pre" THEN @ \cup {i}
                                      ELSE IF outcome = "ok" THEN @ \ {i} ELSE @]

\* Slots left once the remembered deletes are done.
HasSlot(ob) ==
  /\ InState(ob.rows, "expired") = {}
  /\ Cardinality(Occupied(ob.rows)) < Capacity

\* removeDelivered
RemoveDelivered(ob, i, outcome) ==
  IF ob.fenced \/ ob.rows[i] # "pending" THEN ob
  ELSE Persist(ob, Without(ob.rows, {i}), outcome)

\* markExpired
MarkExpired(ob, i, outcome) ==
  IF ob.fenced \/ ob.rows[i] # "pending" THEN ob
  ELSE Persist(ob, [ob.rows EXCEPT ![i] = "expired"], outcome)

\* sweepPendingReservationCleanups, as far as swept.
Sweep(ob, swept) ==
  IF swept = {} THEN ob
  ELSE Persist([ob EXCEPT !.canceled = @ \ swept], Without(ob.rows, swept), "ok")

\* reserve sweeps the remembered deletes first, then writes the reservation or
\* refuses.  swept is how far the sweep came before a write failed.
Reserve(i, swept, outcome) ==
  LET rest == outbox.canceled \ swept
      ob == Sweep(outbox, swept)
      Ends(st) == turn' = [turn EXCEPT ![i] = st]
  IN  /\ bridgeUp /\ turn[i] = "idle" /\ ~paused /\ ~outbox.fenced
      /\ swept \subseteq outbox.canceled
      /\ \/ /\ rest = {} /\ HasSlot(ob)
            /\ outbox' = Persist(ob, [ob.rows EXCEPT ![i] = "reserved"], outcome)
            /\ Ends(IF outcome = "ok" THEN "reserved" ELSE "over")
         \/ /\ rest = {} /\ ~HasSlot(ob)
            /\ outcome = "ok" /\ outbox' = ob /\ Ends("over")
         \/ /\ outcome # "ok"
            /\ \E j \in rest : outbox' = Persist(ob, Without(ob.rows, {j}), outcome)
            /\ Ends("over")
      /\ UNCHANGED <<bridgeUp, paused, ran, flush, retry, late>>

-----------------------------------------------------------------------------
(* The flush *)

\* Wrong on purpose: only a failed request arms the timer.
ContinueUnarmed(ob, todo, armed) ==
  \/ /\ todo = {}
     /\ flush' = NoFlush
     /\ retry' = armed
  \/ \E i \in todo :
     /\ flush' = [todo |-> todo \ {i}, call |-> i, answer |-> "sent"]
     /\ retry' = armed

\* The flush goes on with todo, or ends; its end arms the retry timer while
\* anything is pending.
Continue(ob, todo, armed) ==
  \/ /\ todo = {}
     /\ flush' = NoFlush
     /\ retry' = (armed \/ InState(ob.rows, "pending") # {})
  \/ \E i \in todo :
     /\ flush' = [todo |-> todo \ {i}, call |-> i, answer |-> "sent"]
     /\ retry' = armed

\* flushInteractionOutbox: one flush at a time, over a copy of what is pending.
StartFlush(ob, armed) ==
  IF flush.call = NoCall THEN Continue(ob, InState(ob.rows, "pending"), armed)
  ELSE UNCHANGED flush /\ retry' = armed

RetryTimerFires ==
  /\ bridgeUp /\ retry
  /\ StartFlush(outbox, FALSE)
  /\ UNCHANGED <<bridgeUp, outbox, paused, turn, ran, late>>

\* Wrong on purpose: any answer at all is taken for a record of the turn.
RemovableAnyway == flush.answer \in {"recorded", "failed"}

\* Only a turn that telepathosd recorded leaves the queue.
Removable == flush.answer = "recorded"

\* The row of the call may be written; a call that writes nothing cannot fail.
Writes == ~outbox.fenced /\ outbox.rows[flush.call] = "pending"

\* telepathosd recorded the turn: its row goes, and the flush goes on unless
\* that failed.
FlushRecorded(outcome) ==
  LET next == RemoveDelivered(outbox, flush.call, outcome)
  IN  /\ bridgeUp /\ flush.call # NoCall /\ Removable
      /\ Writes \/ outcome = "ok"
      /\ outbox' = next
      /\ IF outcome = "ok" /\ ~outbox.fenced
         THEN Continue(next, flush.todo, retry)
         ELSE flush' = NoFlush /\ retry' = TRUE
      /\ UNCHANGED <<bridgeUp, paused, turn, ran, late>>

\* telepathosd's retry horizon has passed: the row stays as expired and blocks
\* new captures; until that is written, captures are paused.
FlushExpired(outcome) ==
  LET next == MarkExpired(outbox, flush.call, outcome)
      marked == ~outbox.fenced /\ outcome = "ok"
  IN  /\ bridgeUp /\ flush.call # NoCall /\ flush.answer = "expired"
      /\ Writes \/ outcome = "ok"
      /\ outbox' = next
      /\ paused' = ~marked
      /\ flush' = NoFlush
      /\ retry' = (retry \/ ~marked \/ InState(next.rows, "pending") # {})
      /\ UNCHANGED <<bridgeUp, turn, ran, late>>

\* The request failed or was given up on; telepathosd may still act on it.
FlushFailed ==
  LET i == flush.call IN
  /\ bridgeUp /\ i # NoCall /\ flush.answer \in {"sent", "taken", "failed"}
  /\ flush' = NoFlush /\ retry' = TRUE
  /\ late' = IF flush.answer = "sent" THEN late \cup {i} ELSE late
  /\ UNCHANGED <<bridgeUp, outbox, paused, turn, ran>>

-----------------------------------------------------------------------------
(* Turns *)

\* The capture's speech ended and is being transcribed.
Speak(i) ==
  /\ bridgeUp /\ turn[i] = "reserved"
  /\ turn' = [turn EXCEPT ![i] = "transcribing"]
  /\ UNCHANGED <<bridgeUp, outbox, paused, ran, flush, retry, late>>

\* A capture is stopped, cancelled or timed out, its socket closes, or its
\* transcription fails or is superseded: the reservation is cancelled.
Discard(i, outcome) ==
  LET writes == ~outbox.fenced /\ outbox.rows[i] = "reserved" IN
  /\ bridgeUp /\ turn[i] \in {"reserved", "transcribing"}
  /\ ~writes => outcome = "ok"
  /\ turn' = [turn EXCEPT ![i] = "over"]
  /\ outbox' = Cancel(outbox, i, outcome)
  /\ paused' = (paused \/ outbox'.fenced)
  /\ UNCHANGED <<bridgeUp, ran, flush, retry, late>>

\* The turn is transcribed and still current: it is promoted before anything
\* remote happens, and a flush is started.
Promote(i) ==
  LET saved == Persist(outbox, [outbox.rows EXCEPT ![i] = "pending"], "ok") IN
  /\ bridgeUp /\ turn[i] = "transcribing" /\ ~outbox.fenced
  /\ outbox' = saved
  /\ turn' = [turn EXCEPT ![i] = "over"]
  /\ ran' = ran \cup {i}
  /\ StartFlush(saved, retry)
  /\ UNCHANGED <<bridgeUp, paused, late>>

\* The promotion fails: the turn ends there and its reservation is cancelled.
PromoteFails(i, outcome, cancel) ==
  LET saved == IF outbox.fenced THEN outbox
               ELSE Persist(outbox, [outbox.rows EXCEPT ![i] = "pending"], outcome)
  IN  /\ bridgeUp /\ turn[i] = "transcribing"
      /\ outbox.fenced \/ outcome # "ok"
      /\ outbox' = Cancel(saved, i, cancel)
      /\ turn' = [turn EXCEPT ![i] = "over"]
      /\ paused' = (paused \/ outbox'.fenced)
      /\ UNCHANGED <<bridgeUp, ran, flush, retry, late>>

-----------------------------------------------------------------------------
(* Crash and restart *)

BridgeCrash ==
  /\ bridgeUp /\ bridgeUp' = FALSE
  /\ outbox' = [outbox EXCEPT !.rows = NoRows, !.canceled = {}]
  /\ turn' = [i \in Interactions |->
                IF turn[i] = "idle" THEN "idle" ELSE "over"]
  /\ late' = IF flush.call # NoCall /\ flush.answer = "sent"
             THEN late \cup {flush.call} ELSE late
  /\ flush' = NoFlush /\ retry' = FALSE /\ paused' = FALSE
  /\ UNCHANGED ran

\* A restart drops reservations, durably, before it serves or flushes.
BridgeStart(found, outcome) ==
  LET kept == Without(found, InState(found, "reserved"))
      read == [rows |-> found, disk |-> found, prior |-> found,
               fenced |-> FALSE, canceled |-> {}]
      saved == Persist(read, kept, outcome)
      starts == kept = found \/ outcome = "ok"
  IN  /\ ~bridgeUp /\ found \in {outbox.disk, outbox.prior}
      /\ Cardinality(Occupied(found)) <= Capacity
      /\ kept = found => outcome = "ok"
      /\ bridgeUp' = starts
      /\ IF starts
         THEN outbox' = saved /\ Continue(saved, InState(kept, "pending"), FALSE)
         ELSE /\ outbox' = [saved EXCEPT !.rows = NoRows, !.fenced = FALSE]
              /\ UNCHANGED <<flush, retry>>
      /\ UNCHANGED <<paused, turn, ran, late>>

OutboxInit ==
  /\ bridgeUp = TRUE /\ paused = FALSE /\ retry = FALSE
  /\ outbox = [rows |-> NoRows, disk |-> NoRows, prior |-> NoRows,
               fenced |-> FALSE, canceled |-> {}]
  /\ turn = [i \in Interactions |-> "idle"]
  /\ ran = {} /\ late = {} /\ flush = NoFlush

-----------------------------------------------------------------------------
(* What the outbox guarantees *)

\* No slot leaks: while the queue is healthy, every reservation belongs to a
\* capture or a transcription that will promote or cancel it, or to a failed
\* cancel that the next capture repeats; and each of those has its row on file.
SlotsAreOwned ==
  bridgeUp /\ ~outbox.fenced =>
    /\ InState(outbox.rows, "reserved") =
         InState(turn, "reserved") \cup InState(turn, "transcribing")
           \cup outbox.canceled
    /\ outbox.disk = outbox.rows

\* Whichever snapshot a restart finds fits the queue.
OutboxLoads ==
  \A found \in {outbox.disk, outbox.prior} :
    Cardinality(Occupied(found)) <= Capacity
=============================================================================
