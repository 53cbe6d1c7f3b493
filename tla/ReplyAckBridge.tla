--------------------------- MODULE ReplyAckBridge ---------------------------
(***************************************************************************)
(* The reply-receipt half of the Node bridge: the durable store of         *)
(* reply-ack bindings and tombstones (server/src/reply-ack-store.ts), the  *)
(* owner high-water cache (reply-ack-owner-cache.ts) and the handlers of   *)
(* server/src/index.ts that move a receipt through                         *)
(*      prepared -> received -> consumed -> (tombstone) -> retired.        *)
(*                                                                         *)
(* A key is one exact receipt: lane, reply_to, sequence range, turn token  *)
(* and interaction id.  Frames whose token does not match their key are    *)
(* ignored by the code and are not modelled.  The handset is the           *)
(* environment: on an open socket it may write any receipt frame.          *)
(*                                                                         *)
(* A binding record stands for the JavaScript object: the code compares    *)
(* bindings by object identity, and every copy it makes changes a field,   *)
(* so equality of records is that identity.                                *)
(***************************************************************************)
EXTENDS Naturals, Sequences, FiniteSets, SequencesExt

CONSTANTS
  Keys,                \* reply receipts
  Installations,       \* handset installation ids
  Sockets,             \* websocket slots, reused after a close
  SocketOwner,         \* the installation that dials each slot
  NoBinding, NoTombstone, NoSocket, NoTimer,
  MaxBindings,         \* MAX_STORED_REPLY_ACKS
  MaxTombstones,       \* MAX_STORED_REPLY_ACK_TOMBSTONES
  OwnerAbandonment,    \* REPLY_ACK_OWNER_ABANDONMENT_MS, in clock units
  ConsumedRetention,   \* REPLY_ACK_CONSUMED_RETENTION_MS
  TombstoneRetention,  \* REPLY_ACK_TOMBSTONE_RETENTION_MS
  MaxClock,            \* bound: the last clock value
  MaxRollback,         \* bound: how far the wall clock may be set back at once
  MaxFrames,           \* bound: frames queued per direction of a socket
  SaveOutcomes,        \* the outcomes of a snapshot write that may occur
  HandsetOps           \* the frames the arbitrary handset may write

ASSUME KeysAssumption == IsFiniteSet(Keys)
ASSUME OwnerAssumption == SocketOwner \in [Sockets -> Installations]
ASSUME AbsentAssumption ==
  /\ NoBinding \notin [inst : Installations,
                       st : {"prepared", "received", "consumed"},
                       at : Nat, seen : Nat]
  /\ NoTombstone \notin [inst : Installations, at : Nat]
  /\ NoSocket \notin Sockets
  /\ NoTimer \notin [sock : Sockets \cup {NoSocket}, inst : Installations]
ASSUME BoundAssumption ==
  /\ MaxBindings \in Nat /\ MaxTombstones \in Nat
  /\ MaxClock \in Nat /\ MaxRollback \in Nat /\ MaxFrames \in Nat
ASSUME RetentionAssumption ==
  /\ OwnerAbandonment \in Nat /\ ConsumedRetention \in Nat
  /\ TombstoneRetention \in Nat /\ TombstoneRetention > ConsumedRetention
ASSUME OutcomeAssumption ==
  /\ "ok" \in SaveOutcomes /\ SaveOutcomes \subseteq {"ok", "pre", "post"}
  /\ HandsetOps \subseteq {"reply_received", "reply_ack", "reply_ack_retire"}

VARIABLES
  clock,      \* Date.now(), in coarse units
  idle,       \* history: time since each installation last had a socket open
  running,    \* the bridge process is up
  startedAt,  \* replyAckProcessStartedAtMs
  store,      \* the process's maps, the snapshot file and the write fence
  link,       \* per socket: closed, opening (hello sent), open (hello handled)
  pending,    \* per socket: ClientState.pendingReplyAcks
  tasks,      \* running acknowledgement tasks
  timers,     \* replyAckRetryTimers
  up, down,   \* per socket: frames in flight to the bridge and to the handset
  requests,   \* consume requests that may still reach telepathosd
  consumed,   \* deliveries telepathosd has consumed
  turns,      \* receipts whose turn has not produced its reply yet
  sent,       \* history: receipts whose agent_end was handed to a socket
  proved      \* history: receipts a handset proved with reply_received

vars == <<clock, idle, running, startedAt, store, link, pending, tasks, timers,
          up, down, requests, consumed, turns, sent, proved>>

-----------------------------------------------------------------------------
(* Types *)

Phase == {"prepared", "received", "consumed"}
Binding == [inst : Installations, st : Phase, at : Nat, seen : Nat]
Tombstone == [inst : Installations, at : Nat]
Bindings == [Keys -> Binding \cup {NoBinding}]
Tombstones == [Keys -> Tombstone \cup {NoTombstone}]
Snapshot == [bindings : Bindings, tombstones : Tombstones]
Store == [bindings : Bindings, tombstones : Tombstones,
          seen : [Installations -> Nat],
          disk : Snapshot, prior : Snapshot, fenced : BOOLEAN]

\* The socket a task or timer answers on; a closed one can never send again.
Source == [sock : Sockets \cup {NoSocket}, inst : Installations]

\* An acknowledgement task: calling while it awaits telepathosd, sending
\* while it awaits the websocket's send callback.  current says that
\* replyAckInFlight still holds it.
Task == [key : Keys, src : Source, b : Binding, done : Binding,
         call : {"calling", "sending"}, current : BOOLEAN]

UpFrame == {"reply_received", "reply_ack", "reply_ack_retire"} \X Keys
DownFrame ==
  ({"agent_end", "reply_received", "reply_acknowledged", "reply_ack_retired"}
     \X Keys) \cup {<<"ready">>}

EmptyBindings == [k \in Keys |-> NoBinding]
EmptyTombstones == [k \in Keys |-> NoTombstone]
EmptySnapshot == [bindings |-> EmptyBindings, tombstones |-> EmptyTombstones]

TypeOK ==
  /\ clock \in Nat /\ startedAt \in Nat
  /\ idle \in [Installations -> Nat]
  /\ running \in BOOLEAN
  /\ store \in Store
  /\ link \in [Sockets -> {"closed", "opening", "open"}]
  /\ pending \in [Sockets -> Bindings]
  /\ tasks \subseteq Task
  /\ timers \in [Keys -> Source \cup {NoTimer}]
  /\ up \in [Sockets -> Seq(UpFrame)]
  /\ down \in [Sockets -> Seq(DownFrame)]
  /\ requests \subseteq Keys /\ consumed \subseteq Keys
  /\ turns \subseteq Keys /\ sent \subseteq Keys /\ proved \subseteq Keys

-----------------------------------------------------------------------------
(* Owners and the high-water cache *)

Later(m, n) == IF m >= n THEN m ELSE n
Present(f, absent) == {k \in Keys : f[k] # absent}

\* Installations with an authenticated socket, when the sockets are in lk.
ActiveOwners(lk) == {SocketOwner[s] : s \in {x \in Sockets : lk[x] = "open"}}

\* Wrong on purpose: forgotten owners lose their entry, not only their value.
PruneSeenEntries(seen, active, b, t) ==
  [i \in active \cup {b[k].inst : k \in Present(b, NoBinding)} |-> seen[i]]

\* An owner's high-water mark is kept while it is active or owns a record.
PruneSeen(seen, active, b, t) ==
  LET owners == {b[k].inst : k \in Present(b, NoBinding)}
                  \cup {t[k].inst : k \in Present(t, NoTombstone)}
  IN  [i \in Installations |-> IF i \in active \cup owners THEN seen[i] ELSE 0]

NoteSeen(st, i, active) ==
  LET noted == [st.seen EXCEPT ![i] = Later(Later(@, clock), startedAt)]
  IN  [st EXCEPT !.seen = PruneSeen(noted, active, st.bindings, st.tombstones)]

LastSeenAt(b, seen) == Later(Later(b.seen, seen[b.inst]), startedAt)

Elapsed(since, period) == clock >= since /\ clock - since >= period
\* Wrong on purpose: the sightings of this process are not consulted.
AbandonedOnDisk(b, seen) == Elapsed(b.seen, OwnerAbandonment)
Abandoned(b, seen) == Elapsed(LastSeenAt(b, seen), OwnerAbandonment)
ConsumedExpired(b) == b.st = "consumed" /\ Elapsed(b.at, ConsumedRetention)
TombstoneExpired(t) == Elapsed(t.at, TombstoneRetention)

InFlight(k) == \E t \in tasks : t.key = k /\ t.current

-----------------------------------------------------------------------------
(* Durable snapshots *)

\* What the store accepts: no unresolved write, both caps respected and no
\* receipt both live and retired.
Storable(st, b, t) ==
  /\ ~st.fenced
  /\ Cardinality(Present(b, NoBinding)) <= MaxBindings
  /\ Cardinality(Present(t, NoTombstone)) <= MaxTombstones
  /\ Present(b, NoBinding) \cap Present(t, NoTombstone) = {}

\* Bindings b with the last-seen time of every owner brought up to date.
Refreshed(b, seen) ==
  [k \in Keys |-> IF b[k] = NoBinding THEN NoBinding
                  ELSE [b[k] EXCEPT !.seen = LastSeenAt(b[k], seen)]]

\* Wrong on purpose: the tombstones are left out of the file.
SnapshotBare(st, b, t) ==
  [bindings |-> Refreshed(b, st.seen), tombstones |-> EmptyTombstones]

\* What is written of bindings b and tombstones t.
SnapshotOf(st, b, t) ==
  [bindings |-> Refreshed(b, st.seen), tombstones |-> t]

\* Persist b and t, then install them in the process.  A failure before the
\* rename changes nothing; one after it leaves the file in doubt and fences
\* the store until a restart.  When the caller passes no tombstone map, the
\* map written is the process's own, which is cleared before it is copied
\* into itself: sameMap says so, and the process is left with no tombstones.
Save(st, b, t, sameMap, active, outcome) ==
  LET snapshot == SnapshotOf(st, b, t)
      normal == snapshot.bindings
      kept == IF sameMap THEN EmptyTombstones ELSE t
  IN  IF ~Storable(st, normal, t) \/ outcome = "pre"
      THEN [ok |-> FALSE, store |-> st]
      ELSE IF outcome = "post"
      THEN [ok |-> FALSE,
            store |-> [st EXCEPT !.disk = snapshot, !.prior = st.disk,
                                 !.fenced = TRUE]]
      ELSE [ok |-> TRUE,
            store |-> [st EXCEPT !.bindings = normal, !.tombstones = kept,
                                 !.disk = snapshot, !.prior = snapshot,
                                 !.seen = PruneSeen(@, active, normal, kept)]]

\* The default: the tombstones are the process's own map.
SaveBindings(st, b, active, outcome) ==
  Save(st, b, st.tombstones, TRUE, active, outcome)

\* Wrong on purpose: dated from the consumption.
TombstoneOfConsumption(b) == [inst |-> b.inst, at |-> b.at]

\* The tombstone of consumed binding b, dated from its burial.
TombstoneOf(b) == [inst |-> b.inst, at |-> clock]

\* Expired consumed bindings become tombstones, all of them or none.
Reclaim(st, candidates) ==
  LET live == [k \in Keys |->
                 IF /\ st.tombstones[k] # NoTombstone
                    /\ TombstoneExpired(st.tombstones[k])
                 THEN NoTombstone ELSE st.tombstones[k]]
      room == Cardinality(Present(live, NoTombstone)) + Cardinality(candidates)
                <= MaxTombstones
      reclaimed == IF room THEN candidates ELSE {}
  IN  [changed |-> live # st.tombstones \/ reclaimed # {},
       bindings |-> [k \in Keys |-> IF k \in reclaimed THEN NoBinding
                                    ELSE st.bindings[k]],
       tombstones |-> [k \in Keys |->
                         IF k \in reclaimed
                         THEN TombstoneOf(st.bindings[k])
                         ELSE live[k]]]

Reclaimable(st) ==
  {k \in Present(st.bindings, NoBinding) :
     ConsumedExpired(st.bindings[k]) /\ ~InFlight(k)}

\* sweepExpiredConsumedReplyAcks, with the sockets in lk.
Sweep(st, lk, outcome) ==
  LET active == ActiveOwners(lk)
      r == Reclaim(st, {k \in Reclaimable(st) : st.bindings[k].inst \notin active})
  IN  IF r.changed
      THEN Save(st, r.bindings, r.tombstones, FALSE, active, outcome).store
      ELSE st

-----------------------------------------------------------------------------
(* Initial state *)

Init ==
  /\ clock = 0 /\ startedAt = 0 /\ running = TRUE
  /\ idle = [i \in Installations |-> 0]
  /\ store = [bindings |-> EmptyBindings, tombstones |-> EmptyTombstones,
              seen |-> [i \in Installations |-> 0],
              disk |-> EmptySnapshot, prior |-> EmptySnapshot, fenced |-> FALSE]
  /\ link = [s \in Sockets |-> "closed"]
  /\ pending = [s \in Sockets |-> EmptyBindings]
  /\ tasks = {} /\ timers = [k \in Keys |-> NoTimer]
  /\ up = [s \in Sockets |-> <<>>] /\ down = [s \in Sockets |-> <<>>]
  /\ requests = {} /\ consumed = {} /\ turns = Keys /\ sent = {} /\ proved = {}

-----------------------------------------------------------------------------
(* Handlers *)

\* Frames handed to an open socket; a closed one takes nothing.
Emit(s, frames) ==
  down' = IF s \in Sockets THEN [down EXCEPT ![s] = @ \o frames] ELSE down

HasRoom(s) == s \in Sockets => Len(down[s]) < MaxFrames

\* The next frame of s is op for receipt k, and this step takes it.
Takes(s, op, k) ==
  /\ running /\ link[s] = "open"
  /\ up[s] # <<>> /\ Head(up[s]) = <<op, k>>
  /\ HasRoom(s)
  /\ up' = [up EXCEPT ![s] = Tail(@)]

\* The receipts a hello of installation i takes from their abandoned owners.
Taken(st, i, lk, skipped) ==
  {k \in Present(st.bindings, NoBinding) \ skipped :
     LET b == st.bindings[k] IN
       /\ b.inst # i /\ b.inst \notin ActiveOwners(lk)
       /\ b.st # "consumed" /\ Abandoned(b, st.seen)}

\* The bindings and tombstones a hello of installation i wants stored.
Reconciled(st, i, lk) ==
  LET r == Reclaim(st, Reclaimable(st))
      skipped == {k \in Present(st.bindings, NoBinding) : r.bindings[k] = NoBinding}
      taken == Taken(st, i, lk, skipped)
      next == [k \in Keys |->
                 IF r.bindings[k] = NoBinding THEN NoBinding
                 ELSE LET b == st.bindings[k]
                          now == Later(LastSeenAt(b, st.seen), clock)
                      IN  IF k \in taken
                          THEN [inst |-> i, st |-> "prepared",
                                at |-> clock, seen |-> now]
                          ELSE IF b.inst = i THEN [b EXCEPT !.seen = now] ELSE b]
  IN  [taken |-> taken, bindings |-> next, tombstones |-> r.tombstones,
       changed |-> r.changed \/ next # st.bindings]

\* A hello is handled: the owner is sighted, the store reconciled for it and
\* its prepared envelopes are replayed, before ready.  Taking a receipt over
\* cancels its retry timer and disowns its task even if the save then fails.
Hello(s, outcome) ==
  LET i == SocketOwner[s]
      lk == [link EXCEPT ![s] = "open"]
      active == ActiveOwners(lk)
      noted == NoteSeen(store, i, active)
      r == Reconciled(noted, i, lk)
      st == IF r.changed
            THEN Save(noted, r.bindings, r.tombstones, FALSE, active, outcome).store
            ELSE noted
      replayed == {k \in Present(st.bindings, NoBinding) :
                     st.bindings[k].st = "prepared" /\ st.bindings[k].inst = i}
  IN  /\ running /\ link[s] = "opening"
      /\ link' = lk /\ store' = st
      /\ idle' = [idle EXCEPT ![i] = 0]
      /\ timers' = [k \in Keys |-> IF k \in r.taken THEN NoTimer ELSE timers[k]]
      /\ tasks' = {[t EXCEPT !.current = @ /\ t.key \notin r.taken] : t \in tasks}
      /\ pending' = [pending EXCEPT ![s] =
           [k \in Keys |-> IF k \in replayed THEN st.bindings[k] ELSE @[k]]]
      /\ \E order \in SetToSeqs(replayed) :
           Emit(s, [n \in 1..Len(order) |-> <<"agent_end", order[n]>>]
                     \o << <<"ready">> >>)
      /\ sent' = sent \cup replayed
      /\ UNCHANGED <<clock, running, startedAt, up, requests, consumed, turns,
                     proved>>

\* Wrong on purpose: sending is taken for proof of storage.
EnvelopeReceived(st, i) ==
  [inst |-> i, st |-> "received", at |-> clock,
   seen |-> Later(Later(st.seen[i], clock), startedAt)]

\* The binding of a reply that installation i has yet to prove it stored.
Envelope(st, i) ==
  [inst |-> i, st |-> "prepared", at |-> clock,
   seen |-> Later(Later(st.seen[i], clock), startedAt)]

\* A turn of socket s ends with the correlated reply k: sweep, check that the
\* store can take the receipt, persist the prepared envelope, then send it.
\* Interaction ids are fresh, so k has no binding and no tombstone yet.
Prepare(s, k, swept, outcome) ==
  LET i == SocketOwner[s]
      active == ActiveOwners(link)
      st == Sweep(store, link, swept)
      b == Envelope(st, i)
      available == ~st.fenced /\ Cardinality(Present(st.bindings, NoBinding)) < MaxBindings
      saved == SaveBindings(st, [st.bindings EXCEPT ![k] = b], active, outcome)
      done == available /\ saved.ok
  IN  /\ running /\ link[s] = "open" /\ k \in turns /\ HasRoom(s)
      /\ turns' = turns \ {k}
      /\ store' = IF available THEN saved.store ELSE st
      /\ sent' = IF done THEN sent \cup {k} ELSE sent
      /\ pending' = IF done
                    THEN [pending EXCEPT ![s][k] = saved.store.bindings[k]]
                    ELSE pending
      /\ Emit(s, IF done THEN << <<"agent_end", k>> >> ELSE <<>>)
      /\ UNCHANGED <<clock, idle, running, startedAt, link, tasks, timers, up,
                     requests, consumed, proved>>

\* The binding a socket may act on.  Its own pending map hides the store.
Owned(src, k) ==
  LET own == IF src.sock = NoSocket THEN NoBinding ELSE pending[src.sock][k]
      b == IF own # NoBinding THEN own ELSE store.bindings[k]
  IN  IF b # NoBinding /\ b.inst = src.inst THEN b ELSE NoBinding

SourceOf(s) == [sock |-> s, inst |-> SocketOwner[s]]

\* The handset proves it stored the envelope.  A prepared receipt becomes
\* durably received before the confirmation; any later phase is re-confirmed.
\* A clock behind the binding's last stamp makes the snapshot malformed.
ReceiveReplyAck(s, k, outcome) ==
  LET b == Owned(SourceOf(s), k)
      next == [b EXCEPT !.st = "received", !.at = clock]
      saved == SaveBindings(store, [store.bindings EXCEPT ![k] = next],
                            ActiveOwners(link),
                            IF clock < b.at THEN "pre" ELSE outcome)
      first == b # NoBinding /\ b.st = "prepared"
      confirmed == b # NoBinding /\ (first => saved.ok)
  IN  /\ Takes(s, "reply_received", k)
      /\ store' = IF first THEN saved.store ELSE store
      /\ pending' = IF first /\ saved.ok
                    THEN [pending EXCEPT ![s][k] = saved.store.bindings[k]]
                    ELSE pending
      /\ proved' = IF first THEN proved \cup {k} ELSE proved
      /\ Emit(s, IF confirmed THEN << <<"reply_received", k>> >> ELSE <<>>)
      /\ UNCHANGED <<clock, idle, running, startedAt, link, tasks, timers,
                     requests, consumed, turns, sent>>

\* A failed task is retried while someone still holds the object it began with.
Owes(src, k, b) ==
  \/ src.sock # NoSocket /\ pending[src.sock][k] = b
  \/ store.bindings[k] = b

\* Wrong on purpose: any binding may be acknowledged.
AcknowledgeableAnyway(b) == b # NoBinding

\* A binding whose proof of storage is durable may be acknowledged, at once if
\* it is consumed, through telepathosd if it is not.
Acknowledgeable(b) == b # NoBinding /\ b.st # "prepared"
MustConsume(b) == b.st = "received"

\* acknowledgeReplyAck, for a frame of src or for its retry timer: replay a
\* tombstone's confirmation, or start the task that consumes at telepathosd.
\* waiting is the timers before the handler looks at them.
Acknowledge(src, k, waiting) ==
  LET b == Owned(src, k)
      t == store.tombstones[k]
      buried == b = NoBinding /\ t # NoTombstone
      live == Acknowledgeable(b)
      starts == live /\ ~InFlight(k)
      calls == starts /\ MustConsume(b)
      refused == calls /\ store.fenced
      says == \/ buried /\ t.inst = src.inst
              \/ starts /\ ~calls /\ src.sock # NoSocket
  IN  /\ timers' = [waiting EXCEPT ![k] = IF refused /\ Owes(src, k, b) THEN src
                                          ELSE IF live THEN NoTimer ELSE @]
      /\ tasks' = IF starts /\ ~refused
                  THEN tasks \cup
                       {[key |-> k, src |-> src, b |-> b, done |-> b,
                         call |-> IF calls THEN "calling" ELSE "sending",
                         current |-> TRUE]}
                  ELSE tasks
      /\ requests' = IF calls /\ ~refused THEN requests \cup {k} ELSE requests
      /\ Emit(src.sock, IF says THEN << <<"reply_acknowledged", k>> >> ELSE <<>>)

AcknowledgeReplyAck(s, k) ==
  /\ Takes(s, "reply_ack", k)
  /\ Acknowledge(SourceOf(s), k, timers)
  /\ UNCHANGED <<clock, idle, running, startedAt, store, link, pending,
                 consumed, turns, sent, proved>>

RetryTimer(k) ==
  /\ running /\ timers[k] # NoTimer /\ HasRoom(timers[k].sock)
  /\ Acknowledge(timers[k], k, [timers EXCEPT ![k] = NoTimer])
  /\ UNCHANGED <<clock, idle, running, startedAt, store, link, pending, up,
                 consumed, turns, sent, proved>>

\* telepathosd answers the consume of task t.  A task whose binding object was
\* replaced ends in silence; otherwise consumption is durable before the
\* handset hears of it, and a failed save leaves a retry timer.
ConsumeAnswered(t, outcome) ==
  LET k == t.key
      next == [t.b EXCEPT !.st = "consumed", !.at = clock]
      saved == SaveBindings(store, [store.bindings EXCEPT ![k] = next],
                            ActiveOwners(link),
                            IF clock < t.b.at THEN "pre" ELSE outcome)
      same == store.bindings[k] = t.b
      done == same /\ saved.ok
  IN  /\ running /\ t \in tasks /\ t.call = "calling" /\ k \in consumed
      /\ HasRoom(t.src.sock)
      /\ store' = IF same THEN saved.store ELSE store
      /\ tasks' = (tasks \ {t}) \cup
           (IF done THEN {[t EXCEPT !.call = "sending",
                                    !.done = saved.store.bindings[k]]} ELSE {})
      /\ timers' = IF same /\ ~done THEN [timers EXCEPT ![k] = t.src] ELSE timers
      /\ Emit(t.src.sock, IF done THEN << <<"reply_acknowledged", k>> >> ELSE <<>>)
      /\ UNCHANGED <<clock, idle, running, startedAt, link, pending, up,
                     requests, consumed, turns, sent, proved>>

\* The consume call times out or fails; telepathosd may still act on it.
ConsumeFailed(t) ==
  /\ running /\ t \in tasks /\ t.call = "calling"
  /\ tasks' = tasks \ {t}
  /\ timers' = IF Owes(t.src, t.key, t.b)
               THEN [timers EXCEPT ![t.key] = t.src] ELSE timers
  /\ UNCHANGED <<clock, idle, running, startedAt, store, link, pending, up, down,
                 requests, consumed, turns, sent, proved>>

\* The websocket took the confirmation (or the socket is gone).
ConfirmationSent(t) ==
  LET s == t.src.sock IN
  /\ running /\ t \in tasks /\ t.call = "sending"
  /\ tasks' = tasks \ {t}
  /\ pending' = IF s # NoSocket /\ pending[s][t.key] \in {t.b, t.done}
                THEN [pending EXCEPT ![s][t.key] = NoBinding] ELSE pending
  /\ UNCHANGED <<clock, idle, running, startedAt, store, link, timers, up, down,
                 requests, consumed, turns, sent, proved>>

\* Wrong on purpose: a receipt in any phase may be retired.
RetirableAnytime(b, i) == b # NoBinding /\ b.inst = i

\* Only a consumed receipt of installation i may be retired.
Retirable(b, i) == b # NoBinding /\ b.inst = i /\ b.st = "consumed"

\* Retire a receipt: the record goes durably before the confirmation, and a
\* request for a receipt with no record left is confirmed again.
RetireReplyAck(s, k, outcome) ==
  LET b == store.bindings[k]
      t == store.tombstones[k]
      active == ActiveOwners(link)
      owned == Retirable(b, SocketOwner[s])
      buried == b = NoBinding /\ t # NoTombstone /\ t.inst = SocketOwner[s]
      nothing == b = NoBinding /\ t = NoTombstone
      saved == IF owned
               THEN SaveBindings(store, [store.bindings EXCEPT ![k] = NoBinding],
                                 active, outcome)
               ELSE Save(store, store.bindings,
                         [store.tombstones EXCEPT ![k] = NoTombstone],
                         FALSE, active, outcome)
      removed == (owned \/ buried) /\ saved.ok
  IN  /\ Takes(s, "reply_ack_retire", k)
      /\ store' = IF owned \/ buried THEN saved.store ELSE store
      /\ pending' = IF owned /\ removed
                    THEN [pending EXCEPT ![s][k] = NoBinding] ELSE pending
      /\ timers' = IF owned /\ removed
                   THEN [timers EXCEPT ![k] = NoTimer] ELSE timers
      /\ Emit(s, IF nothing \/ removed THEN << <<"reply_ack_retired", k>> >>
                 ELSE <<>>)
      /\ UNCHANGED <<clock, idle, running, startedAt, link, tasks, requests,
                     consumed, turns, sent, proved>>

\* The bridge sees the socket close.  The owner's last-seen time is refreshed
\* in every binding it owns, and saved when that changes one.
Disconnected(st, s, lk, outcome) ==
  LET i == SocketOwner[s]
      noted == NoteSeen(st, i, ActiveOwners(lk))
      next == [k \in Keys |->
                 IF noted.bindings[k] # NoBinding /\ noted.bindings[k].inst = i
                 THEN [noted.bindings[k] EXCEPT
                         !.seen = LastSeenAt(noted.bindings[k], noted.seen)]
                 ELSE noted.bindings[k]]
  IN  IF next # noted.bindings
      THEN SaveBindings(noted, next, ActiveOwners(lk), outcome).store
      ELSE noted

Close(s, outcome) ==
  LET lk == [link EXCEPT ![s] = "closed"]
      Gone(src) == IF src.sock = s THEN [src EXCEPT !.sock = NoSocket] ELSE src
  IN  /\ running /\ link[s] # "closed"
      /\ link' = lk
      /\ store' = IF link[s] = "open" THEN Disconnected(store, s, lk, outcome)
                  ELSE store
      /\ pending' = [pending EXCEPT ![s] = EmptyBindings]
      /\ tasks' = {[t EXCEPT !.src = Gone(@)] : t \in tasks}
      /\ timers' = [k \in Keys |-> IF timers[k] = NoTimer THEN NoTimer
                                   ELSE Gone(timers[k])]
      /\ up' = [up EXCEPT ![s] = <<>>] /\ down' = [down EXCEPT ![s] = <<>>]
      /\ UNCHANGED <<clock, idle, running, startedAt, requests, consumed, turns,
                     sent, proved>>

\* The sweep interval of the server.
PeriodicSweep(outcome) ==
  /\ running
  /\ store' = Sweep(store, link, outcome)
  /\ UNCHANGED <<clock, idle, running, startedAt, link, pending, tasks, timers,
                 up, down, requests, consumed, turns, sent, proved>>

-----------------------------------------------------------------------------
(* Crash, restart, time and telepathosd *)

\* Only the snapshot file survives.
Crash ==
  /\ running /\ running' = FALSE
  /\ store' = [store EXCEPT !.bindings = EmptyBindings,
                            !.tombstones = EmptyTombstones,
                            !.seen = [i \in Installations |-> 0]]
  /\ link' = [s \in Sockets |-> "closed"]
  /\ pending' = [s \in Sockets |-> EmptyBindings]
  /\ tasks' = {} /\ timers' = [k \in Keys |-> NoTimer]
  /\ up' = [s \in Sockets |-> <<>>] /\ down' = [s \in Sockets |-> <<>>]
  /\ UNCHANGED <<clock, idle, startedAt, requests, consumed, turns, sent, proved>>

\* After a write in doubt, either snapshot may be the one the disk kept.
Start ==
  /\ ~running /\ running' = TRUE
  /\ startedAt' = clock
  /\ \E found \in {store.disk, store.prior} :
       store' = [store EXCEPT !.bindings = found.bindings,
                              !.tombstones = found.tombstones,
                              !.disk = found, !.prior = found, !.fenced = FALSE]
  /\ UNCHANGED <<clock, idle, link, pending, tasks, timers, up, down, requests,
                 consumed, turns, sent, proved>>

Tick ==
  /\ clock < MaxClock /\ clock' = clock + 1
  /\ idle' = [i \in Installations |->
                IF i \in ActiveOwners(link) \/ idle[i] >= OwnerAbandonment
                THEN idle[i] ELSE idle[i] + 1]
  /\ UNCHANGED <<running, startedAt, store, link, pending, tasks, timers, up,
                 down, requests, consumed, turns, sent, proved>>

\* The wall clock is set back.
Rollback ==
  /\ \E d \in 1..MaxRollback : d <= clock /\ clock' = clock - d
  /\ UNCHANGED <<idle, running, startedAt, store, link, pending, tasks, timers,
                 up, down, requests, consumed, turns, sent, proved>>

\* telepathosd consumes the exact delivery, or finds it consumed.
TelepathosdConsumes(k) ==
  /\ k \in requests
  /\ requests' = requests \ {k} /\ consumed' = consumed \cup {k}
  /\ UNCHANGED <<clock, idle, running, startedAt, store, link, pending, tasks,
                 timers, up, down, turns, sent, proved>>

-----------------------------------------------------------------------------
(* An arbitrary handset on every socket *)

Dial(s) ==
  /\ running /\ link[s] = "closed" /\ link' = [link EXCEPT ![s] = "opening"]
  /\ UNCHANGED <<clock, idle, running, startedAt, store, pending, tasks, timers,
                 up, down, requests, consumed, turns, sent, proved>>

Write(s, f) ==
  /\ link[s] = "open" /\ Len(up[s]) < MaxFrames
  /\ up' = [up EXCEPT ![s] = Append(@, f)]
  /\ UNCHANGED <<clock, idle, running, startedAt, store, link, pending, tasks,
                 timers, down, requests, consumed, turns, sent, proved>>

Read(s) ==
  /\ down[s] # <<>> /\ down' = [down EXCEPT ![s] = Tail(@)]
  /\ UNCHANGED <<clock, idle, running, startedAt, store, link, pending, tasks,
                 timers, up, requests, consumed, turns, sent, proved>>

BridgeNext ==
  \/ \E s \in Sockets, o \in SaveOutcomes : Hello(s, o)
  \/ \E s \in Sockets, k \in Keys, w, o \in SaveOutcomes : Prepare(s, k, w, o)
  \/ \E s \in Sockets, k \in Keys, o \in SaveOutcomes : ReceiveReplyAck(s, k, o)
  \/ \E s \in Sockets, k \in Keys : AcknowledgeReplyAck(s, k)
  \/ \E k \in Keys : RetryTimer(k)
  \/ \E t \in tasks, o \in SaveOutcomes : ConsumeAnswered(t, o)
  \/ \E t \in tasks : ConsumeFailed(t)
  \/ \E t \in tasks : ConfirmationSent(t)
  \/ \E s \in Sockets, k \in Keys, o \in SaveOutcomes : RetireReplyAck(s, k, o)
  \/ \E s \in Sockets, o \in SaveOutcomes : Close(s, o)
  \/ \E o \in SaveOutcomes : PeriodicSweep(o)
  \/ Crash
  \/ Start
  \/ Tick
  \/ Rollback
  \/ \E k \in Keys : TelepathosdConsumes(k)

HandsetNext ==
  \/ \E s \in Sockets : Dial(s)
  \/ \E s \in Sockets, f \in HandsetOps \X Keys : Write(s, f)
  \/ \E s \in Sockets : Read(s)

Next == BridgeNext \/ HandsetNext

Spec == Init /\ [][Next]_vars

-----------------------------------------------------------------------------
(* What the bridge guarantees to any handset *)

\* While the store is not fenced, the file holds exactly the process's live
\* bindings, and every tombstone the process would replay.
DiskHoldsMemory ==
  running /\ ~store.fenced =>
    /\ store.disk.bindings = store.bindings
    /\ store.prior = store.disk
    /\ \A k \in Keys : store.tombstones[k] \in {NoTombstone, store.disk.tombstones[k]}

\* Neither snapshot a restart may find exceeds a cap or holds a receipt both
\* live and retired, so loading it never fails.
Loadable ==
  \A found \in {store.disk, store.prior} :
    /\ Cardinality(Present(found.bindings, NoBinding)) <= MaxBindings
    /\ Cardinality(Present(found.tombstones, NoTombstone)) <= MaxTombstones
    /\ Present(found.bindings, NoBinding)
         \cap Present(found.tombstones, NoTombstone) = {}

\* A crash at any moment loses nothing the process had confirmed: the file is
\* what the process holds, and the next start accepts it.
FileIsCurrent == DiskHoldsMemory /\ Loadable

\* telepathosd is asked to consume only what a handset proved it stored.
ConsumedIsProved == requests \cup consumed \subseteq proved

\* A reply that was sent and not consumed survives any restart: whichever
\* snapshot is found still holds its binding.
ReplyRetained ==
  \A k \in sent \ consumed : \A found \in {store.disk, store.prior} :
    found.bindings[k] # NoBinding

\* reply_acknowledged is only ever sent for a delivery telepathosd consumed.
AcknowledgedIsConsumed ==
  \A s \in Sockets : \A n \in 1..Len(down[s]) : \A k \in Keys :
    down[s][n] = <<"reply_acknowledged", k>> => k \in consumed

\* The file names a new owner of a receipt only when the old owner has had no
\* socket for the whole abandonment period, however the wall clock was set back
\* meanwhile, or when a start finds the snapshot before a write in doubt.
NoEarlyTakeover ==
  [][\A k \in Keys :
       LET b == store.disk.bindings[k]
           c == store'.disk.bindings[k]
       IN  b # NoBinding /\ c # NoBinding /\ b.inst # c.inst
             => \/ idle[b.inst] >= OwnerAbandonment
                \/ ~running /\ c = store.prior.bindings[k]]_vars

\* The handset's request to retire receipt k is being handled.
Retiring(k) == \E s \in Sockets : up[s] # <<>> /\ Head(up[s]) = <<"reply_ack_retire", k>>
                                   /\ up'[s] = Tail(up[s])

\* A consumed record leaves the file only when its owner retires it, or for
\* the tombstone that lets the owner repeat its acknowledgement.
ConsumedLeavesProof ==
  [][\A k \in Keys :
       LET b == store.disk.bindings[k]
           c == store'.disk.bindings[k]
       IN  b # NoBinding /\ b.st = "consumed" /\ running
             => \/ c # NoBinding /\ c.st = "consumed"
                \/ Retiring(k)
                \/ /\ c = NoBinding /\ ConsumedExpired(b)
                   /\ store'.disk.tombstones[k] = [inst |-> b.inst, at |-> clock]]_vars

\* An exact tombstone leaves the file only by its owner's retirement or by its
\* own expiry.  It does not hold: README, known weaknesses.
TombstoneKept ==
  [][\A k \in Keys :
       LET t == store.disk.tombstones[k]
       IN  t # NoTombstone /\ running /\ store'.disk.tombstones[k] = NoTombstone
             => Retiring(k) \/ TombstoneExpired(t)]_vars
=============================================================================
