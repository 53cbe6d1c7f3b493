------------------------ MODULE ReplyAckBridgeProofs ------------------------
(***************************************************************************)
(* The safety of ReplyAckBridge, for every value of its constants: what    *)
(* telepathosd is asked to consume was proved by a handset, what a handset *)
(* is told was consumed, the file mirrors the process, both snapshots a    *)
(* restart may find can be loaded, and no reply sent is lost.              *)
(*                                                                         *)
(* The inductive invariant says, of every binding the bridge holds in the  *)
(* process, in the file, in a socket's pending map or in a task, that its  *)
(* phase has the evidence it claims, and of every live binding that is not *)
(* consumed yet that both snapshots hold it too.                           *)
(***************************************************************************)
EXTENDS ReplyAckBridge, FiniteSetTheorems, SequenceTheorems, TLAPS

-----------------------------------------------------------------------------
(* Type correctness *)

\* The clock and the start stamp, as the helpers read them.
Clocks == clock \in Nat /\ startedAt \in Nat

\* The later of two clock readings is a clock reading.
LEMMA LaterType ==
  ASSUME NEW m \in Nat, NEW n \in Nat PROVE Later(m, n) \in Nat
BY DEF Later

\* An owner's last-seen time is a clock reading.
LEMMA LastSeenType ==
  ASSUME Clocks, NEW b \in Binding, NEW seen \in [Installations -> Nat]
  PROVE  LastSeenAt(b, seen) \in Nat
BY DEF LastSeenAt, Later, Clocks, Binding

\* Pruning the high-water cache keeps it a cache.
LEMMA PruneSeenType ==
  ASSUME NEW seen \in [Installations -> Nat], NEW active, NEW b, NEW t
  PROVE  PruneSeen(seen, active, b, t) \in [Installations -> Nat]
BY DEF PruneSeen

\* Sighting an owner keeps the store well typed.
LEMMA NoteSeenType ==
  ASSUME Clocks, NEW st \in Store, NEW i \in Installations, NEW active
  PROVE  NoteSeen(st, i, active) \in Store
BY PruneSeenType, LaterType DEF NoteSeen, Store, Clocks, PruneSeen

\* Refreshing the last-seen time of every binding keeps them bindings.
LEMMA RefreshedType ==
  ASSUME Clocks, NEW b \in Bindings, NEW seen \in [Installations -> Nat]
  PROVE  Refreshed(b, seen) \in Bindings
<1> SUFFICES ASSUME NEW k \in Keys, b[k] # NoBinding
             PROVE  [b[k] EXCEPT !.seen = LastSeenAt(b[k], seen)] \in Binding
  BY DEF Refreshed, Bindings
<1>1. b[k] \in Binding
  BY DEF Bindings
<1>2. LastSeenAt(b[k], seen) \in Nat
  BY <1>1, LastSeenType
<1> QED
  BY <1>1, <1>2 DEF Binding

\* A save, whatever its outcome, leaves a well-typed store.
LEMMA SaveType ==
  ASSUME Clocks, NEW st \in Store, NEW b \in Bindings, NEW t \in Tombstones,
         NEW sameMap, NEW active, NEW outcome
  PROVE  /\ Save(st, b, t, sameMap, active, outcome).store \in Store
         /\ Save(st, b, t, sameMap, active, outcome).ok \in BOOLEAN
<1> DEFINE normal == Refreshed(b, st.seen)
           kept == IF sameMap THEN EmptyTombstones ELSE t
           pruned == PruneSeen(st.seen, active, normal, kept)
<1>1. normal \in Bindings
  BY RefreshedType DEF Store
<1>2. kept \in Tombstones
  BY DEF EmptyTombstones, Tombstones
<1>3. pruned \in [Installations -> Nat]
  BY PruneSeenType DEF Store
<1> HIDE DEF normal, kept, pruned
<1> QED
  BY <1>1, <1>2, <1>3 DEF Save, SnapshotOf, Store, Snapshot, normal, kept, pruned

\* Reclaiming expired consumed bindings yields bindings and tombstones.
LEMMA ReclaimType ==
  ASSUME Clocks, NEW st \in Store,
         NEW C \in SUBSET Present(st.bindings, NoBinding)
  PROVE  /\ Reclaim(st, C).bindings \in Bindings
         /\ Reclaim(st, C).tombstones \in Tombstones
<1>1. \A k \in C : st.bindings[k] \in Binding
  BY DEF Present, Store, Bindings
<1>2. \A k \in C : TombstoneOf(st.bindings[k]) \in Tombstone
  BY <1>1 DEF TombstoneOf, Binding, Tombstone, Clocks
<1>3. Reclaim(st, C).bindings \in Bindings
  BY DEF Reclaim, Store, Bindings
<1>4. Reclaim(st, C).tombstones \in Tombstones
  BY <1>2 DEF Reclaim, Store, Tombstones
<1> QED
  BY <1>3, <1>4

\* The sweep leaves a well-typed store.
LEMMA SweepType ==
  ASSUME Clocks, NEW st \in Store, NEW lk, NEW outcome
  PROVE  Sweep(st, lk, outcome) \in Store
<1> DEFINE C == {k \in Reclaimable(st) : st.bindings[k].inst \notin ActiveOwners(lk)}
<1>1. C \in SUBSET Present(st.bindings, NoBinding)
  BY DEF Reclaimable
<1>2. /\ Reclaim(st, C).bindings \in Bindings
      /\ Reclaim(st, C).tombstones \in Tombstones
  BY <1>1, ReclaimType
<1> HIDE DEF C
<1>3. Save(st, Reclaim(st, C).bindings, Reclaim(st, C).tombstones, FALSE,
           ActiveOwners(lk), outcome).store \in Store
  BY <1>2, SaveType
<1> QED
  BY <1>3 DEF Sweep, C

\* What a hello wants stored is well typed.
LEMMA ReconciledType ==
  ASSUME Clocks, NEW st \in Store, NEW i \in Installations, NEW lk
  PROVE  /\ Reconciled(st, i, lk).bindings \in Bindings
         /\ Reconciled(st, i, lk).tombstones \in Tombstones
<1> DEFINE r == Reclaim(st, Reclaimable(st))
           skipped == {k \in Present(st.bindings, NoBinding) :
                         r.bindings[k] = NoBinding}
           taken == Taken(st, i, lk, skipped)
           now(b) == Later(LastSeenAt(b, st.seen), clock)
           next == [k \in Keys |->
                      IF r.bindings[k] = NoBinding THEN NoBinding
                      ELSE IF k \in taken
                      THEN [inst |-> i, st |-> "prepared", at |-> clock,
                            seen |-> now(st.bindings[k])]
                      ELSE IF st.bindings[k].inst = i
                      THEN [st.bindings[k] EXCEPT !.seen = now(st.bindings[k])]
                      ELSE st.bindings[k]]
<1>1. r.bindings \in Bindings /\ r.tombstones \in Tombstones
  BY ReclaimType DEF Reclaimable
<1>2. next \in Bindings
  <2> SUFFICES ASSUME NEW k \in Keys, r.bindings[k] # NoBinding
               PROVE  next[k] \in Binding
    BY DEF Bindings
  <2> DEFINE b == st.bindings[k]
  <2>1. b \in Binding
    BY DEF Reclaim, Store, Bindings
  <2>2. now(b) \in Nat
    BY <2>1, LastSeenType, LaterType DEF Store, Clocks
  <2>3. [inst |-> i, st |-> "prepared", at |-> clock, seen |-> now(b)] \in Binding
    BY <2>2 DEF Binding, Phase, Clocks
  <2>4. [b EXCEPT !.seen = now(b)] \in Binding
    BY <2>1, <2>2 DEF Binding
  <2> HIDE DEF now, taken, r
  <2> QED
    BY <2>1, <2>3, <2>4
<1>3. /\ Reconciled(st, i, lk).bindings = next
      /\ Reconciled(st, i, lk).tombstones = r.tombstones
  BY DEF Reconciled
<1> QED
  BY <1>1, <1>2, <1>3

\* Handling a close leaves a well-typed store.
LEMMA DisconnectedType ==
  ASSUME Clocks, NEW st \in Store, NEW s \in Sockets, NEW lk, NEW outcome
  PROVE  Disconnected(st, s, lk, outcome) \in Store
<1> DEFINE i == SocketOwner[s]
           noted == NoteSeen(st, i, ActiveOwners(lk))
           next == [k \in Keys |->
                      IF noted.bindings[k] # NoBinding /\ noted.bindings[k].inst = i
                      THEN [noted.bindings[k] EXCEPT
                              !.seen = LastSeenAt(noted.bindings[k], noted.seen)]
                      ELSE noted.bindings[k]]
<1>1. noted \in Store
  BY OwnerAssumption, NoteSeenType
<1> HIDE DEF noted, i
<1>2. next \in Bindings
  <2> SUFFICES ASSUME NEW k \in Keys, noted.bindings[k] # NoBinding
               PROVE  [noted.bindings[k] EXCEPT
                         !.seen = LastSeenAt(noted.bindings[k], noted.seen)] \in Binding
    BY <1>1 DEF Bindings, Store
  <2>1. noted.bindings[k] \in Binding
    BY <1>1 DEF Store, Bindings
  <2>2. LastSeenAt(noted.bindings[k], noted.seen) \in Nat
    BY <1>1, <2>1, LastSeenType DEF Store
  <2> QED
    BY <2>1, <2>2 DEF Binding
<1> HIDE DEF next
<1>3. SaveBindings(noted, next, ActiveOwners(lk), outcome).store \in Store
  BY <1>1, <1>2, SaveType DEF SaveBindings, Store
<1> QED
  BY <1>1, <1>3 DEF Disconnected, noted, next, i

-----------------------------------------------------------------------------
(* What the handlers share *)

\* Sending frames of the protocol keeps the frames in flight well typed.
LEMMA EmitType ==
  ASSUME TypeOK, NEW s, NEW frames \in Seq(DownFrame), Emit(s, frames)
  PROVE  down' \in [Sockets -> Seq(DownFrame)]
<1> HIDE DEF DownFrame
<1>1. CASE s \in Sockets
  <2>1. down[s] \o frames \in Seq(DownFrame)
    BY <1>1, ConcatProperties DEF TypeOK
  <2> QED
    BY <1>1, <2>1 DEF Emit, TypeOK
<1>2. CASE s \notin Sockets
  BY <1>2 DEF Emit, TypeOK
<1> QED
  BY <1>1, <1>2

\* So does sending one frame, or none.
LEMMA EmitOneType ==
  ASSUME TypeOK, NEW s, NEW k \in Keys, NEW P \in BOOLEAN,
         NEW op \in {"agent_end", "reply_received", "reply_acknowledged",
                     "reply_ack_retired"},
         Emit(s, IF P THEN << <<op, k>> >> ELSE <<>>)
  PROVE  down' \in [Sockets -> Seq(DownFrame)]
<1>1. << <<op, k>> >> \in Seq(DownFrame) /\ <<>> \in Seq(DownFrame)
  <2>1. <<op, k>> \in DownFrame
    BY DEF DownFrame
  <2> QED
    BY <2>1
<1> QED
  BY <1>1, EmitType

\* Taking the next frame of a socket keeps the queues well typed.
LEMMA TakesType ==
  ASSUME TypeOK, NEW s \in Sockets, NEW op, NEW k, Takes(s, op, k)
  PROVE  up' \in [Sockets -> Seq(UpFrame)]
<1>1. Tail(up[s]) \in Seq(UpFrame)
  BY HeadTailProperties DEF TypeOK, Takes
<1> QED
  BY <1>1 DEF TypeOK, Takes

\* A socket or timer acts on a binding or on nothing.
LEMMA OwnedType ==
  ASSUME TypeOK, NEW src \in Source, NEW k \in Keys
  PROVE  Owned(src, k) \in Binding \cup {NoBinding}
BY DEF Owned, TypeOK, Store, Bindings, Source

\* An open socket is the source of what its handlers do.
LEMMA SourceType ==
  ASSUME NEW s \in Sockets
  PROVE  SourceOf(s) \in Source
BY OwnerAssumption DEF SourceOf, Source

\* Moving one binding to its next phase keeps the bindings well typed.
LEMMA AdvanceType ==
  ASSUME Clocks, NEW st \in Store, NEW k \in Keys, NEW b \in Binding,
         NEW p \in Phase, NEW active, NEW outcome
  PROVE  LET saved == SaveBindings(st, [st.bindings EXCEPT
                                ![k] = [b EXCEPT !.st = p, !.at = clock]],
                              active, outcome)
         IN  saved.store \in Store /\ saved.ok \in BOOLEAN
<1>1. [b EXCEPT !.st = p, !.at = clock] \in Binding
  BY DEF Binding, Clocks
<1>2. [st.bindings EXCEPT ![k] = [b EXCEPT !.st = p, !.at = clock]] \in Bindings
  BY <1>1 DEF Store, Bindings
<1> QED
  BY <1>2, SaveType DEF SaveBindings, Store

\* Whatever reply_ack or a retry timer does to timers, tasks, requests and
\* frames keeps them well typed.
LEMMA AcknowledgeType ==
  ASSUME TypeOK, NEW src \in Source, NEW k \in Keys,
         NEW waiting \in [Keys -> Source \cup {NoTimer}],
         Acknowledge(src, k, waiting)
  PROVE  /\ timers' \in [Keys -> Source \cup {NoTimer}]
         /\ tasks' \subseteq Task
         /\ requests' \subseteq Keys
         /\ down' \in [Sockets -> Seq(DownFrame)]
<1> DEFINE b == Owned(src, k)
           t == store.tombstones[k]
           live == Acknowledgeable(b)
           starts == live /\ ~InFlight(k)
           calls == starts /\ MustConsume(b)
           says == \/ b = NoBinding /\ t # NoTombstone /\ t.inst = src.inst
                   \/ starts /\ ~calls /\ src.sock # NoSocket
           task == [key |-> k, src |-> src, b |-> b, done |-> b,
                    call |-> IF calls THEN "calling" ELSE "sending",
                    current |-> TRUE]
<1>1. b \in Binding \cup {NoBinding}
  BY OwnedType
<1>2. timers' \in [Keys -> Source \cup {NoTimer}]
  BY DEF Acknowledge
<1>3. starts => task \in Task
  BY <1>1 DEF Task, Acknowledgeable
<1>4. tasks' \subseteq Task
  BY <1>3 DEF Acknowledge, TypeOK
<1>5. requests' \subseteq Keys
  BY DEF Acknowledge, TypeOK
<1>6. says \in BOOLEAN
  OBVIOUS
<1>7. Emit(src.sock, IF says THEN << <<"reply_acknowledged", k>> >> ELSE <<>>)
  BY DEF Acknowledge
<1>8. down' \in [Sockets -> Seq(DownFrame)]
  <2> HIDE DEF says
  <2> QED
    BY <1>6, <1>7, EmitOneType
<1> QED
  BY <1>2, <1>4, <1>5, <1>8

-----------------------------------------------------------------------------
(* One lemma per handler *)

\* A hello preserves the types.
LEMMA HelloType ==
  ASSUME TypeOK, NEW s \in Sockets, NEW outcome, Hello(s, outcome)
  PROVE  TypeOK'
<1> DEFINE i == SocketOwner[s]
           lk == [link EXCEPT ![s] = "open"]
           active == ActiveOwners(lk)
           noted == NoteSeen(store, i, active)
           r == Reconciled(noted, i, lk)
           st == IF r.changed
                 THEN Save(noted, r.bindings, r.tombstones, FALSE, active,
                           outcome).store
                 ELSE noted
           replayed == {k \in Present(st.bindings, NoBinding) :
                          st.bindings[k].st = "prepared" /\ st.bindings[k].inst = i}
<1>1. Clocks /\ i \in Installations
  BY OwnerAssumption DEF TypeOK, Clocks
<1>2. noted \in Store
  BY <1>1, NoteSeenType DEF TypeOK
<1>3. r.bindings \in Bindings /\ r.tombstones \in Tombstones
  BY <1>1, <1>2, ReconciledType
<1>4. st \in Store
  BY <1>1, <1>2, <1>3, SaveType
<1>5. replayed \subseteq Keys
  BY DEF Present
<1>6. /\ link' = lk /\ store' = st /\ idle' = [idle EXCEPT ![i] = 0]
      /\ timers' = [k \in Keys |-> IF k \in r.taken THEN NoTimer ELSE timers[k]]
      /\ tasks' = {[t EXCEPT !.current = @ /\ t.key \notin r.taken] : t \in tasks}
      /\ pending' = [pending EXCEPT ![s] =
            [k \in Keys |-> IF k \in replayed THEN st.bindings[k] ELSE @[k]]]
      /\ \E order \in SetToSeqs(replayed) :
            Emit(s, [n \in 1..Len(order) |-> <<"agent_end", order[n]>>]
                      \o << <<"ready">> >>)
      /\ sent' = sent \cup replayed
      /\ UNCHANGED <<clock, running, startedAt, up, requests, consumed, turns,
                     proved>>
  BY DEF Hello
<1> HIDE DEF i, noted, r, st, replayed
<1>7. down' \in [Sockets -> Seq(DownFrame)]
  <2>1. PICK order \in SetToSeqs(replayed) :
          Emit(s, [n \in 1..Len(order) |-> <<"agent_end", order[n]>>]
                    \o << <<"ready">> >>)
    BY <1>6
  <2>2. Cardinality(replayed) \in Nat
    BY <1>5, KeysAssumption, FS_Subset, FS_CardinalityType
  <2>3. order \in Seq(Keys)
    BY <1>5, <2>2 DEF SetToSeqs
  <2>4. [n \in 1..Len(order) |-> <<"agent_end", order[n]>>] \in Seq(DownFrame)
    BY <2>3 DEF DownFrame
  <2>5. << <<"ready">> >> \in Seq(DownFrame)
    BY DEF DownFrame
  <2>6. [n \in 1..Len(order) |-> <<"agent_end", order[n]>>]
          \o << <<"ready">> >> \in Seq(DownFrame)
    BY <2>4, <2>5, ConcatProperties
  <2> QED
    BY <2>1, <2>6, EmitType
<1>8. pending' \in [Sockets -> Bindings]
  <2>1. [k \in Keys |-> IF k \in replayed THEN st.bindings[k] ELSE pending[s][k]]
          \in Bindings
    BY <1>4 DEF TypeOK, Store, Bindings
  <2> QED
    BY <1>6, <2>1 DEF TypeOK
<1>9. tasks' \subseteq Task
  <2>1. ASSUME NEW t \in tasks
        PROVE  [t EXCEPT !.current = @ /\ t.key \notin r.taken] \in Task
    <3>1. t \in Task
      BY DEF TypeOK
    <3> QED
      BY <3>1 DEF Task
  <2> QED
    BY <1>6, <2>1
<1>10. timers' \in [Keys -> Source \cup {NoTimer}]
  BY <1>6 DEF TypeOK
<1>11. idle' \in [Installations -> Nat]
  BY <1>6 DEF TypeOK
<1>12. link' \in [Sockets -> {"closed", "opening", "open"}]
  BY <1>6 DEF TypeOK
<1> QED
  BY <1>4, <1>5, <1>6, <1>7, <1>8, <1>9, <1>10, <1>11, <1>12 DEF TypeOK

\* Preparing a reply preserves the types.
LEMMA PrepareType ==
  ASSUME TypeOK, NEW s \in Sockets, NEW k \in Keys, NEW swept, NEW outcome,
         Prepare(s, k, swept, outcome)
  PROVE  TypeOK'
<1> DEFINE i == SocketOwner[s]
           active == ActiveOwners(link)
           st == Sweep(store, link, swept)
           b == Envelope(st, i)
           available == /\ ~st.fenced
                        /\ Cardinality(Present(st.bindings, NoBinding)) < MaxBindings
           saved == SaveBindings(st, [st.bindings EXCEPT ![k] = b], active, outcome)
           done == available /\ saved.ok
<1>1. Clocks /\ i \in Installations
  BY OwnerAssumption DEF TypeOK, Clocks
<1>2. st \in Store
  BY <1>1, SweepType DEF TypeOK
<1>3. b \in Binding
  <2>1. Later(Later(st.seen[i], clock), startedAt) \in Nat
    BY <1>1, <1>2, LaterType DEF Clocks, Store
  <2> QED
    BY <1>1, <2>1 DEF Envelope, Binding, Phase, Clocks
<1>4. saved.store \in Store /\ saved.ok \in BOOLEAN
  <2>1. [st.bindings EXCEPT ![k] = b] \in Bindings
    BY <1>2, <1>3 DEF Store, Bindings
  <2> HIDE DEF b, st
  <2> QED
    BY <1>1, <1>2, <2>1, SaveType DEF SaveBindings, Store
<1>5. /\ turns' = turns \ {k}
      /\ store' = IF available THEN saved.store ELSE st
      /\ sent' = IF done THEN sent \cup {k} ELSE sent
      /\ pending' = IF done
                    THEN [pending EXCEPT ![s][k] = saved.store.bindings[k]]
                    ELSE pending
      /\ Emit(s, IF done THEN << <<"agent_end", k>> >> ELSE <<>>)
      /\ UNCHANGED <<clock, idle, running, startedAt, link, tasks, timers, up,
                     requests, consumed, proved>>
  BY DEF Prepare
<1>6. done \in BOOLEAN
  BY <1>4
<1> HIDE DEF saved, st, available, done
<1>7. down' \in [Sockets -> Seq(DownFrame)]
  BY <1>5, <1>6, EmitOneType
<1>8. pending' \in [Sockets -> Bindings]
  BY <1>4, <1>5 DEF TypeOK, Store, Bindings
<1>9. store' \in Store
  BY <1>2, <1>4, <1>5
<1> QED
  BY <1>5, <1>7, <1>8, <1>9 DEF TypeOK

\* Handling reply_received preserves the types.
LEMMA ReceiveReplyAckType ==
  ASSUME TypeOK, NEW s \in Sockets, NEW k \in Keys, NEW outcome,
         ReceiveReplyAck(s, k, outcome)
  PROVE  TypeOK'
<1> DEFINE b == Owned(SourceOf(s), k)
           effect == IF clock < b.at THEN "pre" ELSE outcome
           saved == SaveBindings(store, [store.bindings EXCEPT
                                  ![k] = [b EXCEPT !.st = "received", !.at = clock]],
                                 ActiveOwners(link), effect)
           first == b # NoBinding /\ b.st = "prepared"
           confirmed == b # NoBinding /\ (first => saved.ok)
<1>1. b \in Binding \cup {NoBinding}
  BY OwnedType, SourceType
<1>2. /\ Takes(s, "reply_received", k)
      /\ store' = IF first THEN saved.store ELSE store
      /\ pending' = IF first /\ saved.ok
                    THEN [pending EXCEPT ![s][k] = saved.store.bindings[k]]
                    ELSE pending
      /\ proved' = IF first THEN proved \cup {k} ELSE proved
      /\ Emit(s, IF confirmed THEN << <<"reply_received", k>> >> ELSE <<>>)
      /\ UNCHANGED <<clock, idle, running, startedAt, link, tasks, timers,
                     requests, consumed, turns, sent>>
  BY DEF ReceiveReplyAck
<1> HIDE DEF b, effect
<1>3. first => saved.store \in Store
  BY <1>1, AdvanceType DEF TypeOK, Phase, Clocks
<1>4. confirmed \in BOOLEAN
  OBVIOUS
<1> HIDE DEF saved, first, confirmed
<1>5. down' \in [Sockets -> Seq(DownFrame)]
  BY <1>2, <1>4, EmitOneType
<1>6. up' \in [Sockets -> Seq(UpFrame)]
  BY <1>2, TakesType
<1>7. pending' \in [Sockets -> Bindings]
  BY <1>2, <1>3 DEF TypeOK, Store, Bindings
<1>8. store' \in Store
  BY <1>2, <1>3 DEF TypeOK
<1> QED
  BY <1>2, <1>5, <1>6, <1>7, <1>8 DEF TypeOK

\* Handling reply_ack preserves the types.
LEMMA AcknowledgeReplyAckType ==
  ASSUME TypeOK, NEW s \in Sockets, NEW k \in Keys, AcknowledgeReplyAck(s, k)
  PROVE  TypeOK'
<1>1. up' \in [Sockets -> Seq(UpFrame)]
  BY TakesType DEF AcknowledgeReplyAck
<1>2. /\ timers' \in [Keys -> Source \cup {NoTimer}] /\ tasks' \subseteq Task
      /\ requests' \subseteq Keys /\ down' \in [Sockets -> Seq(DownFrame)]
  <2>1. timers \in [Keys -> Source \cup {NoTimer}]
    BY DEF TypeOK
  <2> QED
    BY <2>1, SourceType, AcknowledgeType DEF AcknowledgeReplyAck
<1> QED
  BY <1>1, <1>2 DEF AcknowledgeReplyAck, TypeOK

\* A retry timer preserves the types.
LEMMA RetryTimerType ==
  ASSUME TypeOK, NEW k \in Keys, RetryTimer(k)
  PROVE  TypeOK'
<1>1. /\ timers[k] \in Source
      /\ [timers EXCEPT ![k] = NoTimer] \in [Keys -> Source \cup {NoTimer}]
  BY DEF RetryTimer, TypeOK
<1>2. /\ timers' \in [Keys -> Source \cup {NoTimer}] /\ tasks' \subseteq Task
      /\ requests' \subseteq Keys /\ down' \in [Sockets -> Seq(DownFrame)]
  BY <1>1, AcknowledgeType DEF RetryTimer
<1> QED
  BY <1>2 DEF RetryTimer, TypeOK

\* An answered consume call preserves the types.
LEMMA ConsumeAnsweredType ==
  ASSUME TypeOK, NEW t \in tasks, NEW outcome, ConsumeAnswered(t, outcome)
  PROVE  TypeOK'
<1> DEFINE k == t.key
           effect == IF clock < t.b.at THEN "pre" ELSE outcome
           saved == SaveBindings(store, [store.bindings EXCEPT
                                  ![k] = [t.b EXCEPT !.st = "consumed", !.at = clock]],
                                 ActiveOwners(link), effect)
           same == store.bindings[k] = t.b
           done == same /\ saved.ok
<1>1. t \in Task /\ k \in Keys /\ t.b \in Binding /\ t.src \in Source
  BY DEF TypeOK, Task
<1>2. /\ store' = IF same THEN saved.store ELSE store
      /\ tasks' = (tasks \ {t}) \cup
           (IF done THEN {[t EXCEPT !.call = "sending",
                                    !.done = saved.store.bindings[k]]} ELSE {})
      /\ timers' = IF same /\ ~done THEN [timers EXCEPT ![k] = t.src] ELSE timers
      /\ Emit(t.src.sock, IF done THEN << <<"reply_acknowledged", k>> >> ELSE <<>>)
      /\ UNCHANGED <<clock, idle, running, startedAt, link, pending, up,
                     requests, consumed, turns, sent, proved>>
  BY DEF ConsumeAnswered
<1> HIDE DEF effect
<1>3. saved.store \in Store /\ saved.ok \in BOOLEAN
  BY <1>1, AdvanceType DEF TypeOK, Phase, Clocks
<1>4. done => saved.store.bindings[k] \in Binding
  <2> HIDE DEF k
  <2>1. SUFFICES ASSUME saved.ok PROVE saved.store.bindings[k] # NoBinding
    BY <1>1, <1>3 DEF Store, Bindings
  <2> DEFINE next == [t.b EXCEPT !.st = "consumed", !.at = clock]
             normal == [next EXCEPT !.seen = LastSeenAt(next, store.seen)]
  <2>2. next \in Binding
    BY <1>1 DEF TypeOK, Binding, Phase
  <2>3. LastSeenAt(next, store.seen) \in Nat
    BY <2>2, LastSeenType DEF TypeOK, Store, Clocks
  <2>4. normal \in Binding
    BY <2>2, <2>3 DEF Binding
  <2>5. next # NoBinding /\ normal # NoBinding
    BY <2>2, <2>4, AbsentAssumption DEF Binding, Phase
  <2>6. k \in DOMAIN store.bindings
    BY <1>1 DEF TypeOK, Store, Bindings
  <2>7. saved.store.bindings[k] = normal
    BY <2>1, <2>5, <2>6, <1>1 DEF SaveBindings, Save, SnapshotOf, Refreshed, TypeOK, Store, Bindings
  <2> QED
    BY <2>5, <2>7
<1> HIDE DEF saved, same
<1>5. tasks' \subseteq Task
  <2>1. done => [t EXCEPT !.call = "sending", !.done = saved.store.bindings[k]]
                  \in Task
    BY <1>1, <1>4 DEF Task
  <2> HIDE DEF done, k
  <2> QED
    BY <1>2, <2>1 DEF TypeOK
<1>6. timers' \in [Keys -> Source \cup {NoTimer}]
  BY <1>1, <1>2 DEF TypeOK
<1>7. down' \in [Sockets -> Seq(DownFrame)]
  <2>1. done \in BOOLEAN
    BY <1>3 DEF same
  <2> HIDE DEF done, k
  <2> QED
    BY <1>1, <1>2, <2>1, EmitOneType
<1>8. store' \in Store
  BY <1>2, <1>3 DEF TypeOK
<1> QED
  BY <1>2, <1>5, <1>6, <1>7, <1>8 DEF TypeOK

\* A failed consume call preserves the types.
LEMMA ConsumeFailedType ==
  ASSUME TypeOK, NEW t \in tasks, ConsumeFailed(t)
  PROVE  TypeOK'
<1>1. timers' \in [Keys -> Source \cup {NoTimer}]
  BY DEF ConsumeFailed, TypeOK, Task
<1> QED
  BY <1>1 DEF ConsumeFailed, TypeOK

\* The end of an acknowledgement task preserves the types.
LEMMA ConfirmationSentType ==
  ASSUME TypeOK, NEW t \in tasks, ConfirmationSent(t)
  PROVE  TypeOK'
<1>1. pending' \in [Sockets -> Bindings]
  BY DEF ConfirmationSent, TypeOK, Bindings
<1> QED
  BY <1>1 DEF ConfirmationSent, TypeOK

\* Handling reply_ack_retire preserves the types.
LEMMA RetireReplyAckType ==
  ASSUME TypeOK, NEW s \in Sockets, NEW k \in Keys, NEW outcome,
         RetireReplyAck(s, k, outcome)
  PROVE  TypeOK'
<1> DEFINE b == store.bindings[k]
           t == store.tombstones[k]
           active == ActiveOwners(link)
           owned == Retirable(b, SocketOwner[s])
           buried == b = NoBinding /\ t # NoTombstone /\ t.inst = SocketOwner[s]
           nothing == b = NoBinding /\ t = NoTombstone
           dropped == SaveBindings(store, [store.bindings EXCEPT ![k] = NoBinding],
                                   active, outcome)
           cleared == Save(store, store.bindings,
                           [store.tombstones EXCEPT ![k] = NoTombstone],
                           FALSE, active, outcome)
           saved == IF owned THEN dropped ELSE cleared
           removed == (owned \/ buried) /\ saved.ok
<1>1. dropped.store \in Store /\ dropped.ok \in BOOLEAN
  <2>1. [store.bindings EXCEPT ![k] = NoBinding] \in Bindings
    BY DEF TypeOK, Store, Bindings
  <2> QED
    BY <2>1, SaveType DEF SaveBindings, TypeOK, Store, Clocks
<1>2. cleared.store \in Store /\ cleared.ok \in BOOLEAN
  <2>1. [store.tombstones EXCEPT ![k] = NoTombstone] \in Tombstones
    BY DEF TypeOK, Store, Tombstones
  <2> QED
    BY <2>1, SaveType DEF TypeOK, Store, Clocks
<1>3. /\ Takes(s, "reply_ack_retire", k)
      /\ store' = IF owned \/ buried THEN saved.store ELSE store
      /\ pending' = IF owned /\ removed
                    THEN [pending EXCEPT ![s][k] = NoBinding] ELSE pending
      /\ timers' = IF owned /\ removed
                   THEN [timers EXCEPT ![k] = NoTimer] ELSE timers
      /\ Emit(s, IF nothing \/ removed THEN << <<"reply_ack_retired", k>> >>
                 ELSE <<>>)
      /\ UNCHANGED <<clock, idle, running, startedAt, link, tasks, requests,
                     consumed, turns, sent, proved>>
  BY DEF RetireReplyAck
<1>4. nothing \/ removed \in BOOLEAN
  BY <1>1, <1>2
<1> HIDE DEF dropped, cleared
<1>5. store' \in Store
  BY <1>1, <1>2, <1>3 DEF TypeOK
<1> HIDE DEF saved, owned, buried, nothing, removed
<1>6. down' \in [Sockets -> Seq(DownFrame)]
  BY <1>3, <1>4, EmitOneType
<1>7. up' \in [Sockets -> Seq(UpFrame)]
  BY <1>3, TakesType
<1>8. pending' \in [Sockets -> Bindings]
  BY <1>3 DEF TypeOK, Bindings
<1>9. timers' \in [Keys -> Source \cup {NoTimer}]
  BY <1>3 DEF TypeOK
<1> QED
  BY <1>3, <1>5, <1>6, <1>7, <1>8, <1>9 DEF TypeOK

\* Seeing a socket close preserves the types.
LEMMA CloseType ==
  ASSUME TypeOK, NEW s \in Sockets, NEW outcome, Close(s, outcome)
  PROVE  TypeOK'
<1> DEFINE lk == [link EXCEPT ![s] = "closed"]
           Gone(src) == IF src.sock = s THEN [src EXCEPT !.sock = NoSocket] ELSE src
<1>1. \A src \in Source : Gone(src) \in Source
  BY DEF Source
<1>2. /\ link' = lk
      /\ store' = IF link[s] = "open" THEN Disconnected(store, s, lk, outcome)
                  ELSE store
      /\ pending' = [pending EXCEPT ![s] = EmptyBindings]
      /\ tasks' = {[t EXCEPT !.src = Gone(@)] : t \in tasks}
      /\ timers' = [k \in Keys |-> IF timers[k] = NoTimer THEN NoTimer
                                   ELSE Gone(timers[k])]
      /\ up' = [up EXCEPT ![s] = <<>>] /\ down' = [down EXCEPT ![s] = <<>>]
      /\ UNCHANGED <<clock, idle, running, startedAt, requests, consumed, turns,
                     sent, proved>>
  BY DEF Close
<1> HIDE DEF Gone
<1>3. store' \in Store
  BY <1>2, DisconnectedType DEF TypeOK, Clocks
<1>4. tasks' \subseteq Task
  <2> SUFFICES ASSUME NEW t \in tasks
               PROVE  [t EXCEPT !.src = Gone(t.src)] \in Task
    BY <1>2
  <2>1. t \in Task /\ Gone(t.src) \in Source
    BY <1>1 DEF TypeOK, Task
  <2> QED
    BY <2>1 DEF Task
<1>5. timers' \in [Keys -> Source \cup {NoTimer}]
  BY <1>1, <1>2 DEF TypeOK
<1>6. pending' \in [Sockets -> Bindings]
  BY <1>2 DEF TypeOK, EmptyBindings, Bindings
<1>7. up' \in [Sockets -> Seq(UpFrame)] /\ down' \in [Sockets -> Seq(DownFrame)]
  BY <1>2 DEF TypeOK
<1>8. link' \in [Sockets -> {"closed", "opening", "open"}]
  BY <1>2 DEF TypeOK
<1> QED
  BY <1>2, <1>3, <1>4, <1>5, <1>6, <1>7, <1>8 DEF TypeOK

\* A crash preserves the types.
LEMMA CrashType ==
  ASSUME TypeOK, Crash
  PROVE  TypeOK'
<1>1. EmptyBindings \in Bindings /\ EmptyTombstones \in Tombstones
  BY DEF EmptyBindings, EmptyTombstones, Bindings, Tombstones
<1>2. store' \in Store
  BY <1>1 DEF Crash, TypeOK, Store
<1>3. <<>> \in Seq(UpFrame) /\ <<>> \in Seq(DownFrame)
  OBVIOUS
<1>4. /\ up' \in [Sockets -> Seq(UpFrame)]
      /\ down' \in [Sockets -> Seq(DownFrame)]
  BY <1>3 DEF Crash
<1> QED
  BY <1>1, <1>2, <1>4 DEF Crash, TypeOK

\* A start preserves the types.
LEMMA StartType ==
  ASSUME TypeOK, Start
  PROVE  TypeOK'
<1>1. PICK found \in {store.disk, store.prior} :
        store' = [store EXCEPT !.bindings = found.bindings,
                               !.tombstones = found.tombstones,
                               !.disk = found, !.prior = found, !.fenced = FALSE]
  BY DEF Start
<1>2. found \in Snapshot /\ store \in Store
  BY DEF TypeOK, Store
<1>3. store' \in Store
  <2>1. found.bindings \in Bindings /\ found.tombstones \in Tombstones
    BY <1>2 DEF Snapshot
  <2> QED
    BY <1>1, <1>2, <2>1 DEF Store
<1> QED
  BY <1>3 DEF Start, TypeOK

\* Time passing or set back preserves the types.
LEMMA ClockType ==
  ASSUME TypeOK, Tick \/ Rollback
  PROVE  TypeOK'
<1>1. CASE Tick
  BY <1>1 DEF Tick, TypeOK
<1>2. CASE Rollback
  <2>1. clock' \in Nat
    BY <1>2, BoundAssumption DEF Rollback, TypeOK
  <2> QED
    BY <1>2, <2>1 DEF Rollback, TypeOK
<1> QED
  BY <1>1, <1>2

\* The handset's own steps preserve the types.
LEMMA HandsetType ==
  ASSUME TypeOK, HandsetNext
  PROVE  TypeOK'
<1>1. ASSUME NEW s \in Sockets, Dial(s) PROVE TypeOK'
  BY <1>1 DEF Dial, TypeOK
<1>2. ASSUME NEW s \in Sockets, NEW f \in HandsetOps \X Keys, Write(s, f)
      PROVE  TypeOK'
  <2>1. f \in UpFrame
    BY OutcomeAssumption DEF UpFrame
  <2>2. Append(up[s], f) \in Seq(UpFrame)
    BY <2>1, AppendProperties DEF TypeOK
  <2> QED
    BY <1>2, <2>2 DEF Write, TypeOK
<1>3. ASSUME NEW s \in Sockets, Read(s) PROVE TypeOK'
  <2>1. Tail(down[s]) \in Seq(DownFrame)
    BY <1>3, HeadTailProperties DEF Read, TypeOK
  <2> QED
    BY <1>3, <2>1 DEF Read, TypeOK
<1> QED
  BY <1>1, <1>2, <1>3 DEF HandsetNext

-----------------------------------------------------------------------------
(* The theorem *)

\* The initial state is well typed.
LEMMA InitType == Init => TypeOK
<1> SUFFICES ASSUME Init PROVE TypeOK
  OBVIOUS
<1>1. EmptyBindings \in Bindings /\ EmptyTombstones \in Tombstones
  BY DEF EmptyBindings, EmptyTombstones, Bindings, Tombstones
<1>2. EmptySnapshot \in Snapshot
  BY <1>1 DEF EmptySnapshot, Snapshot
<1>3. store \in Store
  BY <1>1, <1>2 DEF Init, Store
<1> QED
  BY <1>1, <1>3 DEF Init, TypeOK

\* Every step preserves the types.
LEMMA StepType == TypeOK /\ [Next]_vars => TypeOK'
<1> SUFFICES ASSUME TypeOK, [Next]_vars PROVE TypeOK'
  OBVIOUS
<1>1. CASE BridgeNext
  <2>1. ASSUME NEW s \in Sockets, NEW o \in SaveOutcomes, Hello(s, o)
        PROVE  TypeOK'
    BY <2>1, HelloType
  <2>2. ASSUME NEW s \in Sockets, NEW k \in Keys, NEW w \in SaveOutcomes,
               NEW o \in SaveOutcomes, Prepare(s, k, w, o)
        PROVE  TypeOK'
    BY <2>2, PrepareType
  <2>3. ASSUME NEW s \in Sockets, NEW k \in Keys, NEW o \in SaveOutcomes,
               ReceiveReplyAck(s, k, o)
        PROVE  TypeOK'
    BY <2>3, ReceiveReplyAckType
  <2>4. ASSUME NEW s \in Sockets, NEW k \in Keys, AcknowledgeReplyAck(s, k)
        PROVE  TypeOK'
    BY <2>4, AcknowledgeReplyAckType
  <2>5. ASSUME NEW k \in Keys, RetryTimer(k) PROVE TypeOK'
    BY <2>5, RetryTimerType
  <2>6. ASSUME NEW t \in tasks, NEW o \in SaveOutcomes, ConsumeAnswered(t, o)
        PROVE  TypeOK'
    BY <2>6, ConsumeAnsweredType
  <2>7. ASSUME NEW t \in tasks, ConsumeFailed(t) PROVE TypeOK'
    BY <2>7, ConsumeFailedType
  <2>8. ASSUME NEW t \in tasks, ConfirmationSent(t) PROVE TypeOK'
    BY <2>8, ConfirmationSentType
  <2>9. ASSUME NEW s \in Sockets, NEW k \in Keys, NEW o \in SaveOutcomes,
               RetireReplyAck(s, k, o)
        PROVE  TypeOK'
    BY <2>9, RetireReplyAckType
  <2>10. ASSUME NEW s \in Sockets, NEW o \in SaveOutcomes, Close(s, o)
         PROVE  TypeOK'
    BY <2>10, CloseType
  <2>11. ASSUME NEW o \in SaveOutcomes, PeriodicSweep(o) PROVE TypeOK'
    BY <2>11, SweepType DEF PeriodicSweep, TypeOK, Clocks
  <2>12. ASSUME NEW k \in Keys, TelepathosdConsumes(k) PROVE TypeOK'
    BY <2>12 DEF TelepathosdConsumes, TypeOK
  <2> QED
    BY <1>1, <2>1, <2>2, <2>3, <2>4, <2>5, <2>6, <2>7, <2>8, <2>9, <2>10,
       <2>11, <2>12, CrashType, StartType, ClockType DEF BridgeNext
<1>2. CASE HandsetNext
  BY <1>2, HandsetType
<1>3. CASE UNCHANGED vars
  BY <1>3 DEF vars, TypeOK
<1> QED
  BY <1>1, <1>2, <1>3 DEF Next

\* Whatever the handsets, the clock, the disk and telepathosd do, the bridge's
\* maps, queues and tasks stay well typed.
THEOREM TypeCorrect == Spec => []TypeOK
BY InitType, StepType, PTL DEF Spec

-----------------------------------------------------------------------------
(* The inductive invariant *)

\* Binding b of receipt k claims no more than the proofs P and the
\* consumptions C bear out.
Backed(b, k, P, C) ==
  b # NoBinding => /\ b.st # "prepared" => k \in P
                   /\ b.st = "consumed" => k \in C

AllBacked(b, P, C) == \A k \in Keys : Backed(b[k], k, P, C)

Buried(t, C) == \A k \in Keys : t[k] # NoTombstone => k \in C

StoreBacked(st, P, C) ==
  /\ AllBacked(st.bindings, P, C) /\ Buried(st.tombstones, C)
  /\ AllBacked(st.disk.bindings, P, C) /\ Buried(st.disk.tombstones, C)
  /\ AllBacked(st.prior.bindings, P, C) /\ Buried(st.prior.tombstones, C)

TaskBacked(t, P, C) ==
  /\ t.key \in P
  /\ Backed(t.b, t.key, P, C) /\ Backed(t.done, t.key, P, C)
  /\ t.call = "sending" => t.key \in C

\* The file and the process agree.
Mirrors(st) ==
  ~st.fenced =>
    /\ st.disk.bindings = st.bindings
    /\ st.prior = st.disk
    /\ \A k \in Keys : st.tombstones[k] \in {NoTombstone, st.disk.tombstones[k]}

\* A snapshot that can be loaded.
Fits(snapshot) ==
  /\ Cardinality(Present(snapshot.bindings, NoBinding)) <= MaxBindings
  /\ Cardinality(Present(snapshot.tombstones, NoTombstone)) <= MaxTombstones
  /\ Present(snapshot.bindings, NoBinding)
       \cap Present(snapshot.tombstones, NoTombstone) = {}

\* A live receipt that is not consumed is in both snapshots.
Held(st, C) ==
  \A k \in Keys \ C : st.bindings[k] # NoBinding =>
    st.disk.bindings[k] # NoBinding /\ st.prior.bindings[k] # NoBinding

Sound(st, P, C) ==
  /\ StoreBacked(st, P, C) /\ Mirrors(st) /\ Held(st, C)
  /\ Fits(st.disk) /\ Fits(st.prior)

\* Bindings c lose only consumed receipts of b.
Keeps(b, c, C) == \A k \in Keys \ C : b[k] # NoBinding => c[k] # NoBinding

Evidence ==
  /\ StoreBacked(store, proved, consumed)
  /\ \A s \in Sockets : AllBacked(pending[s], proved, consumed)
  /\ \A t \in tasks : TaskBacked(t, proved, consumed)
  /\ ConsumedIsProved
  /\ AcknowledgedIsConsumed

Retention ==
  /\ Held(store, consumed)
  /\ running => \A k \in sent \ consumed : store.bindings[k] # NoBinding
  /\ ReplyRetained

BridgeInv == TypeOK /\ Evidence /\ DiskHoldsMemory /\ Loadable /\ Retention

-----------------------------------------------------------------------------
(* The store *)

\* Refreshing last-seen times changes no owner, no phase and no presence.
LEMMA RefreshedKeeps ==
  ASSUME Clocks, NEW b \in Bindings, NEW seen \in [Installations -> Nat],
         NEW k \in Keys
  PROVE  /\ Refreshed(b, seen)[k] = NoBinding <=> b[k] = NoBinding
         /\ b[k] # NoBinding => /\ Refreshed(b, seen)[k].st = b[k].st
                                /\ Refreshed(b, seen)[k].inst = b[k].inst
<1>1. CASE b[k] = NoBinding
  BY <1>1 DEF Refreshed
<1>2. CASE b[k] # NoBinding
  <2>1. b[k] \in Binding
    BY <1>2 DEF Bindings
  <2>2. Refreshed(b, seen)[k] = [b[k] EXCEPT !.seen = LastSeenAt(b[k], seen)]
    BY <1>2 DEF Refreshed
  <2>3. [b[k] EXCEPT !.seen = LastSeenAt(b[k], seen)] \in Binding
    BY <2>1, LastSeenType DEF Binding
  <2>4. Refreshed(b, seen)[k] # NoBinding
    BY <2>2, <2>3, AbsentAssumption DEF Binding, Phase
  <2> QED
    BY <1>2, <2>1, <2>2, <2>4 DEF Binding
<1> QED
  BY <1>1, <1>2

\* A save either changes nothing, leaves the file in doubt, or replaces the
\* process and the file together.
LEMMA SaveEffect ==
  ASSUME NEW st \in Store, NEW b, NEW t, NEW sameMap, NEW active, NEW outcome
  PROVE  LET saved == Save(st, b, t, sameMap, active, outcome)
             snapshot == SnapshotOf(st, b, t)
         IN  \/ ~saved.ok /\ saved.store = st
             \/ /\ ~saved.ok /\ ~st.fenced /\ saved.store.fenced
                /\ Storable(st, Refreshed(b, st.seen), t)
                /\ saved.store.bindings = st.bindings
                /\ saved.store.tombstones = st.tombstones
                /\ saved.store.disk = snapshot /\ saved.store.prior = st.disk
             \/ /\ saved.ok /\ ~st.fenced /\ ~saved.store.fenced
                /\ Storable(st, Refreshed(b, st.seen), t)
                /\ saved.store.bindings = Refreshed(b, st.seen)
                /\ saved.store.tombstones = IF sameMap THEN EmptyTombstones ELSE t
                /\ saved.store.disk = snapshot /\ saved.store.prior = snapshot
<1> DEFINE snapshot == SnapshotOf(st, b, t)
           kept == IF sameMap THEN EmptyTombstones ELSE t
           saved == Save(st, b, t, sameMap, active, outcome)
<1>1. CASE ~Storable(st, Refreshed(b, st.seen), t) \/ outcome = "pre"
  BY <1>1 DEF Save, SnapshotOf
<1>2. CASE Storable(st, Refreshed(b, st.seen), t) /\ outcome = "post"
  <2>1. /\ saved.ok = FALSE
        /\ saved.store = [st EXCEPT !.disk = snapshot, !.prior = st.disk,
                                    !.fenced = TRUE]
    BY <1>2 DEF Save, SnapshotOf
  <2>2. ~st.fenced
    BY <1>2 DEF Storable
  <2> HIDE DEF snapshot, saved
  <2>3. /\ saved.store.bindings = st.bindings /\ saved.store.tombstones = st.tombstones
        /\ saved.store.disk = snapshot /\ saved.store.prior = st.disk
        /\ saved.store.fenced
    BY <2>1 DEF Store
  <2> QED
    BY <1>2, <2>1, <2>2, <2>3 DEF saved, snapshot
<1>3. CASE Storable(st, Refreshed(b, st.seen), t) /\ outcome \notin {"pre", "post"}
  <2> DEFINE pruned == PruneSeen(st.seen, active, Refreshed(b, st.seen), kept)
  <2>1. /\ saved.ok = TRUE
        /\ saved.store = [st EXCEPT !.bindings = Refreshed(b, st.seen),
                                    !.tombstones = kept, !.disk = snapshot,
                                    !.prior = snapshot, !.seen = pruned]
    BY <1>3 DEF Save, SnapshotOf
  <2>2. ~st.fenced
    BY <1>3 DEF Storable
  <2> HIDE DEF snapshot, saved, pruned, kept
  <2>3. /\ saved.store.bindings = Refreshed(b, st.seen)
        /\ saved.store.tombstones = kept
        /\ saved.store.disk = snapshot /\ saved.store.prior = snapshot
        /\ saved.store.fenced = st.fenced
    BY <2>1 DEF Store
  <2> QED
    BY <1>3, <2>1, <2>2, <2>3 DEF saved, snapshot, kept
<1> QED
  BY <1>1, <1>2, <1>3

\* Saving bindings and tombstones that are backed, and that lose only consumed
\* receipts, keeps the store sound and loses only consumed receipts.
LEMMA SaveSound ==
  ASSUME Clocks, NEW st \in Store, NEW b \in Bindings, NEW t \in Tombstones,
         NEW sameMap, NEW active, NEW outcome, NEW P, NEW C,
         Sound(st, P, C), AllBacked(b, P, C), Buried(t, C),
         Keeps(st.bindings, b, C)
  PROVE  LET saved == Save(st, b, t, sameMap, active, outcome)
         IN  /\ Sound(saved.store, P, C)
             /\ Keeps(st.bindings, saved.store.bindings, C)
             /\ saved.ok => Keeps(b, saved.store.bindings, C)
<1> DEFINE saved == Save(st, b, t, sameMap, active, outcome)
           normal == Refreshed(b, st.seen)
           snapshot == SnapshotOf(st, b, t)
<1>1. \A k \in Keys :
        /\ normal[k] = NoBinding <=> b[k] = NoBinding
        /\ b[k] # NoBinding => normal[k].st = b[k].st
  BY RefreshedKeeps DEF Store
<1>2. /\ AllBacked(normal, P, C) /\ Keeps(st.bindings, normal, C)
      /\ Keeps(b, normal, C)
  BY <1>1 DEF AllBacked, Backed, Keeps
<1>3. Buried(IF sameMap THEN EmptyTombstones ELSE t, C)
  BY DEF Buried, EmptyTombstones
<1>7. snapshot.bindings = normal /\ snapshot.tombstones = t
  BY DEF SnapshotOf
<1>4. CASE ~saved.ok /\ saved.store = st
  BY <1>4 DEF Keeps
<1>5. CASE /\ ~saved.ok /\ ~st.fenced /\ saved.store.fenced
           /\ Storable(st, normal, t)
           /\ saved.store.bindings = st.bindings
           /\ saved.store.tombstones = st.tombstones
           /\ saved.store.disk = snapshot /\ saved.store.prior = st.disk
  <2>1. StoreBacked(saved.store, P, C)
    BY <1>2, <1>5, <1>7 DEF StoreBacked, Sound
  <2>2. Held(saved.store, C)
    BY <1>2, <1>5, <1>7 DEF Held, Keeps, Sound
  <2>3. Fits(saved.store.disk) /\ Fits(saved.store.prior)
    BY <1>5, <1>7 DEF Fits, Storable, Sound
  <2> QED
    BY <1>5, <2>1, <2>2, <2>3 DEF Sound, Mirrors, Keeps
<1>6. CASE /\ saved.ok /\ ~st.fenced /\ ~saved.store.fenced
           /\ Storable(st, normal, t)
           /\ saved.store.bindings = normal
           /\ saved.store.tombstones = IF sameMap THEN EmptyTombstones ELSE t
           /\ saved.store.disk = snapshot /\ saved.store.prior = snapshot
  <2>1. StoreBacked(saved.store, P, C)
    BY <1>2, <1>3, <1>6, <1>7 DEF StoreBacked, Sound
  <2>2. Held(saved.store, C)
    BY <1>6, <1>7 DEF Held
  <2>3. Fits(saved.store.disk) /\ Fits(saved.store.prior)
    BY <1>6, <1>7 DEF Fits, Storable
  <2>4. Mirrors(saved.store)
    BY <1>6, <1>7 DEF Mirrors, EmptyTombstones
  <2> QED
    BY <1>2, <1>6, <2>1, <2>2, <2>3, <2>4 DEF Sound
<1> HIDE DEF saved
<1> QED
  BY <1>4, <1>5, <1>6, SaveEffect DEF saved

\* Sighting an owner changes nothing but the high-water cache.
LEMMA NoteSeenEffect ==
  ASSUME NEW st \in Store, NEW i, NEW active
  PROVE  LET noted == NoteSeen(st, i, active)
         IN  /\ noted.bindings = st.bindings /\ noted.tombstones = st.tombstones
             /\ noted.disk = st.disk /\ noted.prior = st.prior
             /\ noted.fenced = st.fenced
<1> DEFINE new == PruneSeen([st.seen EXCEPT ![i] = Later(Later(@, clock), startedAt)],
                            active, st.bindings, st.tombstones)
<1>1. NoteSeen(st, i, active) = [st EXCEPT !.seen = new]
  BY DEF NoteSeen
<1> HIDE DEF new
<1> QED
  BY <1>1 DEF Store

\* A sighted store is as sound as it was.
LEMMA NoteSeenSound ==
  ASSUME NEW st \in Store, NEW i, NEW active, NEW P, NEW C, Sound(st, P, C)
  PROVE  Sound(NoteSeen(st, i, active), P, C)
BY NoteSeenEffect DEF Sound, StoreBacked, Mirrors, Held

\* Reclaiming buries only consumed receipts and loses no other.
LEMMA ReclaimKeeps ==
  ASSUME NEW st \in Store, NEW P, NEW C, Sound(st, P, C),
         NEW S \in SUBSET Reclaimable(st)
  PROVE  LET r == Reclaim(st, S)
         IN  /\ AllBacked(r.bindings, P, C) /\ Buried(r.tombstones, C)
             /\ Keeps(st.bindings, r.bindings, C)
             /\ \A k \in Keys : r.bindings[k] \in {st.bindings[k], NoBinding}
<1>1. \A k \in S : k \in C /\ k \in Keys
  BY DEF Reclaimable, ConsumedExpired, Present, Sound, StoreBacked, AllBacked, Backed
<1>2. \A k \in Keys : Reclaim(st, S).bindings[k] \in {st.bindings[k], NoBinding}
  BY DEF Reclaim
<1>3. \A k \in Keys \ S : Reclaim(st, S).bindings[k] = st.bindings[k]
  BY DEF Reclaim
<1>4. \A k \in Keys : Reclaim(st, S).tombstones[k] # NoTombstone =>
                        k \in S \/ st.tombstones[k] # NoTombstone
  BY DEF Reclaim
<1>5. AllBacked(Reclaim(st, S).bindings, P, C)
  BY <1>2 DEF AllBacked, Backed, Sound, StoreBacked
<1>6. Buried(Reclaim(st, S).tombstones, C)
  BY <1>1, <1>4 DEF Buried, Sound, StoreBacked
<1>7. Keeps(st.bindings, Reclaim(st, S).bindings, C)
  BY <1>1, <1>3 DEF Keeps
<1> QED
  BY <1>2, <1>5, <1>6, <1>7

\* So the sweep keeps the store sound and loses only consumed receipts.
LEMMA SweepSound ==
  ASSUME Clocks, NEW st \in Store, NEW lk, NEW outcome, NEW P, NEW C,
         Sound(st, P, C)
  PROVE  /\ Sound(Sweep(st, lk, outcome), P, C)
         /\ Keeps(st.bindings, Sweep(st, lk, outcome).bindings, C)
<1> DEFINE S == {k \in Reclaimable(st) : st.bindings[k].inst \notin ActiveOwners(lk)}
           r == Reclaim(st, S)
           saved == Save(st, r.bindings, r.tombstones, FALSE, ActiveOwners(lk), outcome)
<1>1. S \in SUBSET Reclaimable(st) /\ S \in SUBSET Present(st.bindings, NoBinding)
  BY DEF Reclaimable
<1>2. /\ AllBacked(r.bindings, P, C) /\ Buried(r.tombstones, C)
      /\ Keeps(st.bindings, r.bindings, C)
      /\ r.bindings \in Bindings /\ r.tombstones \in Tombstones
  BY <1>1, ReclaimKeeps, ReclaimType
<1>3. Sweep(st, lk, outcome) = IF r.changed THEN saved.store ELSE st
  BY DEF Sweep
<1>4. Sound(saved.store, P, C) /\ Keeps(st.bindings, saved.store.bindings, C)
  <2> HIDE DEF r
  <2> QED
    BY <1>2, SaveSound
<1>5. Keeps(st.bindings, st.bindings, C)
  BY DEF Keeps
<1> HIDE DEF saved, r
<1> QED
  BY <1>3, <1>4, <1>5

\* A hello wants nothing stored that is not backed, and drops only consumed
\* receipts: a receipt it takes over is prepared again.
LEMMA ReconciledKeeps ==
  ASSUME Clocks, NEW st \in Store, NEW i \in Installations, NEW lk, NEW P, NEW C,
         Sound(st, P, C)
  PROVE  LET r == Reconciled(st, i, lk)
         IN  /\ AllBacked(r.bindings, P, C) /\ Buried(r.tombstones, C)
             /\ Keeps(st.bindings, r.bindings, C)
<1> DEFINE r == Reclaim(st, Reclaimable(st))
           skipped == {k \in Present(st.bindings, NoBinding) :
                         r.bindings[k] = NoBinding}
           taken == Taken(st, i, lk, skipped)
           now(b) == Later(LastSeenAt(b, st.seen), clock)
           next == [k \in Keys |->
                      IF r.bindings[k] = NoBinding THEN NoBinding
                      ELSE IF k \in taken
                      THEN [inst |-> i, st |-> "prepared", at |-> clock,
                            seen |-> now(st.bindings[k])]
                      ELSE IF st.bindings[k].inst = i
                      THEN [st.bindings[k] EXCEPT !.seen = now(st.bindings[k])]
                      ELSE st.bindings[k]]
<1>1. /\ AllBacked(r.bindings, P, C) /\ Buried(r.tombstones, C)
      /\ Keeps(st.bindings, r.bindings, C)
      /\ \A k \in Keys : r.bindings[k] \in {st.bindings[k], NoBinding}
  BY ReclaimKeeps
<1>2. /\ Reconciled(st, i, lk).bindings = next
      /\ Reconciled(st, i, lk).tombstones = r.tombstones
  BY DEF Reconciled
<1> HIDE DEF r, taken
<1>3. \A k \in Keys : r.bindings[k] # NoBinding =>
        next[k] # NoBinding /\ (next[k].st = st.bindings[k].st \/ next[k].st = "prepared")
  <2> SUFFICES ASSUME NEW k \in Keys, r.bindings[k] # NoBinding
               PROVE  /\ next[k] # NoBinding
                      /\ next[k].st = st.bindings[k].st \/ next[k].st = "prepared"
    OBVIOUS
  <2> DEFINE b == st.bindings[k]
  <2>1. b \in Binding
    BY <1>1 DEF Store, Bindings
  <2>2. now(b) \in Nat
    BY <2>1, LastSeenType, LaterType DEF Store, Clocks
  <2>3. [inst |-> i, st |-> "prepared", at |-> clock, seen |-> now(b)] # NoBinding
    BY <2>2, AbsentAssumption DEF Clocks
  <2>4. /\ [b EXCEPT !.seen = now(b)].st = b.st
        /\ [b EXCEPT !.seen = now(b)] # NoBinding
    BY <2>1, <2>2, AbsentAssumption DEF Binding, Phase
  <2> HIDE DEF now
  <2> QED
    BY <1>1, <2>3, <2>4
<1>4. \A k \in Keys : r.bindings[k] = NoBinding => next[k] = NoBinding
  OBVIOUS
<1> HIDE DEF next
<1>5. AllBacked(next, P, C)
  BY <1>1, <1>3, <1>4 DEF AllBacked, Backed, Sound, StoreBacked
<1>6. Keeps(st.bindings, next, C)
  BY <1>1, <1>3 DEF Keeps
<1> QED
  BY <1>1, <1>2, <1>5, <1>6

\* Handling a close keeps the store sound and loses no receipt.
LEMMA DisconnectedSound ==
  ASSUME Clocks, NEW st \in Store, NEW s \in Sockets, NEW lk, NEW outcome,
         NEW P, NEW C, Sound(st, P, C)
  PROVE  /\ Sound(Disconnected(st, s, lk, outcome), P, C)
         /\ Keeps(st.bindings, Disconnected(st, s, lk, outcome).bindings, C)
<1> DEFINE i == SocketOwner[s]
           noted == NoteSeen(st, i, ActiveOwners(lk))
           next == [k \in Keys |->
                      IF noted.bindings[k] # NoBinding /\ noted.bindings[k].inst = i
                      THEN [noted.bindings[k] EXCEPT
                              !.seen = LastSeenAt(noted.bindings[k], noted.seen)]
                      ELSE noted.bindings[k]]
<1>1. noted \in Store
  BY OwnerAssumption, NoteSeenType
<1>2. Sound(noted, P, C) /\ noted.bindings = st.bindings
  BY NoteSeenSound, NoteSeenEffect
<1>3. Disconnected(st, s, lk, outcome) =
        IF next # noted.bindings
        THEN SaveBindings(noted, next, ActiveOwners(lk), outcome).store ELSE noted
  BY DEF Disconnected
<1> HIDE DEF noted, i
<1>4. \A k \in Keys :
        /\ noted.bindings[k] # NoBinding =>
             next[k] \in Binding /\ next[k] # NoBinding /\ next[k].st = noted.bindings[k].st
        /\ noted.bindings[k] = NoBinding => next[k] = NoBinding
  <2> SUFFICES ASSUME NEW k \in Keys, noted.bindings[k] # NoBinding
               PROVE  /\ next[k] \in Binding /\ next[k] # NoBinding
                      /\ next[k].st = noted.bindings[k].st
    OBVIOUS
  <2> DEFINE b == noted.bindings[k]
  <2>1. b \in Binding
    BY <1>1 DEF Store, Bindings
  <2>2. LastSeenAt(b, noted.seen) \in Nat
    BY <1>1, <2>1, LastSeenType DEF Store
  <2>3. /\ [b EXCEPT !.seen = LastSeenAt(b, noted.seen)] \in Binding
        /\ [b EXCEPT !.seen = LastSeenAt(b, noted.seen)].st = b.st
    BY <2>1, <2>2 DEF Binding
  <2> QED
    BY <2>1, <2>3, AbsentAssumption DEF Binding, Phase
<1>5. next \in Bindings
  BY <1>4 DEF Bindings
<1> HIDE DEF next
<1>6. AllBacked(next, P, C) /\ Keeps(noted.bindings, next, C)
  BY <1>2, <1>4 DEF AllBacked, Backed, Keeps, Sound, StoreBacked
<1>7. noted.tombstones \in Tombstones /\ Buried(noted.tombstones, C)
  BY <1>1, <1>2 DEF Store, Sound, StoreBacked
<1>8. LET saved == SaveBindings(noted, next, ActiveOwners(lk), outcome)
      IN  Sound(saved.store, P, C) /\ Keeps(noted.bindings, saved.store.bindings, C)
  BY <1>1, <1>2, <1>5, <1>6, <1>7, SaveSound DEF SaveBindings
<1> QED
  BY <1>2, <1>3, <1>8 DEF Keeps

-----------------------------------------------------------------------------
(* Frames, pending maps and tasks *)

\* A running bridge that satisfies the invariant has a sound store.
LEMMA RunningSound ==
  ASSUME BridgeInv, running
  PROVE  /\ Sound(store, proved, consumed)
         /\ \A k \in sent \ consumed : store.bindings[k] # NoBinding
BY DEF BridgeInv, Evidence, DiskHoldsMemory, Loadable, Retention, Sound, Mirrors, Fits

\* Conversely a step into a running bridge with a sound store, and the same
\* evidence for its other copies of bindings, restores the invariant.
LEMMA SoundSafe ==
  ASSUME TypeOK', running', Sound(store', proved', consumed'),
         \A k \in sent' \ consumed' : store'.bindings[k] # NoBinding,
         \A s \in Sockets : AllBacked(pending'[s], proved', consumed'),
         \A t \in tasks' : TaskBacked(t, proved', consumed'),
         ConsumedIsProved', AcknowledgedIsConsumed'
  PROVE  BridgeInv'
<1>1. ReplyRetained'
  BY DEF TypeOK, Sound, Held, ReplyRetained
<1> QED
  BY <1>1 DEF BridgeInv, Evidence, DiskHoldsMemory, Loadable, Retention, Sound,
              Mirrors, Fits

\* Frames that acknowledge only consumed receipts may be sent.
LEMMA EmitAcknowledges ==
  ASSUME TypeOK, AcknowledgedIsConsumed, consumed' = consumed,
         NEW s, NEW frames \in Seq(DownFrame), Emit(s, frames),
         \A n \in 1..Len(frames), k \in Keys :
           frames[n] = <<"reply_acknowledged", k>> => k \in consumed
  PROVE  AcknowledgedIsConsumed'
<1> SUFFICES ASSUME NEW x \in Sockets, NEW n \in 1..Len(down'[x]), NEW k \in Keys,
                    down'[x][n] = <<"reply_acknowledged", k>>
             PROVE  k \in consumed
  BY DEF AcknowledgedIsConsumed
<1>1. CASE s \in Sockets /\ x = s
  <2>1. down[s] \in Seq(DownFrame) /\ down'[x] = down[s] \o frames
    BY <1>1 DEF TypeOK, Emit
  <2> HIDE DEF DownFrame
  <2>2. CASE n \in 1..Len(down[s])
    <3>1. down[s][n] = <<"reply_acknowledged", k>>
      BY <2>1, <2>2, ConcatProperties
    <3> QED
      BY <1>1, <2>2, <3>1 DEF AcknowledgedIsConsumed
  <2>3. CASE n \notin 1..Len(down[s])
    <3>1. /\ n - Len(down[s]) \in 1..Len(frames)
          /\ frames[n - Len(down[s])] = <<"reply_acknowledged", k>>
      BY <2>1, <2>3, ConcatProperties
    <3> QED
      BY <3>1
  <2> QED
    BY <2>2, <2>3
<1>2. CASE ~(s \in Sockets /\ x = s)
  <2>1. down'[x] = down[x]
    BY <1>2 DEF TypeOK, Emit
  <2> QED
    BY <2>1 DEF AcknowledgedIsConsumed
<1> QED
  BY <1>1, <1>2

\* Losing frames acknowledges nothing.
LEMMA QuietAcknowledges ==
  ASSUME AcknowledgedIsConsumed, consumed \subseteq consumed',
         \A x \in Sockets : down'[x] = <<>> \/ down'[x] = down[x]
  PROVE  AcknowledgedIsConsumed'
<1> SUFFICES ASSUME NEW x \in Sockets, NEW n \in 1..Len(down'[x]), NEW k \in Keys,
                    down'[x][n] = <<"reply_acknowledged", k>>
             PROVE  k \in consumed'
  BY DEF AcknowledgedIsConsumed
<1>1. down'[x] # <<>>
  <2> SUFFICES ASSUME down'[x] = <<>> PROVE FALSE
    OBVIOUS
  <2>1. Len(down'[x]) = 0
    OBVIOUS
  <2> QED
    BY <2>1
<1>2. down'[x] = down[x]
  BY <1>1
<1> QED
  BY <1>2 DEF AcknowledgedIsConsumed

\* In particular one frame, when it is no acknowledgement or an earned one.
LEMMA EmitOneAcknowledges ==
  ASSUME TypeOK, AcknowledgedIsConsumed, consumed' = consumed,
         NEW s, NEW k \in Keys, NEW Q \in BOOLEAN,
         NEW op \in {"agent_end", "reply_received", "reply_acknowledged",
                     "reply_ack_retired"},
         Q /\ op = "reply_acknowledged" => k \in consumed,
         Emit(s, IF Q THEN << <<op, k>> >> ELSE <<>>)
  PROVE  AcknowledgedIsConsumed'
<1> DEFINE frames == IF Q THEN << <<op, k>> >> ELSE <<>>
<1>1. frames \in Seq(DownFrame)
  <2>1. <<op, k>> \in DownFrame
    BY DEF DownFrame
  <2> QED
    BY <2>1
<1>2. \A n \in 1..Len(frames), x \in Keys :
        frames[n] = <<"reply_acknowledged", x>> => x \in consumed
  OBVIOUS
<1>3. Emit(s, frames)
  OBVIOUS
<1> HIDE DEF frames
<1> QED
  BY <1>1, <1>2, <1>3, EmitAcknowledges

\* What a socket or timer may act on is backed.
LEMMA OwnedBacked ==
  ASSUME BridgeInv, NEW src \in Source, NEW k \in Keys
  PROVE  Backed(Owned(src, k), k, proved, consumed)
<1>1. CASE src.sock = NoSocket \/ pending[src.sock][k] = NoBinding
  BY <1>1 DEF Owned, BridgeInv, Evidence, StoreBacked, AllBacked, Backed
<1>2. CASE src.sock \in Sockets /\ pending[src.sock][k] # NoBinding
  BY <1>2, AbsentAssumption DEF Owned, BridgeInv, Evidence, AllBacked, Backed
<1> QED
  BY <1>1, <1>2 DEF Source

\* reply_ack and the retry timer keep every copy backed: the task they start
\* answers for a received or consumed binding, and a confirmation without a
\* call is for a consumed receipt.
LEMMA AcknowledgeSafe ==
  ASSUME BridgeInv, NEW src \in Source, NEW k \in Keys, NEW waiting,
         Acknowledge(src, k, waiting), consumed' = consumed
  PROVE  /\ \A t \in tasks' : TaskBacked(t, proved, consumed)
         /\ requests' \subseteq proved
         /\ AcknowledgedIsConsumed'
<1> DEFINE b == Owned(src, k)
           t == store.tombstones[k]
           live == Acknowledgeable(b)
           starts == live /\ ~InFlight(k)
           calls == starts /\ MustConsume(b)
           says == \/ b = NoBinding /\ t # NoTombstone /\ t.inst = src.inst
                   \/ starts /\ ~calls /\ src.sock # NoSocket
           task == [key |-> k, src |-> src, b |-> b, done |-> b,
                    call |-> IF calls THEN "calling" ELSE "sending",
                    current |-> TRUE]
<1>1. b \in Binding \cup {NoBinding} /\ Backed(b, k, proved, consumed)
  BY OwnedType, OwnedBacked DEF BridgeInv
<1>2. /\ live => k \in proved
      /\ starts /\ ~calls => k \in consumed
  BY <1>1 DEF Acknowledgeable, MustConsume, Backed, Binding, Phase
<1>3. starts => TaskBacked(task, proved, consumed)
  BY <1>1, <1>2 DEF TaskBacked
<1>4. /\ tasks' = tasks \/ (starts /\ tasks' = tasks \cup {task})
      /\ requests' = requests \/ (live /\ requests' = requests \cup {k})
  BY DEF Acknowledge
<1>5. \A x \in tasks' : TaskBacked(x, proved, consumed)
  <2> HIDE DEF starts, task
  <2> QED
    BY <1>3, <1>4 DEF BridgeInv, Evidence
<1>6. requests' \subseteq proved
  BY <1>2, <1>4 DEF BridgeInv, Evidence, ConsumedIsProved
<1>7. AcknowledgedIsConsumed'
  <2>1. says => k \in consumed
    BY <1>2 DEF BridgeInv, Evidence, StoreBacked, Buried
  <2>2. says \in BOOLEAN
    OBVIOUS
  <2>3. Emit(src.sock, IF says THEN << <<"reply_acknowledged", k>> >> ELSE <<>>)
    BY DEF Acknowledge
  <2> HIDE DEF says
  <2> QED
    BY <2>1, <2>2, <2>3, EmitOneAcknowledges DEF BridgeInv, Evidence
<1> QED
  BY <1>5, <1>6, <1>7

-----------------------------------------------------------------------------
(* One lemma per handler *)

\* A hello keeps the invariant: it replays only what both snapshots hold.
LEMMA HelloSafe ==
  ASSUME BridgeInv, TypeOK', NEW s \in Sockets, NEW outcome, Hello(s, outcome)
  PROVE  BridgeInv'
<1> DEFINE i == SocketOwner[s]
           lk == [link EXCEPT ![s] = "open"]
           active == ActiveOwners(lk)
           noted == NoteSeen(store, i, active)
           r == Reconciled(noted, i, lk)
           saved == Save(noted, r.bindings, r.tombstones, FALSE, active, outcome)
           st == IF r.changed THEN saved.store ELSE noted
           replayed == {k \in Present(st.bindings, NoBinding) :
                          st.bindings[k].st = "prepared" /\ st.bindings[k].inst = i}
<1>1. /\ Clocks /\ i \in Installations /\ store \in Store
      /\ Sound(store, proved, consumed)
      /\ \A k \in sent \ consumed : store.bindings[k] # NoBinding
  BY OwnerAssumption, RunningSound DEF Hello, BridgeInv, TypeOK, Clocks
<1>2. /\ noted \in Store /\ Sound(noted, proved, consumed)
      /\ noted.bindings = store.bindings
  BY <1>1, NoteSeenType, NoteSeenSound, NoteSeenEffect
<1>3. /\ r.bindings \in Bindings /\ r.tombstones \in Tombstones
      /\ AllBacked(r.bindings, proved, consumed) /\ Buried(r.tombstones, consumed)
      /\ Keeps(noted.bindings, r.bindings, consumed)
  BY <1>1, <1>2, ReconciledType, ReconciledKeeps
<1>4. /\ link' = lk /\ store' = st
      /\ tasks' = {[t EXCEPT !.current = @ /\ t.key \notin r.taken] : t \in tasks}
      /\ pending' = [pending EXCEPT ![s] =
            [k \in Keys |-> IF k \in replayed THEN st.bindings[k] ELSE @[k]]]
      /\ \E order \in SetToSeqs(replayed) :
            Emit(s, [n \in 1..Len(order) |-> <<"agent_end", order[n]>>]
                      \o << <<"ready">> >>)
      /\ sent' = sent \cup replayed
      /\ running /\ UNCHANGED <<clock, running, startedAt, up, requests, consumed,
                                turns, proved>>
  BY DEF Hello
<1> HIDE DEF noted, i, r
<1>5. /\ Sound(saved.store, proved, consumed)
      /\ Keeps(noted.bindings, saved.store.bindings, consumed)
  BY <1>1, <1>2, <1>3, SaveSound
<1>6. Sound(st, proved, consumed) /\ Keeps(store.bindings, st.bindings, consumed)
  BY <1>2, <1>5 DEF Keeps
<1> HIDE DEF saved, st
<1>7. \A k \in sent' \ consumed : st.bindings[k] # NoBinding
  <2>1. \A k \in replayed : st.bindings[k] # NoBinding
    BY DEF Present
  <2>2. sent \subseteq Keys
    BY DEF BridgeInv, TypeOK
  <2> HIDE DEF replayed
  <2> QED
    BY <1>1, <1>4, <1>6, <2>1, <2>2 DEF Keeps
<1>8. \A x \in Sockets : AllBacked(pending'[x], proved, consumed)
  <2>1. AllBacked([k \in Keys |-> IF k \in replayed THEN st.bindings[k]
                                  ELSE pending[s][k]], proved, consumed)
    BY <1>6 DEF AllBacked, BridgeInv, Evidence, Sound, StoreBacked
  <2> HIDE DEF replayed
  <2> QED
    BY <1>4, <2>1 DEF BridgeInv, Evidence, TypeOK
<1>9. \A t \in tasks' : TaskBacked(t, proved, consumed)
  <2> SUFFICES ASSUME NEW t \in tasks
               PROVE  TaskBacked([t EXCEPT !.current = @ /\ t.key \notin r.taken],
                                 proved, consumed)
    BY <1>4
  <2>1. TaskBacked(t, proved, consumed) /\ t \in Task
    BY DEF BridgeInv, Evidence, TypeOK
  <2> QED
    BY <2>1 DEF TaskBacked, Task
<1>10. AcknowledgedIsConsumed'
  <2>1. PICK order \in SetToSeqs(replayed) :
          Emit(s, [n \in 1..Len(order) |-> <<"agent_end", order[n]>>]
                    \o << <<"ready">> >>)
    BY <1>4
  <2>2. replayed \subseteq Keys /\ Cardinality(replayed) \in Nat
    BY KeysAssumption, FS_Subset, FS_CardinalityType DEF Present
  <2>3. order \in Seq(Keys)
    BY <2>2 DEF SetToSeqs
  <2> DEFINE ends == [n \in 1..Len(order) |-> <<"agent_end", order[n]>>]
             last == << <<"ready">> >>
  <2>4. ends \in Seq(DownFrame) /\ last \in Seq(DownFrame)
    <3>1. \A n \in 1..Len(order) : <<"agent_end", order[n]>> \in DownFrame
      BY <2>3 DEF DownFrame
    <3>2. <<"ready">> \in DownFrame
      BY DEF DownFrame
    <3> HIDE DEF DownFrame
    <3> QED
      BY <2>3, <3>1, <3>2
  <2>5. ends \o last \in Seq(DownFrame)
    BY <2>4, ConcatProperties
  <2>6. \A n \in 1..Len(ends \o last), k \in Keys :
          (ends \o last)[n] # <<"reply_acknowledged", k>>
    <3> SUFFICES ASSUME NEW n \in 1..Len(ends \o last), NEW k \in Keys
                 PROVE  (ends \o last)[n] # <<"reply_acknowledged", k>>
      OBVIOUS
    <3>1. Len(ends) = Len(order) /\ Len(last) = 1 /\ Len(order) \in Nat
      BY <2>3
    <3>2. CASE n \in 1..Len(order)
      BY <2>4, <3>1, <3>2, ConcatProperties
    <3>3. CASE n = Len(order) + 1
      BY <2>4, <3>1, <3>3, ConcatProperties
    <3> QED
      BY <2>4, <3>1, <3>2, <3>3, ConcatProperties
  <2> HIDE DEF ends, last
  <2>7. Emit(s, ends \o last)
    BY <2>1 DEF ends, last
  <2> QED
    BY <1>4, <2>5, <2>6, <2>7, EmitAcknowledges DEF BridgeInv, Evidence
<1>11. ConsumedIsProved'
  BY <1>4 DEF BridgeInv, Evidence, ConsumedIsProved
<1> QED
  BY <1>4, <1>6, <1>7, <1>8, <1>9, <1>10, <1>11, SoundSafe

\* Preparing a reply keeps the invariant: it counts as sent only once saved.
LEMMA PrepareSafe ==
  ASSUME BridgeInv, TypeOK', NEW s \in Sockets, NEW k \in Keys, NEW swept,
         NEW outcome, Prepare(s, k, swept, outcome)
  PROVE  BridgeInv'
<1> DEFINE i == SocketOwner[s]
           st == Sweep(store, link, swept)
           b == Envelope(st, i)
           next == [st.bindings EXCEPT ![k] = b]
           available == /\ ~st.fenced
                        /\ Cardinality(Present(st.bindings, NoBinding)) < MaxBindings
           saved == SaveBindings(st, next, ActiveOwners(link), outcome)
           done == available /\ saved.ok
<1>1. /\ Clocks /\ i \in Installations /\ store \in Store
      /\ Sound(store, proved, consumed)
      /\ \A x \in sent \ consumed : store.bindings[x] # NoBinding
  BY OwnerAssumption, RunningSound DEF Prepare, BridgeInv, TypeOK, Clocks
<1>2. /\ st \in Store /\ Sound(st, proved, consumed)
      /\ Keeps(store.bindings, st.bindings, consumed)
  BY <1>1, SweepType, SweepSound
<1>3. /\ turns' = turns \ {k} /\ running /\ running' = running
      /\ store' = IF available THEN saved.store ELSE st
      /\ sent' = IF done THEN sent \cup {k} ELSE sent
      /\ pending' = IF done
                    THEN [pending EXCEPT ![s][k] = saved.store.bindings[k]]
                    ELSE pending
      /\ Emit(s, IF done THEN << <<"agent_end", k>> >> ELSE <<>>)
      /\ UNCHANGED <<tasks, requests, consumed, proved>>
  BY DEF Prepare
<1> HIDE DEF i, st
<1>4. b \in Binding /\ b # NoBinding /\ b.st = "prepared"
  <2>1. Later(Later(st.seen[i], clock), startedAt) \in Nat
    BY <1>1, <1>2, LaterType DEF Clocks, Store
  <2> QED
    BY <1>1, <2>1, AbsentAssumption DEF Envelope, Binding, Phase, Clocks
<1> HIDE DEF b
<1>5. /\ next \in Bindings /\ AllBacked(next, proved, consumed)
      /\ Keeps(st.bindings, next, consumed) /\ next[k] # NoBinding
  BY <1>2, <1>4 DEF Store, Bindings, AllBacked, Backed, Keeps, Sound, StoreBacked
<1>6. /\ saved.store \in Store /\ saved.ok \in BOOLEAN
      /\ Sound(saved.store, proved, consumed)
      /\ Keeps(st.bindings, saved.store.bindings, consumed)
      /\ saved.ok => Keeps(next, saved.store.bindings, consumed)
  <2>1. st.tombstones \in Tombstones /\ Buried(st.tombstones, consumed)
    BY <1>2 DEF Store, Sound, StoreBacked
  <2> HIDE DEF next
  <2> QED
    BY <1>1, <1>2, <1>5, <2>1, SaveSound, SaveType DEF SaveBindings
<1> HIDE DEF saved, available, next
<1>7. /\ Sound(store', proved, consumed)
      /\ Keeps(store.bindings, store'.bindings, consumed)
  BY <1>2, <1>3, <1>6 DEF Keeps
<1>8. \A x \in sent' \ consumed : store'.bindings[x] # NoBinding
  <2>1. sent \subseteq Keys
    BY DEF BridgeInv, TypeOK
  <2> QED
    BY <1>1, <1>3, <1>5, <1>6, <1>7, <2>1 DEF Keeps
<1>9. \A x \in Sockets : AllBacked(pending'[x], proved, consumed)
  BY <1>3, <1>6 DEF AllBacked, BridgeInv, Evidence, Sound, StoreBacked, TypeOK, Bindings
<1>10. AcknowledgedIsConsumed'
  <2>1. done \in BOOLEAN
    BY <1>6 DEF available
  <2> HIDE DEF done
  <2> QED
    BY <1>3, <2>1, EmitOneAcknowledges DEF BridgeInv, Evidence
<1>11. ConsumedIsProved' /\ \A t \in tasks' : TaskBacked(t, proved, consumed)
  BY <1>3 DEF BridgeInv, Evidence, ConsumedIsProved
<1> QED
  BY <1>3, <1>7, <1>8, <1>9, <1>10, <1>11, SoundSafe

\* More proofs and more consumptions back what was backed.
LEMMA BackedGrows ==
  ASSUME NEW P, NEW C, NEW Q, NEW D, P \subseteq Q, C \subseteq D
  PROVE  /\ \A b, k : Backed(b, k, P, C) => Backed(b, k, Q, D)
         /\ \A b : AllBacked(b, P, C) => AllBacked(b, Q, D)
         /\ \A t : TaskBacked(t, P, C) => TaskBacked(t, Q, D)
         /\ \A st : Sound(st, P, C) => Sound(st, Q, D)
<1>1. \A b, k : Backed(b, k, P, C) => Backed(b, k, Q, D)
  BY DEF Backed
<1>2. \A b : AllBacked(b, P, C) => AllBacked(b, Q, D)
  BY <1>1 DEF AllBacked
<1>3. \A t : TaskBacked(t, P, C) => TaskBacked(t, Q, D)
  BY <1>1 DEF TaskBacked
<1>4. \A t : Buried(t, C) => Buried(t, D)
  BY DEF Buried
<1>5. \A st : Sound(st, P, C) => Sound(st, Q, D)
  BY <1>2, <1>4 DEF Sound, StoreBacked, Held
<1> QED
  BY <1>1, <1>2, <1>3, <1>5

\* Moving a binding to a phase that is backed keeps the store sound.
LEMMA AdvanceSound ==
  ASSUME Clocks, NEW st \in Store, NEW k \in Keys, NEW b \in Binding,
         NEW p \in Phase, NEW active, NEW outcome, NEW P, NEW C,
         Sound(st, P, C), k \in P, p = "consumed" => k \in C
  PROVE  LET saved == SaveBindings(st, [st.bindings EXCEPT
                                ![k] = [b EXCEPT !.st = p, !.at = clock]],
                              active, outcome)
         IN  /\ Sound(saved.store, P, C)
             /\ Keeps(st.bindings, saved.store.bindings, C)
<1> DEFINE new == [b EXCEPT !.st = p, !.at = clock]
           next == [st.bindings EXCEPT ![k] = new]
<1>1. new \in Binding /\ new # NoBinding /\ new.st = p
  <2>1. new \in Binding /\ new.st = p
    BY DEF Binding, Clocks
  <2> QED
    BY <2>1, AbsentAssumption DEF Binding, Phase
<1> HIDE DEF new
<1>2. next \in Bindings /\ AllBacked(next, P, C) /\ Keeps(st.bindings, next, C)
  BY <1>1 DEF Store, Bindings, AllBacked, Backed, Keeps, Sound, StoreBacked
<1>3. st.tombstones \in Tombstones /\ Buried(st.tombstones, C)
  BY DEF Store, Sound, StoreBacked
<1> HIDE DEF next
<1>4. /\ Sound(SaveBindings(st, next, active, outcome).store, P, C)
      /\ Keeps(st.bindings, SaveBindings(st, next, active, outcome).store.bindings, C)
  BY <1>2, <1>3, SaveSound DEF SaveBindings
<1> QED
  BY <1>4 DEF next, new

\* Handling reply_received keeps the invariant: the proof comes first.
LEMMA ReceiveReplyAckSafe ==
  ASSUME BridgeInv, TypeOK', NEW s \in Sockets, NEW k \in Keys, NEW outcome,
         ReceiveReplyAck(s, k, outcome)
  PROVE  BridgeInv'
<1> DEFINE b == Owned(SourceOf(s), k)
           effect == IF clock < b.at THEN "pre" ELSE outcome
           saved == SaveBindings(store, [store.bindings EXCEPT
                                  ![k] = [b EXCEPT !.st = "received", !.at = clock]],
                                 ActiveOwners(link), effect)
           first == b # NoBinding /\ b.st = "prepared"
           confirmed == b # NoBinding /\ (first => saved.ok)
<1>1. b \in Binding \cup {NoBinding}
  BY OwnedType, SourceType DEF BridgeInv
<1>2. /\ running /\ running' = running
      /\ store' = IF first THEN saved.store ELSE store
      /\ pending' = IF first /\ saved.ok
                    THEN [pending EXCEPT ![s][k] = saved.store.bindings[k]]
                    ELSE pending
      /\ proved' = IF first THEN proved \cup {k} ELSE proved
      /\ Emit(s, IF confirmed THEN << <<"reply_received", k>> >> ELSE <<>>)
      /\ UNCHANGED <<tasks, requests, consumed, sent>>
  BY DEF ReceiveReplyAck, Takes
<1>3. /\ Clocks /\ store \in Store /\ Sound(store, proved, consumed)
      /\ \A x \in sent \ consumed : store.bindings[x] # NoBinding
      /\ sent \subseteq Keys
  BY <1>2, RunningSound DEF BridgeInv, TypeOK, Clocks
<1>4. /\ Sound(store, proved', consumed)
      /\ \A x \in Sockets : AllBacked(pending[x], proved', consumed)
      /\ \A t \in tasks : TaskBacked(t, proved', consumed)
  <2>1. proved \subseteq proved' /\ consumed \subseteq consumed
    BY <1>2
  <2> QED
    BY <1>3, <2>1, BackedGrows DEF BridgeInv, Evidence
<1>5. first => k \in proved' /\ b \in Binding
  BY <1>1, <1>2
<1> HIDE DEF b, effect
<1>6. first => /\ Sound(saved.store, proved', consumed)
               /\ Keeps(store.bindings, saved.store.bindings, consumed)
               /\ saved.store \in Store
  <2>1. "received" \in Phase
    BY DEF Phase
  <2> QED
    BY <1>3, <1>4, <1>5, <2>1, AdvanceSound, AdvanceType
<1>7. confirmed \in BOOLEAN
  OBVIOUS
<1> HIDE DEF saved, first, confirmed
<1>8. Sound(store', proved', consumed) /\ Keeps(store.bindings, store'.bindings, consumed)
  BY <1>2, <1>4, <1>6 DEF Keeps
<1>9. \A x \in sent \ consumed : store'.bindings[x] # NoBinding
  BY <1>3, <1>8 DEF Keeps
<1>10. \A x \in Sockets : AllBacked(pending'[x], proved', consumed)
  BY <1>2, <1>4, <1>6 DEF AllBacked, Sound, StoreBacked, BridgeInv, TypeOK, Bindings
<1>11. AcknowledgedIsConsumed'
  BY <1>2, <1>7, EmitOneAcknowledges DEF BridgeInv, Evidence
<1>12. ConsumedIsProved'
  BY <1>2 DEF BridgeInv, Evidence, ConsumedIsProved
<1> QED
  BY <1>2, <1>4, <1>8, <1>9, <1>10, <1>11, <1>12, SoundSafe

\* A step that leaves the store, the pending maps and the history alone keeps
\* the invariant when its tasks, requests and frames are backed.
LEMMA StoreUntouched ==
  ASSUME BridgeInv, TypeOK',
         UNCHANGED <<running, store, pending, consumed, sent, proved>>,
         \A t \in tasks' : TaskBacked(t, proved, consumed),
         requests' \subseteq proved, AcknowledgedIsConsumed'
  PROVE  BridgeInv'
BY DEF BridgeInv, Evidence, ConsumedIsProved, DiskHoldsMemory, Loadable,
       Retention, ReplyRetained

\* Handling reply_ack keeps the invariant.
LEMMA AcknowledgeReplyAckSafe ==
  ASSUME BridgeInv, TypeOK', NEW s \in Sockets, NEW k \in Keys,
         AcknowledgeReplyAck(s, k)
  PROVE  BridgeInv'
<1>1. /\ Acknowledge(SourceOf(s), k, timers) /\ consumed' = consumed
      /\ UNCHANGED <<running, store, pending, consumed, sent, proved>>
  BY DEF AcknowledgeReplyAck
<1>2. /\ \A t \in tasks' : TaskBacked(t, proved, consumed)
      /\ requests' \subseteq proved /\ AcknowledgedIsConsumed'
  BY <1>1, SourceType, AcknowledgeSafe
<1> QED
  BY <1>1, <1>2, StoreUntouched

\* So does a retry timer.
LEMMA RetryTimerSafe ==
  ASSUME BridgeInv, TypeOK', NEW k \in Keys, RetryTimer(k)
  PROVE  BridgeInv'
<1>1. /\ Acknowledge(timers[k], k, [timers EXCEPT ![k] = NoTimer])
      /\ UNCHANGED <<running, store, pending, consumed, sent, proved>>
  BY DEF RetryTimer
<1>2. timers[k] \in Source
  BY DEF RetryTimer, BridgeInv, TypeOK
<1>3. /\ \A t \in tasks' : TaskBacked(t, proved, consumed)
      /\ requests' \subseteq proved /\ AcknowledgedIsConsumed'
  BY <1>1, <1>2, AcknowledgeSafe
<1> QED
  BY <1>1, <1>3, StoreUntouched

\* An answered consume call keeps the invariant: telepathosd consumed the
\* receipt before it is stored, and said, to be consumed.
LEMMA ConsumeAnsweredSafe ==
  ASSUME BridgeInv, TypeOK', NEW t \in tasks, NEW outcome,
         ConsumeAnswered(t, outcome)
  PROVE  BridgeInv'
<1> DEFINE k == t.key
           effect == IF clock < t.b.at THEN "pre" ELSE outcome
           saved == SaveBindings(store, [store.bindings EXCEPT
                                  ![k] = [t.b EXCEPT !.st = "consumed", !.at = clock]],
                                 ActiveOwners(link), effect)
           same == store.bindings[k] = t.b
           done == same /\ saved.ok
           new == [t EXCEPT !.call = "sending", !.done = saved.store.bindings[k]]
<1>1. t \in Task /\ k \in Keys /\ t.b \in Binding /\ TaskBacked(t, proved, consumed)
  BY DEF BridgeInv, Evidence, TypeOK, Task
<1>2. /\ running /\ k \in consumed
      /\ store' = IF same THEN saved.store ELSE store
      /\ tasks' = (tasks \ {t}) \cup (IF done THEN {new} ELSE {})
      /\ Emit(t.src.sock, IF done THEN << <<"reply_acknowledged", k>> >> ELSE <<>>)
      /\ UNCHANGED <<running, pending, requests, consumed, sent, proved>>
  BY DEF ConsumeAnswered
<1>3. /\ Clocks /\ store \in Store /\ Sound(store, proved, consumed)
      /\ \A x \in sent \ consumed : store.bindings[x] # NoBinding
      /\ sent \subseteq Keys /\ k \in proved
  BY <1>1, <1>2, RunningSound DEF BridgeInv, TypeOK, Clocks, TaskBacked
<1> HIDE DEF effect
<1>4. /\ Sound(saved.store, proved, consumed)
      /\ Keeps(store.bindings, saved.store.bindings, consumed)
      /\ saved.store \in Store /\ saved.ok \in BOOLEAN
  <2>1. "consumed" \in Phase
    BY DEF Phase
  <2> HIDE DEF k
  <2> QED
    BY <1>1, <1>2, <1>3, <2>1, AdvanceSound, AdvanceType
<1> HIDE DEF saved
<1>5. Sound(store', proved, consumed) /\ Keeps(store.bindings, store'.bindings, consumed)
  BY <1>2, <1>3, <1>4 DEF Keeps
<1>6. \A x \in sent \ consumed : store'.bindings[x] # NoBinding
  BY <1>3, <1>5 DEF Keeps
<1>7. TaskBacked(new, proved, consumed)
  <2>1. Backed(saved.store.bindings[k], k, proved, consumed)
    BY <1>1, <1>4 DEF Sound, StoreBacked, AllBacked
  <2> QED
    BY <1>1, <1>2, <2>1 DEF TaskBacked, Task
<1>8. done \in BOOLEAN
  BY <1>4
<1> HIDE DEF new, done
<1>9. \A x \in tasks' : TaskBacked(x, proved, consumed)
  BY <1>2, <1>7 DEF BridgeInv, Evidence
<1>10. AcknowledgedIsConsumed'
  <2> HIDE DEF k
  <2> QED
    BY <1>1, <1>2, <1>8, EmitOneAcknowledges DEF BridgeInv, Evidence
<1>11. /\ ConsumedIsProved'
       /\ \A s \in Sockets : AllBacked(pending'[s], proved, consumed)
  BY <1>2 DEF BridgeInv, Evidence, ConsumedIsProved
<1> QED
  BY <1>2, <1>5, <1>6, <1>9, <1>10, <1>11, SoundSafe

\* A failed consume call keeps the invariant.
LEMMA ConsumeFailedSafe ==
  ASSUME BridgeInv, TypeOK', NEW t \in tasks, ConsumeFailed(t)
  PROVE  BridgeInv'
<1>1. /\ UNCHANGED <<running, store, pending, consumed, sent, proved, requests, down>>
      /\ tasks' \subseteq tasks
  BY DEF ConsumeFailed
<1>2. /\ \A x \in tasks' : TaskBacked(x, proved, consumed)
      /\ requests' \subseteq proved /\ AcknowledgedIsConsumed'
  BY <1>1 DEF BridgeInv, Evidence, ConsumedIsProved, AcknowledgedIsConsumed
<1> QED
  BY <1>1, <1>2, StoreUntouched

\* So does the end of a task.
LEMMA ConfirmationSentSafe ==
  ASSUME BridgeInv, TypeOK', NEW t \in tasks, ConfirmationSent(t)
  PROVE  BridgeInv'
<1>1. /\ UNCHANGED <<running, store, consumed, sent, proved, requests, down>>
      /\ tasks' \subseteq tasks /\ running
  BY DEF ConfirmationSent
<1>2. \A s \in Sockets : AllBacked(pending'[s], proved, consumed)
  BY DEF ConfirmationSent, BridgeInv, Evidence, TypeOK, Bindings, AllBacked, Backed
<1>3. /\ \A x \in tasks' : TaskBacked(x, proved, consumed)
      /\ ConsumedIsProved' /\ AcknowledgedIsConsumed'
  BY <1>1 DEF BridgeInv, Evidence, ConsumedIsProved, AcknowledgedIsConsumed
<1> QED
  BY <1>1, <1>2, <1>3, RunningSound, SoundSafe

\* Handling reply_ack_retire keeps the invariant: it drops consumed receipts.
LEMMA RetireReplyAckSafe ==
  ASSUME BridgeInv, TypeOK', NEW s \in Sockets, NEW k \in Keys, NEW outcome,
         RetireReplyAck(s, k, outcome)
  PROVE  BridgeInv'
<1> DEFINE b == store.bindings[k]
           t == store.tombstones[k]
           active == ActiveOwners(link)
           without == [store.bindings EXCEPT ![k] = NoBinding]
           unburied == [store.tombstones EXCEPT ![k] = NoTombstone]
           owned == Retirable(b, SocketOwner[s])
           buried == b = NoBinding /\ t # NoTombstone /\ t.inst = SocketOwner[s]
           nothing == b = NoBinding /\ t = NoTombstone
           dropped == SaveBindings(store, without, active, outcome)
           cleared == Save(store, store.bindings, unburied, FALSE, active, outcome)
           saved == IF owned THEN dropped ELSE cleared
           removed == (owned \/ buried) /\ saved.ok
<1>1. /\ running /\ store' = IF owned \/ buried THEN saved.store ELSE store
      /\ pending' = IF owned /\ removed
                    THEN [pending EXCEPT ![s][k] = NoBinding] ELSE pending
      /\ Emit(s, IF nothing \/ removed THEN << <<"reply_ack_retired", k>> >>
                 ELSE <<>>)
      /\ UNCHANGED <<running, tasks, requests, consumed, sent, proved>>
  BY DEF RetireReplyAck, Takes
<1>2. /\ Clocks /\ store \in Store /\ Sound(store, proved, consumed)
      /\ \A x \in sent \ consumed : store.bindings[x] # NoBinding
      /\ sent \subseteq Keys
  BY <1>1, RunningSound DEF BridgeInv, TypeOK, Clocks
<1>3. /\ store.bindings \in Bindings /\ store.tombstones \in Tombstones
      /\ AllBacked(store.bindings, proved, consumed)
      /\ Buried(store.tombstones, consumed)
      /\ Keeps(store.bindings, store.bindings, consumed)
  BY <1>2 DEF Store, Sound, StoreBacked, Keeps
<1>4. owned => /\ Sound(dropped.store, proved, consumed)
               /\ Keeps(store.bindings, dropped.store.bindings, consumed)
  <2> SUFFICES ASSUME owned
               PROVE  /\ Sound(dropped.store, proved, consumed)
                      /\ Keeps(store.bindings, dropped.store.bindings, consumed)
    OBVIOUS
  <2>1. k \in consumed
    BY <1>3 DEF Retirable, AllBacked, Backed
  <2>2. /\ without \in Bindings /\ AllBacked(without, proved, consumed)
        /\ Keeps(store.bindings, without, consumed)
    BY <1>3, <2>1 DEF Bindings, AllBacked, Backed, Keeps
  <2> HIDE DEF without
  <2> QED
    BY <1>2, <1>3, <2>2, SaveSound DEF SaveBindings
<1>5. /\ Sound(cleared.store, proved, consumed)
      /\ Keeps(store.bindings, cleared.store.bindings, consumed)
  <2>1. unburied \in Tombstones /\ Buried(unburied, consumed)
    BY <1>3 DEF Tombstones, Buried
  <2> HIDE DEF unburied
  <2> QED
    BY <1>2, <1>3, <2>1, SaveSound
<1>6. removed \in BOOLEAN
  <2>1. dropped.ok \in BOOLEAN /\ cleared.ok \in BOOLEAN
    BY DEF SaveBindings, Save
  <2> QED
    BY <2>1
<1> HIDE DEF dropped, cleared
<1>7. Sound(store', proved, consumed) /\ Keeps(store.bindings, store'.bindings, consumed)
  BY <1>1, <1>2, <1>3, <1>4, <1>5
<1> HIDE DEF removed
<1>8. \A x \in sent \ consumed : store'.bindings[x] # NoBinding
  BY <1>2, <1>7 DEF Keeps
<1>9. \A x \in Sockets : AllBacked(pending'[x], proved, consumed)
  BY <1>1 DEF BridgeInv, Evidence, TypeOK, Bindings, AllBacked, Backed
<1>10. AcknowledgedIsConsumed'
  <2>1. nothing \/ removed \in BOOLEAN
    BY <1>6
  <2> HIDE DEF nothing
  <2> QED
    BY <1>1, <2>1, EmitOneAcknowledges DEF BridgeInv, Evidence
<1>11. ConsumedIsProved' /\ \A x \in tasks' : TaskBacked(x, proved, consumed)
  BY <1>1 DEF BridgeInv, Evidence, ConsumedIsProved
<1> QED
  BY <1>1, <1>7, <1>8, <1>9, <1>10, <1>11, SoundSafe

\* Seeing a socket close keeps the invariant.
LEMMA CloseSafe ==
  ASSUME BridgeInv, TypeOK', NEW s \in Sockets, NEW outcome, Close(s, outcome)
  PROVE  BridgeInv'
<1> DEFINE lk == [link EXCEPT ![s] = "closed"]
           Gone(src) == IF src.sock = s THEN [src EXCEPT !.sock = NoSocket] ELSE src
<1>1. /\ running
      /\ store' = IF link[s] = "open" THEN Disconnected(store, s, lk, outcome)
                  ELSE store
      /\ pending' = [pending EXCEPT ![s] = EmptyBindings]
      /\ tasks' = {[t EXCEPT !.src = Gone(@)] : t \in tasks}
      /\ down' = [down EXCEPT ![s] = <<>>]
      /\ UNCHANGED <<running, requests, consumed, sent, proved>>
  BY DEF Close
<1>2. /\ Clocks /\ store \in Store /\ Sound(store, proved, consumed)
      /\ \A x \in sent \ consumed : store.bindings[x] # NoBinding
      /\ sent \subseteq Keys
  BY <1>1, RunningSound DEF BridgeInv, TypeOK, Clocks
<1>3. Sound(store', proved, consumed) /\ Keeps(store.bindings, store'.bindings, consumed)
  BY <1>1, <1>2, DisconnectedSound DEF Keeps
<1>4. \A x \in sent \ consumed : store'.bindings[x] # NoBinding
  BY <1>2, <1>3 DEF Keeps
<1>5. \A x \in Sockets : AllBacked(pending'[x], proved, consumed)
  BY <1>1 DEF BridgeInv, Evidence, TypeOK, AllBacked, Backed, EmptyBindings
<1>6. \A t \in tasks' : TaskBacked(t, proved, consumed)
  <2> HIDE DEF Gone
  <2> SUFFICES ASSUME NEW t \in tasks
               PROVE  TaskBacked([t EXCEPT !.src = Gone(@)], proved, consumed)
    BY <1>1
  <2>1. TaskBacked(t, proved, consumed) /\ t \in Task
    BY DEF BridgeInv, Evidence, TypeOK
  <2> QED
    BY <2>1 DEF TaskBacked, Task
<1>7. AcknowledgedIsConsumed'
  <2>1. \A x \in Sockets : down'[x] = <<>> \/ down'[x] = down[x]
    BY <1>1 DEF BridgeInv, TypeOK
  <2> QED
    BY <1>1, <2>1, QuietAcknowledges DEF BridgeInv, Evidence
<1>8. ConsumedIsProved'
  BY <1>1 DEF BridgeInv, Evidence, ConsumedIsProved
<1> QED
  BY <1>1, <1>3, <1>4, <1>5, <1>6, <1>7, <1>8, SoundSafe

\* The periodic sweep keeps the invariant.
LEMMA PeriodicSweepSafe ==
  ASSUME BridgeInv, TypeOK', NEW outcome, PeriodicSweep(outcome)
  PROVE  BridgeInv'
<1>1. /\ running /\ store' = Sweep(store, link, outcome)
      /\ UNCHANGED <<running, pending, tasks, down, requests, consumed, sent, proved>>
  BY DEF PeriodicSweep
<1>2. /\ Clocks /\ store \in Store /\ Sound(store, proved, consumed)
      /\ \A x \in sent \ consumed : store.bindings[x] # NoBinding
      /\ sent \subseteq Keys
  BY <1>1, RunningSound DEF BridgeInv, TypeOK, Clocks
<1>3. Sound(store', proved, consumed) /\ Keeps(store.bindings, store'.bindings, consumed)
  BY <1>1, <1>2, SweepSound
<1>4. \A x \in sent \ consumed : store'.bindings[x] # NoBinding
  BY <1>2, <1>3 DEF Keeps
<1>5. /\ \A x \in Sockets : AllBacked(pending'[x], proved, consumed)
      /\ \A t \in tasks' : TaskBacked(t, proved, consumed)
      /\ ConsumedIsProved' /\ AcknowledgedIsConsumed'
  BY <1>1 DEF BridgeInv, Evidence, ConsumedIsProved, AcknowledgedIsConsumed
<1> QED
  BY <1>1, <1>3, <1>4, <1>5, SoundSafe

-----------------------------------------------------------------------------
(* Crash, restart, time, telepathosd and the handset *)

\* A crash keeps the invariant: it touches neither snapshot.
LEMMA CrashSafe ==
  ASSUME BridgeInv, TypeOK', Crash
  PROVE  BridgeInv'
<1>1. /\ ~running' /\ tasks' = {} /\ pending' = [s \in Sockets |-> EmptyBindings]
      /\ down' = [s \in Sockets |-> <<>>]
      /\ UNCHANGED <<requests, consumed, sent, proved>>
  BY DEF Crash
<1>2. /\ store'.bindings = EmptyBindings /\ store'.tombstones = EmptyTombstones
      /\ store'.disk = store.disk /\ store'.prior = store.prior
  BY DEF Crash, BridgeInv, TypeOK, Store
<1>3. StoreBacked(store', proved, consumed) /\ Held(store', consumed)
  BY <1>2 DEF BridgeInv, Evidence, StoreBacked, AllBacked, Backed, Buried, Held,
              EmptyBindings, EmptyTombstones
<1>4. \A s \in Sockets : AllBacked(pending'[s], proved, consumed)
  BY <1>1 DEF AllBacked, Backed, EmptyBindings
<1>5. AcknowledgedIsConsumed'
  BY <1>1, QuietAcknowledges DEF BridgeInv, Evidence
<1>6. Evidence'
  BY <1>1, <1>3, <1>4, <1>5 DEF BridgeInv, Evidence, ConsumedIsProved
<1>7. DiskHoldsMemory' /\ Loadable' /\ Retention'
  BY <1>1, <1>2, <1>3 DEF BridgeInv, DiskHoldsMemory, Loadable, Retention, ReplyRetained
<1> QED
  BY <1>6, <1>7 DEF BridgeInv

\* A start keeps the invariant, whichever snapshot it finds.
LEMMA StartSafe ==
  ASSUME BridgeInv, TypeOK', Start
  PROVE  BridgeInv'
<1>1. PICK found \in {store.disk, store.prior} :
        store' = [store EXCEPT !.bindings = found.bindings,
                               !.tombstones = found.tombstones,
                               !.disk = found, !.prior = found, !.fenced = FALSE]
  BY DEF Start
<1>2. /\ store'.bindings = found.bindings /\ store'.tombstones = found.tombstones
      /\ store'.disk = found /\ store'.prior = found
  BY <1>1 DEF BridgeInv, TypeOK, Store
<1>3. /\ running'
      /\ UNCHANGED <<pending, tasks, down, requests, consumed, sent, proved>>
  BY DEF Start
<1>4. StoreBacked(store', proved, consumed)
  BY <1>2 DEF BridgeInv, Evidence, StoreBacked
<1>5. Mirrors(store') /\ Held(store', consumed)
  BY <1>2 DEF Mirrors, Held
<1>6. Fits(found)
  BY DEF BridgeInv, Loadable, Fits
<1>7. Sound(store', proved, consumed)
  BY <1>2, <1>4, <1>5, <1>6 DEF Sound
<1>8. \A k \in sent' \ consumed' : store'.bindings[k] # NoBinding
  BY <1>2, <1>3 DEF BridgeInv, Retention, ReplyRetained
<1>9. /\ \A s \in Sockets : AllBacked(pending'[s], proved, consumed)
      /\ \A t \in tasks' : TaskBacked(t, proved, consumed)
      /\ ConsumedIsProved' /\ AcknowledgedIsConsumed'
  BY <1>3 DEF BridgeInv, Evidence, ConsumedIsProved, AcknowledgedIsConsumed
<1> QED
  BY <1>3, <1>7, <1>8, <1>9, SoundSafe

\* Steps that change neither the store nor what is known of it keep the
\* invariant, when they only lose frames.
LEMMA QuietSafe ==
  ASSUME BridgeInv, TypeOK',
         UNCHANGED <<running, store, pending, tasks, requests, consumed, sent, proved>>,
         \A s \in Sockets : \A n \in 1..Len(down'[s]) :
           \E m \in 1..Len(down[s]) : down'[s][n] = down[s][m]
  PROVE  BridgeInv'
<1>1. AcknowledgedIsConsumed'
  BY DEF BridgeInv, Evidence, AcknowledgedIsConsumed
<1>2. /\ \A t \in tasks' : TaskBacked(t, proved, consumed)
      /\ requests' \subseteq proved
  BY DEF BridgeInv, Evidence, ConsumedIsProved
<1> QED
  BY <1>1, <1>2, StoreUntouched

\* Time, dialling, writing and reading are such steps.
LEMMA EnvironmentSafe ==
  ASSUME BridgeInv, TypeOK', Tick \/ Rollback \/ HandsetNext
  PROVE  BridgeInv'
<1>1. CASE Tick \/ Rollback
  BY <1>1, QuietSafe DEF Tick, Rollback
<1>2. ASSUME NEW s \in Sockets, Dial(s) PROVE BridgeInv'
  BY <1>2, QuietSafe DEF Dial
<1>3. ASSUME NEW s \in Sockets, NEW f \in HandsetOps \X Keys, Write(s, f)
      PROVE  BridgeInv'
  BY <1>3, QuietSafe DEF Write
<1>4. ASSUME NEW s \in Sockets, Read(s) PROVE BridgeInv'
  <2>1. /\ down[s] \in Seq(DownFrame) /\ down[s] # <<>>
        /\ down' = [down EXCEPT ![s] = Tail(@)]
        /\ down \in [Sockets -> Seq(DownFrame)]
    BY <1>4 DEF Read, BridgeInv, TypeOK
  <2>2. \A n \in 1..Len(Tail(down[s])) :
          n + 1 \in 1..Len(down[s]) /\ Tail(down[s])[n] = down[s][n + 1]
    BY <2>1, HeadTailProperties
  <2>3. \A x \in Sockets : \A n \in 1..Len(down'[x]) :
          \E m \in 1..Len(down[x]) : down'[x][n] = down[x][m]
    BY <2>1, <2>2
  <2> QED
    BY <1>4, <2>3, QuietSafe DEF Read
<1> QED
  BY <1>1, <1>2, <1>3, <1>4 DEF HandsetNext

\* telepathosd consuming a delivery keeps the invariant.
LEMMA TelepathosdConsumesSafe ==
  ASSUME BridgeInv, TypeOK', NEW k \in Keys, TelepathosdConsumes(k)
  PROVE  BridgeInv'
<1>1. /\ k \in requests /\ requests' = requests \ {k}
      /\ consumed' = consumed \cup {k} /\ proved \subseteq proved
      /\ consumed \subseteq consumed'
      /\ UNCHANGED <<running, store, pending, tasks, down, sent, proved>>
  BY DEF TelepathosdConsumes
<1>2. /\ \A b : AllBacked(b, proved, consumed) => AllBacked(b, proved, consumed')
      /\ \A t : TaskBacked(t, proved, consumed) => TaskBacked(t, proved, consumed')
  BY <1>1, BackedGrows
<1>3. StoreBacked(store, proved, consumed')
  BY <1>1, <1>2 DEF BridgeInv, Evidence, StoreBacked, Buried
<1>4. Evidence'
  <2>1. AcknowledgedIsConsumed'
    BY <1>1 DEF BridgeInv, Evidence, AcknowledgedIsConsumed
  <2>2. ConsumedIsProved'
    BY <1>1 DEF BridgeInv, Evidence, ConsumedIsProved
  <2> QED
    BY <1>1, <1>2, <1>3, <2>1, <2>2 DEF BridgeInv, Evidence
<1>5. Retention'
  BY <1>1 DEF BridgeInv, Retention, Held, ReplyRetained
<1> QED
  BY <1>1, <1>4, <1>5 DEF BridgeInv, DiskHoldsMemory, Loadable

-----------------------------------------------------------------------------
(* The theorems *)

\* The initial state satisfies the invariant.
LEMMA InitSafe == Init => BridgeInv
<1> SUFFICES ASSUME Init PROVE BridgeInv
  OBVIOUS
<1>1. /\ Present(EmptyBindings, NoBinding) = {}
      /\ Present(EmptyTombstones, NoTombstone) = {}
  BY DEF Present, EmptyBindings, EmptyTombstones
<1>2. Loadable
  <2>1. Cardinality({}) = 0
    BY FS_EmptySet
  <2>2. store.disk = EmptySnapshot /\ store.prior = EmptySnapshot
    BY DEF Init
  <2>3. Fits(EmptySnapshot)
    BY <1>1, <2>1, BoundAssumption DEF Fits, EmptySnapshot
  <2> QED
    BY <2>2, <2>3 DEF Loadable, Fits
<1>3. AllBacked(EmptyBindings, proved, consumed) /\ Buried(EmptyTombstones, consumed)
  BY DEF AllBacked, Backed, Buried, EmptyBindings, EmptyTombstones
<1>4. AcknowledgedIsConsumed
  BY DEF Init, AcknowledgedIsConsumed
<1>5. Evidence
  BY <1>3, <1>4 DEF Init, Evidence, StoreBacked, EmptySnapshot, ConsumedIsProved
<1>6. Retention
  BY DEF Init, Retention, Held, ReplyRetained, EmptySnapshot, EmptyBindings
<1>7. DiskHoldsMemory
  BY DEF Init, DiskHoldsMemory, EmptySnapshot, EmptyTombstones
<1> QED
  BY <1>2, <1>5, <1>6, <1>7, InitType DEF BridgeInv

\* Every step preserves it.
LEMMA StepSafe == BridgeInv /\ [Next]_vars => BridgeInv'
<1> SUFFICES ASSUME BridgeInv, [Next]_vars PROVE BridgeInv'
  OBVIOUS
<1>1. TypeOK'
  BY StepType DEF BridgeInv
<1>2. CASE BridgeNext
  <2>1. ASSUME NEW s \in Sockets, NEW o \in SaveOutcomes, Hello(s, o)
        PROVE  BridgeInv'
    BY <1>1, <2>1, HelloSafe
  <2>2. ASSUME NEW s \in Sockets, NEW k \in Keys, NEW w \in SaveOutcomes,
               NEW o \in SaveOutcomes, Prepare(s, k, w, o)
        PROVE  BridgeInv'
    BY <1>1, <2>2, PrepareSafe
  <2>3. ASSUME NEW s \in Sockets, NEW k \in Keys, NEW o \in SaveOutcomes,
               ReceiveReplyAck(s, k, o)
        PROVE  BridgeInv'
    BY <1>1, <2>3, ReceiveReplyAckSafe
  <2>4. ASSUME NEW s \in Sockets, NEW k \in Keys, AcknowledgeReplyAck(s, k)
        PROVE  BridgeInv'
    BY <1>1, <2>4, AcknowledgeReplyAckSafe
  <2>5. ASSUME NEW k \in Keys, RetryTimer(k) PROVE BridgeInv'
    BY <1>1, <2>5, RetryTimerSafe
  <2>6. ASSUME NEW t \in tasks, NEW o \in SaveOutcomes, ConsumeAnswered(t, o)
        PROVE  BridgeInv'
    BY <1>1, <2>6, ConsumeAnsweredSafe
  <2>7. ASSUME NEW t \in tasks, ConsumeFailed(t) PROVE BridgeInv'
    BY <1>1, <2>7, ConsumeFailedSafe
  <2>8. ASSUME NEW t \in tasks, ConfirmationSent(t) PROVE BridgeInv'
    BY <1>1, <2>8, ConfirmationSentSafe
  <2>9. ASSUME NEW s \in Sockets, NEW k \in Keys, NEW o \in SaveOutcomes,
               RetireReplyAck(s, k, o)
        PROVE  BridgeInv'
    BY <1>1, <2>9, RetireReplyAckSafe
  <2>10. ASSUME NEW s \in Sockets, NEW o \in SaveOutcomes, Close(s, o)
         PROVE  BridgeInv'
    BY <1>1, <2>10, CloseSafe
  <2>11. ASSUME NEW o \in SaveOutcomes, PeriodicSweep(o) PROVE BridgeInv'
    BY <1>1, <2>11, PeriodicSweepSafe
  <2>12. ASSUME NEW k \in Keys, TelepathosdConsumes(k) PROVE BridgeInv'
    BY <1>1, <2>12, TelepathosdConsumesSafe
  <2> QED
    BY <1>1, <1>2, <2>1, <2>2, <2>3, <2>4, <2>5, <2>6, <2>7, <2>8, <2>9, <2>10,
       <2>11, <2>12, CrashSafe, StartSafe, EnvironmentSafe DEF BridgeNext
<1>3. CASE HandsetNext
  BY <1>1, <1>3, EnvironmentSafe
<1>4. CASE UNCHANGED vars
  BY <1>1, <1>4, QuietSafe DEF vars
<1> QED
  BY <1>2, <1>3, <1>4 DEF Next

\* The invariant holds in every reachable state.
THEOREM BridgeCorrect == Spec => []BridgeInv
BY InitSafe, StepSafe, PTL DEF Spec

\* No reply that was sent and not consumed is lost by a crash, a save that
\* failed or one left in doubt, a takeover or a sweep: whichever snapshot a
\* restart finds still holds it.
THEOREM ReplyNeverLost == Spec => []ReplyRetained
<1>1. BridgeInv => ReplyRetained
  BY DEF BridgeInv, Retention
<1> QED
  BY <1>1, BridgeCorrect, PTL

\* telepathosd is asked to consume only what a handset proved it stored.
THEOREM ConsumptionIsProved == Spec => []ConsumedIsProved
<1>1. BridgeInv => ConsumedIsProved
  BY DEF BridgeInv, Evidence
<1> QED
  BY <1>1, BridgeCorrect, PTL

\* A handset is told reply_acknowledged only of a delivery telepathosd consumed.
THEOREM AcknowledgementIsTrue == Spec => []AcknowledgedIsConsumed
<1>1. BridgeInv => AcknowledgedIsConsumed
  BY DEF BridgeInv, Evidence
<1> QED
  BY <1>1, BridgeCorrect, PTL

\* While the store is not fenced the file mirrors the process.
THEOREM FileMirrorsProcess == Spec => []DiskHoldsMemory
<1>1. BridgeInv => DiskHoldsMemory
  BY DEF BridgeInv
<1> QED
  BY <1>1, BridgeCorrect, PTL

\* Any snapshot a restart may find respects the caps and names no receipt twice.
THEOREM RestartLoads == Spec => []Loadable
<1>1. BridgeInv => Loadable
  BY DEF BridgeInv
<1> QED
  BY <1>1, BridgeCorrect, PTL

\* A crash loses no confirmed receipt and leaves a file the next start accepts.
THEOREM FileStaysCurrent == Spec => []FileIsCurrent
<1> QED
  BY FileMirrorsProcess, RestartLoads, PTL DEF FileIsCurrent

-----------------------------------------------------------------------------
(* Owners *)

\* No copy of the store binds receipt k.
Unbound(st, k) ==
  /\ st.bindings[k] = NoBinding /\ st.disk.bindings[k] = NoBinding
  /\ st.prior.bindings[k] = NoBinding

\* Binding c belongs to the owner of b.
Inherits(b, c) == c # NoBinding => b # NoBinding /\ c.inst = b.inst

\* Binding c belongs to the owner of b, whose last sighting is not forgotten.
Continues(b, seen, c, seen2) ==
  /\ Inherits(b, c)
  /\ c # NoBinding => LastSeenAt(b, seen) <= LastSeenAt(c, seen2)

\* From st to st2 receipt k changes hands nowhere.
Undisputed(st, st2, k) ==
  /\ Continues(st.bindings[k], st.seen, st2.bindings[k], st2.seen)
  /\ Inherits(st.disk.bindings[k], st2.disk.bindings[k])
  /\ Unbound(st, k) => Unbound(st2, k)

\* A clock reading is no later than the later of two.
LEMMA LaterGrows ==
  ASSUME NEW m \in Nat, NEW n \in Nat
  PROVE  m <= Later(m, n) /\ n <= Later(m, n)
BY DEF Later

\* A binding that carries the last sighting of its owner needs no cache.
LEMMA SeenSuffices ==
  ASSUME Clocks, NEW b \in Binding, NEW seen \in [Installations -> Nat]
  PROVE  b.seen <= LastSeenAt(b, seen)
BY DEF LastSeenAt, Later, Clocks, Binding

\* Nothing about a receipt changes hands when the store does not change.
LEMMA UndisputedSame ==
  ASSUME Clocks, NEW st \in Store, NEW k \in Keys
  PROVE  Undisputed(st, st, k)
<1>1. st.bindings[k] # NoBinding => LastSeenAt(st.bindings[k], st.seen) \in Nat
  BY LastSeenType DEF Store, Bindings
<1> QED
  BY <1>1 DEF Undisputed, Continues, Inherits

\* Two changes in a row that dispute nothing dispute nothing together.
LEMMA UndisputedTwice ==
  ASSUME Clocks, NEW st \in Store, NEW mid \in Store, NEW st2 \in Store,
         NEW k \in Keys, Undisputed(st, mid, k), Undisputed(mid, st2, k)
  PROVE  Undisputed(st, st2, k)
<1>1. \A x \in Store : x.bindings[k] # NoBinding =>
                         LastSeenAt(x.bindings[k], x.seen) \in Nat
  BY LastSeenType DEF Store, Bindings
<1>2. Inherits(st.bindings[k], st2.bindings[k])
  BY DEF Undisputed, Continues, Inherits
<1>3. st2.bindings[k] # NoBinding =>
        LastSeenAt(st.bindings[k], st.seen) <= LastSeenAt(st2.bindings[k], st2.seen)
  BY <1>1 DEF Undisputed, Continues, Inherits
<1>4. Inherits(st.disk.bindings[k], st2.disk.bindings[k])
  BY DEF Undisputed, Inherits
<1> QED
  BY <1>2, <1>3, <1>4 DEF Undisputed, Continues

\* What a snapshot says of the owner of a receipt.
LEMMA RefreshedContinues ==
  ASSUME Clocks, NEW b \in Bindings, NEW seen \in [Installations -> Nat],
         NEW seen2 \in [Installations -> Nat], NEW k \in Keys, b[k] # NoBinding
  PROVE  LastSeenAt(b[k], seen) <= LastSeenAt(Refreshed(b, seen)[k], seen2)
<1>1. b[k] \in Binding
  BY DEF Bindings
<1>2. LastSeenAt(b[k], seen) \in Nat
  BY <1>1, LastSeenType
<1>3. Refreshed(b, seen)[k] = [b[k] EXCEPT !.seen = LastSeenAt(b[k], seen)]
  BY DEF Refreshed
<1>4. /\ Refreshed(b, seen)[k] \in Binding
      /\ Refreshed(b, seen)[k].seen = LastSeenAt(b[k], seen)
  BY <1>1, <1>2, <1>3 DEF Binding
<1> QED
  BY <1>2, <1>4, SeenSuffices

\* A save that fails leaves the high-water cache alone.
LEMMA FailedSaveSeen ==
  ASSUME NEW st \in Store, NEW b, NEW t, NEW sameMap, NEW active, NEW outcome,
         ~Save(st, b, t, sameMap, active, outcome).ok
  PROVE  Save(st, b, t, sameMap, active, outcome).store.seen = st.seen
<1> DEFINE snapshot == SnapshotOf(st, b, t)
<1> HIDE DEF snapshot
<1>1. [st EXCEPT !.disk = snapshot, !.prior = st.disk, !.fenced = TRUE].seen = st.seen
  BY DEF Store
<1> USE DEF snapshot
<1> QED
  BY <1>1 DEF Save

\* A save whose bindings continue those of the process disputes nothing.
LEMMA SaveUndisputed ==
  ASSUME Clocks, NEW st \in Store, NEW b \in Bindings, NEW t \in Tombstones,
         NEW sameMap, NEW active, NEW outcome, NEW k \in Keys, Mirrors(st),
         Continues(st.bindings[k], st.seen, b[k], st.seen)
  PROVE  Undisputed(st, Save(st, b, t, sameMap, active, outcome).store, k)
<1> DEFINE saved == Save(st, b, t, sameMap, active, outcome)
           normal == Refreshed(b, st.seen)
           snapshot == SnapshotOf(st, b, t)
<1>1. /\ normal[k] = NoBinding <=> b[k] = NoBinding
      /\ b[k] # NoBinding => normal[k].inst = b[k].inst
  BY RefreshedKeeps DEF Store
<1>2. saved.store \in Store
  BY SaveType
<1>3. /\ st.bindings[k] # NoBinding => LastSeenAt(st.bindings[k], st.seen) \in Nat
      /\ b[k] # NoBinding => LastSeenAt(b[k], st.seen) \in Nat
  BY LastSeenType DEF Store, Bindings
<1>4. snapshot.bindings = normal
  BY DEF SnapshotOf
<1>5. Inherits(st.bindings[k], normal[k])
  BY <1>1 DEF Continues, Inherits
<1>6. CASE ~saved.ok /\ saved.store = st
  BY <1>6, UndisputedSame
<1>7. CASE /\ ~saved.ok /\ ~st.fenced
           /\ saved.store.bindings = st.bindings
           /\ saved.store.disk = snapshot /\ saved.store.prior = st.disk
  <2>1. saved.store.seen = st.seen
    BY <1>7, FailedSaveSeen
  <2> HIDE DEF saved, normal, snapshot
  <2>2. Continues(st.bindings[k], st.seen, saved.store.bindings[k], saved.store.seen)
    BY <1>3, <1>7, <2>1 DEF Continues, Inherits
  <2>3. st.disk.bindings = st.bindings
    BY <1>7 DEF Mirrors
  <2> QED
    BY <1>4, <1>5, <1>7, <2>2, <2>3 DEF Undisputed, Unbound, Inherits, saved
<1>8. CASE /\ saved.ok /\ ~st.fenced
           /\ saved.store.bindings = normal
           /\ saved.store.disk = snapshot /\ saved.store.prior = snapshot
  <2>1. b[k] # NoBinding =>
          LastSeenAt(b[k], st.seen) <= LastSeenAt(normal[k], saved.store.seen)
    BY <1>2, RefreshedContinues DEF Store
  <2>2. normal[k] # NoBinding => LastSeenAt(normal[k], saved.store.seen) \in Nat
    BY <1>2, <1>8, LastSeenType DEF Store, Bindings
  <2>3. st.disk.bindings = st.bindings
    BY <1>8 DEF Mirrors
  <2> HIDE DEF saved, normal, snapshot
  <2>4. normal[k] # NoBinding =>
          LastSeenAt(st.bindings[k], st.seen) <= LastSeenAt(normal[k], saved.store.seen)
    BY <1>1, <1>3, <2>1, <2>2 DEF Continues, Inherits
  <2> QED
    BY <1>4, <1>5, <1>8, <2>3, <2>4 DEF Undisputed, Continues, Unbound, Inherits, saved
<1> HIDE DEF saved, normal, snapshot
<1> QED
  BY <1>6, <1>7, <1>8, SaveEffect DEF saved, normal, snapshot

\* Sighting one owner forgets no sighting of the owner of a live binding.
LEMMA NoteSeenUndisputed ==
  ASSUME Clocks, NEW st \in Store, NEW i \in Installations, NEW active,
         NEW k \in Keys
  PROVE  LET noted == NoteSeen(st, i, active)
         IN  /\ Undisputed(st, noted, k)
             /\ st.bindings[k] # NoBinding /\ st.bindings[k].inst = i =>
                  clock <= LastSeenAt(st.bindings[k], noted.seen)
<1> DEFINE noted == NoteSeen(st, i, active)
           more == [st.seen EXCEPT ![i] = Later(Later(@, clock), startedAt)]
           b == st.bindings[k]
<1>1. noted.seen = PruneSeen(more, active, st.bindings, st.tombstones)
  BY DEF NoteSeen, Store
<1>2. more \in [Installations -> Nat] /\ \A j \in Installations : st.seen[j] <= more[j]
  BY DEF Store, Later, Clocks
<1>3. clock <= more[i]
  BY DEF Store, Later, Clocks
<1>4. SUFFICES ASSUME b # NoBinding
               PROVE  /\ LastSeenAt(b, st.seen) <= LastSeenAt(b, noted.seen)
                      /\ b.inst = i => clock <= LastSeenAt(b, noted.seen)
  BY NoteSeenEffect DEF Undisputed, Continues, Inherits, Unbound
<1>5. b \in Binding
  BY <1>4 DEF Store, Bindings
<1>6. noted.seen[b.inst] = more[b.inst]
  BY <1>1, <1>4, <1>5 DEF PruneSeen, Present, Binding
<1> HIDE DEF noted, more, b
<1> QED
  BY <1>2, <1>3, <1>5, <1>6 DEF LastSeenAt, Later, Clocks, Binding, Store

\* Nor does the sweep, which only takes bindings away.
LEMMA ReclaimContinues ==
  ASSUME Clocks, NEW st \in Store, NEW S, NEW k \in Keys
  PROVE  Continues(st.bindings[k], st.seen, Reclaim(st, S).bindings[k], st.seen)
<1>1. Reclaim(st, S).bindings[k] \in {st.bindings[k], NoBinding}
  BY DEF Reclaim
<1>2. st.bindings[k] # NoBinding => LastSeenAt(st.bindings[k], st.seen) \in Nat
  BY LastSeenType DEF Store, Bindings
<1> QED
  BY <1>1, <1>2 DEF Continues, Inherits

\* A sweep disputes nothing, whatever becomes of its write.
LEMMA SweepUndisputed ==
  ASSUME Clocks, NEW st \in Store, NEW lk, NEW outcome, NEW k \in Keys, Mirrors(st)
  PROVE  Undisputed(st, Sweep(st, lk, outcome), k)
<1> DEFINE S == {x \in Reclaimable(st) : st.bindings[x].inst \notin ActiveOwners(lk)}
           r == Reclaim(st, S)
           saved == Save(st, r.bindings, r.tombstones, FALSE, ActiveOwners(lk), outcome)
<1>1. r.bindings \in Bindings /\ r.tombstones \in Tombstones
  BY ReclaimType DEF Reclaimable
<1>2. Continues(st.bindings[k], st.seen, r.bindings[k], st.seen)
  BY ReclaimContinues
<1>3. Sweep(st, lk, outcome) = IF r.changed THEN saved.store ELSE st
  BY DEF Sweep
<1> HIDE DEF S, r
<1>4. Undisputed(st, saved.store, k)
  BY <1>1, <1>2, SaveUndisputed
<1> QED
  BY <1>3, <1>4, UndisputedSame

\* When a socket closes, nothing changes hands and its owner was just sighted.
LEMMA DisconnectedUndisputed ==
  ASSUME Clocks, NEW st \in Store, NEW s \in Sockets, NEW lk, NEW outcome,
         NEW k \in Keys, Mirrors(st)
  PROVE  LET gone == Disconnected(st, s, lk, outcome)
         IN  /\ Undisputed(st, gone, k)
             /\ gone.bindings[k] # NoBinding /\ gone.bindings[k].inst = SocketOwner[s] =>
                  clock <= LastSeenAt(gone.bindings[k], gone.seen)
<1> DEFINE i == SocketOwner[s]
           noted == NoteSeen(st, i, ActiveOwners(lk))
           next == [x \in Keys |->
                      IF noted.bindings[x] # NoBinding /\ noted.bindings[x].inst = i
                      THEN [noted.bindings[x] EXCEPT
                              !.seen = LastSeenAt(noted.bindings[x], noted.seen)]
                      ELSE noted.bindings[x]]
           saved == SaveBindings(noted, next, ActiveOwners(lk), outcome)
           gone == Disconnected(st, s, lk, outcome)
<1>1. noted \in Store /\ i \in Installations
  BY OwnerAssumption, NoteSeenType
<1>2. Mirrors(noted) /\ noted.bindings = st.bindings
  BY NoteSeenEffect DEF Mirrors
<1>3. gone = IF next # noted.bindings THEN saved.store ELSE noted
  BY DEF Disconnected
<1>4. /\ Undisputed(st, noted, k)
      /\ noted.bindings[k] # NoBinding /\ noted.bindings[k].inst = i =>
           clock <= LastSeenAt(noted.bindings[k], noted.seen)
  BY <1>1, <1>2, NoteSeenUndisputed
<1> HIDE DEF noted, i
<1>5. \A x \in Keys : noted.bindings[x] # NoBinding =>
        /\ noted.bindings[x] \in Binding
        /\ next[x] \in Binding /\ next[x].inst = noted.bindings[x].inst
        /\ LastSeenAt(noted.bindings[x], noted.seen) \in Nat
        /\ next[x] # noted.bindings[x] =>
             next[x].seen = LastSeenAt(noted.bindings[x], noted.seen)
  <2> SUFFICES ASSUME NEW x \in Keys, noted.bindings[x] # NoBinding
               PROVE  /\ noted.bindings[x] \in Binding
                      /\ next[x] \in Binding /\ next[x].inst = noted.bindings[x].inst
                      /\ LastSeenAt(noted.bindings[x], noted.seen) \in Nat
                      /\ next[x] # noted.bindings[x] =>
                           next[x].seen = LastSeenAt(noted.bindings[x], noted.seen)
    OBVIOUS
  <2>1. noted.bindings[x] \in Binding
    BY <1>1 DEF Store, Bindings
  <2>2. LastSeenAt(noted.bindings[x], noted.seen) \in Nat
    BY <1>1, <2>1, LastSeenType DEF Store
  <2>3. [noted.bindings[x] EXCEPT !.seen = LastSeenAt(noted.bindings[x], noted.seen)]
          \in Binding
    BY <2>1, <2>2 DEF Binding
  <2> QED
    BY <2>1, <2>2, <2>3 DEF Binding
<1>6. next \in Bindings /\ \A x \in Keys : noted.bindings[x] = NoBinding => next[x] = NoBinding
  BY <1>1, <1>5 DEF Bindings, Store
<1> HIDE DEF next
<1>7. next[k] # NoBinding =>
        /\ noted.bindings[k] # NoBinding /\ next[k].inst = noted.bindings[k].inst
        /\ LastSeenAt(noted.bindings[k], noted.seen) <= LastSeenAt(next[k], noted.seen)
  <2> SUFFICES ASSUME next[k] # NoBinding
               PROVE  LastSeenAt(noted.bindings[k], noted.seen)
                        <= LastSeenAt(next[k], noted.seen)
    BY <1>5, <1>6
  <2>1. next[k].seen <= LastSeenAt(next[k], noted.seen)
    BY <1>1, <1>5, <1>6, SeenSuffices DEF Store
  <2> QED
    BY <1>5, <1>6, <2>1
<1>8. Undisputed(noted, saved.store, k)
  BY <1>1, <1>2, <1>6, <1>7, SaveUndisputed DEF SaveBindings, Store, Continues, Inherits
<1>9. saved.store \in Store
  BY <1>1, <1>6, SaveType DEF SaveBindings, Store
<1> HIDE DEF saved
<1>10. Undisputed(st, saved.store, k)
  BY <1>1, <1>4, <1>8, <1>9, UndisputedTwice
<1>11. saved.store.bindings[k] # NoBinding /\ saved.store.bindings[k].inst = i =>
         clock <= LastSeenAt(saved.store.bindings[k], saved.store.seen)
  <2> SUFFICES ASSUME saved.store.bindings[k] # NoBinding,
                      saved.store.bindings[k].inst = i
               PROVE  clock <= LastSeenAt(saved.store.bindings[k], saved.store.seen)
    OBVIOUS
  <2>1. /\ noted.bindings[k] # NoBinding /\ noted.bindings[k].inst = i
        /\ LastSeenAt(noted.bindings[k], noted.seen)
             <= LastSeenAt(saved.store.bindings[k], saved.store.seen)
    BY <1>8 DEF Undisputed, Continues, Inherits
  <2>2. LastSeenAt(saved.store.bindings[k], saved.store.seen) \in Nat
    BY <1>9, LastSeenType DEF Store, Bindings
  <2> QED
    BY <1>4, <1>5, <2>1, <2>2 DEF Clocks
<1> QED
  BY <1>3, <1>4, <1>10, <1>11 DEF i

\* A hello gives no receipt to another owner, unless its owner has no socket
\* and is abandoned; then the owner of the hello may get it.
LEMMA HelloUndisputed ==
  ASSUME BridgeInv, NEW s \in Sockets, NEW outcome, Hello(s, outcome), NEW k \in Keys
  PROVE  \/ Undisputed(store, store', k)
         \/ /\ store.bindings[k] # NoBinding
            /\ store.bindings[k].inst \notin ActiveOwners(link')
            /\ \E n \in Nat : /\ LastSeenAt(store.bindings[k], store.seen) <= n
                              /\ Elapsed(n, OwnerAbandonment)
            /\ \/ store'.bindings[k].inst = SocketOwner[s]
               \/ Continues(store.bindings[k], store.seen, store'.bindings[k], store'.seen)
            /\ \/ store'.disk.bindings[k] = store.disk.bindings[k]
               \/ ~store.fenced /\ store'.disk.bindings[k].inst = SocketOwner[s]
<1> PICK same : same = FALSE
  OBVIOUS
<1> DEFINE i == SocketOwner[s]
           lk == [link EXCEPT ![s] = "open"]
           active == ActiveOwners(lk)
           noted == NoteSeen(store, i, active)
           r == Reclaim(noted, Reclaimable(noted))
           skipped == {x \in Present(noted.bindings, NoBinding) :
                         r.bindings[x] = NoBinding}
           taken == Taken(noted, i, lk, skipped)
           now(b) == Later(LastSeenAt(b, noted.seen), clock)
           next == [x \in Keys |->
                      IF r.bindings[x] = NoBinding THEN NoBinding
                      ELSE IF x \in taken
                      THEN [inst |-> i, st |-> "prepared", at |-> clock,
                            seen |-> now(noted.bindings[x])]
                      ELSE IF noted.bindings[x].inst = i
                      THEN [noted.bindings[x] EXCEPT !.seen = now(noted.bindings[x])]
                      ELSE noted.bindings[x]]
           want == Reconciled(noted, i, lk)
           saved == Save(noted, want.bindings, want.tombstones, same, active, outcome)
           b == store.bindings[k]
<1>1. Clocks /\ store \in Store /\ i \in Installations /\ running
  BY OwnerAssumption DEF BridgeInv, TypeOK, Clocks, Hello
<1>2. Mirrors(store)
  BY <1>1 DEF BridgeInv, DiskHoldsMemory, Mirrors
<1>3. /\ noted \in Store /\ Mirrors(noted) /\ noted.fenced = store.fenced
      /\ noted.bindings = store.bindings /\ noted.disk = store.disk
  BY <1>1, <1>2, NoteSeenType, NoteSeenEffect DEF Mirrors
<1>4. Undisputed(store, noted, k)
  BY <1>1, NoteSeenUndisputed
<1>5. store' = (IF want.changed THEN saved.store ELSE noted) /\ link' = lk
  BY DEF Hello
<1>6. want.bindings = next /\ want.taken = taken
  BY DEF Reconciled
<1>7. want.bindings \in Bindings /\ want.tombstones \in Tombstones
  BY <1>1, <1>3, ReconciledType
<1>8. saved.store \in Store
  BY <1>1, <1>3, <1>7, SaveType
<1>9. b # NoBinding =>
        /\ b \in Binding /\ LastSeenAt(b, store.seen) \in Nat
        /\ LastSeenAt(b, noted.seen) \in Nat
        /\ LastSeenAt(b, store.seen) <= LastSeenAt(b, noted.seen)
  BY <1>1, <1>3, <1>4, LastSeenType DEF Undisputed, Continues, Store, Bindings
<1>10. r.bindings[k] \in {b, NoBinding}
  BY <1>3 DEF Reclaim
<1> HIDE DEF noted, r, taken, want
<1>11. CASE k \notin taken
  <2>1. next[k] # NoBinding =>
          /\ b # NoBinding /\ next[k] \in Binding /\ next[k].inst = b.inst
          /\ LastSeenAt(b, noted.seen) <= LastSeenAt(next[k], noted.seen)
    <3> SUFFICES ASSUME next[k] # NoBinding
                 PROVE  /\ b # NoBinding /\ next[k] \in Binding /\ next[k].inst = b.inst
                        /\ LastSeenAt(b, noted.seen) <= LastSeenAt(next[k], noted.seen)
      OBVIOUS
    <3>1. b # NoBinding
      BY <1>10
    <3>2. /\ now(b) \in Nat /\ LastSeenAt(b, noted.seen) <= now(b)
      BY <1>1, <1>9, <3>1, LaterGrows, LaterType DEF Clocks
    <3> HIDE DEF now
    <3>3. CASE b.inst = i
      <4>1. next[k] = [b EXCEPT !.seen = now(b)]
        BY <1>3, <1>10, <1>11, <3>3
      <4>2. next[k] \in Binding /\ next[k].inst = b.inst /\ next[k].seen = now(b)
        BY <1>9, <3>1, <3>2, <4>1 DEF Binding
      <4>3. now(b) <= LastSeenAt(next[k], noted.seen)
        BY <1>1, <1>3, <4>2, SeenSuffices DEF Store
      <4>4. LastSeenAt(next[k], noted.seen) \in Nat
        BY <1>1, <1>3, <4>2, LastSeenType DEF Store
      <4> HIDE DEF next
      <4> QED
        BY <1>9, <3>1, <3>2, <4>2, <4>3, <4>4
    <3>4. CASE b.inst # i
      <4>1. next[k] = b
        BY <1>3, <1>10, <1>11, <3>4
      <4> HIDE DEF next
      <4> QED
        BY <1>9, <3>1, <4>1
    <3> QED
      BY <3>3, <3>4
  <2>2. Continues(noted.bindings[k], noted.seen, want.bindings[k], noted.seen)
    BY <1>3, <1>6, <2>1 DEF Continues, Inherits
  <2>3. Undisputed(noted, saved.store, k)
    BY <1>1, <1>3, <1>7, <2>2, SaveUndisputed
  <2> HIDE DEF saved
  <2>4. Undisputed(store, saved.store, k)
    BY <1>1, <1>3, <1>4, <1>8, <2>3, UndisputedTwice
  <2> QED
    BY <1>4, <1>5, <2>4
<1>12. CASE k \in taken
  <2>1. /\ b # NoBinding /\ b.inst \notin active /\ Abandoned(b, noted.seen)
        /\ r.bindings[k] # NoBinding
    BY <1>3, <1>12 DEF Taken, Present, taken
  <2>2. Elapsed(LastSeenAt(b, noted.seen), OwnerAbandonment)
    BY <2>1 DEF Abandoned
  <2>3. next[k] = [inst |-> i, st |-> "prepared", at |-> clock, seen |-> now(b)]
    BY <1>3, <1>12, <2>1
  <2>4. next[k].inst = i /\ next[k] # NoBinding
    <3>1. now(b) \in Nat
      BY <1>1, <1>9, <2>1, LaterType DEF Clocks
    <3> HIDE DEF now
    <3> QED
      BY <1>1, <2>3, <3>1, AbsentAssumption DEF Clocks
  <2> DEFINE normal == Refreshed(want.bindings, noted.seen)
             snapshot == SnapshotOf(noted, want.bindings, want.tombstones)
  <2>5. normal[k].inst = i /\ snapshot.bindings = normal
    <3>1. noted.seen \in [Installations -> Nat] /\ snapshot.bindings = normal
      BY <1>3 DEF Store, SnapshotOf
    <3> HIDE DEF next
    <3> QED
      BY <1>1, <1>6, <1>7, <2>4, <3>1, RefreshedKeeps
  <2>8. \E n \in Nat : /\ LastSeenAt(b, store.seen) <= n
                      /\ Elapsed(n, OwnerAbandonment)
    BY <1>9, <2>1, <2>2
  <2>9. ~saved.ok => saved.store.seen = noted.seen
    <3> HIDE DEF active
    <3> QED
      BY <1>3, FailedSaveSeen
  <2> HIDE DEF normal, snapshot
  <2>10. \/ ~saved.ok /\ saved.store = noted
         \/ /\ ~saved.ok /\ ~noted.fenced
            /\ saved.store.bindings = noted.bindings /\ saved.store.disk = snapshot
         \/ /\ saved.ok /\ ~noted.fenced
            /\ saved.store.bindings = normal /\ saved.store.disk = snapshot
    <3> HIDE DEF active
    <3> QED
      BY <1>3, SaveEffect DEF normal, snapshot
  <2> HIDE DEF next, saved
  <2>6. CASE store' = noted
    BY <1>4, <2>6
  <2>7. CASE store' = saved.store
    <3>1. CASE ~saved.ok /\ saved.store = noted
      BY <1>4, <2>7, <3>1
    <3>2. CASE /\ ~saved.ok /\ ~noted.fenced
               /\ saved.store.bindings = noted.bindings /\ saved.store.disk = snapshot
      <4>2. Continues(b, store.seen, store'.bindings[k], store'.seen)
        BY <1>3, <1>9, <2>7, <2>9, <3>2 DEF Continues, Inherits
      <4>3. store'.disk.bindings[k].inst = i /\ ~store.fenced
        BY <1>3, <2>5, <2>7, <3>2
      <4> QED
        BY <1>5, <2>1, <2>8, <4>2, <4>3
    <3>3. CASE /\ saved.ok /\ ~noted.fenced
               /\ saved.store.bindings = normal /\ saved.store.disk = snapshot
      <4>1. /\ store'.bindings[k].inst = i
            /\ store'.disk.bindings[k].inst = i /\ ~store.fenced
        BY <1>3, <2>5, <2>7, <3>3
      <4> QED
        BY <1>5, <2>1, <2>8, <4>1
    <3> QED
      BY <2>10, <3>1, <3>2, <3>3
  <2> QED
    BY <1>5, <2>6, <2>7
<1> QED
  BY <1>11, <1>12

\* Every owner of a live binding has a socket, or was sighted no longer ago
\* than it has been away.
Sighted(st, A, away) ==
  \A k \in Keys : st.bindings[k] # NoBinding =>
    LET b == st.bindings[k]
    IN  \/ b.inst \in A
        \/ away[b.inst] >= OwnerAbandonment
        \/ clock <= LastSeenAt(b, st.seen) + away[b.inst]

\* Only a socket of the owner of receipt k holds it pending.
PendingOwned(s, k) ==
  pending[s][k] # NoBinding =>
    /\ link[s] = "open" /\ pending[s][k].inst = SocketOwner[s]
    /\ store.bindings[k] # NoBinding => store.bindings[k].inst = SocketOwner[s]
    /\ \A t \in Sockets : pending[t][k] # NoBinding => SocketOwner[t] = SocketOwner[s]

\* A receipt whose turn has not ended is nowhere.
NotYetBound(k) == Unbound(store, k) /\ \A s \in Sockets : pending[s][k] = NoBinding

\* Who owns what, beside BridgeInv: an owner away too short a time to be robbed
\* was sighted late enough that no clock the bridge may see calls it abandoned.
OwnersInv ==
  /\ BridgeInv
  /\ ~running => \A s \in Sockets : link[s] = "closed"
  /\ \A k \in turns : NotYetBound(k)
  /\ \A s \in Sockets, k \in Keys : PendingOwned(s, k)
  /\ Sighted(store, ActiveOwners(link), idle)

\* The part of NoEarlyTakeover a step must satisfy for receipt k.
DueHandover(k) ==
  LET b == store.disk.bindings[k]
      c == store'.disk.bindings[k]
  IN  b # NoBinding /\ c # NoBinding /\ b.inst # c.inst
        => \/ idle[b.inst] >= OwnerAbandonment
           \/ ~running /\ c = store.prior.bindings[k]

\* What a step owes: the invariant after it, and no early handover in it.
OwnersKept == OwnersInv' /\ \A k \in Keys : DueHandover(k)

\* An open socket of installation i binds receipt k, which nobody else had.
Binds(i, k) ==
  /\ i \in ActiveOwners(link) /\ k \notin turns'
  /\ store.bindings[k] # NoBinding => store.bindings[k].inst = i
  /\ store'.bindings[k] # NoBinding => store'.bindings[k].inst = i
  /\ \A t \in Sockets : pending[t][k] # NoBinding => SocketOwner[t] = i
  /\ \/ store.disk.bindings[k] = NoBinding
     \/ Inherits(store.disk.bindings[k], store'.disk.bindings[k])

\* A step in which receipts change hands nowhere, but for one that a socket of
\* i binds, and sockets only let go of bindings, but for that one, keeps owners.
LEMMA QuietOwners ==
  ASSUME OwnersInv, BridgeInv', clock' = clock, startedAt' = startedAt, idle' = idle,
         running' = running, turns' \subseteq turns, NEW i, NEW at,
         \A s \in Sockets : link'[s] = "open" <=> link[s] = "open",
         ~running => link' = link,
         \A k \in Keys : Undisputed(store, store', k) \/ (k = at /\ Binds(i, k)),
         \A s \in Sockets, k \in Keys :
           \/ pending'[s][k] \in {pending[s][k], NoBinding}
           \/ /\ link[s] = "open" /\ SocketOwner[s] = i /\ pending'[s][k].inst = i
              /\ k = at /\ Binds(i, k)
  PROVE  OwnersKept
<1>1. TypeOK /\ TypeOK' /\ Clocks
  BY DEF OwnersInv, BridgeInv, TypeOK, Clocks
<1>2. ActiveOwners(link') = ActiveOwners(link)
  BY DEF ActiveOwners
<1>3. ~running' => \A s \in Sockets : link'[s] = "closed"
  BY DEF OwnersInv
<1>4. ASSUME NEW k \in turns' PROVE NotYetBound(k)'
  <2>1. NotYetBound(k) /\ k \in Keys
    BY <1>1 DEF OwnersInv, TypeOK
  <2>2. ~Binds(i, k)
    BY DEF Binds
  <2> QED
    BY <2>1, <2>2 DEF NotYetBound, Undisputed
<1>5. ASSUME NEW s \in Sockets, NEW k \in Keys, pending'[s][k] # NoBinding
      PROVE  /\ link'[s] = "open" /\ pending'[s][k].inst = SocketOwner[s]
             /\ store'.bindings[k] # NoBinding => store'.bindings[k].inst = SocketOwner[s]
             /\ \A t \in Sockets : pending'[t][k] # NoBinding => SocketOwner[t] = SocketOwner[s]
  <2>1. CASE Binds(i, k)
    <3>1. \A t \in Sockets : pending'[t][k] # NoBinding =>
            /\ link[t] = "open" /\ SocketOwner[t] = i /\ pending'[t][k].inst = i
      BY <2>1 DEF OwnersInv, PendingOwned, Binds
    <3> QED
      BY <1>5, <2>1, <3>1 DEF Binds
  <2>2. CASE Undisputed(store, store', k) /\ ~Binds(i, k)
    <3>1. \A t \in Sockets : pending'[t][k] \in {pending[t][k], NoBinding}
      BY <2>2
    <3> QED
      BY <1>5, <2>2, <3>1 DEF OwnersInv, PendingOwned, Undisputed, Continues, Inherits
  <2> QED
    BY <2>1, <2>2
<1>6. Sighted(store', ActiveOwners(link'), idle')
  <2> SUFFICES ASSUME NEW k \in Keys, store'.bindings[k] # NoBinding
               PROVE  LET b == store'.bindings[k]
                      IN  \/ b.inst \in ActiveOwners(link)
                          \/ idle[b.inst] >= OwnerAbandonment
                          \/ clock <= LastSeenAt(b, store'.seen) + idle[b.inst]
    BY <1>2 DEF Sighted
  <2>1. CASE Binds(i, k)
    BY <2>1 DEF Binds
  <2>2. CASE Undisputed(store, store', k)
    <3> DEFINE b == store.bindings[k]
               c == store'.bindings[k]
    <3>1. /\ b # NoBinding /\ c.inst = b.inst
          /\ LastSeenAt(b, store.seen) <= LastSeenAt(c, store'.seen)
      BY <2>2 DEF Undisputed, Continues, Inherits
    <3>2. /\ LastSeenAt(b, store.seen) \in Nat /\ LastSeenAt(c, store'.seen) \in Nat
          /\ b.inst \in Installations
      BY <1>1, <3>1, LastSeenType DEF TypeOK, Store, Bindings, Binding
    <3>3. idle[b.inst] \in Nat /\ clock \in Nat
      BY <1>1, <3>2 DEF TypeOK
    <3>4. \/ b.inst \in ActiveOwners(link)
          \/ idle[b.inst] >= OwnerAbandonment
          \/ clock <= LastSeenAt(b, store.seen) + idle[b.inst]
      BY <3>1 DEF OwnersInv, Sighted
    <3> HIDE DEF b, c
    <3>5. \/ c.inst \in ActiveOwners(link)
          \/ idle[c.inst] >= OwnerAbandonment
          \/ clock <= LastSeenAt(c, store'.seen) + idle[c.inst]
      BY <3>1, <3>2, <3>3, <3>4
    <3> QED
      BY <3>5 DEF c
  <2> QED
    BY <2>1, <2>2
<1>7. Sighted(store, ActiveOwners(link), idle)'
  BY <1>6 DEF Sighted, LastSeenAt
<1>8. \A k \in Keys : DueHandover(k)
  BY DEF DueHandover, Binds, Undisputed, Inherits
<1> QED
  BY <1>3, <1>4, <1>5, <1>7, <1>8 DEF OwnersKept, OwnersInv, PendingOwned

\* A save makes nobody the owner of a receipt but whom it was told.
LEMMA SaveOwner ==
  ASSUME Clocks, NEW st \in Store, NEW b \in Bindings, NEW t \in Tombstones,
         NEW sameMap, NEW active, NEW outcome, NEW k \in Keys, b[k] # NoBinding,
         NEW saved, saved = Save(st, b, t, sameMap, active, outcome)
  PROVE  /\ \/ saved.store.bindings[k] = st.bindings[k]
            \/ saved.store.bindings[k].inst = b[k].inst
         /\ saved.ok => saved.store.bindings[k].inst = b[k].inst
         /\ \/ saved.store.disk.bindings[k] = st.disk.bindings[k]
            \/ ~st.fenced /\ saved.store.disk.bindings[k].inst = b[k].inst
<1> DEFINE normal == Refreshed(b, st.seen)
           snapshot == SnapshotOf(st, b, t)
<1>1. normal[k].inst = b[k].inst /\ snapshot.bindings = normal
  BY RefreshedKeeps DEF Store, SnapshotOf
<1> HIDE DEF normal, snapshot
<1>2. \/ ~saved.ok /\ saved.store = st
      \/ /\ ~saved.ok /\ ~st.fenced
         /\ saved.store.bindings = st.bindings /\ saved.store.disk = snapshot
      \/ /\ saved.ok /\ ~st.fenced
         /\ saved.store.bindings = normal /\ saved.store.disk = snapshot
  BY SaveEffect DEF normal, snapshot
<1> QED
  BY <1>1, <1>2

\* The same of the default save.
LEMMA SaveBindingsOwner ==
  ASSUME Clocks, NEW st \in Store, NEW b \in Bindings, NEW active, NEW outcome,
         NEW k \in Keys, b[k] # NoBinding,
         NEW saved, saved = SaveBindings(st, b, active, outcome)
  PROVE  /\ \/ saved.store.bindings[k] = st.bindings[k]
            \/ saved.store.bindings[k].inst = b[k].inst
         /\ saved.ok => saved.store.bindings[k].inst = b[k].inst
         /\ \/ saved.store.disk.bindings[k] = st.disk.bindings[k]
            \/ ~st.fenced /\ saved.store.disk.bindings[k].inst = b[k].inst
<1>1. \E same : saved = Save(st, b, st.tombstones, same, active, outcome)
  BY DEF SaveBindings
<1>2. PICK same : saved = Save(st, b, st.tombstones, same, active, outcome)
  BY <1>1
<1>3. st.tombstones \in Tombstones
  BY DEF Store
<1> QED
  BY <1>2, <1>3, SaveOwner

\* What QuietOwners needs of a running bridge.
LEMMA OwnersRunning ==
  ASSUME OwnersInv, running
  PROVE  /\ TypeOK /\ Clocks /\ store \in Store /\ Mirrors(store)
         /\ store.bindings \in Bindings /\ store.tombstones \in Tombstones
         /\ ~store.fenced => store.disk.bindings = store.bindings
BY DEF OwnersInv, BridgeInv, TypeOK, Clocks, DiskHoldsMemory, Mirrors, Store

\* A reply prepared for a socket is nobody else's.
LEMMA PrepareOwners ==
  ASSUME OwnersInv, BridgeInv', NEW s \in Sockets, NEW k \in Keys, NEW swept,
         NEW outcome, Prepare(s, k, swept, outcome)
  PROVE  OwnersKept
<1> DEFINE i == SocketOwner[s]
           st == Sweep(store, link, swept)
           b == Envelope(st, i)
           next == [st.bindings EXCEPT ![k] = b]
           available == /\ ~st.fenced
                        /\ Cardinality(Present(st.bindings, NoBinding)) < MaxBindings
           saved == SaveBindings(st, next, ActiveOwners(link), outcome)
           done == available /\ saved.ok
<1>1. /\ turns' = turns \ {k} /\ running /\ link[s] = "open" /\ k \in turns
      /\ store' = IF available THEN saved.store ELSE st
      /\ pending' = IF done
                    THEN [pending EXCEPT ![s][k] = saved.store.bindings[k]]
                    ELSE pending
      /\ UNCHANGED <<clock, idle, running, startedAt, link>>
  BY DEF Prepare
<1>2. /\ TypeOK /\ Clocks /\ i \in Installations /\ store \in Store /\ Mirrors(store)
      /\ st \in Store
  BY <1>1, OwnersRunning, OwnerAssumption, SweepType
<1>3. \A x \in Keys : Undisputed(store, st, x)
  BY <1>2, SweepUndisputed
<1>4. Unbound(store, k) /\ \A t \in Sockets : pending[t][k] = NoBinding
  BY <1>1 DEF OwnersInv, NotYetBound
<1>5. Unbound(st, k)
  BY <1>3, <1>4 DEF Undisputed
<1>12. Mirrors(st)
  <2>1. Sound(store, proved, consumed)
    BY <1>1, RunningSound DEF OwnersInv
  <2> QED
    BY <1>2, <2>1, SweepSound DEF Sound
<1> HIDE DEF st
<1>6. b \in Binding /\ b # NoBinding /\ b.inst = i
  <2>1. Later(Later(st.seen[i], clock), startedAt) \in Nat
    BY <1>2, LaterType DEF Clocks, Store
  <2> QED
    BY <1>2, <2>1, AbsentAssumption DEF Envelope, Binding, Phase, Clocks
<1> HIDE DEF b
<1>7. /\ next \in Bindings /\ next[k] = b /\ st.tombstones \in Tombstones
      /\ \A x \in Keys \ {k} : next[x] = st.bindings[x]
  BY <1>2, <1>6 DEF Store, Bindings
<1> HIDE DEF next
<1>8. \A x \in Keys \ {k} : Undisputed(store, saved.store, x)
  <2> SUFFICES ASSUME NEW x \in Keys \ {k} PROVE Undisputed(store, saved.store, x)
    OBVIOUS
  <2>1. Continues(st.bindings[x], st.seen, next[x], st.seen)
    BY <1>2, <1>7, UndisputedSame DEF Undisputed
  <2>2. Undisputed(st, saved.store, x) /\ saved.store \in Store
    BY <1>2, <1>7, <1>12, <2>1, SaveUndisputed, SaveType DEF SaveBindings
  <2> HIDE DEF saved
  <2> QED
    BY <1>2, <1>3, <2>2, UndisputedTwice
<1>9. /\ saved.store.bindings[k] # NoBinding => saved.store.bindings[k].inst = i
      /\ saved.ok => saved.store.bindings[k].inst = i
  BY <1>2, <1>5, <1>6, <1>7, SaveBindingsOwner DEF Unbound
<1> HIDE DEF saved, available
<1>10. /\ store.bindings[k] = NoBinding /\ store.disk.bindings[k] = NoBinding
       /\ store'.bindings[k] # NoBinding => store'.bindings[k].inst = i
  BY <1>1, <1>4, <1>5, <1>9 DEF Unbound
<1>11. Binds(i, k)
  BY <1>1, <1>2, <1>4, <1>10 DEF Binds, ActiveOwners
<1>13. \A x \in Keys : Undisputed(store, store', x) \/ (x = k /\ Binds(i, x))
  BY <1>1, <1>3, <1>8, <1>11
<1>14. \A t \in Sockets, x \in Keys :
         \/ pending'[t][x] \in {pending[t][x], NoBinding}
         \/ /\ link[t] = "open" /\ SocketOwner[t] = i /\ pending'[t][x].inst = i
            /\ x = k /\ Binds(i, x)
  <2>1. \A t \in Sockets, x \in Keys :
          pending'[t][x] = IF done /\ t = s /\ x = k THEN saved.store.bindings[k]
                           ELSE pending[t][x]
    BY <1>1, <1>2 DEF TypeOK, Bindings
  <2> QED
    BY <1>1, <1>9, <1>11, <2>1
<1> HIDE DEF i
<1> QED
  BY <1>1, <1>13, <1>14, QuietOwners

\* Nor is one whose storage a socket proves.
LEMMA ReceiveOwners ==
  ASSUME OwnersInv, BridgeInv', NEW s \in Sockets, NEW k \in Keys, NEW outcome,
         ReceiveReplyAck(s, k, outcome)
  PROVE  OwnersKept
<1> DEFINE i == SocketOwner[s]
           b == Owned(SourceOf(s), k)
           effect == IF clock < b.at THEN "pre" ELSE outcome
           next == [store.bindings EXCEPT ![k] = [b EXCEPT !.st = "received", !.at = clock]]
           saved == SaveBindings(store, next, ActiveOwners(link), effect)
           first == b # NoBinding /\ b.st = "prepared"
<1>1. /\ running /\ link[s] = "open"
      /\ store' = IF first THEN saved.store ELSE store
      /\ pending' = IF first /\ saved.ok
                    THEN [pending EXCEPT ![s][k] = saved.store.bindings[k]]
                    ELSE pending
      /\ UNCHANGED <<clock, idle, running, startedAt, link, turns>>
  BY DEF ReceiveReplyAck, Takes
<1>2. /\ TypeOK /\ Clocks /\ i \in Installations /\ store \in Store /\ Mirrors(store)
      /\ store.bindings \in Bindings /\ store.tombstones \in Tombstones
      /\ ~store.fenced => store.disk.bindings = store.bindings
  BY <1>1, OwnersRunning, OwnerAssumption
<1>3. b \in Binding \cup {NoBinding} /\ (b # NoBinding => b.inst = i)
      /\ (b # NoBinding => b = pending[s][k] \/ b = store.bindings[k])
  BY <1>2, OwnedType, SourceType DEF Owned, SourceOf
<1> HIDE DEF b, effect
<1>4. CASE ~first
  <2>1. store' = store /\ pending' = pending
    BY <1>1, <1>4
  <2>2. \A x \in Keys : Undisputed(store, store', x)
    BY <1>2, <2>1, UndisputedSame
  <2> QED
    BY <1>1, <2>1, <2>2, QuietOwners
<1>5. CASE first
  <2>1. /\ next \in Bindings /\ next[k].inst = i /\ next[k] # NoBinding
        /\ \A x \in Keys \ {k} : next[x] = store.bindings[x]
    <3>1. /\ [b EXCEPT !.st = "received", !.at = clock] \in Binding
          /\ [b EXCEPT !.st = "received", !.at = clock].inst = i
      BY <1>2, <1>3, <1>5 DEF Binding, Phase, Clocks
    <3> QED
      BY <1>2, <3>1, AbsentAssumption DEF Bindings, Binding, Phase
  <2>2. /\ store.bindings[k] # NoBinding => store.bindings[k].inst = i
        /\ \A t \in Sockets : pending[t][k] # NoBinding => SocketOwner[t] = i
    BY <1>3, <1>5 DEF OwnersInv, PendingOwned
  <2>3. k \notin turns
    BY <1>3, <1>5 DEF OwnersInv, NotYetBound, Unbound
  <2> HIDE DEF next
  <2>4. \A x \in Keys \ {k} : Undisputed(store, saved.store, x)
    <3> SUFFICES ASSUME NEW x \in Keys \ {k} PROVE Undisputed(store, saved.store, x)
      OBVIOUS
    <3>1. Continues(store.bindings[x], store.seen, next[x], store.seen)
      BY <1>2, <2>1, UndisputedSame DEF Undisputed
    <3> QED
      BY <1>2, <2>1, <3>1, SaveUndisputed DEF SaveBindings
  <2>5. /\ \/ saved.store.bindings[k] = store.bindings[k]
           \/ saved.store.bindings[k].inst = i
        /\ saved.ok => saved.store.bindings[k].inst = i
        /\ \/ saved.store.disk.bindings[k] = store.disk.bindings[k]
           \/ ~store.fenced /\ saved.store.disk.bindings[k].inst = i
    BY <1>2, <2>1, SaveBindingsOwner
  <2> HIDE DEF saved
  <2>6. store' = saved.store
    BY <1>1, <1>5
  <2>7. Inherits(store.disk.bindings[k], store'.disk.bindings[k])
          \/ store.disk.bindings[k] = NoBinding
    BY <1>2, <2>2, <2>5, <2>6 DEF Inherits
  <2>8. Binds(i, k)
    BY <1>1, <1>2, <2>2, <2>3, <2>5, <2>6, <2>7 DEF Binds, ActiveOwners
  <2>9. \A x \in Keys : Undisputed(store, store', x) \/ (x = k /\ Binds(i, x))
    BY <2>4, <2>6, <2>8
  <2>10. \A t \in Sockets, x \in Keys :
           \/ pending'[t][x] \in {pending[t][x], NoBinding}
           \/ /\ link[t] = "open" /\ SocketOwner[t] = i /\ pending'[t][x].inst = i
              /\ x = k /\ Binds(i, x)
    <3>1. \A t \in Sockets, x \in Keys :
            pending'[t][x] = IF saved.ok /\ t = s /\ x = k THEN saved.store.bindings[k]
                             ELSE pending[t][x]
      BY <1>1, <1>2, <1>5 DEF TypeOK, Bindings
    <3> QED
      BY <1>1, <2>5, <2>8, <3>1
  <2> HIDE DEF i
  <2> QED
    BY <1>1, <2>9, <2>10, QuietOwners
<1> QED
  BY <1>4, <1>5

\* A consumption recorded changes no owner.
LEMMA ConsumeAnsweredOwners ==
  ASSUME OwnersInv, BridgeInv', NEW t \in tasks, NEW outcome, ConsumeAnswered(t, outcome)
  PROVE  OwnersKept
<1> DEFINE k == t.key
           effect == IF clock < t.b.at THEN "pre" ELSE outcome
           next == [store.bindings EXCEPT ![k] = [t.b EXCEPT !.st = "consumed", !.at = clock]]
           saved == SaveBindings(store, next, ActiveOwners(link), effect)
           same == store.bindings[k] = t.b
<1>1. /\ running
      /\ store' = IF same THEN saved.store ELSE store
      /\ UNCHANGED <<clock, idle, running, startedAt, link, turns, pending>>
  BY DEF ConsumeAnswered
<1>2. /\ TypeOK /\ Clocks /\ store \in Store /\ Mirrors(store)
      /\ store.bindings \in Bindings /\ store.tombstones \in Tombstones
  BY <1>1, OwnersRunning
<1>3. t \in Task /\ k \in Keys /\ t.b \in Binding
  BY <1>2 DEF TypeOK, Task
<1> HIDE DEF effect, k
<1>4. ASSUME same, NEW x \in Keys PROVE Undisputed(store, saved.store, x)
  <2>1. /\ next \in Bindings /\ next[k].inst = t.b.inst /\ next[k].seen = t.b.seen
        /\ next[k] # NoBinding /\ next[k] \in Binding /\ t.b # NoBinding
        /\ \A y \in Keys \ {k} : next[y] = store.bindings[y]
    <3>1. /\ [t.b EXCEPT !.st = "consumed", !.at = clock] \in Binding
          /\ [t.b EXCEPT !.st = "consumed", !.at = clock].inst = t.b.inst
          /\ [t.b EXCEPT !.st = "consumed", !.at = clock].seen = t.b.seen
      BY <1>2, <1>3 DEF Binding, Phase, Clocks
    <3> QED
      BY <1>2, <1>3, <3>1, AbsentAssumption DEF Bindings, Binding, Phase
  <2> HIDE DEF next
  <2>2. Continues(store.bindings[x], store.seen, next[x], store.seen)
    <3>1. CASE x # k
      BY <1>2, <2>1, <3>1, UndisputedSame DEF Undisputed
    <3>2. CASE x = k
      <4>1. LastSeenAt(next[x], store.seen) = LastSeenAt(store.bindings[x], store.seen)
        BY <1>4, <2>1, <3>2 DEF LastSeenAt
      <4>2. LastSeenAt(next[x], store.seen) \in Nat
        BY <1>2, <2>1, <3>2, LastSeenType DEF Store
      <4> QED
        BY <1>4, <2>1, <3>2, <4>1, <4>2 DEF Continues, Inherits
    <3> QED
      BY <3>1, <3>2
  <2> QED
    BY <1>2, <2>1, <2>2, SaveUndisputed DEF SaveBindings
<1> HIDE DEF saved
<1>5. \A x \in Keys : Undisputed(store, store', x)
  BY <1>1, <1>2, <1>4, UndisputedSame
<1> QED
  BY <1>1, <1>5, QuietOwners

\* Nor does a retirement.
LEMMA RetireOwners ==
  ASSUME OwnersInv, BridgeInv', NEW s \in Sockets, NEW k \in Keys, NEW outcome,
         RetireReplyAck(s, k, outcome)
  PROVE  OwnersKept
<1> DEFINE b == store.bindings[k]
           t == store.tombstones[k]
           active == ActiveOwners(link)
           without == [store.bindings EXCEPT ![k] = NoBinding]
           unburied == [store.tombstones EXCEPT ![k] = NoTombstone]
           owned == Retirable(b, SocketOwner[s])
           buried == b = NoBinding /\ t # NoTombstone /\ t.inst = SocketOwner[s]
           dropped == SaveBindings(store, without, active, outcome)
           cleared == Save(store, store.bindings, unburied, FALSE, active, outcome)
           saved == IF owned THEN dropped ELSE cleared
           removed == (owned \/ buried) /\ saved.ok
<1>1. /\ running /\ store' = IF owned \/ buried THEN saved.store ELSE store
      /\ pending' = IF owned /\ removed
                    THEN [pending EXCEPT ![s][k] = NoBinding] ELSE pending
      /\ UNCHANGED <<clock, idle, running, startedAt, link, turns>>
  BY DEF RetireReplyAck, Takes
<1>2. /\ TypeOK /\ Clocks /\ store \in Store /\ Mirrors(store)
      /\ store.bindings \in Bindings /\ store.tombstones \in Tombstones
  BY <1>1, OwnersRunning
<1>3. \A x \in Keys : Undisputed(store, store, x)
  BY <1>2, UndisputedSame
<1>4. \A x \in Keys : Undisputed(store, dropped.store, x)
  <2> SUFFICES ASSUME NEW x \in Keys PROVE Undisputed(store, dropped.store, x)
    OBVIOUS
  <2>1. without \in Bindings /\ without[x] \in {store.bindings[x], NoBinding}
    BY <1>2 DEF Bindings
  <2> HIDE DEF without
  <2>2. Continues(store.bindings[x], store.seen, without[x], store.seen)
    BY <1>3, <2>1 DEF Undisputed, Continues, Inherits
  <2> QED
    BY <1>2, <2>1, <2>2, SaveUndisputed DEF SaveBindings
<1>5. \A x \in Keys : Undisputed(store, cleared.store, x)
  <2>1. unburied \in Tombstones
    BY <1>2 DEF Tombstones
  <2>2. \A x \in Keys : Continues(store.bindings[x], store.seen, store.bindings[x], store.seen)
    BY <1>3 DEF Undisputed
  <2> HIDE DEF unburied
  <2> QED
    BY <1>2, <2>1, <2>2, SaveUndisputed
<1>6. \A x \in Sockets, y \in Keys : pending'[x][y] \in {pending[x][y], NoBinding}
  <2> HIDE DEF removed, owned
  <2> QED
    BY <1>1, <1>2 DEF TypeOK, Bindings
<1> HIDE DEF dropped, cleared
<1>7. \A x \in Keys : Undisputed(store, store', x)
  BY <1>1, <1>3, <1>4, <1>5
<1> QED
  BY <1>1, <1>6, <1>7, QuietOwners

\* Steps that leave the store alone and let go of pending bindings at most.
LEMMA StoreAloneOwners ==
  ASSUME OwnersInv, BridgeInv',
         UNCHANGED <<clock, startedAt, idle, running, store, turns>>,
         \A s \in Sockets : link'[s] = "open" <=> link[s] = "open",
         ~running => link' = link,
         \A s \in Sockets, k \in Keys : pending'[s][k] \in {pending[s][k], NoBinding}
  PROVE  OwnersKept
<1>1. \A k \in Keys : Undisputed(store, store', k)
  BY UndisputedSame DEF OwnersInv, BridgeInv, TypeOK, Clocks
<1> QED
  BY <1>1, QuietOwners

\* Steps that leave the store, the pending bindings and the open sockets alone
\* keep owners.
LEMMA QuietStepOwners ==
  ASSUME OwnersInv, BridgeInv',
         \/ \E s \in Sockets, k \in Keys : AcknowledgeReplyAck(s, k)
         \/ \E k \in Keys : RetryTimer(k)
         \/ \E t \in tasks : ConsumeFailed(t) \/ ConfirmationSent(t)
         \/ \E k \in Keys : TelepathosdConsumes(k)
         \/ HandsetNext \/ UNCHANGED vars
  PROVE  OwnersKept
<1>1. UNCHANGED <<clock, startedAt, idle, running, store, turns>>
  BY DEF AcknowledgeReplyAck, RetryTimer, ConsumeFailed, ConfirmationSent,
         TelepathosdConsumes, HandsetNext, Dial, Write, Read, vars
<1>2. /\ \A s \in Sockets : link'[s] = "open" <=> link[s] = "open"
      /\ ~running => link' = link
  BY DEF AcknowledgeReplyAck, RetryTimer, ConsumeFailed, ConfirmationSent,
         TelepathosdConsumes, HandsetNext, Dial, Write, Read, vars, OwnersInv,
         BridgeInv, TypeOK
<1>3. \A s \in Sockets, k \in Keys : pending'[s][k] \in {pending[s][k], NoBinding}
  <2>1. CASE \E t \in tasks : ConfirmationSent(t)
    <3>1. PICK t \in tasks : ConfirmationSent(t)
      BY <2>1
    <3>2. pending \in [Sockets -> Bindings] /\ t.key \in Keys
      BY DEF OwnersInv, BridgeInv, TypeOK, Task
    <3>3. \/ pending' = pending
          \/ pending' = [pending EXCEPT ![t.src.sock][t.key] = NoBinding]
      BY <3>1 DEF ConfirmationSent
    <3> QED
      BY <3>2, <3>3 DEF Bindings
  <2>2. CASE ~\E t \in tasks : ConfirmationSent(t)
    BY <2>2 DEF AcknowledgeReplyAck, RetryTimer, ConsumeFailed,
         TelepathosdConsumes, HandsetNext, Dial, Write, Read, vars
  <2> QED
    BY <2>1, <2>2
<1> QED
  BY <1>1, <1>2, <1>3, StoreAloneOwners

\* The periodic sweep changes no owner.
LEMMA PeriodicSweepOwners ==
  ASSUME OwnersInv, BridgeInv', NEW outcome, PeriodicSweep(outcome)
  PROVE  OwnersKept
<1>1. /\ running /\ store' = Sweep(store, link, outcome)
      /\ UNCHANGED <<clock, idle, running, startedAt, link, pending, turns>>
  BY DEF PeriodicSweep
<1>2. \A k \in Keys : Undisputed(store, store', k)
  BY <1>1, OwnersRunning, SweepUndisputed
<1> QED
  BY <1>1, <1>2, QuietOwners

\* When a socket closes, its owner was just sighted.
LEMMA CloseOwners ==
  ASSUME OwnersInv, BridgeInv', NEW s \in Sockets, NEW outcome, Close(s, outcome)
  PROVE  OwnersKept
<1> DEFINE lk == [link EXCEPT ![s] = "closed"]
<1>1. /\ running /\ running' = running /\ link' = lk
      /\ store' = IF link[s] = "open" THEN Disconnected(store, s, lk, outcome)
                  ELSE store
      /\ pending' = [pending EXCEPT ![s] = EmptyBindings]
      /\ UNCHANGED <<clock, idle, startedAt, turns>>
  BY DEF Close
<1>2. /\ TypeOK /\ Clocks /\ store \in Store /\ Mirrors(store) /\ store' \in Store
  BY <1>1, OwnersRunning DEF BridgeInv, TypeOK
<1>3. /\ \A t \in Sockets : link'[t] = IF t = s THEN "closed" ELSE link[t]
      /\ \A t \in Sockets, k \in Keys :
           pending'[t][k] = IF t = s THEN NoBinding ELSE pending[t][k]
  BY <1>1, <1>2 DEF TypeOK, EmptyBindings
<1>4. \A k \in Keys :
        /\ Undisputed(store, store', k)
        /\ /\ store'.bindings[k] # NoBinding /\ store'.bindings[k].inst = SocketOwner[s]
           /\ link[s] = "open"
           => clock <= LastSeenAt(store'.bindings[k], store'.seen)
  <2> HIDE DEF lk
  <2> QED
    BY <1>1, <1>2, UndisputedSame, DisconnectedUndisputed
<1>5. \A k \in turns' : NotYetBound(k)'
  BY <1>1, <1>2, <1>3, <1>4 DEF OwnersInv, NotYetBound, Undisputed, TypeOK
<1>6. \A t \in Sockets, k \in Keys : PendingOwned(t, k)'
  <2> SUFFICES ASSUME NEW t \in Sockets, NEW k \in Keys, pending'[t][k] # NoBinding
               PROVE  /\ link'[t] = "open" /\ pending'[t][k].inst = SocketOwner[t]
                      /\ store'.bindings[k] # NoBinding =>
                           store'.bindings[k].inst = SocketOwner[t]
                      /\ \A x \in Sockets : pending'[x][k] # NoBinding =>
                           SocketOwner[x] = SocketOwner[t]
    BY DEF PendingOwned
  <2> QED
    BY <1>3, <1>4 DEF OwnersInv, PendingOwned, Undisputed, Continues, Inherits
<1>7. Sighted(store', ActiveOwners(link'), idle')
  <2> SUFFICES ASSUME NEW k \in Keys, store'.bindings[k] # NoBinding
               PROVE  \/ store'.bindings[k].inst \in ActiveOwners(link')
                      \/ idle[store'.bindings[k].inst] >= OwnerAbandonment
                      \/ clock <= LastSeenAt(store'.bindings[k], store'.seen)
                                    + idle[store'.bindings[k].inst]
    BY <1>1 DEF Sighted
  <2> DEFINE b == store.bindings[k]
             c == store'.bindings[k]
  <2>1. /\ b # NoBinding /\ c.inst = b.inst
        /\ LastSeenAt(b, store.seen) <= LastSeenAt(c, store'.seen)
    BY <1>4 DEF Undisputed, Continues, Inherits
  <2>2. /\ LastSeenAt(b, store.seen) \in Nat /\ LastSeenAt(c, store'.seen) \in Nat
        /\ b.inst \in Installations
    BY <1>2, <2>1, LastSeenType DEF Store, Bindings, Binding
  <2>3. idle[b.inst] \in Nat /\ clock \in Nat
    BY <1>2, <2>2 DEF TypeOK
  <2>4. \/ b.inst \in ActiveOwners(link)
        \/ idle[b.inst] >= OwnerAbandonment
        \/ clock <= LastSeenAt(b, store.seen) + idle[b.inst]
    BY <2>1 DEF OwnersInv, Sighted
  <2>5. b.inst \in ActiveOwners(link) =>
          \/ b.inst \in ActiveOwners(link')
          \/ link[s] = "open" /\ b.inst = SocketOwner[s]
    BY <1>3 DEF ActiveOwners
  <2>6. link[s] = "open" /\ c.inst = SocketOwner[s] => clock <= LastSeenAt(c, store'.seen)
    BY <1>4
  <2> HIDE DEF b, c
  <2>7. \/ c.inst \in ActiveOwners(link')
        \/ idle[c.inst] >= OwnerAbandonment
        \/ clock <= LastSeenAt(c, store'.seen) + idle[c.inst]
    BY <2>1, <2>2, <2>3, <2>4, <2>5, <2>6
  <2> QED
    BY <2>7 DEF c
<1>8. Sighted(store, ActiveOwners(link), idle)'
  BY <1>1, <1>7 DEF Sighted, LastSeenAt
<1>9. \A k \in Keys : DueHandover(k)
  BY <1>4 DEF DueHandover, Undisputed, Inherits
<1> QED
  BY <1>1, <1>5, <1>6, <1>8, <1>9 DEF OwnersKept, OwnersInv

\* A crash forgets every binding of the process.
LEMMA CrashOwners ==
  ASSUME OwnersInv, BridgeInv', Crash
  PROVE  OwnersKept
<1>1. /\ running' = FALSE /\ turns' = turns
      /\ link' = [s \in Sockets |-> "closed"]
      /\ pending' = [s \in Sockets |-> EmptyBindings]
      /\ store'.bindings = EmptyBindings
      /\ store'.disk = store.disk /\ store'.prior = store.prior
  <2>1. store \in Store
    BY DEF OwnersInv, BridgeInv, TypeOK
  <2> QED
    BY <2>1 DEF Crash, Store
<1>2. turns \subseteq Keys
  BY DEF OwnersInv, BridgeInv, TypeOK
<1>3. Sighted(store, ActiveOwners(link), idle)'
  BY <1>1 DEF Sighted, EmptyBindings
<1>4. \A k \in turns' : NotYetBound(k)'
  BY <1>1, <1>2 DEF OwnersInv, NotYetBound, Unbound, EmptyBindings
<1>5. \A s \in Sockets, k \in Keys : PendingOwned(s, k)'
  BY <1>1 DEF PendingOwned, EmptyBindings
<1>6. \A k \in Keys : DueHandover(k)
  BY <1>1 DEF DueHandover
<1> QED
  BY <1>1, <1>3, <1>4, <1>5, <1>6 DEF OwnersKept, OwnersInv

\* A start sights every owner, and may find an owner of before.
LEMMA StartOwners ==
  ASSUME OwnersInv, BridgeInv', Start
  PROVE  OwnersKept
<1>1. PICK found \in {store.disk, store.prior} :
        store' = [store EXCEPT !.bindings = found.bindings,
                               !.tombstones = found.tombstones,
                               !.disk = found, !.prior = found, !.fenced = FALSE]
  BY DEF Start
<1>2. /\ store'.bindings = found.bindings /\ store'.disk = found /\ store'.prior = found
      /\ store'.seen \in [Installations -> Nat] /\ store' \in Store
  <2>1. store \in Store /\ store' \in Store
    BY DEF OwnersInv, BridgeInv, TypeOK
  <2> QED
    BY <1>1, <2>1 DEF Store
<1>3. /\ ~running /\ running' /\ startedAt' = clock
      /\ UNCHANGED <<clock, idle, link, pending, turns>>
  BY DEF Start
<1>4. TypeOK /\ TypeOK'
  BY DEF OwnersInv, BridgeInv
<1>5. \A s \in Sockets, k \in Keys : pending[s][k] = NoBinding
  BY <1>3 DEF OwnersInv, PendingOwned
<1>6. \A s \in Sockets, k \in Keys : PendingOwned(s, k)'
  BY <1>3, <1>5 DEF PendingOwned
<1>7. \A k \in turns' : NotYetBound(k)'
  BY <1>2, <1>3 DEF OwnersInv, NotYetBound, Unbound
<1>8. Sighted(store, ActiveOwners(link), idle)'
  <2> SUFFICES ASSUME NEW k \in Keys, store'.bindings[k] # NoBinding
               PROVE  clock' <= LastSeenAt(store.bindings[k], store.seen)'
                                  + idle'[store'.bindings[k].inst]
    BY DEF Sighted
  <2>1. /\ store'.bindings[k].inst \in Installations /\ store'.bindings[k].seen \in Nat
        /\ store'.seen[store'.bindings[k].inst] \in Nat
    BY <1>2 DEF Store, Bindings, Binding
  <2>2. idle'[store'.bindings[k].inst] \in Nat /\ clock' \in Nat /\ startedAt' = clock'
    BY <1>3, <1>4, <2>1 DEF TypeOK
  <2>3. clock' <= LastSeenAt(store.bindings[k], store.seen)'
        /\ LastSeenAt(store.bindings[k], store.seen)' \in Nat
    BY <2>1, <2>2 DEF LastSeenAt, Later
  <2> QED
    BY <2>2, <2>3
<1>9. \A k \in Keys : DueHandover(k)
  BY <1>2, <1>3 DEF DueHandover
<1> QED
  BY <1>3, <1>6, <1>7, <1>8, <1>9 DEF OwnersKept, OwnersInv

\* Whoever has no socket is away for as long as the clock has moved on.
LEMMA ClockOwners ==
  ASSUME OwnersInv, BridgeInv', Tick \/ Rollback
  PROVE  OwnersKept
<1>1. /\ UNCHANGED <<running, startedAt, store, link, pending, turns>>
      /\ TypeOK /\ TypeOK'
  BY DEF Tick, Rollback, OwnersInv, BridgeInv
<1>2. /\ \A k \in turns' : NotYetBound(k)'
      /\ \A s \in Sockets, k \in Keys : PendingOwned(s, k)'
      /\ \A k \in Keys : DueHandover(k)
  BY <1>1 DEF OwnersInv, NotYetBound, PendingOwned, DueHandover
<1>3. Sighted(store, ActiveOwners(link), idle)'
  <2> SUFFICES ASSUME NEW k \in Keys, store.bindings[k] # NoBinding
               PROVE  \/ store.bindings[k].inst \in ActiveOwners(link)
                      \/ idle'[store.bindings[k].inst] >= OwnerAbandonment
                      \/ clock' <= LastSeenAt(store.bindings[k], store.seen)
                                     + idle'[store.bindings[k].inst]
    BY <1>1 DEF Sighted, ActiveOwners, LastSeenAt
  <2> DEFINE b == store.bindings[k]
  <2>1. /\ b \in Binding /\ b.inst \in Installations
        /\ LastSeenAt(b, store.seen) \in Nat
    BY <1>1, LastSeenType DEF TypeOK, Store, Bindings, Binding, Clocks
  <2>2. \/ b.inst \in ActiveOwners(link)
        \/ idle[b.inst] >= OwnerAbandonment
        \/ clock <= LastSeenAt(b, store.seen) + idle[b.inst]
    BY DEF OwnersInv, Sighted
  <2>3. idle[b.inst] \in Nat /\ clock \in Nat
    BY <1>1, <2>1 DEF TypeOK
  <2> HIDE DEF b
  <2>4. CASE Tick
    <3>1. clock' = clock + 1
      BY <2>4 DEF Tick
    <3>2. idle'[b.inst] = IF b.inst \in ActiveOwners(link) \/ idle[b.inst] >= OwnerAbandonment
                          THEN idle[b.inst] ELSE idle[b.inst] + 1
      BY <2>1, <2>4 DEF Tick
    <3> QED
      BY <2>1, <2>2, <2>3, <3>1, <3>2 DEF b
  <2>5. CASE Rollback
    <3>1. clock' <= clock /\ clock' \in Nat /\ idle' = idle
      BY <1>1, <2>3, <2>5, BoundAssumption DEF Rollback, TypeOK
    <3> QED
      BY <2>1, <2>2, <2>3, <3>1 DEF b
  <2> QED
    BY <2>4, <2>5
<1> QED
  BY <1>1, <1>2, <1>3 DEF OwnersKept, OwnersInv

\* A hello takes receipts over only from owners that were long away.
LEMMA HelloOwners ==
  ASSUME OwnersInv, BridgeInv', NEW s \in Sockets, NEW outcome, Hello(s, outcome)
  PROVE  OwnersKept
<1> DEFINE i == SocketOwner[s]
           replayed == {k \in Present(store'.bindings, NoBinding) :
                          store'.bindings[k].st = "prepared" /\ store'.bindings[k].inst = i}
           TakenOver(k) ==
             /\ store.bindings[k] # NoBinding
             /\ store.bindings[k].inst \notin ActiveOwners(link')
             /\ \E n \in Nat : /\ LastSeenAt(store.bindings[k], store.seen) <= n
                               /\ Elapsed(n, OwnerAbandonment)
             /\ \/ store'.bindings[k].inst = i
                \/ Continues(store.bindings[k], store.seen, store'.bindings[k], store'.seen)
             /\ \/ store'.disk.bindings[k] = store.disk.bindings[k]
                \/ ~store.fenced /\ store'.disk.bindings[k].inst = i
<1>1. /\ running /\ running' = running
      /\ UNCHANGED <<clock, startedAt, turns>>
      /\ link' = [link EXCEPT ![s] = "open"]
      /\ idle' = [idle EXCEPT ![i] = 0]
      /\ pending' = [pending EXCEPT ![s] =
           [k \in Keys |-> IF k \in replayed THEN store'.bindings[k] ELSE @[k]]]
  BY DEF Hello
<1>2. /\ TypeOK /\ TypeOK' /\ Clocks /\ i \in Installations
      /\ store \in Store /\ store' \in Store
      /\ ~store.fenced => store.disk.bindings = store.bindings
  BY <1>1, OwnersRunning, OwnerAssumption DEF BridgeInv, TypeOK
<1>3. \A k \in Keys : Undisputed(store, store', k) \/ TakenOver(k)
  BY HelloUndisputed DEF OwnersInv
<1>4. /\ \A t \in Sockets : link'[t] = IF t = s THEN "open" ELSE link[t]
      /\ \A t \in Sockets, k \in Keys :
           pending'[t][k] = IF t = s /\ k \in replayed THEN store'.bindings[k]
                            ELSE pending[t][k]
  BY <1>1, <1>2 DEF TypeOK, Bindings
<1>5. /\ ActiveOwners(link) \subseteq ActiveOwners(link') /\ i \in ActiveOwners(link')
      /\ \A t \in Sockets : link'[t] = "open" => SocketOwner[t] \in ActiveOwners(link')
  BY <1>4 DEF ActiveOwners
<1>6. \A k \in replayed : k \in Keys /\ store'.bindings[k] # NoBinding
                          /\ store'.bindings[k].inst = i
  BY DEF Present
<1> HIDE DEF replayed, i
<1>7. ASSUME NEW k \in Keys, TakenOver(k), NEW t \in Sockets
      PROVE  pending[t][k] = NoBinding
  <2>1. pending[t][k] # NoBinding =>
          link[t] = "open" /\ store.bindings[k].inst = SocketOwner[t]
    BY <1>7 DEF OwnersInv, PendingOwned
  <2> QED
    BY <1>4, <1>5, <1>7, <2>1
<1>8. ASSUME NEW k \in turns' PROVE NotYetBound(k)'
  <2>1. NotYetBound(k) /\ k \in Keys
    BY <1>1, <1>2, <1>8 DEF OwnersInv, TypeOK
  <2>2. ~TakenOver(k)
    BY <2>1 DEF NotYetBound, Unbound
  <2>3. Unbound(store', k)
    BY <1>3, <2>1, <2>2 DEF Undisputed, NotYetBound
  <2>4. k \notin replayed
    BY <1>6, <2>3 DEF Unbound
  <2> QED
    BY <1>4, <2>1, <2>3, <2>4 DEF NotYetBound
<1>9. ASSUME NEW t \in Sockets, NEW k \in Keys PROVE PendingOwned(t, k)'
  <2>1. \A x \in Sockets : pending'[x][k] # NoBinding =>
          /\ link'[x] = "open" /\ pending'[x][k].inst = SocketOwner[x]
          /\ store'.bindings[k] # NoBinding => store'.bindings[k].inst = SocketOwner[x]
    <3> SUFFICES ASSUME NEW x \in Sockets, pending'[x][k] # NoBinding
                 PROVE  /\ link'[x] = "open" /\ pending'[x][k].inst = SocketOwner[x]
                        /\ store'.bindings[k] # NoBinding =>
                             store'.bindings[k].inst = SocketOwner[x]
      OBVIOUS
    <3>1. CASE x = s /\ k \in replayed
      BY <1>4, <1>6, <3>1 DEF i
    <3>2. CASE ~(x = s /\ k \in replayed)
      <4>1. pending'[x][k] = pending[x][k]
        BY <1>4, <3>2
      <4>2. Undisputed(store, store', k)
        BY <1>3, <1>7, <4>1
      <4> QED
        BY <1>4, <4>1, <4>2 DEF OwnersInv, PendingOwned, Undisputed, Continues, Inherits
    <3> QED
      BY <3>1, <3>2
  <2>2. ASSUME NEW x \in Sockets, NEW y \in Sockets,
               pending'[x][k] # NoBinding, pending'[y][k] # NoBinding
        PROVE  SocketOwner[x] = SocketOwner[y]
    <3>1. CASE k \in replayed
      BY <1>6, <2>1, <2>2, <3>1
    <3>2. CASE k \notin replayed
      BY <1>4, <2>2, <3>2 DEF OwnersInv, PendingOwned
    <3> QED
      BY <3>1, <3>2
  <2> QED
    BY <2>1, <2>2 DEF PendingOwned
<1>10. ASSUME NEW k \in Keys, store.bindings[k] # NoBinding
       PROVE  LET b == store.bindings[k]
              IN  /\ b \in Binding /\ b.inst \in Installations
                  /\ LastSeenAt(b, store.seen) \in Nat /\ idle[b.inst] \in Nat
                  /\ \/ b.inst \in ActiveOwners(link)
                     \/ idle[b.inst] >= OwnerAbandonment
                     \/ clock <= LastSeenAt(b, store.seen) + idle[b.inst]
  <2> DEFINE b == store.bindings[k]
  <2>1. b \in Binding /\ b.inst \in Installations
    BY <1>2, <1>10 DEF Store, Bindings, Binding
  <2>2. LastSeenAt(b, store.seen) \in Nat /\ idle[b.inst] \in Nat
    BY <1>2, <2>1, LastSeenType DEF Store, TypeOK
  <2> QED
    BY <1>10, <2>1, <2>2 DEF OwnersInv, Sighted
<1>11. Sighted(store', ActiveOwners(link'), idle')
  <2> SUFFICES ASSUME NEW k \in Keys, store'.bindings[k] # NoBinding,
                      store'.bindings[k].inst # i
               PROVE  \/ store'.bindings[k].inst \in ActiveOwners(link')
                      \/ idle'[store'.bindings[k].inst] >= OwnerAbandonment
                      \/ clock <= LastSeenAt(store'.bindings[k], store'.seen)
                                    + idle'[store'.bindings[k].inst]
    BY <1>5 DEF Sighted
  <2> DEFINE b == store.bindings[k]
             c == store'.bindings[k]
  <2>1. Continues(b, store.seen, c, store'.seen)
    BY <1>3 DEF Undisputed
  <2>2. /\ b # NoBinding /\ c.inst = b.inst
        /\ LastSeenAt(b, store.seen) <= LastSeenAt(c, store'.seen)
    BY <2>1 DEF Continues, Inherits
  <2>3. /\ b.inst \in Installations
        /\ LastSeenAt(b, store.seen) \in Nat /\ idle[b.inst] \in Nat
        /\ \/ b.inst \in ActiveOwners(link)
           \/ idle[b.inst] >= OwnerAbandonment
           \/ clock <= LastSeenAt(b, store.seen) + idle[b.inst]
    BY <1>10, <2>2
  <2>4. LastSeenAt(c, store'.seen) \in Nat /\ clock \in Nat
    BY <1>2, LastSeenType DEF Store, Bindings, Clocks
  <2>5. idle'[b.inst] = idle[b.inst]
    BY <1>1, <1>2, <2>2, <2>3 DEF TypeOK
  <2> HIDE DEF b, c
  <2>6. \/ c.inst \in ActiveOwners(link')
        \/ idle'[c.inst] >= OwnerAbandonment
        \/ clock <= LastSeenAt(c, store'.seen) + idle'[c.inst]
    BY <1>5, <2>2, <2>3, <2>4, <2>5
  <2> QED
    BY <2>6 DEF c
<1>12. Sighted(store, ActiveOwners(link), idle)'
  BY <1>1, <1>11 DEF Sighted, LastSeenAt
<1>13. ASSUME NEW k \in Keys PROVE DueHandover(k)
  <2>1. CASE Undisputed(store, store', k)
    BY <2>1 DEF DueHandover, Undisputed, Inherits
  <2>2. CASE TakenOver(k) /\ store'.disk.bindings[k] = store.disk.bindings[k]
    BY <2>2 DEF DueHandover
  <2>3. CASE TakenOver(k) /\ ~store.fenced
    <3> DEFINE b == store.bindings[k]
    <3>1. store.disk.bindings[k] = b /\ b # NoBinding
      BY <1>2, <2>3
    <3>2. PICK n \in Nat : LastSeenAt(b, store.seen) <= n /\ Elapsed(n, OwnerAbandonment)
      BY <2>3
    <3>3. clock \in Nat /\ clock - n >= OwnerAbandonment /\ n <= clock
      BY <1>2, <3>2 DEF Elapsed, Clocks
    <3>4. /\ LastSeenAt(b, store.seen) \in Nat /\ idle[b.inst] \in Nat
          /\ \/ idle[b.inst] >= OwnerAbandonment
             \/ clock <= LastSeenAt(b, store.seen) + idle[b.inst]
      BY <1>5, <1>10, <2>3, <3>1
    <3>5. idle[b.inst] >= OwnerAbandonment
      <4> HIDE DEF b
      <4> QED
        BY <3>2, <3>3, <3>4, RetentionAssumption
    <3> QED
      BY <3>1, <3>5 DEF DueHandover
  <2> QED
    BY <1>3, <2>1, <2>2, <2>3
<1> QED
  BY <1>1, <1>8, <1>9, <1>12, <1>13 DEF OwnersKept, OwnersInv

\* At first nobody owns anything.
LEMMA InitOwners == Init => OwnersInv
<1> SUFFICES ASSUME Init PROVE OwnersInv
  OBVIOUS
<1>1. BridgeInv
  BY InitSafe
<1>2. /\ turns = Keys /\ running /\ store.bindings = EmptyBindings
      /\ store.disk = EmptySnapshot /\ store.prior = EmptySnapshot
      /\ pending = [s \in Sockets |-> EmptyBindings]
  BY DEF Init
<1>3. \A k \in turns : NotYetBound(k)
  BY <1>2 DEF NotYetBound, Unbound, EmptyBindings, EmptySnapshot
<1>4. \A s \in Sockets, k \in Keys : PendingOwned(s, k)
  BY <1>2 DEF PendingOwned, EmptyBindings
<1>5. Sighted(store, ActiveOwners(link), idle)
  BY <1>2 DEF Sighted, EmptyBindings
<1> QED
  BY <1>1, <1>2, <1>3, <1>4, <1>5 DEF OwnersInv

\* Every step keeps owners.
LEMMA StepOwners == OwnersInv /\ [Next]_vars => OwnersKept
<1> SUFFICES ASSUME OwnersInv, [Next]_vars PROVE OwnersKept
  OBVIOUS
<1>1. BridgeInv'
  BY StepSafe DEF OwnersInv
<1>2. CASE BridgeNext
  <2>1. ASSUME NEW s \in Sockets, NEW o \in SaveOutcomes, Hello(s, o)
        PROVE  OwnersKept
    BY <1>1, <2>1, HelloOwners
  <2>2. ASSUME NEW s \in Sockets, NEW k \in Keys, NEW w \in SaveOutcomes,
               NEW o \in SaveOutcomes, Prepare(s, k, w, o)
        PROVE  OwnersKept
    BY <1>1, <2>2, PrepareOwners
  <2>3. ASSUME NEW s \in Sockets, NEW k \in Keys, NEW o \in SaveOutcomes,
               ReceiveReplyAck(s, k, o)
        PROVE  OwnersKept
    BY <1>1, <2>3, ReceiveOwners
  <2>4. ASSUME NEW t \in tasks, NEW o \in SaveOutcomes, ConsumeAnswered(t, o)
        PROVE  OwnersKept
    BY <1>1, <2>4, ConsumeAnsweredOwners
  <2>5. ASSUME NEW s \in Sockets, NEW k \in Keys, NEW o \in SaveOutcomes,
               RetireReplyAck(s, k, o)
        PROVE  OwnersKept
    BY <1>1, <2>5, RetireOwners
  <2>6. ASSUME NEW s \in Sockets, NEW o \in SaveOutcomes, Close(s, o)
        PROVE  OwnersKept
    BY <1>1, <2>6, CloseOwners
  <2>7. ASSUME NEW o \in SaveOutcomes, PeriodicSweep(o) PROVE OwnersKept
    BY <1>1, <2>7, PeriodicSweepOwners
  <2> QED
    BY <1>1, <1>2, <2>1, <2>2, <2>3, <2>4, <2>5, <2>6, <2>7, QuietStepOwners,
       CrashOwners, StartOwners, ClockOwners DEF BridgeNext
<1>3. CASE HandsetNext \/ UNCHANGED vars
  BY <1>1, <1>3, QuietStepOwners
<1> QED
  BY <1>2, <1>3 DEF Next

\* A receipt changes hands only when its owner was away for the whole
\* abandonment period, or when a start finds the owner of before a write in doubt.
THEOREM NobodyIsRobbed == Spec => NoEarlyTakeover
<1>1. OwnersInv /\ [Next]_vars => OwnersInv'
  BY StepOwners DEF OwnersKept
<1>2. OwnersInv /\ [Next]_vars =>
        [\A k \in Keys :
           LET b == store.disk.bindings[k]
               c == store'.disk.bindings[k]
           IN  b # NoBinding /\ c # NoBinding /\ b.inst # c.inst
                 => \/ idle[b.inst] >= OwnerAbandonment
                    \/ ~running /\ c = store.prior.bindings[k]]_vars
  BY StepOwners DEF OwnersKept, DueHandover
<1> QED
  BY <1>1, <1>2, InitOwners, PTL DEF Spec, NoEarlyTakeover

-----------------------------------------------------------------------------
(* Phases *)

\* A receipt whose handset has not proved that it stored the envelope.
Unproved(b) == b # NoBinding /\ b.st = "prepared"

\* A receipt whose delivery telepathosd consumed.
Spent(b) == b # NoBinding /\ b.st = "consumed"

\* Bindings b and c are both absent or in the same phase.
SamePhase(b, c) == (c = NoBinding <=> b = NoBinding) /\ (b # NoBinding => c.st = b.st)

\* From st to st2 an unproved receipt stays unproved in the process, and a
\* spent one stays in the file or leaves it expired, for its exact tombstone.
Preserves(st, st2, k) ==
  /\ Unproved(st.bindings[k]) => Unproved(st2.bindings[k])
  /\ Spent(st.disk.bindings[k]) =>
       \/ Spent(st2.disk.bindings[k])
       \/ /\ st2.disk.bindings[k] = NoBinding
          /\ ConsumedExpired(st.disk.bindings[k])
          /\ st2.disk.tombstones[k] = TombstoneOf(st.disk.bindings[k])

\* The phase a save writes is the one it was told.
LEMMA SavePhases ==
  ASSUME Clocks, NEW st \in Store, NEW b \in Bindings, NEW t \in Tombstones,
         NEW sameMap, NEW active, NEW outcome, NEW k \in Keys, Mirrors(st),
         NEW saved, saved = Save(st, b, t, sameMap, active, outcome)
  PROVE  \/ ~saved.ok /\ saved.store = st
         \/ /\ ~st.fenced /\ st.disk.bindings = st.bindings
            /\ SamePhase(b[k], saved.store.disk.bindings[k])
            /\ saved.store.disk.tombstones = t
            /\ \/ ~saved.ok /\ saved.store.bindings = st.bindings /\ saved.store.fenced
               \/ saved.ok /\ SamePhase(b[k], saved.store.bindings[k])
<1> DEFINE normal == Refreshed(b, st.seen)
           snapshot == SnapshotOf(st, b, t)
<1>1. SamePhase(b[k], normal[k])
  BY RefreshedKeeps DEF Store, SamePhase
<1>2. snapshot.bindings = normal /\ snapshot.tombstones = t
  BY DEF SnapshotOf
<1> HIDE DEF normal, snapshot
<1>3. \/ ~saved.ok /\ saved.store = st
      \/ /\ ~saved.ok /\ ~st.fenced /\ saved.store.fenced
         /\ saved.store.bindings = st.bindings /\ saved.store.disk = snapshot
      \/ /\ saved.ok /\ ~st.fenced
         /\ saved.store.bindings = normal /\ saved.store.disk = snapshot
  BY SaveEffect DEF normal, snapshot
<1>4. ~st.fenced => st.disk.bindings = st.bindings
  BY DEF Mirrors
<1> QED
  BY <1>1, <1>2, <1>3, <1>4

\* A save that succeeds leaves the process with the tombstones it wrote, but
\* for the default one.
LEMMA SaveTombstones ==
  ASSUME NEW st \in Store, NEW b, NEW t, NEW sameMap \in BOOLEAN, NEW active,
         NEW outcome, NEW saved, saved = Save(st, b, t, sameMap, active, outcome)
  PROVE  \/ saved.store = st \/ saved.store.fenced \/ sameMap
         \/ saved.store.disk.tombstones = saved.store.tombstones
<1> DEFINE snapshot == SnapshotOf(st, b, t)
<1>1. snapshot.tombstones = t
  BY DEF SnapshotOf
<1> HIDE DEF snapshot
<1>2. \/ saved.store = st \/ saved.store.fenced
      \/ /\ saved.store.tombstones = IF sameMap THEN EmptyTombstones ELSE t
         /\ saved.store.disk = snapshot
  BY SaveEffect DEF snapshot
<1> QED
  BY <1>1, <1>2

\* So a save preserves a receipt when what it is told to write does.
LEMMA SavePreserves ==
  ASSUME Clocks, NEW st \in Store, NEW b \in Bindings, NEW t \in Tombstones,
         NEW sameMap, NEW active, NEW outcome, NEW k \in Keys, Mirrors(st),
         NEW saved, saved = Save(st, b, t, sameMap, active, outcome),
         Unproved(st.bindings[k]) => Unproved(b[k]),
         Spent(st.bindings[k]) =>
           \/ Spent(b[k])
           \/ /\ b[k] = NoBinding /\ ConsumedExpired(st.bindings[k])
              /\ t[k] = TombstoneOf(st.bindings[k])
  PROVE  Preserves(st, saved.store, k)
<1>1. \/ ~saved.ok /\ saved.store = st
      \/ /\ ~st.fenced /\ st.disk.bindings = st.bindings
         /\ SamePhase(b[k], saved.store.disk.bindings[k])
         /\ saved.store.disk.tombstones = t
         /\ \/ saved.store.bindings = st.bindings
            \/ SamePhase(b[k], saved.store.bindings[k])
  BY SavePhases
<1> QED
  BY <1>1 DEF Preserves, SamePhase, Unproved, Spent

\* A binding reclaimed was spent and expired, and leaves its exact tombstone.
LEMMA ReclaimPreserves ==
  ASSUME NEW st \in Store, NEW S \in SUBSET Reclaimable(st), NEW k \in Keys
  PROVE  \/ Reclaim(st, S).bindings[k] = st.bindings[k]
         \/ /\ st.bindings[k] # NoBinding /\ ConsumedExpired(st.bindings[k])
            /\ Reclaim(st, S).bindings[k] = NoBinding
            /\ Reclaim(st, S).tombstones[k] = TombstoneOf(st.bindings[k])
BY DEF Reclaim, Reclaimable, Present

\* The sweep preserves every receipt; unless it fails, the file holds the
\* tombstones of the process.
LEMMA SweepPreserves ==
  ASSUME Clocks, NEW st \in Store, NEW lk, NEW outcome, NEW k \in Keys, Mirrors(st),
         NEW swept, swept = Sweep(st, lk, outcome)
  PROVE  /\ Preserves(st, swept, k)
         /\ \/ swept = st \/ swept.fenced
            \/ swept.disk.tombstones = swept.tombstones
<1> DEFINE S == {x \in Reclaimable(st) : st.bindings[x].inst \notin ActiveOwners(lk)}
           r == Reclaim(st, S)
<1>1. r.bindings \in Bindings /\ r.tombstones \in Tombstones
  BY ReclaimType DEF Reclaimable
<1>2. \/ r.bindings[k] = st.bindings[k]
      \/ /\ st.bindings[k] # NoBinding /\ ConsumedExpired(st.bindings[k])
         /\ r.bindings[k] = NoBinding /\ r.tombstones[k] = TombstoneOf(st.bindings[k])
  BY ReclaimPreserves
<1>3. PICK same \in BOOLEAN : same = FALSE
  OBVIOUS
<1>4. PICK saved : saved = Save(st, r.bindings, r.tombstones, same, ActiveOwners(lk), outcome)
  OBVIOUS
<1>5. swept = IF r.changed THEN saved.store ELSE st
  BY <1>3, <1>4 DEF Sweep
<1> HIDE DEF S, r
<1>6. Preserves(st, saved.store, k)
  BY <1>1, <1>2, <1>4, SavePreserves DEF Unproved, Spent, ConsumedExpired
<1>7. \/ saved.store = st \/ saved.store.fenced
      \/ saved.store.disk.tombstones = saved.store.tombstones
  <2>1. \/ saved.store = st \/ saved.store.fenced \/ same = TRUE
        \/ saved.store.disk.tombstones = saved.store.tombstones
    BY <1>4, SaveTombstones
  <2> QED
    BY <1>3, <2>1
<1>8. Preserves(st, st, k)
  BY DEF Preserves
<1> QED
  BY <1>5, <1>6, <1>7, <1>8

\* No two sockets belong to one installation.
OneSocketEach == \A s, t \in Sockets : SocketOwner[s] = SocketOwner[t] => s = t

\* No two open sockets belong to one installation.
OneOpenEach ==
  \A s, t \in Sockets :
    link[s] = "open" /\ link[t] = "open" /\ SocketOwner[s] = SocketOwner[t] => s = t

\* telepathosd is asked only about receipts whose storage was proved.
CallsReceived == \A t \in tasks : t.call = "calling" => t.b.st = "received"

\* A socket holds receipt k unproved only while the process does.
HeldAlike(k) == \A s \in Sockets : Unproved(pending[s][k]) => Unproved(store.bindings[k])

\* The phases a socket and a task act on are those of the process.
PhaseInv ==
  /\ OwnersInv
  /\ CallsReceived
  /\ \A k \in Keys : HeldAlike(k)

\* The part of ConsumedLeavesProof a step must satisfy for receipt k.
LeavesDuly(k) ==
  running /\ Spent(store.disk.bindings[k]) =>
    \/ Spent(store'.disk.bindings[k])
    \/ Retiring(k)
    \/ /\ store'.disk.bindings[k] = NoBinding
       /\ ConsumedExpired(store.disk.bindings[k])
       /\ store'.disk.tombstones[k] = TombstoneOf(store.disk.bindings[k])

\* What a step owes receipt k.
Kept(k) == HeldAlike(k)' /\ LeavesDuly(k)

\* What PhaseInv says of a running bridge.
LEMMA PhasesRunning ==
  ASSUME PhaseInv, running
  PROVE  /\ TypeOK /\ Clocks /\ store \in Store /\ Mirrors(store)
         /\ store.bindings \in Bindings /\ store.tombstones \in Tombstones
         /\ ~store.fenced => store.disk.bindings = store.bindings
BY OwnersRunning DEF PhaseInv

\* A receipt a step preserves is kept, if no socket takes it up.
LEMMA PreservedKept ==
  ASSUME PhaseInv, NEW k \in Keys, Preserves(store, store', k),
         \A s \in Sockets : pending'[s][k] \in {pending[s][k], NoBinding}
                            \/ Unproved(store'.bindings[k])
  PROVE  Kept(k)
<1>1. \A s \in Sockets : Unproved(pending'[s][k]) => Unproved(store'.bindings[k])
  BY DEF PhaseInv, HeldAlike, Preserves, Unproved
<1> QED
  BY <1>1 DEF Kept, HeldAlike, LeavesDuly, Preserves

\* A save of the bindings alone preserves every receipt whose binding it
\* leaves in its phase.
LEMMA SaveBindingsPreserves ==
  ASSUME Clocks, NEW st \in Store, NEW b \in Bindings, NEW active, NEW outcome,
         NEW k \in Keys, Mirrors(st), SamePhase(st.bindings[k], b[k]),
         NEW saved, saved = SaveBindings(st, b, active, outcome)
  PROVE  Preserves(st, saved.store, k)
<1>1. \E same : saved = Save(st, b, st.tombstones, same, active, outcome)
  BY DEF SaveBindings
<1>2. PICK same : saved = Save(st, b, st.tombstones, same, active, outcome)
  BY <1>1
<1>3. st.tombstones \in Tombstones
  BY DEF Store
<1>4. /\ Unproved(st.bindings[k]) => Unproved(b[k])
      /\ Spent(st.bindings[k]) => Spent(b[k])
  BY DEF SamePhase, Unproved, Spent
<1> QED
  BY <1>2, <1>3, <1>4, SavePreserves

\* What it writes of one whose phase it changes.
LEMMA SaveBindingsPhases ==
  ASSUME Clocks, NEW st \in Store, NEW b \in Bindings, NEW active, NEW outcome,
         NEW k \in Keys, Mirrors(st),
         NEW saved, saved = SaveBindings(st, b, active, outcome)
  PROVE  \/ ~saved.ok /\ saved.store = st
         \/ /\ ~st.fenced /\ st.disk.bindings = st.bindings
            /\ SamePhase(b[k], saved.store.disk.bindings[k])
            /\ saved.store.disk.tombstones = st.tombstones
            /\ \/ ~saved.ok /\ saved.store.bindings = st.bindings /\ saved.store.fenced
               \/ saved.ok /\ SamePhase(b[k], saved.store.bindings[k])
<1>1. \E same : saved = Save(st, b, st.tombstones, same, active, outcome)
  BY DEF SaveBindings
<1>2. PICK same : saved = Save(st, b, st.tombstones, same, active, outcome)
  BY <1>1
<1>3. st.tombstones \in Tombstones
  BY DEF Store
<1> QED
  BY <1>2, <1>3, SavePhases

\* Every call to telepathosd is about a received receipt.
LEMMA StepCalls ==
  ASSUME TypeOK, CallsReceived, [Next]_vars
  PROVE  CallsReceived'
<1>1. ASSUME NEW src, NEW k, NEW waiting, Acknowledge(src, k, waiting)
      PROVE  CallsReceived'
  <2> DEFINE b == Owned(src, k)
             starts == Acknowledgeable(b) /\ ~InFlight(k)
             calls == starts /\ MustConsume(b)
             new == [key |-> k, src |-> src, b |-> b, done |-> b,
                     call |-> IF calls THEN "calling" ELSE "sending",
                     current |-> TRUE]
  <2>1. tasks' \in {tasks, tasks \cup {new}}
    BY <1>1 DEF Acknowledge
  <2>2. new.call = "calling" => new.b.st = "received"
    BY DEF MustConsume
  <2> HIDE DEF new
  <2> QED
    BY <2>1, <2>2 DEF CallsReceived
<1>2. ASSUME NEW s \in Sockets, NEW o, Hello(s, o)
      PROVE  CallsReceived'
  <2>1. \A t \in tasks' : \E u \in tasks : \E c : t = [u EXCEPT !.current = c]
    BY <1>2 DEF Hello
  <2>2. \A u \in tasks : \A c : /\ [u EXCEPT !.current = c].call = u.call
                                  /\ [u EXCEPT !.current = c].b = u.b
    BY DEF TypeOK, Task
  <2>3. \A t \in tasks' : \E u \in tasks : t.call = u.call /\ t.b = u.b
    <3> SUFFICES ASSUME NEW t \in tasks'
                 PROVE  \E u \in tasks : t.call = u.call /\ t.b = u.b
      OBVIOUS
    <3>1. PICK u \in tasks : \E c : t = [u EXCEPT !.current = c]
      BY <2>1
    <3>2. t.call = u.call /\ t.b = u.b
      BY <2>2, <3>1
    <3> QED
      BY <3>2
  <2> QED
    BY <2>3 DEF CallsReceived
<1>3. ASSUME NEW s \in Sockets, NEW o, Close(s, o)
      PROVE  CallsReceived'
  <2>1. \A t \in tasks' : \E u \in tasks : \E c : t = [u EXCEPT !.src = c]
    BY <1>3 DEF Close
  <2>2. \A u \in tasks : \A c : /\ [u EXCEPT !.src = c].call = u.call
                                  /\ [u EXCEPT !.src = c].b = u.b
    BY DEF TypeOK, Task
  <2>3. \A t \in tasks' : \E u \in tasks : t.call = u.call /\ t.b = u.b
    <3> SUFFICES ASSUME NEW t \in tasks'
                 PROVE  \E u \in tasks : t.call = u.call /\ t.b = u.b
      OBVIOUS
    <3>1. PICK u \in tasks : \E c : t = [u EXCEPT !.src = c]
      BY <2>1
    <3>2. t.call = u.call /\ t.b = u.b
      BY <2>2, <3>1
    <3> QED
      BY <3>2
  <2> QED
    BY <2>3 DEF CallsReceived
<1>4. ASSUME NEW t \in tasks, NEW o, ConsumeAnswered(t, o)
      PROVE  CallsReceived'
  <2>1. \A x \in tasks' : x \in tasks \/ \E c : x = [t EXCEPT !.call = "sending", !.done = c]
    BY <1>4 DEF ConsumeAnswered
  <2>2. \A c : [t EXCEPT !.call = "sending", !.done = c].call = "sending"
    BY DEF TypeOK, Task
  <2> QED
    BY <2>1, <2>2 DEF CallsReceived
<1>5. ASSUME NEW t \in tasks, ConsumeFailed(t) \/ ConfirmationSent(t)
      PROVE  CallsReceived'
  BY <1>5 DEF ConsumeFailed, ConfirmationSent, CallsReceived
<1>6. ASSUME NEW s \in Sockets, NEW k \in Keys, NEW w, NEW o,
             \/ Prepare(s, k, w, o) \/ ReceiveReplyAck(s, k, o)
             \/ RetireReplyAck(s, k, o)
      PROVE  CallsReceived'
  BY <1>6 DEF Prepare, ReceiveReplyAck, RetireReplyAck, CallsReceived
<1>7. CASE \/ \E o \in SaveOutcomes : PeriodicSweep(o)
           \/ \E k \in Keys : TelepathosdConsumes(k)
           \/ Crash \/ Start \/ Tick \/ Rollback \/ HandsetNext \/ UNCHANGED vars
  BY <1>7 DEF PeriodicSweep, TelepathosdConsumes, Crash, Start, Tick, Rollback,
              HandsetNext, Dial, Write, Read, vars, CallsReceived
<1>8. ASSUME NEW s \in Sockets, NEW k \in Keys, AcknowledgeReplyAck(s, k)
      PROVE  CallsReceived'
  BY <1>1, <1>8 DEF AcknowledgeReplyAck
<1>9. ASSUME NEW k \in Keys, RetryTimer(k)
      PROVE  CallsReceived'
  BY <1>1, <1>9 DEF RetryTimer
<1> QED
  BY <1>2, <1>3, <1>4, <1>5, <1>6, <1>7, <1>8, <1>9 DEF Next, BridgeNext

\* A reply prepared is a new receipt, and the sweep before it keeps the others.
LEMMA PrepareKept ==
  ASSUME PhaseInv, NEW s \in Sockets, NEW k \in Keys, NEW swept, NEW outcome,
         Prepare(s, k, swept, outcome), NEW x \in Keys
  PROVE  Kept(x)
<1> DEFINE st == Sweep(store, link, swept)
           b == Envelope(st, SocketOwner[s])
           next == [st.bindings EXCEPT ![k] = b]
           available == /\ ~st.fenced
                        /\ Cardinality(Present(st.bindings, NoBinding)) < MaxBindings
           saved == SaveBindings(st, next, ActiveOwners(link), outcome)
           done == available /\ saved.ok
<1>1. /\ running /\ k \in turns
      /\ store' = IF available THEN saved.store ELSE st
      /\ pending' = IF done
                    THEN [pending EXCEPT ![s][k] = saved.store.bindings[k]]
                    ELSE pending
  BY DEF Prepare
<1>2. /\ TypeOK /\ Clocks /\ SocketOwner[s] \in Installations
      /\ store \in Store /\ Mirrors(store) /\ st \in Store
  BY <1>1, PhasesRunning, OwnerAssumption, SweepType
<1>3. /\ Preserves(store, st, x)
      /\ st = store \/ st.fenced \/ st.disk.tombstones = st.tombstones
  BY <1>2, SweepPreserves
<1>4. /\ store.bindings[k] = NoBinding /\ store.disk.bindings[k] = NoBinding
      /\ \A t \in Sockets : pending[t][k] = NoBinding
  BY <1>1 DEF PhaseInv, OwnersInv, NotYetBound, Unbound
<1>5. Mirrors(st)
  <2>1. Sound(store, proved, consumed)
    BY <1>1, RunningSound DEF PhaseInv, OwnersInv
  <2> QED
    BY <1>2, <2>1, SweepSound DEF Sound
<1> HIDE DEF st
<1>6. b \in Binding /\ b.st = "prepared" /\ b # NoBinding
  <2>1. Later(Later(st.seen[SocketOwner[s]], clock), startedAt) \in Nat
    BY <1>2, LaterType DEF Clocks, Store
  <2> QED
    BY <1>2, <2>1, AbsentAssumption DEF Envelope, Binding, Phase, Clocks
<1> HIDE DEF b
<1>7. /\ next \in Bindings /\ next[k] = b
      /\ \A y \in Keys \ {k} : next[y] = st.bindings[y]
  BY <1>2, <1>6 DEF Store, Bindings
<1> HIDE DEF next
<1>8. \A y \in Keys :
        \/ ~saved.ok /\ saved.store = st
        \/ /\ ~st.fenced /\ st.disk.bindings = st.bindings
           /\ SamePhase(next[y], saved.store.disk.bindings[y])
           /\ saved.store.disk.tombstones = st.tombstones
           /\ \/ ~saved.ok /\ saved.store.bindings = st.bindings /\ saved.store.fenced
              \/ saved.ok /\ SamePhase(next[y], saved.store.bindings[y])
  BY <1>2, <1>5, <1>7, SaveBindingsPhases
<1>9. \A t \in Sockets, y \in Keys :
        pending'[t][y] = IF done /\ t = s /\ y = k THEN saved.store.bindings[k]
                         ELSE pending[t][y]
  BY <1>1, <1>2 DEF TypeOK, Bindings
<1> HIDE DEF saved, available
<1>10. CASE x = k
  <2>1. \A t \in Sockets : Unproved(pending'[t][k]) => done
    BY <1>4, <1>9 DEF Unproved
  <2>2. done => Unproved(store'.bindings[k])
    <3>1. done => SamePhase(next[k], saved.store.bindings[k])
      BY <1>8
    <3> QED
      BY <1>1, <1>6, <1>7, <3>1 DEF SamePhase, Unproved
  <2>3. ~Spent(store.disk.bindings[k])
    BY <1>4 DEF Spent
  <2> QED
    BY <1>10, <2>1, <2>2, <2>3 DEF Kept, HeldAlike, LeavesDuly
<1>11. CASE x # k
  <2>1. \A t \in Sockets : pending'[t][x] = pending[t][x]
    BY <1>9, <1>11
  <2>2. CASE store' = st
    BY <1>3, <2>1, <2>2, PreservedKept
  <2>3. CASE store' = saved.store /\ ~st.fenced
    <3>1. next[x] = st.bindings[x]
      BY <1>7, <1>11
    <3>2. \/ saved.store = st
          \/ /\ st.disk.bindings = st.bindings
             /\ SamePhase(st.bindings[x], saved.store.disk.bindings[x])
             /\ saved.store.disk.tombstones = st.tombstones
             /\ \/ saved.store.bindings = st.bindings
                \/ SamePhase(st.bindings[x], saved.store.bindings[x])
      BY <1>8, <3>1
    <3>3. Preserves(store, saved.store, x)
      <4>1. CASE saved.store = st
        BY <1>3, <4>1
      <4>2. CASE saved.store # st /\ st = store
        BY <3>2, <4>2 DEF Preserves, SamePhase, Unproved, Spent
      <4>3. CASE saved.store # st /\ st.disk.tombstones = st.tombstones
        BY <1>3, <3>2, <4>3 DEF Preserves, SamePhase, Unproved, Spent
      <4> QED
        BY <1>3, <2>3, <4>1, <4>2, <4>3
    <3> QED
      BY <2>1, <2>3, <3>3, PreservedKept
  <2> QED
    BY <1>1, <2>2, <2>3 DEF available
<1> QED
  BY <1>10, <1>11

\* A receipt proved stored was unproved, on this socket and in the process.
LEMMA ReceiveKept ==
  ASSUME OneOpenEach, PhaseInv, NEW s \in Sockets, NEW k \in Keys, NEW outcome,
         ReceiveReplyAck(s, k, outcome), NEW x \in Keys
  PROVE  Kept(x)
<1> DEFINE b == Owned(SourceOf(s), k)
           effect == IF clock < b.at THEN "pre" ELSE outcome
           next == [store.bindings EXCEPT ![k] = [b EXCEPT !.st = "received", !.at = clock]]
           saved == SaveBindings(store, next, ActiveOwners(link), effect)
           first == b # NoBinding /\ b.st = "prepared"
<1>1. /\ running /\ link[s] = "open"
      /\ store' = IF first THEN saved.store ELSE store
      /\ pending' = IF first /\ saved.ok
                    THEN [pending EXCEPT ![s][k] = saved.store.bindings[k]]
                    ELSE pending
  BY DEF ReceiveReplyAck, Takes
<1>2. /\ TypeOK /\ Clocks /\ store \in Store /\ Mirrors(store)
      /\ store.bindings \in Bindings
      /\ ~store.fenced => store.disk.bindings = store.bindings
  BY <1>1, PhasesRunning
<1>3. /\ \/ b = pending[s][k] \/ b = store.bindings[k] \/ b = NoBinding
      /\ b # NoBinding => b.inst = SocketOwner[s]
  BY DEF Owned, SourceOf
<1>4. b # NoBinding => b \in Binding
  BY <1>2, <1>3 DEF TypeOK, Bindings
<1>5. \A t \in Sockets, y \in Keys :
        pending'[t][y] = IF first /\ saved.ok /\ t = s /\ y = k
                         THEN saved.store.bindings[k] ELSE pending[t][y]
  BY <1>1, <1>2 DEF TypeOK, Bindings
<1> HIDE DEF b, effect
<1>6. CASE ~first
  <2>1. Preserves(store, store', x)
    BY <1>1, <1>6 DEF Preserves
  <2> QED
    BY <1>5, <1>6, <2>1, PreservedKept
<1>7. CASE first
  <2>1. /\ next \in Bindings /\ next[k] # NoBinding /\ next[k].st = "received"
        /\ \A y \in Keys \ {k} : next[y] = store.bindings[y]
    <3>1. /\ [b EXCEPT !.st = "received", !.at = clock] \in Binding
          /\ [b EXCEPT !.st = "received", !.at = clock].st = "received"
      BY <1>2, <1>4, <1>7 DEF Binding, Phase, Clocks
    <3> QED
      BY <1>2, <3>1, AbsentAssumption DEF Bindings, Binding, Phase
  <2> HIDE DEF next
  <2>2. Unproved(store.bindings[k])
    BY <1>3, <1>7 DEF PhaseInv, HeldAlike, Unproved
  <2>3. CASE x # k
    <3>1. Preserves(store, saved.store, x)
      BY <1>2, <2>1, <2>3, SaveBindingsPreserves DEF SamePhase
    <3> HIDE DEF saved
    <3> QED
      BY <1>1, <1>5, <1>7, <2>3, <3>1, PreservedKept
  <2>4. CASE x = k
    <3>1. \/ ~saved.ok /\ saved.store = store
          \/ /\ ~store.fenced
             /\ \/ saved.store.bindings = store.bindings
                \/ saved.ok /\ SamePhase(next[k], saved.store.bindings[k])
      BY <1>2, <2>1, SaveBindingsPhases
    <3> HIDE DEF saved
    <3>2. ~store.fenced => ~Spent(store.disk.bindings[k])
      BY <1>2, <2>2 DEF Unproved, Spent
    <3>3. LeavesDuly(k)
      BY <1>1, <1>7, <3>1, <3>2 DEF LeavesDuly
    <3>4. CASE saved.store.bindings = store.bindings
      <4>1. \A t \in Sockets : Unproved(pending'[t][k]) => Unproved(store.bindings[k])
        BY <2>2
      <4> QED
        BY <1>1, <1>7, <2>4, <3>3, <3>4, <4>1 DEF Kept, HeldAlike
    <3>5. CASE saved.ok /\ SamePhase(next[k], saved.store.bindings[k])
      <4>1. \A t \in Sockets : Unproved(pending[t][k]) => t = s
        <5> SUFFICES ASSUME NEW t \in Sockets, Unproved(pending[t][k]) PROVE t = s
          OBVIOUS
        <5>1. store.bindings[k].inst = SocketOwner[t] /\ link[t] = "open"
          BY <2>2 DEF PhaseInv, OwnersInv, PendingOwned, Unproved
        <5>2. SocketOwner[t] = SocketOwner[s]
          BY <1>3, <1>7, <5>1 DEF PhaseInv, OwnersInv, PendingOwned, Unproved
        <5> QED
          BY <1>1, <5>1, <5>2 DEF OneOpenEach
      <4>2. ~Unproved(saved.store.bindings[k])
        BY <2>1, <3>5 DEF SamePhase, Unproved
      <4>3. \A t \in Sockets : ~Unproved(pending'[t][k])
        BY <1>5, <1>7, <3>5, <4>1, <4>2
      <4> QED
        BY <2>4, <3>3, <4>3 DEF Kept, HeldAlike
    <3> QED
      BY <3>1, <3>4, <3>5
  <2> QED
    BY <2>3, <2>4
<1> QED
  BY <1>6, <1>7

\* A consumption is recorded for a receipt that was received.
LEMMA ConsumeAnsweredKept ==
  ASSUME PhaseInv, NEW t \in tasks, NEW outcome, ConsumeAnswered(t, outcome),
         NEW x \in Keys
  PROVE  Kept(x)
<1> DEFINE k == t.key
           effect == IF clock < t.b.at THEN "pre" ELSE outcome
           next == [store.bindings EXCEPT ![k] = [t.b EXCEPT !.st = "consumed", !.at = clock]]
           saved == SaveBindings(store, next, ActiveOwners(link), effect)
           same == store.bindings[k] = t.b
<1>1. /\ running /\ t.call = "calling"
      /\ store' = IF same THEN saved.store ELSE store
      /\ pending' = pending
  BY DEF ConsumeAnswered
<1>2. /\ TypeOK /\ Clocks /\ store \in Store /\ Mirrors(store)
      /\ store.bindings \in Bindings
  BY <1>1, PhasesRunning
<1>3. /\ t \in Task /\ k \in Keys /\ t.b \in Binding /\ t.b # NoBinding
      /\ t.b.st = "received"
  <2>1. t \in Task /\ k \in Keys /\ t.b \in Binding
    BY <1>2 DEF TypeOK, Task
  <2> QED
    BY <1>1, <2>1, AbsentAssumption DEF PhaseInv, CallsReceived, Binding, Phase
<1> HIDE DEF effect, k
<1>4. CASE ~same
  <2>1. Preserves(store, store', x)
    BY <1>1, <1>4 DEF Preserves
  <2> QED
    BY <1>1, <2>1, PreservedKept
<1>5. CASE same
  <2>1. /\ next \in Bindings /\ Spent(next[k])
        /\ \A y \in Keys \ {k} : next[y] = store.bindings[y]
    <3>1. /\ [t.b EXCEPT !.st = "consumed", !.at = clock] \in Binding
          /\ [t.b EXCEPT !.st = "consumed", !.at = clock].st = "consumed"
      BY <1>2, <1>3 DEF Binding, Phase, Clocks
    <3> QED
      BY <1>2, <1>3, <3>1, AbsentAssumption DEF Bindings, Binding, Phase, Spent
  <2>2. ~Unproved(store.bindings[k])
    BY <1>3, <1>5 DEF Unproved
  <2> HIDE DEF next, same
  <2>3. Preserves(store, saved.store, x)
    <3>1. /\ Unproved(store.bindings[x]) => Unproved(next[x])
          /\ Spent(store.bindings[x]) => Spent(next[x])
      BY <2>1, <2>2
    <3>2. \E w : saved = Save(store, next, store.tombstones, w, ActiveOwners(link), effect)
      BY DEF SaveBindings
    <3>3. PICK w : saved = Save(store, next, store.tombstones, w, ActiveOwners(link), effect)
      BY <3>2
    <3>4. store.tombstones \in Tombstones
      BY <1>2 DEF Store
    <3> HIDE DEF saved
    <3> QED
      BY <1>2, <2>1, <3>1, <3>3, <3>4, SavePreserves
  <2> HIDE DEF saved
  <2> QED
    BY <1>1, <1>5, <2>3, PreservedKept
<1> QED
  BY <1>4, <1>5

\* A retirement takes only the receipt it names out of the file.
LEMMA RetireKept ==
  ASSUME PhaseInv, NEW s \in Sockets, NEW k \in Keys, NEW outcome,
         RetireReplyAck(s, k, outcome), NEW x \in Keys
  PROVE  Kept(x)
<1> DEFINE b == store.bindings[k]
           t == store.tombstones[k]
           active == ActiveOwners(link)
           without == [store.bindings EXCEPT ![k] = NoBinding]
           unburied == [store.tombstones EXCEPT ![k] = NoTombstone]
           owned == Retirable(b, SocketOwner[s])
           buried == b = NoBinding /\ t # NoTombstone /\ t.inst = SocketOwner[s]
           dropped == SaveBindings(store, without, active, outcome)
           cleared == Save(store, store.bindings, unburied, FALSE, active, outcome)
           saved == IF owned THEN dropped ELSE cleared
           removed == (owned \/ buried) /\ saved.ok
<1>1. /\ running /\ store' = IF owned \/ buried THEN saved.store ELSE store
      /\ pending' = IF owned /\ removed
                    THEN [pending EXCEPT ![s][k] = NoBinding] ELSE pending
  BY DEF RetireReplyAck, Takes
<1>2. /\ TypeOK /\ Clocks /\ store \in Store /\ Mirrors(store)
      /\ store.bindings \in Bindings /\ store.tombstones \in Tombstones
  BY <1>1, PhasesRunning
<1>3. Retiring(k)
  BY <1>2 DEF RetireReplyAck, Takes, Retiring, TypeOK
<1>4. \A u \in Sockets : pending'[u][x] \in {pending[u][x], NoBinding}
  <2> HIDE DEF removed, owned
  <2> QED
    BY <1>1, <1>2 DEF TypeOK, Bindings
<1>5. CASE ~owned /\ ~buried
  <2>1. Preserves(store, store', x)
    BY <1>1, <1>5 DEF Preserves
  <2> QED
    BY <1>4, <2>1, PreservedKept
<1>6. CASE buried /\ ~owned
  <2>1. unburied \in Tombstones
    BY <1>2 DEF Tombstones
  <2> HIDE DEF unburied
  <2>2. \E w : cleared = Save(store, store.bindings, unburied, w, active, outcome)
    OBVIOUS
  <2>3. PICK w : cleared = Save(store, store.bindings, unburied, w, active, outcome)
    BY <2>2
  <2> HIDE DEF cleared
  <2>4. Preserves(store, cleared.store, x)
    BY <1>2, <2>1, <2>3, SavePreserves
  <2> HIDE DEF owned, buried
  <2> QED
    BY <1>1, <1>4, <1>6, <2>4, PreservedKept
<1>7. CASE owned /\ x # k
  <2>1. without \in Bindings /\ without[x] = store.bindings[x]
    BY <1>2, <1>7 DEF Bindings
  <2> HIDE DEF without
  <2>2. Preserves(store, dropped.store, x)
    BY <1>2, <2>1, SaveBindingsPreserves DEF SamePhase
  <2> HIDE DEF owned, dropped, cleared
  <2> QED
    BY <1>1, <1>4, <1>7, <2>2, PreservedKept
<1>8. CASE owned /\ x = k
  <2>1. ~Unproved(b)
    BY <1>8 DEF Retirable, Unproved
  <2>2. \A u \in Sockets : ~Unproved(pending'[u][k])
    BY <1>4, <1>8, <2>1 DEF PhaseInv, HeldAlike, Unproved
  <2> QED
    BY <1>3, <1>8, <2>2 DEF Kept, HeldAlike, LeavesDuly
<1> QED
  BY <1>5, <1>6, <1>7, <1>8

\* The bridge noting a closed socket changes no phase.
LEMMA DisconnectedPreserves ==
  ASSUME Clocks, NEW st \in Store, NEW s \in Sockets, NEW lk, NEW outcome,
         NEW k \in Keys, Mirrors(st)
  PROVE  Preserves(st, Disconnected(st, s, lk, outcome), k)
<1> DEFINE i == SocketOwner[s]
           noted == NoteSeen(st, i, ActiveOwners(lk))
           next == [x \in Keys |->
                      IF noted.bindings[x] # NoBinding /\ noted.bindings[x].inst = i
                      THEN [noted.bindings[x] EXCEPT
                              !.seen = LastSeenAt(noted.bindings[x], noted.seen)]
                      ELSE noted.bindings[x]]
           saved == SaveBindings(noted, next, ActiveOwners(lk), outcome)
           gone == Disconnected(st, s, lk, outcome)
<1>1. noted \in Store /\ i \in Installations
  BY OwnerAssumption, NoteSeenType
<1>2. Mirrors(noted) /\ noted.bindings = st.bindings /\ noted.disk = st.disk
  BY NoteSeenEffect DEF Mirrors
<1>3. gone = IF next # noted.bindings THEN saved.store ELSE noted
  BY DEF Disconnected
<1> HIDE DEF noted, i
<1>4. \A x \in Keys : next[x] \in Binding \cup {NoBinding} /\ SamePhase(noted.bindings[x], next[x])
  <2> SUFFICES ASSUME NEW x \in Keys, noted.bindings[x] # NoBinding
               PROVE  /\ next[x] \in Binding /\ next[x] # NoBinding
                      /\ next[x].st = noted.bindings[x].st
    BY DEF SamePhase
  <2>1. noted.bindings[x] \in Binding
    BY <1>1 DEF Store, Bindings
  <2>2. LastSeenAt(noted.bindings[x], noted.seen) \in Nat
    BY <1>1, <2>1, LastSeenType DEF Store
  <2>3. /\ [noted.bindings[x] EXCEPT !.seen = LastSeenAt(noted.bindings[x], noted.seen)]
             \in Binding
        /\ [noted.bindings[x] EXCEPT !.seen = LastSeenAt(noted.bindings[x], noted.seen)].st
             = noted.bindings[x].st
    BY <2>1, <2>2 DEF Binding
  <2>4. next[x] \in Binding /\ next[x].st = noted.bindings[x].st
    BY <2>1, <2>3
  <2> QED
    BY <2>4, AbsentAssumption DEF Binding, Phase
<1>5. next \in Bindings
  BY <1>4 DEF Bindings
<1> HIDE DEF next
<1>6. Preserves(noted, saved.store, k)
  BY <1>1, <1>2, <1>4, <1>5, SaveBindingsPreserves
<1> HIDE DEF saved
<1> QED
  BY <1>2, <1>3, <1>6 DEF Preserves

\* Nor does a close.
LEMMA CloseKept ==
  ASSUME PhaseInv, NEW s \in Sockets, NEW outcome, Close(s, outcome), NEW x \in Keys
  PROVE  Kept(x)
<1> DEFINE lk == [link EXCEPT ![s] = "closed"]
<1>1. /\ running
      /\ store' = IF link[s] = "open" THEN Disconnected(store, s, lk, outcome)
                  ELSE store
      /\ pending' = [pending EXCEPT ![s] = EmptyBindings]
  BY DEF Close
<1>2. TypeOK /\ Clocks /\ store \in Store /\ Mirrors(store)
  BY <1>1, PhasesRunning
<1>3. \A t \in Sockets : pending'[t][x] \in {pending[t][x], NoBinding}
  BY <1>1, <1>2 DEF TypeOK, EmptyBindings
<1>4. Preserves(store, Disconnected(store, s, lk, outcome), x)
  BY <1>2, DisconnectedPreserves
<1>5. Preserves(store, store, x)
  BY DEF Preserves
<1> QED
  BY <1>1, <1>3, <1>4, <1>5, PreservedKept

\* A hello takes over no spent receipt, and buries only expired ones.
LEMMA HelloKept ==
  ASSUME PhaseInv, NEW s \in Sockets, NEW outcome, Hello(s, outcome), NEW x \in Keys
  PROVE  Kept(x)
<1> PICK same : same = FALSE
  OBVIOUS
<1> DEFINE i == SocketOwner[s]
           lk == [link EXCEPT ![s] = "open"]
           active == ActiveOwners(lk)
           noted == NoteSeen(store, i, active)
           r == Reclaim(noted, Reclaimable(noted))
           skipped == {y \in Present(noted.bindings, NoBinding) :
                         r.bindings[y] = NoBinding}
           taken == Taken(noted, i, lk, skipped)
           now(b) == Later(LastSeenAt(b, noted.seen), clock)
           next == [y \in Keys |->
                      IF r.bindings[y] = NoBinding THEN NoBinding
                      ELSE IF y \in taken
                      THEN [inst |-> i, st |-> "prepared", at |-> clock,
                            seen |-> now(noted.bindings[y])]
                      ELSE IF noted.bindings[y].inst = i
                      THEN [noted.bindings[y] EXCEPT !.seen = now(noted.bindings[y])]
                      ELSE noted.bindings[y]]
           want == Reconciled(noted, i, lk)
           saved == Save(noted, want.bindings, want.tombstones, same, active, outcome)
           b == store.bindings[x]
           replayed == {y \in Present(store'.bindings, NoBinding) :
                          store'.bindings[y].st = "prepared" /\ store'.bindings[y].inst = i}
<1>1. /\ running
      /\ store' = IF want.changed THEN saved.store ELSE noted
      /\ pending' = [pending EXCEPT ![s] =
           [k \in Keys |-> IF k \in replayed THEN store'.bindings[k] ELSE @[k]]]
  BY DEF Hello
<1>2. TypeOK /\ Clocks /\ store \in Store /\ Mirrors(store) /\ i \in Installations
  BY <1>1, PhasesRunning, OwnerAssumption
<1>3. /\ noted \in Store /\ Mirrors(noted)
      /\ noted.bindings = store.bindings /\ noted.disk = store.disk
  BY <1>2, NoteSeenType, NoteSeenEffect DEF Mirrors
<1>4. want.bindings = next /\ want.tombstones = r.tombstones
  BY DEF Reconciled
<1>5. want.bindings \in Bindings /\ want.tombstones \in Tombstones
  BY <1>2, <1>3, ReconciledType
<1>6. \/ r.bindings[x] = b
      \/ /\ b # NoBinding /\ ConsumedExpired(b)
         /\ r.bindings[x] = NoBinding /\ r.tombstones[x] = TombstoneOf(b)
  BY <1>3, ReclaimPreserves
<1>7. x \in taken => ~Spent(b)
  BY <1>3 DEF Taken, Spent
<1>8. \A t \in Sockets : \/ pending'[t][x] = pending[t][x]
                         \/ x \in replayed /\ pending'[t][x] = store'.bindings[x]
  <2> HIDE DEF replayed
  <2> QED
    BY <1>1, <1>2 DEF TypeOK, Bindings
<1>9. x \in replayed => Unproved(store'.bindings[x])
  BY DEF Present, Unproved
<1> HIDE DEF noted, r, taken, want, replayed, active, i
<1>10. /\ Unproved(b) => Unproved(next[x])
       /\ Spent(b) => \/ Spent(next[x])
                      \/ /\ next[x] = NoBinding /\ ConsumedExpired(b)
                         /\ r.tombstones[x] = TombstoneOf(b)
  <2>1. CASE r.bindings[x] = NoBinding
    BY <1>6, <2>1 DEF Unproved, Spent, ConsumedExpired
  <2>2. CASE r.bindings[x] # NoBinding
    <3>1. r.bindings[x] = b /\ b # NoBinding
      BY <1>6, <2>2
    <3>2. /\ b \in Binding /\ now(b) \in Nat
      <4>1. b \in Binding
        BY <1>2, <3>1 DEF Store, Bindings
      <4> QED
        BY <1>2, <1>3, <4>1, LastSeenType, LaterType DEF Store, Clocks
    <3> HIDE DEF now
    <3>3. CASE x \in taken
      <4>1. next[x] = [inst |-> i, st |-> "prepared", at |-> clock, seen |-> now(b)]
        BY <1>3, <2>2, <3>3
      <4>2. next[x] # NoBinding /\ next[x].st = "prepared"
        BY <1>2, <3>2, <4>1, AbsentAssumption DEF Clocks
      <4> QED
        BY <1>7, <3>3, <4>2 DEF Unproved
    <3>4. CASE x \notin taken
      <4>1. next[x] \in {b, [b EXCEPT !.seen = now(b)]}
        BY <1>3, <2>2, <3>4
      <4>2. /\ [b EXCEPT !.seen = now(b)] \in Binding
            /\ [b EXCEPT !.seen = now(b)].st = b.st
        BY <3>2 DEF Binding
      <4>3. next[x] # NoBinding /\ next[x].st = b.st
        BY <3>1, <4>1, <4>2, AbsentAssumption DEF Binding, Phase
      <4> QED
        BY <4>3 DEF Unproved, Spent
    <3> QED
      BY <3>3, <3>4
  <2> QED
    BY <2>1, <2>2
<1> HIDE DEF next
<1>11. Preserves(noted, saved.store, x)
  BY <1>2, <1>3, <1>4, <1>5, <1>10, SavePreserves
<1>12. Preserves(noted, noted, x)
  BY DEF Preserves
<1> HIDE DEF saved
<1>13. Preserves(store, store', x)
  BY <1>1, <1>3, <1>11, <1>12 DEF Preserves
<1> QED
  BY <1>8, <1>9, <1>13, PreservedKept

\* The interval sweep keeps every receipt.
LEMMA PeriodicSweepKept ==
  ASSUME PhaseInv, NEW outcome, PeriodicSweep(outcome), NEW x \in Keys
  PROVE  Kept(x)
<1>1. running /\ pending' = pending /\ store' = Sweep(store, link, outcome)
  BY DEF PeriodicSweep
<1>2. Preserves(store, store', x)
  BY <1>1, PhasesRunning, SweepPreserves
<1> QED
  BY <1>1, <1>2, PreservedKept

\* A crash and a start keep the file, and no socket holds anything.
LEMMA CrashStartKept ==
  ASSUME PhaseInv, Crash \/ Start, NEW x \in Keys
  PROVE  Kept(x)
<1>1. \A s \in Sockets : pending'[s][x] = NoBinding
  BY DEF Crash, Start, EmptyBindings, PhaseInv, OwnersInv, PendingOwned
<1>2. LeavesDuly(x)
  <2>1. CASE Crash
    <3>1. store'.disk = store.disk
      BY <2>1 DEF Crash, PhaseInv, OwnersInv, BridgeInv, TypeOK, Store
    <3> QED
      BY <3>1 DEF LeavesDuly
  <2>2. CASE Start
    BY <2>2 DEF Start, LeavesDuly
  <2> QED
    BY <2>1, <2>2
<1> QED
  BY <1>1, <1>2 DEF Kept, HeldAlike, Unproved

\* No other step touches the store, nor makes a socket take up a binding.
LEMMA QuietStepKept ==
  ASSUME PhaseInv, NEW x \in Keys,
         \/ \E s \in Sockets, k \in Keys : AcknowledgeReplyAck(s, k)
         \/ \E k \in Keys : RetryTimer(k)
         \/ \E t \in tasks : ConsumeFailed(t) \/ ConfirmationSent(t)
         \/ \E k \in Keys : TelepathosdConsumes(k)
         \/ Tick \/ Rollback \/ HandsetNext \/ UNCHANGED vars
  PROVE  Kept(x)
<1>1. store' = store
  BY DEF AcknowledgeReplyAck, RetryTimer, ConsumeFailed, ConfirmationSent,
         TelepathosdConsumes, Tick, Rollback, HandsetNext, Dial, Write, Read, vars
<1>2. Preserves(store, store', x)
  BY <1>1 DEF Preserves
<1>3. \A s \in Sockets : pending'[s][x] \in {pending[s][x], NoBinding}
  <2>1. \/ pending' = pending
        \/ \E s, k : pending' = [pending EXCEPT ![s][k] = NoBinding]
    BY DEF AcknowledgeReplyAck, RetryTimer, ConsumeFailed, ConfirmationSent,
           TelepathosdConsumes, Tick, Rollback, HandsetNext, Dial, Write, Read, vars
  <2>2. pending \in [Sockets -> [Keys -> Binding \cup {NoBinding}]]
    BY DEF PhaseInv, OwnersInv, BridgeInv, TypeOK, Bindings
  <2>3. CASE pending' = pending
    BY <2>3
  <2>4. ASSUME NEW s, NEW k, pending' = [pending EXCEPT ![s][k] = NoBinding]
        PROVE  \A t \in Sockets : pending'[t][x] \in {pending[t][x], NoBinding}
    BY <2>2, <2>4
  <2> QED
    BY <2>1, <2>3, <2>4
<1> QED
  BY <1>2, <1>3, PreservedKept

\* Every step keeps the phases, and takes no spent receipt out of the file
\* unduly, while no two open sockets belong to one installation.
LEMMA StepPhases ==
  ASSUME OneOpenEach, PhaseInv, [Next]_vars
  PROVE  PhaseInv' /\ \A k \in Keys : LeavesDuly(k)
<1>1. OwnersInv'
  BY StepOwners DEF PhaseInv, OwnersKept
<1>2. CallsReceived'
  BY StepCalls DEF PhaseInv, OwnersInv, BridgeInv
<1>3. ASSUME NEW x \in Keys PROVE Kept(x)
  <2>1. CASE BridgeNext
    <3>1. ASSUME NEW s \in Sockets, NEW o \in SaveOutcomes, Hello(s, o)
          PROVE  Kept(x)
      BY <3>1, HelloKept
    <3>2. ASSUME NEW s \in Sockets, NEW k \in Keys, NEW w \in SaveOutcomes,
                 NEW o \in SaveOutcomes, Prepare(s, k, w, o)
          PROVE  Kept(x)
      BY <3>2, PrepareKept
    <3>3. ASSUME NEW s \in Sockets, NEW k \in Keys, NEW o \in SaveOutcomes,
                 ReceiveReplyAck(s, k, o)
          PROVE  Kept(x)
      BY <3>3, ReceiveKept
    <3>4. ASSUME NEW t \in tasks, NEW o \in SaveOutcomes, ConsumeAnswered(t, o)
          PROVE  Kept(x)
      BY <3>4, ConsumeAnsweredKept
    <3>5. ASSUME NEW s \in Sockets, NEW k \in Keys, NEW o \in SaveOutcomes,
                 RetireReplyAck(s, k, o)
          PROVE  Kept(x)
      BY <3>5, RetireKept
    <3>6. ASSUME NEW s \in Sockets, NEW o \in SaveOutcomes, Close(s, o)
          PROVE  Kept(x)
      BY <3>6, CloseKept
    <3>7. ASSUME NEW o \in SaveOutcomes, PeriodicSweep(o) PROVE Kept(x)
      BY <3>7, PeriodicSweepKept
    <3> QED
      BY <2>1, <3>1, <3>2, <3>3, <3>4, <3>5, <3>6, <3>7, CrashStartKept,
         QuietStepKept DEF BridgeNext
  <2>2. CASE HandsetNext \/ UNCHANGED vars
    BY <2>2, QuietStepKept
  <2> QED
    BY <2>1, <2>2 DEF Next
<1> QED
  BY <1>1, <1>2, <1>3 DEF PhaseInv, Kept

\* Where each installation has one socket, a consumed record leaves the file
\* only when its owner retires it, or for the tombstone that lets the owner
\* repeat its acknowledgement.
THEOREM ConsumedIsKept == ASSUME OneSocketEach PROVE Spec => ConsumedLeavesProof
<1>1. Init => PhaseInv
  <2>1. Init => CallsReceived /\ \A k \in Keys : HeldAlike(k)
    BY DEF Init, CallsReceived, HeldAlike, Unproved, EmptyBindings
  <2> QED
    BY <2>1, InitOwners DEF PhaseInv
<1>2. PhaseInv /\ [Next]_vars => PhaseInv'
  BY StepPhases DEF OneSocketEach, OneOpenEach
<1>3. PhaseInv /\ [Next]_vars =>
        [\A k \in Keys :
           LET b == store.disk.bindings[k]
               c == store'.disk.bindings[k]
           IN  b # NoBinding /\ b.st = "consumed" /\ running
                 => \/ c # NoBinding /\ c.st = "consumed"
                    \/ Retiring(k)
                    \/ /\ c = NoBinding /\ ConsumedExpired(b)
                       /\ store'.disk.tombstones[k] = [inst |-> b.inst, at |-> clock]]_vars
  BY StepPhases DEF OneSocketEach, OneOpenEach, LeavesDuly, Spent, TombstoneOf
<1> QED
  BY <1>1, <1>2, <1>3, PTL DEF Spec, ConsumedLeavesProof
=============================================================================
