------------------------------ MODULE RelayLedger ------------------------------
(***************************************************************************)
(* The outbound half of telepathosd's relay (telepathosd/src/relay.rs):    *)
(* replies a gateway sends for a lane, queued for the phone under          *)
(* sequence numbers, and the ledger that makes a gateway's request         *)
(* idempotent until it acknowledges the result.  Both halves, the          *)
(* tombstones of acknowledged results and the clock are one snapshot file. *)
(*                                                                         *)
(* A mutation changes the memory, then writes the file, then keeps or      *)
(* undoes the change, all under queue_mutation_lock.  Begin is the first   *)
(* half, Finish the second.  /api/pending reads without that lock.         *)
(***************************************************************************)
EXTENDS Naturals, FiniteSets, SequencesExt

CONSTANTS
  Gateways, NoGateway,
  Requests,       \* request ids, each a gateway's own
  Lanes,
  Messages, NoMessage,  \* what a reply may answer, and a reply to nothing
  MaxActions,     \* how often a gateway uses a request id
  MaxDeliveries,  \* MAX_PENDING_DELIVERIES
  MaxResults,     \* MAX_OUTBOUND_RESULTS
  MaxRetired,     \* MAX_RETIRED_OUTBOUND_RESULTS
  MaxSequence,    \* MAX_SAFE_SEQUENCE, for sequences and result ids
  Retention,      \* OUTBOUND_RESULT_RETENTION_MS, in clock units
  MaxClock,
  WriteOutcomes,  \* how the replacement of the file may end
  MaxFaults       \* failed writes, lost answers, restarts and clocks set back

ASSUME RelayAssumption ==
  /\ NoGateway \notin Gateways /\ NoMessage \notin Messages
  /\ {MaxActions, MaxDeliveries, MaxResults, MaxRetired, MaxSequence,
      Retention} \subseteq Nat \ {0}
  /\ MaxClock \in Nat /\ MaxFaults \in Nat
  /\ "ok" \in WriteOutcomes /\ WriteOutcomes \subseteq {"ok", "pre", "post"}

VARIABLES
  active,     \* the gateway of the live connection
  clock,      \* wall_clock_millis
  ledger,     \* the process's deliveries, results, counters and tombstones
  disk,       \* the snapshot file
  prior,      \* the snapshot a power failure may put back, if a sync failed
  fenced,     \* persistence_failure
  op,         \* the mutation that holds queue_mutation_lock
  use,        \* gateway: how often it finished with each request id
  got,        \* gateway: the results it received
  shown,      \* phone: the pending rows it was last shown
  read,       \* bridge: replies it read and may acknowledge
  made,       \* history: deliveries that were committed
  abandoned,  \* history: actions whose result was reclaimed
  taken,      \* history: rows consumed
  firm,       \* history: results answered before any uncertain commit
  faults      \* faults so far

relayVars == <<active, clock, ledger, disk, prior, fenced, op, use, got, shown,
               read, made, abandoned, taken, firm, faults>>
parties == <<use, got, firm>>
phone == <<shown, read, taken>>

-----------------------------------------------------------------------------
(* Types.  of is the action behind a row, n its number: the code has neither. *)

Action == [gw : Gateways, req : Requests, n : 1..MaxActions]
Delivery == [seq : 1..MaxSequence, lane : Lanes, to : Messages \cup {NoMessage}, of : Action]
\* seq is zero for an operation that queues nothing; at is last_seen_at_ms.
OutboundResult == [gw : Gateways, req : Requests, id : 1..MaxSequence,
                   seq : 0..MaxSequence, at : 0..MaxClock, of : Action]
Retired == [gw : Gateways, req : Requests, id : 1..MaxSequence]
Ledger == [deliveries : Seq(Delivery), nextSeq : 0..MaxSequence,
           results : Seq(OutboundResult), nextResult : 0..MaxSequence,
           retired : Seq(Retired), high : 0..MaxClock]
EmptyLedger == [deliveries |-> <<>>, nextSeq |-> 0, results |-> <<>>,
                nextResult |-> 0, retired |-> <<>>, high |-> 0]

\* undo is what a failed write restores.
Operations == [kind : {"idle", "reclaim", "send", "retire", "consume"}, undo : Ledger]
Idle == [kind |-> "idle", undo |-> EmptyLedger]

\* What a gateway knows of a result; seq and of are history.
Received == [gw : Gateways, req : Requests, id : 1..MaxSequence,
             seq : 0..MaxSequence, of : Action]

Rows(l) == ToSet(l.deliveries)
Results(l) == ToSet(l.results)

\* Vec::retain: the elements of q that are in S, in the order they have there.
Kept(q, S) ==
  LET Places == {i \in DOMAIN q : q[i] \in S}
      Nth(i) == Cardinality({j \in Places : j <= i})
  IN  [n \in 1..Cardinality(Places) |-> q[CHOOSE i \in Places : Nth(i) = n]]

\* validate_delivery_snapshot
DeliveriesLoad(l) ==
  /\ Len(l.deliveries) <= MaxDeliveries
  /\ \A i, j \in DOMAIN l.deliveries : i < j => l.deliveries[i].seq < l.deliveries[j].seq
  /\ \A d \in Rows(l) : d.seq <= l.nextSeq

\* validate_outbound_result_snapshot
ResultsLoad(l) ==
  /\ Len(l.results) <= MaxResults /\ Len(l.retired) <= MaxRetired
  /\ \A x \in Results(l) : x.id <= l.nextResult /\ x.seq <= l.nextSeq /\ x.at <= l.high
  /\ \A i, j \in DOMAIN l.results : i # j =>
       /\ l.results[i].id # l.results[j].id
       /\ <<l.results[i].gw, l.results[i].req>> # <<l.results[j].gw, l.results[j].req>>
  /\ \A t \in ToSet(l.retired) : t.id <= l.nextResult
  /\ \A i, j \in DOMAIN l.retired : i # j => l.retired[i].id # l.retired[j].id
  /\ \A t \in ToSet(l.retired), x \in Results(l) : <<t.gw, t.id>> # <<x.gw, x.id>>

Loads(l) == DeliveriesLoad(l) /\ ResultsLoad(l)

RelayTypeOK ==
  /\ active \in Gateways \cup {NoGateway} /\ clock \in 0..MaxClock
  /\ ledger \in Ledger /\ disk \in Ledger /\ prior \subseteq Ledger
  /\ fenced \in BOOLEAN /\ op \in Operations
  /\ use \in [Gateways \X Requests -> 0..MaxActions]
  /\ got \subseteq Received /\ firm \subseteq got
  /\ {shown, read, made, taken} \subseteq SUBSET Delivery
  /\ abandoned \subseteq Action /\ faults \in 0..MaxFaults

-----------------------------------------------------------------------------
(* The file *)

Faulty == faults < MaxFaults /\ faults' = faults + 1
Faultless == UNCHANGED faults

\* ensure_persistence_healthy
Healthy == ~fenced

\* atomic_write: a failure after the rename leaves it open which file a power
\* failure restores.
WriteFile(l, outcome) ==
  /\ disk' = IF outcome = "pre" THEN disk ELSE l
  /\ prior' = IF outcome = "post" THEN prior \cup {disk} ELSE prior

\* The memory becomes l, before the write that will decide on it; a failed one
\* goes back to u.
Begin(kind, u, l) ==
  /\ ledger' = l
  /\ op' = [kind |-> kind, undo |-> u]
  /\ Faultless

\* What was reclaimed by the operation at hand.
Reclaimed ==
  IF op.kind = "reclaim"
  THEN {x.of : x \in Results(op.undo) \ Results(ledger)} ELSE {}

\* Wrong on purpose: a failed write is never undone in memory.
RollsBackNever(outcome) == FALSE

\* can_roll_back_persistence: a change that may be in the file stays in memory.
RollsBack(outcome) == outcome = "pre"

\* Wrong on purpose: the queue is forgotten when an action is undone.
UndoneResults == [op.undo EXCEPT !.deliveries = ledger.deliveries, !.nextSeq = ledger.nextSeq]

\* What the callers of persist put back.
Undone == op.undo

\* The write ends; one that is uncertain closes the store.
Persist(outcome) ==
  /\ op' = Idle
  /\ WriteFile(ledger, outcome)
  /\ fenced' = (fenced \/ outcome = "post")
  /\ ledger' = IF RollsBack(outcome) THEN Undone ELSE ledger
  /\ made' = IF outcome = "ok" THEN made \cup Rows(ledger) ELSE made
  /\ abandoned' = IF outcome = "pre" THEN abandoned ELSE abandoned \cup Reclaimed

Persisted(outcome) == Persist(outcome) /\ IF outcome = "ok" THEN Faultless ELSE Faulty

\* Consumption needs no connection; a gateway's frame holds connections.
HoldsConnections == op.kind \in {"reclaim", "send", "retire"}

-----------------------------------------------------------------------------
(* Answers *)

\* The gateway's action at hand, of which it has seen no result yet.
Current(g, r) == [gw |-> g, req |-> r, n |-> use[<<g, r>>] + 1]
Unanswered(g, r) == use[<<g, r>>] < MaxActions /\ \A x \in got : x.of # Current(g, r)

\* Result x is written to the socket; a failed write ends the connection.
Answer(x) ==
  LET p == [gw |-> x.gw, req |-> x.req, id |-> x.id,
            seq |-> x.seq, of |-> x.of]
  IN  \/ /\ got' = got \cup {p} /\ UNCHANGED active /\ Faultless
         /\ firm' = IF fenced' THEN firm ELSE firm \cup {p}
      \/ active' = NoGateway /\ UNCHANGED <<got, firm>> /\ Faulty

\* record_outbound_result and queue_gateway_delivery answer what is on record.
OnRecord(l, g, r) == {x \in Results(l) : x.gw = g /\ x.req = r}

-----------------------------------------------------------------------------
(* outbound: a gateway's action *)

\* effective_clock_millis
HighWater == IF clock > ledger.high THEN clock ELSE ledger.high
Clocked == [ledger EXCEPT !.high = HighWater]

Expired(x, g) == x.gw # g /\ HighWater - x.at >= Retention

\* Wrong on purpose: tombstones without a limit.
EntombedUnbounded(retired, new) == retired \o new

\* append_retired_outbound_result: the oldest tombstones make room.
Entombed(retired, new) ==
  LET all == retired \o new
      surplus == IF Len(all) > MaxRetired THEN Len(all) - MaxRetired ELSE 0
  IN  SubSeq(all, surplus + 1, Len(all))
Tombstone(x) == [gw |-> x.gw, req |-> x.req, id |-> x.id]
Tombstones(results) == [i \in DOMAIN results |-> Tombstone(results[i])]

\* reclaim_expired_outbound_results, on behalf of gateway g.
Reclaim(g) ==
  LET gone == {x \in Results(ledger) : Expired(x, g)}
  IN  [Clocked EXCEPT !.results = Kept(ledger.results, Results(ledger) \ gone),
                      !.retired = Entombed(ledger.retired,
                                           Tombstones(Kept(ledger.results, gone)))]

MustReclaim(g) == \E x \in Results(ledger) : Expired(x, g)

\* What a send is refused for, without a record: would_exceed_*_bytes counts
\* like the number of rows.
RoomForDelivery == Len(ledger.deliveries) < MaxDeliveries /\ ledger.nextSeq < MaxSequence
RoomForResult == Len(ledger.results) < MaxResults /\ ledger.nextResult < MaxSequence

\* Wrong on purpose: a result id counts the results on record.
WithResultRecounted(g, r, seq) ==
  LET result == [gw |-> g, req |-> r, id |-> Len(ledger.results) + 1,
                 seq |-> seq, at |-> HighWater, of |-> Current(g, r)]
  IN  [Clocked EXCEPT !.results = Append(ledger.results, result),
                      !.nextResult = ledger.nextResult + 1]

\* record_outbound_result: a result alone, seq being zero.
WithResult(g, r, seq) ==
  LET result == [gw |-> g, req |-> r, id |-> ledger.nextResult + 1,
                 seq |-> seq, at |-> HighWater, of |-> Current(g, r)]
  IN  [Clocked EXCEPT !.results = Append(ledger.results, result), !.nextResult = result.id]

\* queue_gateway_delivery_for_request: delivery and result in one snapshot.
WithDelivery(g, r, lane, to) ==
  LET seq == ledger.nextSeq + 1
      row == [seq |-> seq, lane |-> lane, to |-> to, of |-> Current(g, r)]
  IN  [WithResult(g, r, seq) EXCEPT !.deliveries = Append(ledger.deliveries, row),
                                    !.nextSeq = seq]

\* handle_gateway_frame_for_connection: frames of the owner alone are handled.
Frame(g) == active = g /\ op = Idle

\* The connection's frame finds a result: it answers that, whatever it asks.
AnswerRecorded(g, r) ==
  /\ Frame(g) /\ Unanswered(g, r)
  /\ ledger' = Clocked
  /\ UNCHANGED <<clock, disk, prior, fenced, op, use, phone, made, abandoned>>
  /\ \E x \in OnRecord(ledger, g, r) : Answer(x)

\* The frame is refused without a record: its lane is unknown, the store is closed
\* or there is no room.  The look-up has moved the clock's mark on all the same.
Refuse(g, r) ==
  /\ Frame(g) /\ Unanswered(g, r) /\ OnRecord(ledger, g, r) = {}
  /\ ledger' = Clocked
  /\ Faultless
  /\ UNCHANGED <<active, clock, disk, prior, fenced, op, parties, phone, made, abandoned>>

\* No result is on record and others must be reclaimed first, durably.  What a
\* failed write goes back to has the mark the look-up moved on.
StartReclaim(g, r) ==
  /\ Frame(g) /\ Unanswered(g, r) /\ Healthy
  /\ OnRecord(ledger, g, r) = {} /\ MustReclaim(g)
  /\ Begin("reclaim", Clocked, Reclaim(g))
  /\ UNCHANGED <<active, clock, disk, prior, fenced, parties, phone, made, abandoned>>

\* The action is new, and nothing is left to reclaim.
StartAction(g, r, l) ==
  /\ Frame(g) /\ Unanswered(g, r) /\ Healthy
  /\ OnRecord(ledger, g, r) = {} /\ ~MustReclaim(g)
  /\ Begin("send", Clocked, l)
  /\ UNCHANGED <<active, clock, disk, prior, fenced, parties, phone, made, abandoned>>

\* A send to a known lane.
StartSend(g, r, lane, to) ==
  /\ RoomForDelivery /\ RoomForResult
  /\ StartAction(g, r, WithDelivery(g, r, lane, to))

\* An operation that queues nothing: "typing", or one that is not implemented.
StartRecord(g, r) == RoomForResult /\ StartAction(g, r, WithResult(g, r, 0))

FinishReclaim(outcome) ==
  /\ op.kind = "reclaim"
  /\ Persisted(outcome)
  /\ UNCHANGED <<active, clock, parties, phone>>

\* A failed write is answered as a failure without a result id.
FinishAction(outcome) ==
  /\ op.kind = "send"
  /\ Persist(outcome)
  /\ IF outcome = "ok" THEN Answer(Last(ledger.results))
     ELSE UNCHANGED <<active, got, firm>> /\ Faulty
  /\ UNCHANGED <<clock, use, phone>>

-----------------------------------------------------------------------------
(* outbound_result_ack *)

Without(p) ==
  [ledger EXCEPT !.results = Kept(ledger.results,
                                  Results(ledger) \ OnRecord(ledger, p.gw, p.req)),
                 !.retired = Entombed(ledger.retired, <<Tombstone(p)>>)]

\* The pair names the result on record.
Matches(x, p) == x.id = p.id

\* Only the exact pair retires a result.
StartRetire(p) ==
  /\ p \in got /\ Frame(p.gw) /\ Healthy
  /\ \E x \in OnRecord(ledger, p.gw, p.req) : Matches(x, p)
  /\ Begin("retire", ledger, Without(p))
  /\ UNCHANGED <<active, clock, disk, prior, fenced, parties, phone, made, abandoned>>

\* A gateway told that its action is retired may use the request id again.
Done(p) == use' = IF p.of = Current(p.gw, p.req)
                  THEN [use EXCEPT ![<<p.gw, p.req>>] = @ + 1] ELSE use
Told(p) == \/ Done(p) /\ UNCHANGED active /\ Faultless
           \/ active' = NoGateway /\ UNCHANGED use /\ Faulty

FinishRetire(outcome) ==
  /\ op.kind = "retire"
  /\ Persist(outcome)
  /\ IF outcome = "ok"
     THEN \E p \in got : Tombstone(p) = Last(ledger.retired) /\ Told(p)
     ELSE UNCHANGED <<active, use>> /\ Faulty
  /\ UNCHANGED <<clock, got, firm, phone>>

\* Its tombstone answers a repeated acknowledgement.
AnswerRetired(p) ==
  /\ p \in got /\ Frame(p.gw) /\ Healthy
  /\ OnRecord(ledger, p.gw, p.req) = {}
  /\ Tombstone(p) \in ToSet(ledger.retired)
  /\ Told(p)
  /\ UNCHANGED <<clock, ledger, disk, prior, fenced, op, got, firm, phone, made, abandoned>>

-----------------------------------------------------------------------------
(* The phone *)

\* pending_for: no lock, no look at the fence.
PendingFor(lane) == {d \in Rows(ledger) : d.lane = lane}

\* get_pending, for the lane that was active when it looked.  A list without a
\* new row gives the phone nothing it could not say before.
Show(lane) ==
  /\ shown' = PendingFor(lane)
  /\ ~(shown' \subseteq shown) /\ Faultless
  /\ UNCHANGED <<active, clock, ledger, disk, prior, fenced, op, parties, read,
                 taken, made, abandoned>>

\* deliveries_after without consume, for the replies to one message.
Read(lane, to) ==
  /\ op = Idle /\ Healthy
  /\ read' = read \cup {d \in Rows(ledger) : d.lane = lane /\ d.to = to}
  /\ read' # read /\ Faultless
  /\ UNCHANGED <<active, clock, ledger, disk, prior, fenced, op, parties, shown,
                 taken, made, abandoned>>

\* delivery_head answers n: it waits for the lock and refuses behind the fence.
HeadIs(n) == op = Idle /\ Healthy /\ n = ledger.nextSeq

Remaining(rows) ==
  [ledger EXCEPT !.deliveries = Kept(ledger.deliveries, Rows(ledger) \ rows)]

\* The rows a request removes are counted as taken when it starts.
StartConsume(rows) ==
  /\ op = Idle /\ Healthy
  /\ Begin("consume", ledger, Remaining(rows))
  /\ taken' = taken \cup rows
  /\ UNCHANGED <<active, clock, disk, prior, fenced, parties, shown, read, made, abandoned>>

\* consume_lane_sequences: the rows of the lane with the sequences spoken.
LaneRows(lane, seqs) == {d \in Rows(ledger) : d.lane = lane /\ d.seq \in seqs}
ConsumeShown(s) ==
  /\ s \in shown
  /\ StartConsume(LaneRows(s.lane, {s.seq}))

\* Wrong on purpose: an acknowledgement takes every row of the lane before it.
ReplyRowsOfLane(s) == {d \in Rows(ledger) : d.lane = s.lane /\ d.seq <= s.seq}

\* deliveries_after with consume: the replies to one message up to a sequence.
ReplyRows(s) ==
  {d \in Rows(ledger) : d.lane = s.lane /\ d.to = s.to /\ d.seq <= s.seq}
ConsumeRead(s) ==
  /\ s \in read /\ s.to # NoMessage
  /\ ReplyRows(s) # {}
  /\ StartConsume(ReplyRows(s))

FinishConsume(outcome) ==
  /\ op.kind = "consume"
  /\ Persisted(outcome)
  /\ UNCHANGED <<active, clock, parties, phone>>

-----------------------------------------------------------------------------
(* Connections, time, restarts *)

Connect(g) ==
  /\ ~HoldsConnections
  /\ g # active /\ active' = g /\ Faultless
  /\ UNCHANGED <<clock, ledger, disk, prior, fenced, op, parties, phone, made, abandoned>>

\* The wall clock moves on, or, which is a fault, is set back.
Clock ==
  /\ \/ clock < MaxClock /\ clock' = clock + 1 /\ Faultless
     \/ clock > 0 /\ clock' \in 0..(clock - 1) /\ Faulty
  /\ UNCHANGED <<active, ledger, disk, prior, fenced, op, parties, phone, made, abandoned>>

\* Wrong on purpose: the counter is rebuilt from the rows that are left.
LoadedFromRows(l) ==
  [l EXCEPT !.nextSeq = IF l.deliveries = <<>> THEN 0 ELSE Last(l.deliveries).seq]

\* The counter is the one on file: rows that were consumed count.
Loaded(l) == l

\* set_persist_path: what the file held; a write under way may have reached it.
Restart ==
  /\ \E l \in {disk} \cup prior \cup (IF op = Idle THEN {} ELSE {ledger}) :
       /\ Loads(l)
       /\ ledger' = Loaded(l) /\ disk' = l /\ made' = made \cup Rows(l)
  /\ abandoned' = abandoned \cup Reclaimed
  /\ prior' = {} /\ fenced' = FALSE /\ op' = Idle /\ active' = NoGateway /\ Faulty
  /\ UNCHANGED <<clock, parties, phone>>

RelayInit ==
  /\ active = NoGateway /\ clock = 0
  /\ ledger = EmptyLedger /\ disk = EmptyLedger /\ prior = {} /\ fenced = FALSE
  /\ op = Idle
  /\ use = [gr \in Gateways \X Requests |-> 0]
  /\ got = {} /\ firm = {}
  /\ shown = {} /\ read = {} /\ made = {} /\ taken = {} /\ abandoned = {}
  /\ faults = 0

Next ==
  \/ \E g \in Gateways, r \in Requests :
       \/ AnswerRecorded(g, r)
       \/ Refuse(g, r)
       \/ StartReclaim(g, r)
       \/ StartRecord(g, r)
       \/ \E lane \in Lanes, to \in Messages \cup {NoMessage} : StartSend(g, r, lane, to)
  \/ \E p \in got : StartRetire(p) \/ AnswerRetired(p)
  \/ \E outcome \in WriteOutcomes :
       \/ FinishReclaim(outcome)
       \/ FinishAction(outcome)
       \/ FinishRetire(outcome)
       \/ FinishConsume(outcome)
  \/ \E lane \in Lanes : Show(lane) \/ \E to \in Messages : Read(lane, to)
  \/ \E s \in shown : ConsumeShown(s)
  \/ \E s \in read : ConsumeRead(s)
  \/ \E g \in Gateways \cup {NoGateway} : Connect(g)
  \/ Clock
  \/ Restart

Spec == RelayInit /\ [][Next]_relayVars

-----------------------------------------------------------------------------
(* Properties *)

\* Every snapshot a restart may find is one set_persist_path accepts: a
\* rolled-back or half-known write never leaves a file the daemon refuses.
SnapshotLoads == \A l \in {ledger, disk} \cup prior : Loads(l)

\* Counters, queues and tombstones stay within their limits, and loadable, over
\* every rollback, reclaim and restart.
LedgerIsSound == RelayTypeOK /\ SnapshotLoads

\* queue_gateway_delivery_for_request: however often a gateway repeats a
\* request, over lost answers, failed writes and restarts, the phone is given
\* one delivery, unless its record was reclaimed while the gateway was away.
OneDeliveryPerAction ==
  \A d, e \in made : d.of = e.of => d = e \/ d.of \in abandoned

\* delivery_head: a cursor read before a turn stays below every reply to it.
\* The sequence counter never falls behind what a reader could have seen, in
\* memory or in a file a restart may read, so no later reply hides below it.
Low == CHOOSE n \in 0..MaxSequence :
         /\ \E l \in {ledger, disk} \cup prior : l.nextSeq = n
         /\ \A l \in {ledger, disk} \cup prior : n <= l.nextSeq
HeadIsNeverPassed ==
  [][/\ \A l \in {ledger', disk'} \cup prior' : l.nextSeq >= Low
     /\ \A n \in 0..MaxSequence : HeadIs(n) => n = Low]_relayVars

Durable(p) ==
  p.seq # 0 => \A l \in {ledger, disk} \cup prior :
                 \E d \in Rows(l) \cup taken : d.of = p.of

\* A gateway that was told of a delivery, outside an uncertain commit, finds it
\* queued in memory and in every file a restart may read, until it is consumed.
AnsweredIsDurable == \A p \in firm : Durable(p)

\* The comment of queue_gateway_delivery_for_request (relay.rs:1761) has it so
\* for every answer: the result is written to the socket only after its commit.
\* It does not hold: README, known weaknesses.
EveryAnswerIsDurable == \A p \in got : Durable(p)

\* The pair a gateway acknowledges stands for one action for ever, so that an
\* acknowledgement delayed over reconnections, reuses of the request id and
\* restarts cannot retire the result of another action.
ReceiptNamesOneAction ==
  \A p \in got, x \in got \cup Results(ledger) :
    Tombstone(x) = Tombstone(p) => x.of = p.of

\* retire_outbound_result: an action whose delivery exists and whose gateway
\* has not seen the result keeps its record, whatever older acknowledgements
\* arrive.
UnansweredIsRemembered ==
  \A d \in made :
    d.of = Current(d.of.gw, d.of.req) /\ Unanswered(d.of.gw, d.of.req)
      /\ d.of \notin abandoned \cup Reclaimed
    => \E x \in Results(ledger) : x.of = d.of

\* An acknowledgement retires the result of its own action and of no other.
RetirementIsExact == ReceiptNamesOneAction /\ UnansweredIsRemembered

\* An acknowledged reply takes what the bridge had read, also when a restart
\* gave its sequence number to another delivery.
ReceiptTakesWhatWasRead ==
  [][\A s \in read : ConsumeRead(s) => ReplyRows(s) \subseteq read]_relayVars

\* consume_lane_sequences (relay.rs:2187): "Remove exactly the lane rows the
\* handset reports as spoken."
\* It does not hold: README, known weaknesses.
SpokenIsWhatWasShown ==
  [][\A s \in shown : ConsumeShown(s) => LaneRows(s.lane, {s.seq}) \subseteq shown]_relayVars
=============================================================================
