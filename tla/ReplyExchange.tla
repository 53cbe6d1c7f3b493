---------------------------- MODULE ReplyExchange ----------------------------
(***************************************************************************)
(* The whole five-phase receipt exchange: the bridge of ReplyAckBridge and *)
(* the Android handsets (AudioCaptureService.kt) that own the sockets.     *)
(*                                                                         *)
(* A handset keeps its receipts durably and sends, for each, the frame its *)
(* phase calls for: at once, when ready opens a connection, and again on a *)
(* one-second timer.  A retry whose twin still waits in the socket is not  *)
(* queued a second time.                                                   *)
(***************************************************************************)
EXTENDS ReplyAckBridge

CONSTANTS
  HandsetSaves,  \* the outcomes of the handset's own commit: TRUE, FALSE
  HalfOpen       \* a handset may redial before the bridge saw the old close

ASSUME HandsetAssumption ==
  TRUE \in HandsetSaves /\ HandsetSaves \subseteq BOOLEAN /\ HalfOpen \in BOOLEAN

VARIABLES
  phase,    \* per installation and receipt: the durable ReplyAckPlaybackState
  current,  \* per installation: its socket, or NoSocket
  linkUp,   \* per installation: ready was read from that socket
  stopped,  \* per installation: replies fenced by Stop in this process
  heard,    \* history: <<installation, receipt>> pairs played and recorded
  settled   \* history: pairs whose receipt the handset erased

handset == <<phase, current, linkUp, stopped, heard, settled>>
allVars == <<vars, handset>>

HandsetPhase == {"absent", "receipt_pending", "receipt_pending_suppressed",
                 "awaiting_playback", "playback_suppressed", "ready",
                 "retirement_pending"}

ExchangeTypeOK ==
  /\ TypeOK
  /\ phase \in [Installations -> [Keys -> HandsetPhase]]
  /\ current \in [Installations -> Sockets \cup {NoSocket}]
  /\ linkUp \in [Installations -> BOOLEAN]
  /\ stopped \in [Installations -> SUBSET Keys]
  /\ heard \subseteq Installations \X Keys
  /\ settled \subseteq heard

ExchangeInit ==
  /\ Init
  /\ phase = [i \in Installations |-> [k \in Keys |-> "absent"]]
  /\ current = [i \in Installations |-> NoSocket]
  /\ linkUp = [i \in Installations |-> FALSE]
  /\ stopped = [i \in Installations |-> {}]
  /\ heard = {} /\ settled = {}

bridgeRest == <<clock, idle, running, startedAt, store, link, pending, tasks,
                timers, requests, consumed, turns, sent, proved>>

-----------------------------------------------------------------------------
(* The handset *)

\* Wrong on purpose: a receipt the handset does not hold is proved as well.
CommandUnstored(p, k) ==
  IF p \in {"absent", "receipt_pending", "receipt_pending_suppressed"}
  THEN {<<"reply_received", k>>}
  ELSE IF p = "ready" THEN {<<"reply_ack", k>>}
  ELSE IF p = "retirement_pending" THEN {<<"reply_ack_retire", k>>} ELSE {}

\* Wrong on purpose: a reply is acknowledged before it is heard.
CommandUnheard(p, k) ==
  IF p \in {"receipt_pending", "receipt_pending_suppressed"}
  THEN {<<"reply_received", k>>}
  ELSE IF p \in {"awaiting_playback", "ready"} THEN {<<"reply_ack", k>>}
  ELSE IF p = "retirement_pending" THEN {<<"reply_ack_retire", k>>} ELSE {}


\* The frame a receipt in phase p waits to have answered.
Command(p, k) ==
  CASE p \in {"receipt_pending", "receipt_pending_suppressed"} ->
         {<<"reply_received", k>>}
    [] p = "ready" -> {<<"reply_ack", k>>}
    [] p = "retirement_pending" -> {<<"reply_ack_retire", k>>}
    [] OTHER -> {}

Queued(s) == {up[s][n] : n \in 1..Len(up[s])}

\* Queue frames on the connection of i, once it is ready.
Push(i, frames) ==
  LET s == current[i] IN
  up' = IF linkUp[i] /\ link[s] = "open"
        THEN [up EXCEPT ![s] = @ \o SetToSeq(frames \ Queued(s))]
        ELSE up

Suppress(p) ==
  CASE p = "receipt_pending" -> "receipt_pending_suppressed"
    [] p = "awaiting_playback" -> "playback_suppressed"
    [] OTHER -> p

\* Wrong on purpose: what was heard is armed again too.
RearmHeard(p) ==
  CASE p = "receipt_pending_suppressed" -> "receipt_pending"
    [] p \in {"playback_suppressed", "ready"} -> "awaiting_playback"
    [] OTHER -> p

Rearm(p) ==
  CASE p = "receipt_pending_suppressed" -> "receipt_pending"
    [] p = "playback_suppressed" -> "awaiting_playback"
    [] OTHER -> p

\* Commit phase p for receipt k, or keep the old one when the commit fails.
Commit(i, k, p, saved) ==
  phase' = IF saved THEN [phase EXCEPT ![i][k] = p] ELSE phase

\* The next frame on the current connection of i is f.
Reads(i, f) ==
  LET s == current[i] IN
  /\ s # NoSocket /\ down[s] # <<>> /\ Head(down[s]) = f
  /\ down' = [down EXCEPT ![s] = Tail(@)]

Connect(i, s) ==
  /\ SocketOwner[s] = i /\ current[i] = NoSocket
  /\ HalfOpen \/ \A x \in Sockets : SocketOwner[x] = i => link[x] = "closed"
  /\ Dial(s)
  /\ current' = [current EXCEPT ![i] = s]
  /\ linkUp' = [linkUp EXCEPT ![i] = FALSE]
  /\ UNCHANGED <<phase, stopped, heard, settled>>

\* The handset loses its socket, or its process dies and forgets the fences.
\* What the bridge still sends there is lost; what was sent may yet arrive.
Disconnect(i, died) ==
  /\ current[i] # NoSocket
  /\ current' = [current EXCEPT ![i] = NoSocket]
  /\ linkUp' = [linkUp EXCEPT ![i] = FALSE]
  /\ stopped' = IF died THEN [stopped EXCEPT ![i] = {}] ELSE stopped
  /\ down' = [down EXCEPT ![current[i]] = <<>>]
  /\ UNCHANGED <<bridgeRest, up, phase, heard, settled>>

\* Frames for a socket the handset has left reach nobody.
Unread(s) ==
  /\ current[SocketOwner[s]] # s /\ down[s] # <<>>
  /\ down' = [down EXCEPT ![s] = <<>>]
  /\ UNCHANGED <<bridgeRest, up, handset>>

\* ready opens the connection: pending commands go out, suppressed playback is
\* armed again and the fences of this process are dropped.  Where an earlier
\* commit is in doubt and fails again, nothing goes out either.
ReadReady(i, saved) ==
  /\ Reads(i, <<"ready">>)
  /\ linkUp' = [linkUp EXCEPT ![i] = TRUE]
  /\ LET s == current[i]
         frames == UNION {Command(phase[i][k], k) : k \in Keys}
     IN  \/ ~saved /\ up' = up
         \/ up' = IF link[s] = "open"
                  THEN [up EXCEPT ![s] = @ \o SetToSeq(frames \ Queued(s))] ELSE up
  /\ phase' = IF saved
              THEN [phase EXCEPT ![i] = [k \in Keys |-> Rearm(@[k])]] ELSE phase
  /\ stopped' = IF saved THEN [stopped EXCEPT ![i] = {}] ELSE stopped
  /\ UNCHANGED <<bridgeRest, current, heard, settled>>

\* agent_end: reserve the receipt before anything is played.  A stopped reply
\* keeps its proof obligation but loses its playback.
ReadAgentEnd(i, k, saved) ==
  LET p == phase[i][k]
      fresh == IF k \in stopped[i] THEN "receipt_pending_suppressed"
               ELSE "receipt_pending"
      next == IF p = "absent" THEN fresh
              ELSE IF k \in stopped[i] THEN Suppress(p) ELSE p
      after == IF saved THEN next ELSE p
  IN  /\ Reads(i, <<"agent_end", k>>)
      /\ Commit(i, k, next, saved)
      /\ Push(i, Command(after, k))
      /\ UNCHANGED <<bridgeRest, current, linkUp, stopped, heard, settled>>

\* agent_end is refused: another turn is active, its text is not the one that
\* was streamed, or the file of receipts is full.
RefuseAgentEnd(i, k) ==
  Reads(i, <<"agent_end", k>>) /\ UNCHANGED <<bridgeRest, up, handset>>

\* reply_received: the bridge's proof is durable, playback may start.
ReadReceived(i, k, saved) ==
  LET p == phase[i][k]
      next == IF p = "receipt_pending" /\ k \notin stopped[i]
              THEN "awaiting_playback"
              ELSE IF p \in {"receipt_pending", "receipt_pending_suppressed"}
              THEN "playback_suppressed" ELSE p
  IN  /\ Reads(i, <<"reply_received", k>>)
      /\ Commit(i, k, next, saved)
      /\ UNCHANGED <<bridgeRest, up, current, linkUp, stopped, heard, settled>>

\* The reply is spoken to its end on a live connection, and only then becomes
\* consumption authority.
Heard(i, k, saved) ==
  /\ phase[i][k] = "awaiting_playback" /\ k \notin stopped[i] /\ linkUp[i]
  /\ Commit(i, k, "ready", saved)
  /\ heard' = IF saved THEN heard \cup {<<i, k>>} ELSE heard
  /\ Push(i, IF saved THEN {<<"reply_ack", k>>} ELSE {})
  /\ UNCHANGED <<bridgeRest, down, current, linkUp, stopped, settled>>

\* Wrong on purpose: the receipt is erased on the acknowledgement.
ReadAcknowledgedErasing(i, k, saved) ==
  LET erased == phase[i][k] \in {"ready", "retirement_pending"}
  IN  /\ Reads(i, <<"reply_acknowledged", k>>)
      /\ Commit(i, k, IF erased THEN "absent" ELSE phase[i][k], saved)
      /\ settled' = IF erased /\ saved THEN settled \cup {<<i, k>>} ELSE settled
      /\ UNCHANGED <<bridgeRest, up, current, linkUp, stopped, heard>>

\* reply_acknowledged: enter terminal retirement durably, then ask for it.
ReadAcknowledged(i, k, saved) ==
  LET p == phase[i][k]
      retires == p = "retirement_pending" \/ p = "ready"
  IN  /\ Reads(i, <<"reply_acknowledged", k>>)
      /\ Commit(i, k, IF retires THEN "retirement_pending" ELSE p, saved)
      /\ Push(i, IF retires /\ saved THEN {<<"reply_ack_retire", k>>} ELSE {})
      /\ UNCHANGED <<bridgeRest, current, linkUp, stopped, heard, settled>>

\* reply_ack_retired: the only frame that erases a receipt.
ReadRetired(i, k, saved) ==
  LET erased == phase[i][k] = "retirement_pending"
  IN  /\ Reads(i, <<"reply_ack_retired", k>>)
      /\ Commit(i, k, IF erased THEN "absent" ELSE phase[i][k], saved)
      /\ settled' = IF erased /\ saved THEN settled \cup {<<i, k>>} ELSE settled
      /\ UNCHANGED <<bridgeRest, up, current, linkUp, stopped, heard>>

\* Reply k loses its playback.  The fence holds for this process even when the
\* commit fails.
Fence(i, k, saved) ==
  /\ stopped' = [stopped EXCEPT ![i] = @ \cup {k}]
  /\ Commit(i, k, Suppress(phase[i][k]), saved)
  /\ UNCHANGED <<bridgeRest, up, down, current, linkUp, heard, settled>>

\* Stop, Cancel, Repeat or a new capture supersedes the turn of reply k.
Stop(i, k, saved) ==
  /\ phase[i][k] \in {"absent", "receipt_pending", "awaiting_playback"}
  /\ k \notin stopped[i] /\ <<i, k>> \notin settled
  /\ Fence(i, k, saved)

\* The retry of a live connection first writes what a Stop could not.
Rewrite(i, k) ==
  /\ linkUp[i] /\ k \in stopped[i] /\ Suppress(phase[i][k]) # phase[i][k]
  /\ Fence(i, k, TRUE)

\* The one-second retry of a live connection.
Resend(i, k) ==
  /\ linkUp[i] /\ link[current[i]] = "open"
  /\ Command(phase[i][k], k) \ Queued(current[i]) # {}
  /\ Push(i, Command(phase[i][k], k))
  /\ UNCHANGED <<bridgeRest, down, handset>>

HandsetStep ==
  \/ \E i \in Installations, s \in Sockets : Connect(i, s)
  \/ \E i \in Installations, died \in BOOLEAN : Disconnect(i, died)
  \/ \E s \in Sockets : Unread(s)
  \/ \E i \in Installations, ok \in HandsetSaves : ReadReady(i, ok)
  \/ \E i \in Installations, k \in Keys, ok \in HandsetSaves :
       \/ ReadAgentEnd(i, k, ok)
       \/ ReadReceived(i, k, ok)
       \/ Heard(i, k, ok)
       \/ ReadAcknowledged(i, k, ok)
       \/ ReadRetired(i, k, ok)
       \/ Stop(i, k, ok)
  \/ \E i \in Installations, k \in Keys :
       RefuseAgentEnd(i, k) \/ Rewrite(i, k) \/ Resend(i, k)

BridgeStep == BridgeNext /\ UNCHANGED handset

ExchangeNext == BridgeStep \/ HandsetStep

ExchangeSpec == ExchangeInit /\ [][ExchangeNext]_allVars

-----------------------------------------------------------------------------
(* Safety *)

\* A handset enters retirement only for a delivery telepathosd consumed.
RetirementIsConsumed ==
  \A i \in Installations, k \in Keys :
    phase[i][k] = "retirement_pending" => k \in consumed

\* No handset plays a reply again once it has recorded hearing it, whatever
\* is replayed, retried or restarted.
HeardOnce ==
  \A hk \in heard : phase[hk[1]][hk[2]] \in {"ready", "retirement_pending", "absent"}

\* The handset's receipt file never contradicts what happened: a reply that was
\* heard is not forgotten, and one said to be retired was consumed.
HandsetIsTruthful == ExchangeTypeOK /\ RetirementIsConsumed /\ HeardOnce

\* A handset's proof outlives the bridge's record of it: while the file says
\* received, or consumed, its owner still holds the receipt in a matching phase.
HandsetKeepsProof ==
  \A k \in Keys :
    LET b == store.disk.bindings[k] IN
      b # NoBinding =>
        /\ b.st = "received" => phase[b.inst][k] \notin {"absent", "retirement_pending"}
        /\ b.st = "consumed" => phase[b.inst][k] \in {"ready", "retirement_pending"}

\* A handset erases a receipt only when the bridge durably dropped its record:
\* no snapshot a restart may find still binds it to that handset.  A tombstone
\* of it may be left behind: README, known weaknesses.
SettledIsGone ==
  \A ik \in settled : \A found \in {store.disk, store.prior} :
    found.bindings[ik[2]] # NoBinding => found.bindings[ik[2]].inst # ik[1]

\* The exchange implements the promise of ReplyDelivery.
Promise ==
  INSTANCE ReplyDelivery WITH
    heard <- {k \in Keys : \E i \in Installations : <<i, k>> \in heard},
    settled <- {k \in Keys : \E i \in Installations : <<i, k>> \in settled}

KeepsPromise == Promise!Spec
=============================================================================
