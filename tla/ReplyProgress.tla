---------------------------- MODULE ReplyProgress ----------------------------
(***************************************************************************)
(* Progress of the receipt exchange when faults are finitely many: lost    *)
(* connections, crashes, failed consume calls, failed writes of either     *)
(* side and refused replies each spend one unit of faults.  Every other    *)
(* step is one the event loops, the retry timers and the network take on   *)
(* their own, and is weakly fair.                                          *)
(***************************************************************************)
EXTENDS ReplyExchange

CONSTANTS
  MaxFaults,  \* bound: faults of any kind in one behaviour
  FaultKinds  \* the kinds that may happen

ASSUME FaultAssumption ==
  /\ MaxFaults \in Nat
  /\ FaultKinds \subseteq {"disconnect", "crash", "close", "call", "save", "commit", "refuse"}

VARIABLE faults     \* faults that may still happen

liveVars == <<allVars, faults>>

Bridge(A) == A /\ UNCHANGED handset

\* What the bridge's event loop does by itself: frames, timers, awaits.
Handles ==
  \/ \E s \in Sockets : Hello(s, "ok")
  \/ \E s \in Sockets, k \in Keys :
       \/ ReceiveReplyAck(s, k, "ok")
       \/ AcknowledgeReplyAck(s, k)
       \/ RetireReplyAck(s, k, "ok")
TimersFire == \E k \in Keys : RetryTimer(k)
Resumes == \E t \in tasks : ConsumeAnswered(t, "ok") \/ ConfirmationSent(t)

\* A socket its handset left is found dead, and a handset finds its own.
Notices ==
  \/ \E s \in Sockets : current[SocketOwner[s]] # s /\ Bridge(Close(s, "ok"))
  \/ \E i \in Installations :
       /\ current[i] # NoSocket /\ link[current[i]] = "closed"
       /\ Disconnect(i, FALSE)

HandsetRuns ==
  \/ \E i \in Installations, s \in Sockets : Connect(i, s)
  \/ \E i \in Installations : ReadReady(i, TRUE)
  \/ \E i \in Installations, k \in Keys :
       \/ ReadAgentEnd(i, k, TRUE)
       \/ ReadReceived(i, k, TRUE)
       \/ ReadAcknowledged(i, k, TRUE)
       \/ ReadRetired(i, k, TRUE)

Plays == \E i \in Installations, k \in Keys : Heard(i, k, TRUE)
Retries == \E i \in Installations, k \in Keys : Resend(i, k)
Rewrites == \E i \in Installations, k \in Keys : Rewrite(i, k)
Delivers == \E k \in Keys : TelepathosdConsumes(k)
Drains == \E s \in Sockets : Unread(s)

\* Steps nobody owes: an agent's reply, time, the user, the sweep.
Elective ==
  \/ Bridge(\E s \in Sockets, k \in Keys : Prepare(s, k, "ok", "ok"))
  \/ Bridge(Tick)
  \/ \E i \in Installations, k \in Keys : Stop(i, k, TRUE)
  \/ Bridge(PeriodicSweep("ok"))

\* The handset's commit fails in whatever it was handling.
CommitFails(i) ==
  /\ FALSE \in HandsetSaves
  /\ \/ ReadReady(i, FALSE)
     \/ \E k \in Keys :
          \/ ReadAgentEnd(i, k, FALSE) \/ ReadReceived(i, k, FALSE)
          \/ Heard(i, k, FALSE)
          \/ ReadAcknowledged(i, k, FALSE) \/ ReadRetired(i, k, FALSE)
          \/ Stop(i, k, FALSE)

Fault ==
  \/ /\ "disconnect" \in FaultKinds
     /\ \E i \in Installations, died \in BOOLEAN : Disconnect(i, died)
  \/ "crash" \in FaultKinds /\ Bridge(Crash)
  \/ "close" \in FaultKinds /\ \E s \in Sockets : Bridge(Close(s, "ok"))
  \/ "call" \in FaultKinds /\ Bridge(\E t \in tasks : ConsumeFailed(t))
  \/ /\ "save" \in FaultKinds
     /\ \E outcome \in SaveOutcomes \ {"ok"} :
          \/ Bridge(\E s \in Sockets : Hello(s, outcome))
          \/ Bridge(\E s \in Sockets, k \in Keys :
                      ReceiveReplyAck(s, k, outcome) \/ RetireReplyAck(s, k, outcome))
          \/ Bridge(\E t \in tasks : ConsumeAnswered(t, outcome))
          \/ Bridge(\E s \in Sockets, k \in Keys : Prepare(s, k, "ok", outcome))
  \/ "commit" \in FaultKinds /\ \E i \in Installations : CommitFails(i)
  \/ /\ "refuse" \in FaultKinds
     /\ \E i \in Installations, k \in Keys : RefuseAgentEnd(i, k)

Owed ==
  \/ Bridge(Handles) \/ Bridge(TimersFire) \/ Bridge(Resumes)
  \/ Bridge(Start) \/ Bridge(Delivers)
  \/ Notices \/ HandsetRuns \/ Plays \/ Rewrites \/ Retries \/ Drains

LiveInit == ExchangeInit /\ faults = MaxFaults

LiveNext ==
  \/ (Owed \/ Elective) /\ UNCHANGED faults
  \/ faults > 0 /\ faults' = faults - 1 /\ Fault

Fairness ==
  /\ WF_liveVars(Bridge(Handles) /\ UNCHANGED faults)
  /\ WF_liveVars(Bridge(TimersFire) /\ UNCHANGED faults)
  /\ WF_liveVars(Bridge(Resumes) /\ UNCHANGED faults)
  /\ WF_liveVars(Bridge(Start) /\ UNCHANGED faults)
  /\ WF_liveVars(Notices /\ UNCHANGED faults)
  /\ WF_liveVars(HandsetRuns /\ UNCHANGED faults)
  /\ WF_liveVars(Plays /\ UNCHANGED faults)
  /\ WF_liveVars(Rewrites /\ UNCHANGED faults)
  /\ WF_liveVars(Retries /\ UNCHANGED faults)
  /\ WF_liveVars(Bridge(Delivers) /\ UNCHANGED faults)
  /\ WF_liveVars(Drains /\ UNCHANGED faults)

LiveSpec == LiveInit /\ [][LiveNext]_liveVars /\ Fairness

\* An ambiguous save closed the store, and nobody restarts the bridge.
StaysFenced == <>[]store.fenced

\* Wait for the next connection: a reply the user stopped, and one the handset
\* could not store, of which the bridge keeps the text until that connection.
WaitsForReconnect(i, k) ==
  /\ linkUp[i]
  /\ \/ phase[i][k] = "playback_suppressed"
     \/ /\ phase[i][k] = "absent" /\ <<"agent_end", k>> \notin Range(down[current[i]])
        /\ store.bindings[k] # NoBinding
        /\ store.bindings[k].inst = i /\ store.bindings[k].st = "prepared"


\* A handset that keeps repeating reply_ack is in the end answered.  So it is
\* unless HalfOpen: README, known weaknesses.
RepeatedAckIsAnswered ==
  StaysFenced \/ \A i \in Installations, k \in Keys :
    phase[i][k] = "ready" ~> phase[i][k] # "ready"
=============================================================================
