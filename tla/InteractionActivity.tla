-------------------------- MODULE InteractionActivity --------------------------
(***************************************************************************)
(* Remote turns end to end: the bridge's outbox and telepathosd's ledger   *)
(* joined by HTTP requests that may be lost, late or answered to nobody.   *)
(*                                                                         *)
(* A turn that had a remote effect is to be counted once in its lane, or   *)
(* to stay in the outbox as expired for an operator to reconcile.          *)
(***************************************************************************)
EXTENDS InteractionOutbox, InteractionLedger

CONSTANTS
  Ahead,      \* how far the bridge's clock runs ahead of telepathosd's
  MaxClock,   \* bound: the last clock value
  MaxFaults   \* bound: failed writes, crashes, lost requests

ASSUME ActivityAssumption ==
  Ahead \in Nat /\ MaxClock \in Nat /\ MaxFaults \in Nat

VARIABLE faults  \* history: faults so far

vars == <<outboxVars, ledgerVars, faults>>

ActivityTypeOK ==
  OutboxTypeOK /\ LedgerTypeOK /\ faults \in 0..MaxFaults

Init == OutboxInit /\ LedgerInit /\ faults = 0

Fault == faults < MaxFaults /\ faults' = faults + 1

\* A step with the outcome of its write: one that failed is a fault.
Costs(outcome) == IF outcome = "ok" THEN UNCHANGED faults ELSE Fault

-----------------------------------------------------------------------------
(* The bridge's steps *)

\* A capture starts and stamps its interaction; bound: early enough for the
\* clock to reach the stamp.
Capture(i) ==
  \E swept \in SUBSET outbox.canceled, o \in WriteOutcomes :
    /\ clock + Ahead <= MaxClock
    /\ Reserve(i, swept, o) /\ Costs(o)
    /\ created' = [created EXCEPT ![i] = clock + Ahead]
    /\ UNCHANGED <<clock, daemonUp, registry, ledger, disk, settled,
                   laneUncertain, uncertain, handling, written, answered>>

Turns ==
  /\ UNCHANGED ledgerVars
  /\ \E i \in Interactions :
       \/ Speak(i) /\ UNCHANGED faults
       \/ \E o \in WriteOutcomes : Discard(i, o) /\ Costs(o)
       \/ Promote(i) /\ UNCHANGED faults
       \/ \E o, c \in WriteOutcomes :
            /\ PromoteFails(i, o, c)
            /\ IF outbox.fenced THEN UNCHANGED faults ELSE Fault

Retries == RetryTimerFires /\ UNCHANGED <<ledgerVars, faults>>

Flushes ==
  /\ UNCHANGED ledgerVars
  /\ \E o \in WriteOutcomes : (FlushRecorded(o) \/ FlushExpired(o)) /\ Costs(o)

\* The request failed with an answer, which the bridge always hears of.
FlushRefused ==
  flush.answer = "failed" /\ FlushFailed /\ UNCHANGED <<ledgerVars, faults>>

\* The request or its answer is lost, or comes after the timeout; one to a
\* daemon that is down fails at no cost.
FlushTimesOut ==
  /\ flush.answer # "failed" /\ FlushFailed
  /\ IF daemonUp THEN Fault ELSE UNCHANGED faults
  /\ UNCHANGED ledgerVars

BridgeStarts ==
  /\ UNCHANGED ledgerVars
  /\ \E found \in {outbox.disk, outbox.prior}, o \in WriteOutcomes :
       BridgeStart(found, o) /\ Costs(o)

BridgeCrashes == BridgeCrash /\ Fault /\ UNCHANGED ledgerVars

\* An operator restarts a bridge whose outbox is fenced.
BridgeIsRestarted ==
  outbox.fenced /\ BridgeCrash /\ UNCHANGED <<ledgerVars, faults>>

-----------------------------------------------------------------------------
(* Requests and answers *)

Arrives(i) ==
  /\ Handle(i)
  /\ \/ /\ flush.call = i /\ flush.answer = "sent"
        /\ flush' = [flush EXCEPT !.answer = "taken"] /\ UNCHANGED late
     \/ i \in late /\ late' = late \ {i} /\ UNCHANGED flush
  /\ UNCHANGED <<bridgeUp, outbox, paused, turn, ran, retry, faults>>

\* The answer reaches the flush that still waits for it, or nobody.
Answers ==
  /\ Respond
  /\ flush' = IF flush.call = handling.id /\ flush.answer = "taken"
              THEN [flush EXCEPT !.answer = handling.result] ELSE flush
  /\ UNCHANGED <<bridgeUp, outbox, paused, turn, ran, retry, late, faults>>

\* A late request is lost for good.
LateIsLost ==
  /\ late # {} /\ late' = {}
  /\ UNCHANGED <<ledgerVars, bridgeUp, outbox, paused, turn, ran, flush, retry, faults>>

-----------------------------------------------------------------------------
(* The daemon's steps *)

Works ==
  /\ UNCHANGED outboxVars
  /\ \/ \E o \in WriteOutcomes :
          (CompactSnapshot(o) \/ ClearJournal(o) \/ SaveRegistry(o)) /\ Costs(o)
     \/ \E o \in AppendOutcomes :
          AppendLine(o) /\ IF LedgerFull THEN UNCHANGED faults ELSE Costs(o)

DaemonStarts ==
  UNCHANGED outboxVars /\ \E o \in WriteOutcomes : DaemonStart(o) /\ Costs(o)

\* The connection of the request it handled breaks.
DaemonDies ==
  /\ DaemonCrash
  /\ flush' = IF flush.answer = "taken" THEN [flush EXCEPT !.answer = "failed"]
              ELSE flush
  /\ UNCHANGED <<bridgeUp, outbox, paused, turn, ran, retry, late>>

DaemonCrashes == DaemonDies /\ Fault

\* An operator restarts a daemon that refuses to write, as its error says.
DaemonIsRestarted ==
  (uncertain \/ laneUncertain) /\ handling = Idle /\ DaemonDies /\ UNCHANGED faults

Tick ==
  /\ clock < MaxClock /\ handling = Idle /\ clock' = clock + 1
  /\ UNCHANGED <<outboxVars, faults, created, daemonUp, registry, ledger, disk,
                 settled, laneUncertain, uncertain, handling, written, answered>>

Next ==
  \/ \E i \in Interactions : Capture(i)
  \/ Turns
  \/ Retries \/ Flushes \/ FlushRefused \/ FlushTimesOut
  \/ BridgeStarts \/ BridgeCrashes \/ BridgeIsRestarted
  \/ \E i \in Interactions : Arrives(i)
  \/ Answers \/ LateIsLost
  \/ Works \/ DaemonStarts \/ DaemonCrashes \/ DaemonIsRestarted
  \/ Tick

Spec == Init /\ [][Next]_vars

\* Timers fire, requests are delivered and handled, processes are restarted,
\* time passes.  The two strong ones wait for a moment between two requests
\* only by the model's grain.  Nothing makes a capture start or end.
Fairness ==
  /\ WF_vars(Retries) /\ WF_vars(Flushes) /\ WF_vars(FlushRefused)
  /\ WF_vars(FlushTimesOut /\ ~daemonUp)
  /\ WF_vars(BridgeStarts) /\ WF_vars(BridgeIsRestarted)
  /\ WF_vars(\E i \in Interactions : Arrives(i))
  /\ WF_vars(Answers) /\ WF_vars(Works)
  /\ WF_vars(DaemonStarts) /\ SF_vars(DaemonIsRestarted)
  /\ SF_vars(Tick)

FairSpec == Spec /\ Fairness

-----------------------------------------------------------------------------
(* What the two promise together *)

\* However captures, failed writes and restarts fall, the queue is one a restart
\* loads and none of its slots is lost.
OutboxIsSound == ActivityTypeOK /\ OutboxLoads /\ SlotsAreOwned

\* A turn that had a remote effect is recorded by telepathosd or still in the
\* outbox, in whichever snapshot a restart of the bridge finds.
RanIsRecorded ==
  \A i \in ran \ answered : \A found \in {outbox.disk, outbox.prior} :
    found[i] \in {"pending", "expired"}

\* Given finitely many faults and operators that restart what is fenced, a
\* turn that had a remote effect is counted and leaves the outbox, or stays in
\* it as expired; unless a torn journal keeps telepathosd from starting.
RanIsCounted ==
  \A i \in Interactions :
    i \in ran ~> \/ i \in answered /\ outbox.disk[i] = "none"
                 \/ outbox.disk[i] = "expired"
                 \/ disk.tail = "bad"
=============================================================================
