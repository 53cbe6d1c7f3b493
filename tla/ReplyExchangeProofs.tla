------------------------ MODULE ReplyExchangeProofs ------------------------
(***************************************************************************)
(* The receipt exchange keeps the promise of ReplyDelivery, for every      *)
(* value of its constants: any number of handsets and sockets, dead        *)
(* sockets the bridge has not noticed, failed saves on both sides.         *)
(*                                                                         *)
(* What the refinement rests on is where consumption comes from.  A        *)
(* receipt is a cause of consumption when it is named by a reply_ack       *)
(* frame on its way to the bridge, a retry timer, a task, a request to     *)
(* telepathosd or a consumption.  A bridge step never adds a cause, it     *)
(* only hands one on, and a handset adds one only when it heard the reply. *)
(***************************************************************************)
EXTENDS ReplyExchange, ReplyAckBridgeProofs

HeardKeys == {k \in Keys : \E i \in Installations : <<i, k>> \in heard}

\* The receipts of the frames of kind op on their way to the bridge.
Asked(op) ==
  {k \in Keys : \E s \in Sockets :
     \E n \in 1..Len(up[s]) : up[s][n] = <<op, k>>}

TimerKeys == {k \in Keys : timers[k] # NoTimer}
TaskKeys == {t.key : t \in tasks}

\* The receipts that are being consumed, or may come to be.
Cause == requests \cup consumed \cup TimerKeys \cup TaskKeys \cup Asked("reply_ack")

Earned ==
  /\ Cause \subseteq HeardKeys
  /\ \A i \in Installations, k \in Keys :
       phase[i][k] \in {"ready", "retirement_pending"} => <<i, k>> \in heard
  /\ RetirementIsConsumed
  /\ \A ik \in settled : ik[2] \in consumed

ExchangeInv == BridgeInv /\ ExchangeTypeOK /\ Earned

-----------------------------------------------------------------------------
(* Queues of frames *)

\* Every element of a queue without its head was in the queue.
LEMMA TailElements ==
  ASSUME NEW S, NEW q \in Seq(S), q # <<>>, NEW n \in 1..Len(Tail(q))
  PROVE  n + 1 \in 1..Len(q) /\ Tail(q)[n] = q[n + 1]
BY HeadTailProperties

\* An element of a queue that grew was there, or is one of the new ones.
LEMMA ConcatElements ==
  ASSUME NEW S, NEW T, NEW q \in Seq(S), NEW new \in Seq(T), T \subseteq S,
         NEW n \in 1..Len(q \o new)
  PROVE  \/ n \in 1..Len(q) /\ (q \o new)[n] = q[n]
         \/ n - Len(q) \in 1..Len(new) /\ (q \o new)[n] = new[n - Len(q)]
<1>1. new \in Seq(S)
  OBVIOUS
<1> QED
  BY <1>1, ConcatProperties

\* A finite set of frames is queued as a sequence of its elements.
LEMMA SetToSeqType ==
  ASSUME NEW S, IsFiniteSet(S)
  PROVE  SetToSeq(S) \in Seq(S)
<1>1. \E f \in [1..Cardinality(S) -> S] : IsInjective(f)
  <2>1. PICK f : f \in Bijection(1..Cardinality(S), S)
    BY FS_CardinalityType DEF ExistsBijection
  <2> QED
    BY <2>1 DEF Bijection, Injection, IsInjective
<1>2. SetToSeq(S) \in [1..Cardinality(S) -> S]
  BY <1>1 DEF SetToSeq
<1> QED
  BY <1>2, FS_CardinalityType

\* Commands are frames, so there are finitely many of them.
LEMMA CommandFrames ==
  ASSUME NEW p, NEW k \in Keys
  PROVE  /\ Command(p, k) \subseteq UpFrame
         /\ \A f \in Command(p, k) :
              /\ f[2] = k
              /\ f[1] = "reply_ack" => p = "ready"
              /\ f[1] = "reply_ack_retire" => p = "retirement_pending"
<1>1. CASE p \in {"receipt_pending", "receipt_pending_suppressed"}
  BY <1>1 DEF Command, UpFrame
<1>2. CASE p = "ready"
  BY <1>2 DEF Command, UpFrame
<1>3. CASE p = "retirement_pending"
  BY <1>3 DEF Command, UpFrame
<1>4. CASE p \notin {"receipt_pending", "receipt_pending_suppressed", "ready",
                     "retirement_pending"}
  BY <1>4 DEF Command
<1> QED
  BY <1>1, <1>2, <1>3, <1>4

\* Any set of upward frames is finite.
LEMMA FramesFinite ==
  ASSUME NEW frames \in SUBSET UpFrame
  PROVE  IsFiniteSet(frames)
<1>1. IsFiniteSet({"reply_received", "reply_ack", "reply_ack_retire"})
  <2>1. IsFiniteSet({"reply_received"})
    BY FS_Singleton
  <2>2. IsFiniteSet({"reply_received"} \cup {"reply_ack"})
    BY <2>1, FS_AddElement
  <2>3. IsFiniteSet(({"reply_received"} \cup {"reply_ack"}) \cup {"reply_ack_retire"})
    BY <2>2, FS_AddElement
  <2>4. ({"reply_received"} \cup {"reply_ack"}) \cup {"reply_ack_retire"}
          = {"reply_received", "reply_ack", "reply_ack_retire"}
    OBVIOUS
  <2> QED
    BY <2>3, <2>4
<1>2. IsFiniteSet(UpFrame)
  BY <1>1, KeysAssumption, FS_Product DEF UpFrame
<1> QED
  BY <1>2, FS_Subset

\* The queues after some of the frames were queued on one connection.
Queues(frames) ==
  \A s \in Sockets :
    up'[s] = up[s] \/ \E new \in Seq(frames) : up'[s] = up[s] \o new

\* What is queued are frames that are not queued yet.
LEMMA QueueFrames ==
  ASSUME TypeOK, NEW s, NEW frames \in SUBSET UpFrame,
         up' = [up EXCEPT ![s] = @ \o SetToSeq(frames \ Queued(s))]
  PROVE  up' \in [Sockets -> Seq(UpFrame)] /\ Queues(frames)
<1> DEFINE new == SetToSeq(frames \ Queued(s))
<1>1. new \in Seq(frames \ Queued(s))
  BY FramesFinite, SetToSeqType
<1>2. new \in Seq(frames) /\ new \in Seq(UpFrame)
  BY <1>1
<1> HIDE DEF new, UpFrame
<1>3. CASE s \in Sockets
  <2>1. up[s] \o new \in Seq(UpFrame)
    BY <1>2, <1>3, ConcatProperties DEF TypeOK
  <2>2. up' = [up EXCEPT ![s] = up[s] \o new]
    BY DEF new
  <2> QED
    BY <1>2, <1>3, <2>1, <2>2 DEF TypeOK, Queues
<1>4. CASE s \notin Sockets
  <2>1. up' = up
    BY <1>4 DEF TypeOK
  <2> QED
    BY <2>1 DEF TypeOK, Queues
<1> QED
  BY <1>3, <1>4

\* Pushing frames queues them, or nothing when there is no connection.
LEMMA PushQueues ==
  ASSUME TypeOK, NEW i, NEW frames \in SUBSET UpFrame, Push(i, frames)
  PROVE  up' \in [Sockets -> Seq(UpFrame)] /\ Queues(frames)
<1>1. CASE up' = up
  BY <1>1 DEF TypeOK, Queues
<1>2. CASE up' = [up EXCEPT ![current[i]] =
                    @ \o SetToSeq(frames \ Queued(current[i]))]
  BY <1>2, QueueFrames
<1> QED
  BY <1>1, <1>2 DEF Push

-----------------------------------------------------------------------------
(* A bridge step adds no cause *)

\* Queues that only lost frames ask for nothing they did not ask for.
LEMMA LessQueued ==
  ASSUME TypeOK, NEW op,
         \A s \in Sockets : \/ up'[s] \in {up[s], <<>>}
                            \/ up[s] # <<>> /\ up'[s] = Tail(up[s])
  PROVE  Asked(op)' \subseteq Asked(op)
<1> SUFFICES ASSUME NEW k \in Keys, NEW s \in Sockets, NEW n \in 1..Len(up'[s]),
                    up'[s][n] = <<op, k>>
             PROVE  \E m \in 1..Len(up[s]) : up[s][m] = <<op, k>>
  BY DEF Asked
<1>1. up[s] \in Seq(UpFrame)
  BY DEF TypeOK
<1> HIDE DEF UpFrame
<1>2. CASE up'[s] = <<>>
  <2>1. Len(up'[s]) = 0
    BY <1>2
  <2> QED
    BY <2>1
<1>3. CASE up'[s] = up[s]
  BY <1>3
<1>4. CASE up[s] # <<>> /\ up'[s] = Tail(up[s])
  BY <1>1, <1>4, TailElements
<1> QED
  BY <1>2, <1>3, <1>4

\* The frame a handler takes was queued; the others stay.
LEMMA TakesQueued ==
  ASSUME TypeOK, NEW s \in Sockets, NEW op, NEW k \in Keys, Takes(s, op, k)
  PROVE  k \in Asked(op) /\ \A any : Asked(any)' \subseteq Asked(any)
<1>1. /\ up[s] \in Seq(UpFrame) /\ up[s] # <<>> /\ Head(up[s]) = <<op, k>>
      /\ up' = [up EXCEPT ![s] = Tail(@)] /\ up \in [Sockets -> Seq(UpFrame)]
  BY DEF Takes, TypeOK
<1>2. 1 \in 1..Len(up[s]) /\ up[s][1] = <<op, k>>
  BY <1>1 DEF UpFrame
<1>3. ASSUME NEW any PROVE Asked(any)' \subseteq Asked(any)
  BY <1>1, LessQueued
<1> QED
  BY <1>2, <1>3 DEF Asked

\* Answering reply_ack, or a retry timer, hands on the receipt at most.
LEMMA AcknowledgeCauses ==
  ASSUME TypeOK, NEW src \in Source, NEW k \in Keys,
         NEW waiting \in [Keys -> Source \cup {NoTimer}],
         Acknowledge(src, k, waiting)
  PROVE  /\ requests' \subseteq requests \cup {k}
         /\ TimerKeys' \subseteq {x \in Keys : waiting[x] # NoTimer} \cup {k}
         /\ TaskKeys' \subseteq TaskKeys \cup {k}
<1>1. requests' \subseteq requests \cup {k}
  BY DEF Acknowledge
<1>2. TimerKeys' \subseteq {x \in Keys : waiting[x] # NoTimer} \cup {k}
  BY DEF Acknowledge, TimerKeys
<1>3. TaskKeys' \subseteq TaskKeys \cup {k}
  BY DEF Acknowledge, TaskKeys
<1> QED
  BY <1>1, <1>2, <1>3

\* Changing a task's currency or its answer does not change its receipt.
LEMMA SameTaskKeys ==
  ASSUME TypeOK,
         \/ \E taken : tasks' = {[t EXCEPT !.current = @ /\ t.key \notin taken] : t \in tasks}
         \/ \E gone : tasks' = {[t EXCEPT !.src = gone[t]] : t \in tasks}
  PROVE  TaskKeys' = TaskKeys
<1>1. \A t \in tasks : /\ t \in Task
                       /\ \A c : [t EXCEPT !.current = c].key = t.key
                       /\ \A c : [t EXCEPT !.src = c].key = t.key
  BY DEF TypeOK, Task
<1>2. CASE \E taken :
             tasks' = {[t EXCEPT !.current = @ /\ t.key \notin taken] : t \in tasks}
  <2>1. PICK taken :
          tasks' = {[t EXCEPT !.current = @ /\ t.key \notin taken] : t \in tasks}
    BY <1>2
  <2> DEFINE moved(t) == [t EXCEPT !.current = @ /\ t.key \notin taken]
  <2>2. \A t \in tasks : moved(t) \in tasks' /\ moved(t).key = t.key
    BY <1>1, <2>1
  <2>3. \A u \in tasks' : \E t \in tasks : u = moved(t)
    BY <2>1
  <2> HIDE DEF moved
  <2> QED
    BY <2>2, <2>3 DEF TaskKeys
<1>3. CASE \E gone : tasks' = {[t EXCEPT !.src = gone[t]] : t \in tasks}
  <2>1. PICK gone : tasks' = {[t EXCEPT !.src = gone[t]] : t \in tasks}
    BY <1>3
  <2> DEFINE moved(t) == [t EXCEPT !.src = gone[t]]
  <2>2. \A t \in tasks : moved(t) \in tasks' /\ moved(t).key = t.key
    BY <1>1, <2>1
  <2>3. \A u \in tasks' : \E t \in tasks : u = moved(t)
    BY <2>1
  <2> HIDE DEF moved
  <2> QED
    BY <2>2, <2>3 DEF TaskKeys
<1> QED
  BY <1>2, <1>3

\* A hello starts no task and no timer.
LEMMA HelloCauses ==
  ASSUME TypeOK, NEW s \in Sockets, NEW outcome, Hello(s, outcome)
  PROVE  Cause' \subseteq Cause
<1>1. UNCHANGED <<up, requests, consumed>>
  BY DEF Hello
<1>2. \E taken : /\ timers' = [k \in Keys |-> IF k \in taken THEN NoTimer ELSE timers[k]]
                 /\ tasks' = {[t EXCEPT !.current = @ /\ t.key \notin taken] : t \in tasks}
  BY DEF Hello
<1>3. TaskKeys' = TaskKeys
  BY <1>2, SameTaskKeys
<1>4. TimerKeys' \subseteq TimerKeys
  BY <1>2 DEF TimerKeys
<1>5. Asked("reply_ack")' = Asked("reply_ack")
  BY <1>1 DEF Asked
<1> QED
  BY <1>1, <1>3, <1>4, <1>5 DEF Cause

\* Handling reply_received consumes nothing.
LEMMA ReceiveCauses ==
  ASSUME TypeOK, NEW s \in Sockets, NEW k \in Keys, NEW outcome,
         ReceiveReplyAck(s, k, outcome) \/ RetireReplyAck(s, k, outcome)
  PROVE  Cause' \subseteq Cause
<1>1. /\ UNCHANGED <<tasks, requests, consumed>>
      /\ TimerKeys' \subseteq TimerKeys
  BY DEF ReceiveReplyAck, RetireReplyAck, TimerKeys, TypeOK
<1>2. Asked("reply_ack")' \subseteq Asked("reply_ack")
  BY TakesQueued DEF ReceiveReplyAck, RetireReplyAck
<1> QED
  BY <1>1, <1>2 DEF Cause, TaskKeys

\* reply_ack hands the receipt of its frame on, to a task, a timer or a request.
LEMMA AcknowledgeReplyAckCauses ==
  ASSUME TypeOK, NEW s \in Sockets, NEW k \in Keys, AcknowledgeReplyAck(s, k)
  PROVE  Cause' \subseteq Cause
<1>1. Asked("reply_ack")' \subseteq Asked("reply_ack") /\ k \in Asked("reply_ack")
  BY TakesQueued DEF AcknowledgeReplyAck
<1>2. /\ requests' \subseteq requests \cup {k}
      /\ TimerKeys' \subseteq {x \in Keys : timers[x] # NoTimer} \cup {k}
      /\ TaskKeys' \subseteq TaskKeys \cup {k}
  BY SourceType, AcknowledgeCauses DEF AcknowledgeReplyAck, TypeOK
<1>3. consumed' = consumed
  BY DEF AcknowledgeReplyAck
<1> QED
  BY <1>1, <1>2, <1>3 DEF Cause, TimerKeys

\* A retry timer hands its own receipt on.
LEMMA RetryTimerCauses ==
  ASSUME TypeOK, NEW k \in Keys, RetryTimer(k)
  PROVE  Cause' \subseteq Cause
<1> DEFINE waiting == [timers EXCEPT ![k] = NoTimer]
<1>1. /\ timers[k] \in Source /\ k \in TimerKeys
      /\ waiting \in [Keys -> Source \cup {NoTimer}]
      /\ {x \in Keys : waiting[x] # NoTimer} \subseteq TimerKeys
      /\ UNCHANGED <<up, consumed>> /\ Acknowledge(timers[k], k, waiting)
  BY DEF RetryTimer, TypeOK, TimerKeys
<1> HIDE DEF waiting
<1>2. /\ requests' \subseteq requests \cup {k}
      /\ TimerKeys' \subseteq TimerKeys \cup {k}
      /\ TaskKeys' \subseteq TaskKeys \cup {k}
  BY <1>1, AcknowledgeCauses
<1>3. Asked("reply_ack")' = Asked("reply_ack")
  BY <1>1 DEF Asked
<1> QED
  BY <1>1, <1>2, <1>3 DEF Cause

\* The end of a task, answered, failed or sent, leaves its receipt to a timer
\* at most.
LEMMA TaskCauses ==
  ASSUME TypeOK, NEW t \in tasks,
         \/ \E o \in SaveOutcomes : ConsumeAnswered(t, o)
         \/ ConsumeFailed(t)
         \/ ConfirmationSent(t)
  PROVE  Cause' \subseteq Cause
<1>1. t \in Task /\ t.key \in Keys /\ t.key \in TaskKeys
  BY DEF TypeOK, Task, TaskKeys
<1>2. UNCHANGED <<up, requests, consumed>>
  BY DEF ConsumeAnswered, ConsumeFailed, ConfirmationSent
<1>3. TimerKeys' \subseteq TimerKeys \cup {t.key}
  BY <1>1 DEF ConsumeAnswered, ConsumeFailed, ConfirmationSent, TimerKeys, TypeOK
<1>4. \A u \in tasks' : u.key \in TaskKeys
  <2>1. \A u \in tasks' : u \in tasks \/ \E d : u = [t EXCEPT !.call = "sending", !.done = d]
    <3>1. tasks' = tasks \ {t}
            \/ \E d : \/ tasks' = (tasks \ {t}) \cup {[t EXCEPT !.call = "sending", !.done = d]}
                    \/ tasks' = (tasks \ {t}) \cup {}
      BY Zenon DEF ConsumeAnswered, ConsumeFailed, ConfirmationSent
    <3> QED
      BY <3>1
  <2>2. \A d : [t EXCEPT !.call = "sending", !.done = d].key = t.key
    BY <1>1 DEF Task
  <2> QED
    BY <1>1, <2>1, <2>2 DEF TaskKeys
<1>5. Asked("reply_ack")' = Asked("reply_ack")
  BY <1>2 DEF Asked
<1> QED
  BY <1>1, <1>2, <1>3, <1>4, <1>5 DEF Cause, TaskKeys

\* A close empties queues and moves tasks and timers off the socket.
LEMMA CloseCauses ==
  ASSUME TypeOK, NEW s \in Sockets, NEW outcome, Close(s, outcome)
  PROVE  Cause' \subseteq Cause
<1> DEFINE Gone(src) == IF src.sock = s THEN [src EXCEPT !.sock = NoSocket] ELSE src
<1>1. /\ UNCHANGED <<requests, consumed>>
      /\ up' = [up EXCEPT ![s] = <<>>]
      /\ timers' = [k \in Keys |-> IF timers[k] = NoTimer THEN NoTimer
                                   ELSE Gone(timers[k])]
      /\ tasks' = {[t EXCEPT !.src = Gone(@)] : t \in tasks}
  BY DEF Close
<1>2. TimerKeys' \subseteq TimerKeys
  BY <1>1 DEF TimerKeys
<1>3. TaskKeys' = TaskKeys
  <2> DEFINE gone == [t \in tasks |-> Gone(t.src)]
  <2>1. tasks' = {[t EXCEPT !.src = gone[t]] : t \in tasks}
    BY <1>1
  <2> QED
    BY <2>1, SameTaskKeys
<1>4. Asked("reply_ack")' \subseteq Asked("reply_ack")
  BY <1>1, LessQueued DEF TypeOK
<1> QED
  BY <1>1, <1>2, <1>3, <1>4 DEF Cause

\* A crash forgets every cause but the requests already sent.
LEMMA CrashCauses ==
  ASSUME TypeOK, Crash
  PROVE  Cause' \subseteq Cause
<1>1. /\ UNCHANGED <<requests, consumed>>
      /\ TimerKeys' = {} /\ TaskKeys' = {}
  BY DEF Crash, TimerKeys, TaskKeys
<1>2. Asked("reply_ack")' \subseteq Asked("reply_ack")
  BY LessQueued DEF Crash
<1> QED
  BY <1>1, <1>2 DEF Cause

\* No step of the bridge, of time or of telepathosd adds a cause.
LEMMA BridgeCauses ==
  ASSUME TypeOK, BridgeNext
  PROVE  Cause' \subseteq Cause
<1>1. CASE \/ \E s \in Sockets, k \in Keys, w, o \in SaveOutcomes : Prepare(s, k, w, o)
           \/ \E o \in SaveOutcomes : PeriodicSweep(o)
           \/ Start \/ Tick \/ Rollback
  <2>1. ASSUME NEW s \in Sockets, NEW k \in Keys, NEW w, NEW o, Prepare(s, k, w, o)
        PROVE  UNCHANGED <<up, requests, consumed, tasks, timers>>
    BY <2>1 DEF Prepare
  <2>2. ASSUME NEW o, PeriodicSweep(o)
        PROVE  UNCHANGED <<up, requests, consumed, tasks, timers>>
    BY <2>2 DEF PeriodicSweep
  <2>3. ASSUME Start \/ Tick \/ Rollback
        PROVE  UNCHANGED <<up, requests, consumed, tasks, timers>>
    BY <2>3 DEF Start, Tick, Rollback
  <2> QED
    BY <1>1, <2>1, <2>2, <2>3 DEF Cause, TimerKeys, TaskKeys, Asked
<1>2. CASE \E k \in Keys : TelepathosdConsumes(k)
  BY <1>2 DEF TelepathosdConsumes, Cause, TimerKeys, TaskKeys, Asked
<1> QED
  BY <1>1, <1>2, HelloCauses, ReceiveCauses, AcknowledgeReplyAckCauses,
     RetryTimerCauses, TaskCauses, CloseCauses, CrashCauses DEF BridgeNext

-----------------------------------------------------------------------------
(* Handset steps *)

\* The handset takes the head of a queue of the bridge, or loses a queue.
TakesDown ==
  \/ down' = down
  \/ \E s : down' = [down EXCEPT ![s] = <<>>]
  \/ \E s \in Sockets : down[s] # <<>> /\ down' = [down EXCEPT ![s] = Tail(@)]

\* Reading a frame takes the head of a queue.
LEMMA ReadsTakes ==
  ASSUME ExchangeTypeOK, NEW i \in Installations, NEW f, Reads(i, f)
  PROVE  /\ TakesDown
         /\ current[i] \in Sockets /\ down[current[i]] # <<>>
         /\ down[current[i]] \in Seq(DownFrame)
         /\ Head(down[current[i]]) = f
         /\ down' = [down EXCEPT ![current[i]] = Tail(@)]
BY DEF Reads, TakesDown, ExchangeTypeOK, TypeOK

\* The bridge's own invariant survives what a handset does to the queues.
LEMMA HandsetSafe ==
  ASSUME BridgeInv, UNCHANGED bridgeRest,
         up' \in [Sockets -> Seq(UpFrame)], TakesDown
  PROVE  BridgeInv'
<1>1. down \in [Sockets -> Seq(DownFrame)]
  BY DEF BridgeInv, TypeOK
<1>2. /\ down' \in [Sockets -> Seq(DownFrame)]
      /\ \A s \in Sockets : \A n \in 1..Len(down'[s]) :
           \E m \in 1..Len(down[s]) : down'[s][n] = down[s][m]
  <2> HIDE DEF DownFrame
  <2>1. CASE down' = down
    BY <1>1, <2>1
  <2>2. CASE \E s : down' = [down EXCEPT ![s] = <<>>]
    <3>1. PICK s : down' = [down EXCEPT ![s] = <<>>]
      BY <2>2
    <3>2. down' \in [Sockets -> Seq(DownFrame)]
      <4>1. <<>> \in Seq(DownFrame)
        OBVIOUS
      <4> QED
        BY <1>1, <3>1, <4>1
    <3>3. \A x \in Sockets : down'[x] = down[x] \/ down'[x] = <<>>
      BY <1>1, <3>1
    <3>4. Len(<<>>) = 0
      OBVIOUS
    <3>5. ASSUME NEW x \in Sockets, NEW n \in 1..Len(down'[x])
          PROVE  \E m \in 1..Len(down[x]) : down'[x][n] = down[x][m]
      <4>1. down'[x] = down[x]
        BY <3>3, <3>4
      <4> QED
        BY <4>1
    <3> QED
      BY <3>2, <3>5
  <2>3. CASE \E s \in Sockets : down[s] # <<>> /\ down' = [down EXCEPT ![s] = Tail(@)]
    <3>1. PICK s \in Sockets : down[s] # <<>> /\ down' = [down EXCEPT ![s] = Tail(@)]
      BY <2>3
    <3>2. Tail(down[s]) \in Seq(DownFrame)
      BY <1>1, <3>1, HeadTailProperties
    <3>3. \A n \in 1..Len(Tail(down[s])) :
            n + 1 \in 1..Len(down[s]) /\ Tail(down[s])[n] = down[s][n + 1]
      BY <1>1, <3>1, TailElements
    <3>4. down' \in [Sockets -> Seq(DownFrame)]
      BY <1>1, <3>1, <3>2
    <3>5. /\ down'[s] = Tail(down[s])
          /\ \A x \in Sockets \ {s} : down'[x] = down[x]
      BY <1>1, <3>1
    <3> QED
      BY <3>3, <3>4, <3>5
  <2> QED
    BY <2>1, <2>2, <2>3 DEF TakesDown
<1>3. TypeOK'
  BY <1>2 DEF BridgeInv, TypeOK, bridgeRest
<1> QED
  BY <1>2, <1>3, QuietSafe DEF bridgeRest

\* Frames the handset queues ask for their own receipts and no other.
LEMMA QueuesAsk ==
  ASSUME TypeOK, NEW frames \in SUBSET UpFrame, Queues(frames), NEW op
  PROVE  Asked(op)' \subseteq Asked(op) \cup {k \in Keys : <<op, k>> \in frames}
<1> SUFFICES ASSUME NEW k \in Keys, NEW s \in Sockets, NEW n \in 1..Len(up'[s]),
                    up'[s][n] = <<op, k>>
             PROVE  k \in Asked(op) \/ <<op, k>> \in frames
  BY DEF Asked
<1>1. up[s] \in Seq(UpFrame)
  BY DEF TypeOK
<1> HIDE DEF UpFrame
<1>2. CASE up'[s] = up[s]
  BY <1>2 DEF Asked
<1>3. CASE \E new \in Seq(frames) : up'[s] = up[s] \o new
  <2>1. PICK new \in Seq(frames) : up'[s] = up[s] \o new
    BY <1>3
  <2>2. \/ n \in 1..Len(up[s]) /\ up'[s][n] = up[s][n]
        \/ n - Len(up[s]) \in 1..Len(new) /\ up'[s][n] = new[n - Len(up[s])]
    BY <1>1, <2>1, ConcatElements
  <2>3. CASE n \in 1..Len(up[s]) /\ up'[s][n] = up[s][n]
    BY <2>3 DEF Asked
  <2>4. CASE n - Len(up[s]) \in 1..Len(new) /\ up'[s][n] = new[n - Len(up[s])]
    <3>1. new[n - Len(up[s])] \in frames
      BY <2>4
    <3> QED
      BY <2>4, <3>1
  <2> QED
    BY <2>2, <2>3, <2>4
<1> QED
  BY <1>2, <1>3 DEF Queues

\* So they add no cause but their own acknowledgements.
LEMMA QueuesCauses ==
  ASSUME TypeOK, NEW frames \in SUBSET UpFrame, Queues(frames),
         UNCHANGED bridgeRest, NEW H, Cause \subseteq H,
         \A k \in Keys : <<"reply_ack", k>> \in frames => k \in H
  PROVE  Cause' \subseteq H
<1>1. Asked("reply_ack")' \subseteq H
  BY QueuesAsk DEF Cause
<1>2. UNCHANGED <<requests, consumed, timers, tasks>>
  BY DEF bridgeRest
<1> QED
  BY <1>1, <1>2 DEF Cause, TimerKeys, TaskKeys

\* A handset step keeps the invariant when the receipts it acknowledges, and
\* the phases it enters, were heard, and when what it erases was consumed.
LEMMA HandsetEarns ==
  ASSUME ExchangeInv, NEW frames \in SUBSET UpFrame, Queues(frames),
         up' \in [Sockets -> Seq(UpFrame)], UNCHANGED bridgeRest, TakesDown,
         phase' \in [Installations -> [Keys -> HandsetPhase]],
         current' \in [Installations -> Sockets \cup {NoSocket}],
         linkUp' \in [Installations -> BOOLEAN],
         stopped' \in [Installations -> SUBSET Keys],
         heard' \subseteq Installations \X Keys, heard \subseteq heard',
         settled' \subseteq heard',
         \A k \in Keys : <<"reply_ack", k>> \in frames => k \in HeardKeys',
         \A i \in Installations, k \in Keys :
           /\ phase'[i][k] \in {"ready", "retirement_pending"} => <<i, k>> \in heard'
           /\ phase'[i][k] = "retirement_pending" => k \in consumed,
         \A ik \in settled' : ik[2] \in consumed
  PROVE  ExchangeInv'
<1>1. BridgeInv'
  BY HandsetSafe DEF ExchangeInv
<1>2. ExchangeTypeOK'
  BY <1>1 DEF BridgeInv, ExchangeTypeOK
<1>3. consumed' = consumed
  BY DEF bridgeRest
<1>4. Cause' \subseteq HeardKeys'
  <2>1. Cause \subseteq HeardKeys'
    BY DEF ExchangeInv, Earned, HeardKeys
  <2> HIDE DEF HeardKeys
  <2> QED
    BY <2>1, QueuesCauses DEF ExchangeInv, BridgeInv
<1> QED
  BY <1>1, <1>2, <1>3, <1>4 DEF ExchangeInv, Earned, RetirementIsConsumed

\* A step that queues nothing.
LEMMA NothingQueued ==
  ASSUME up' = up
  PROVE  Queues({}) /\ {} \in SUBSET UpFrame
BY DEF Queues

\* Setting one phase keeps the phases well typed.
LEMMA CommitType ==
  ASSUME ExchangeTypeOK, NEW i \in Installations, NEW k \in Keys,
         NEW p \in HandsetPhase, NEW saved \in BOOLEAN, Commit(i, k, p, saved)
  PROVE  /\ phase' \in [Installations -> [Keys -> HandsetPhase]]
         /\ \A j \in Installations, x \in Keys :
              phase'[j][x] = IF saved /\ j = i /\ x = k THEN p ELSE phase[j][x]
BY DEF Commit, ExchangeTypeOK

\* Dialling is a step of the bridge's environment.
LEMMA ConnectEarns ==
  ASSUME ExchangeInv, NEW i \in Installations, NEW s \in Sockets, Connect(i, s)
  PROVE  ExchangeInv'
<1>1. HandsetNext
  BY DEF Connect, HandsetNext
<1>2. BridgeInv'
  BY <1>1, StepSafe DEF Next, ExchangeInv
<1>3. ExchangeTypeOK'
  BY <1>2 DEF Connect, ExchangeInv, ExchangeTypeOK, BridgeInv
<1>4. UNCHANGED <<up, requests, consumed, timers, tasks, phase, heard, settled>>
  BY DEF Connect, Dial
<1> QED
  BY <1>2, <1>3, <1>4 DEF ExchangeInv, Earned, Cause, TimerKeys, TaskKeys,
     Asked, HeardKeys, RetirementIsConsumed

\* A socket that dies, frames nobody reads, and an agent_end refused: nothing
\* of the receipts changes, only frames on their way down go.
Lost ==
  \/ \E i \in Installations, died \in BOOLEAN : Disconnect(i, died)
  \/ \E s \in Sockets : Unread(s)
  \/ \E i \in Installations, k \in Keys : RefuseAgentEnd(i, k)

\* The steps of a handset.  Stop and the retry's rewrite are one Fence.
LEMMA HandsetCases ==
  ASSUME HandsetStep
  PROVE  \/ \E i \in Installations, s \in Sockets : Connect(i, s)
         \/ Lost
         \/ \E i \in Installations, ok \in BOOLEAN : ReadReady(i, ok)
         \/ \E i \in Installations, k \in Keys, ok \in BOOLEAN :
              \/ ReadAgentEnd(i, k, ok) \/ ReadReceived(i, k, ok)
              \/ Heard(i, k, ok) \/ ReadAcknowledged(i, k, ok)
              \/ ReadRetired(i, k, ok) \/ Fence(i, k, ok)
         \/ \E i \in Installations, k \in Keys : Resend(i, k)
<1>1. \A ok \in HandsetSaves : ok \in BOOLEAN
  BY HandsetAssumption
<1>2. ASSUME NEW i \in Installations, NEW k \in Keys, NEW ok \in HandsetSaves,
             Stop(i, k, ok)
      PROVE  Fence(i, k, ok)
  BY <1>2 DEF Stop
<1>3. ASSUME NEW i \in Installations, NEW k \in Keys, Rewrite(i, k)
      PROVE  Fence(i, k, TRUE)
  BY <1>3 DEF Rewrite
<1> QED
  BY <1>1, <1>2, <1>3 DEF HandsetStep, Lost

\* Losing a socket, or frames nobody reads, earns nothing and undoes nothing.
LEMMA DisconnectEarns ==
  ASSUME ExchangeInv,
         Lost
  PROVE  ExchangeInv'
<1>1. /\ UNCHANGED <<bridgeRest, up, phase, heard, settled>>
      /\ TakesDown
      /\ current' \in [Installations -> Sockets \cup {NoSocket}]
      /\ linkUp' \in [Installations -> BOOLEAN]
      /\ stopped' \in [Installations -> SUBSET Keys]
  BY ReadsTakes DEF Lost, Disconnect, Unread, RefuseAgentEnd, TakesDown, handset, ExchangeInv,
     ExchangeTypeOK
<1> QED
  BY <1>1, NothingQueued, HandsetEarns
     DEF ExchangeInv, ExchangeTypeOK, BridgeInv, TypeOK, Earned, RetirementIsConsumed

\* Re-arming suppressed playback makes no reply consumed.
LEMMA RearmKeeps ==
  ASSUME NEW p \in HandsetPhase
  PROVE  /\ Rearm(p) \in HandsetPhase /\ Suppress(p) \in HandsetPhase
         /\ Rearm(p) \in {"ready", "retirement_pending"} => Rearm(p) = p
         /\ Suppress(p) \in {"ready", "retirement_pending"} => Suppress(p) = p
         /\ Rearm(p) = "absent" <=> p = "absent"
         /\ Suppress(p) = "absent" <=> p = "absent"
BY DEF Rearm, Suppress, HandsetPhase

\* ready sends the commands of the receipts held, and re-arms playback.
LEMMA ReadReadyEarns ==
  ASSUME ExchangeInv, NEW i \in Installations, NEW saved \in BOOLEAN,
         ReadReady(i, saved)
  PROVE  ExchangeInv'
<1> DEFINE frames == UNION {Command(phase[i][k], k) : k \in Keys}
<1>1. frames \in SUBSET UpFrame
  BY CommandFrames
<1>2. \A k \in Keys : <<"reply_ack", k>> \in frames => <<i, k>> \in heard
  <2> SUFFICES ASSUME NEW k \in Keys, NEW x \in Keys,
                      <<"reply_ack", k>> \in Command(phase[i][x], x)
               PROVE  <<i, k>> \in heard
    OBVIOUS
  <2>1. k = x /\ phase[i][x] = "ready"
    BY CommandFrames
  <2> QED
    BY <2>1 DEF ExchangeInv, Earned
<1>3. TypeOK
  BY DEF ExchangeInv, BridgeInv
<1> HIDE DEF frames
<1>4. up' \in [Sockets -> Seq(UpFrame)] /\ Queues(frames)
  <2>1. \/ up' = up
        \/ up' = [up EXCEPT ![current[i]] = @ \o SetToSeq(frames \ Queued(current[i]))]
    BY DEF ReadReady, frames
  <2> QED
    BY <1>1, <1>3, <2>1, QueueFrames DEF TypeOK, Queues
<1>5. /\ TakesDown /\ UNCHANGED <<bridgeRest, current, heard, settled>>
      /\ linkUp' \in [Installations -> BOOLEAN]
      /\ stopped' \in [Installations -> SUBSET Keys]
  BY ReadsTakes DEF ReadReady, ExchangeInv, ExchangeTypeOK
<1>6. /\ phase' \in [Installations -> [Keys -> HandsetPhase]]
      /\ \A j \in Installations, k \in Keys :
           phase'[j][k] = phase[j][k] \/ phase'[j][k] = Rearm(phase[j][k])
  BY RearmKeeps DEF ReadReady, ExchangeInv, ExchangeTypeOK
<1>7. \A j \in Installations, k \in Keys :
        phase'[j][k] \in {"ready", "retirement_pending"} => phase'[j][k] = phase[j][k]
  BY <1>6, RearmKeeps DEF ExchangeInv, ExchangeTypeOK
<1> QED
  BY <1>1, <1>2, <1>4, <1>5, <1>6, <1>7, HandsetEarns
     DEF ExchangeInv, ExchangeTypeOK, Earned, RetirementIsConsumed, HeardKeys

\* agent_end, reply_received and a fence move a receipt between phases that come
\* before it was heard, or leave it where it is.
LEMMA BeforeHeardEarns ==
  ASSUME ExchangeInv, NEW i \in Installations, NEW k \in Keys,
         NEW saved \in BOOLEAN,
         \/ ReadAgentEnd(i, k, saved)
         \/ ReadReceived(i, k, saved)
         \/ Fence(i, k, saved)
  PROVE  ExchangeInv'
<1>1. TypeOK /\ ExchangeTypeOK /\ phase[i][k] \in HandsetPhase
  BY DEF ExchangeInv, BridgeInv, ExchangeTypeOK
<1>2. PICK p \in HandsetPhase :
        /\ p \in {"ready", "retirement_pending"} => p = phase[i][k]
        /\ Commit(i, k, p, saved)
  <2>1. CASE ReadAgentEnd(i, k, saved)
    BY <1>1, <2>1, RearmKeeps DEF ReadAgentEnd, HandsetPhase
  <2>2. CASE ReadReceived(i, k, saved)
    BY <1>1, <2>2 DEF ReadReceived, HandsetPhase
  <2>3. CASE Fence(i, k, saved)
    BY <1>1, <2>3, RearmKeeps DEF Fence
  <2> QED
    BY <2>1, <2>2, <2>3
<1>3. /\ phase' \in [Installations -> [Keys -> HandsetPhase]]
      /\ \A j \in Installations, x \in Keys :
           phase'[j][x] \in {"ready", "retirement_pending"} => phase'[j][x] = phase[j][x]
  BY <1>1, <1>2, CommitType
<1>4. PICK frames \in SUBSET UpFrame :
        /\ up' \in [Sockets -> Seq(UpFrame)] /\ Queues(frames)
        /\ \A x \in Keys : <<"reply_ack", x>> \in frames => <<i, x>> \in heard
  <2>1. CASE ReadAgentEnd(i, k, saved)
    <3>1. PICK after : /\ Push(i, Command(after, k))
                       /\ after = IF saved THEN phase'[i][k] ELSE phase[i][k]
      <4>1. PICK next, after : /\ Push(i, Command(after, k))
                               /\ after = IF saved THEN next ELSE phase[i][k]
                               /\ Commit(i, k, next, saved)
        BY <2>1 DEF ReadAgentEnd
      <4>2. saved => phase'[i][k] = next
        BY <4>1 DEF Commit, ExchangeInv, ExchangeTypeOK
      <4> QED
        BY <4>1, <4>2
    <3>2. \A x \in Keys : <<"reply_ack", x>> \in Command(after, k) => <<i, x>> \in heard
      BY <1>3, <3>1, CommandFrames DEF ExchangeInv, Earned
    <3> QED
      BY <1>1, <3>1, <3>2, CommandFrames, PushQueues
  <2>2. CASE ReadReceived(i, k, saved) \/ Fence(i, k, saved)
    BY <1>1, <2>2, NothingQueued DEF ReadReceived, Fence, TypeOK
  <2> QED
    BY <2>1, <2>2
<1>5. /\ TakesDown /\ UNCHANGED <<bridgeRest, current, linkUp, heard, settled>>
      /\ stopped' \in [Installations -> SUBSET Keys]
  <2>1. CASE ReadAgentEnd(i, k, saved) \/ ReadReceived(i, k, saved)
    BY <1>1, <2>1, ReadsTakes DEF ReadAgentEnd, ReadReceived, ExchangeTypeOK
  <2>2. CASE Fence(i, k, saved)
    BY <1>1, <2>2 DEF Fence, TakesDown, ExchangeTypeOK
  <2> QED
    BY <2>1, <2>2
<1> QED
  BY <1>3, <1>4, <1>5, HandsetEarns
     DEF ExchangeInv, ExchangeTypeOK, Earned, RetirementIsConsumed, HeardKeys

\* Hearing a reply to its end earns its acknowledgement.
LEMMA HeardEarns ==
  ASSUME ExchangeInv, NEW i \in Installations, NEW k \in Keys,
         NEW saved \in BOOLEAN, Heard(i, k, saved)
  PROVE  ExchangeInv'
<1> DEFINE frames == IF saved THEN {<<"reply_ack", k>>} ELSE {}
<1>1. TypeOK /\ ExchangeTypeOK /\ "ready" \in HandsetPhase
  BY DEF ExchangeInv, BridgeInv, HandsetPhase
<1>2. frames \in SUBSET UpFrame
  BY DEF UpFrame
<1>3. /\ Commit(i, k, "ready", saved)
      /\ heard' = IF saved THEN heard \cup {<<i, k>>} ELSE heard
      /\ Push(i, frames)
      /\ UNCHANGED <<bridgeRest, down, current, linkUp, stopped, settled>>
  BY DEF Heard
<1>4. \A x \in Keys : <<"reply_ack", x>> \in frames => x \in HeardKeys'
  BY <1>3 DEF HeardKeys
<1> HIDE DEF frames
<1>5. up' \in [Sockets -> Seq(UpFrame)] /\ Queues(frames)
  BY <1>1, <1>2, <1>3, PushQueues
<1>6. /\ phase' \in [Installations -> [Keys -> HandsetPhase]]
      /\ \A j \in Installations, x \in Keys :
           phase'[j][x] = IF saved /\ j = i /\ x = k THEN "ready" ELSE phase[j][x]
  BY <1>1, <1>3, CommitType
<1>7. /\ TakesDown /\ heard' \subseteq Installations \X Keys
      /\ heard \subseteq heard' /\ settled' \subseteq heard'
  BY <1>1, <1>3 DEF TakesDown, ExchangeTypeOK
<1>8. \A j \in Installations, x \in Keys :
        /\ phase'[j][x] \in {"ready", "retirement_pending"} => <<j, x>> \in heard'
        /\ phase'[j][x] = "retirement_pending" => x \in consumed
  BY <1>3, <1>6 DEF ExchangeInv, Earned, RetirementIsConsumed
<1>9. \A ik \in settled' : ik[2] \in consumed
  BY <1>3 DEF ExchangeInv, Earned
<1> QED
  BY <1>1, <1>2, <1>3, <1>4, <1>5, <1>6, <1>7, <1>8, <1>9, HandsetEarns
     DEF ExchangeTypeOK

\* What the handset reads as acknowledged was consumed.
LEMMA ReadIsConsumed ==
  ASSUME ExchangeInv, NEW i \in Installations, NEW k \in Keys,
         Reads(i, <<"reply_acknowledged", k>>)
  PROVE  k \in consumed
<1> DEFINE s == current[i]
<1>1. /\ s \in Sockets /\ down[s] \in Seq(DownFrame) /\ down[s] # <<>>
      /\ Head(down[s]) = <<"reply_acknowledged", k>>
  BY ReadsTakes DEF ExchangeInv
<1> HIDE DEF s
<1>2. 1 \in 1..Len(down[s]) /\ down[s][1] = <<"reply_acknowledged", k>>
  BY <1>1 DEF DownFrame
<1> QED
  BY <1>1, <1>2 DEF ExchangeInv, BridgeInv, Evidence, AcknowledgedIsConsumed

\* reply_acknowledged moves a receipt that was heard to retirement.
LEMMA ReadAcknowledgedEarns ==
  ASSUME ExchangeInv, NEW i \in Installations, NEW k \in Keys,
         NEW saved \in BOOLEAN, ReadAcknowledged(i, k, saved)
  PROVE  ExchangeInv'
<1> DEFINE p == phase[i][k]
           retires == p = "retirement_pending" \/ p = "ready"
           next == IF retires THEN "retirement_pending" ELSE p
           frames == IF retires /\ saved THEN {<<"reply_ack_retire", k>>} ELSE {}
<1>1. TypeOK /\ ExchangeTypeOK /\ next \in HandsetPhase
  BY DEF ExchangeInv, BridgeInv, ExchangeTypeOK, HandsetPhase
<1>2. /\ Reads(i, <<"reply_acknowledged", k>>)
      /\ Commit(i, k, next, saved) /\ Push(i, frames)
      /\ UNCHANGED <<bridgeRest, current, linkUp, stopped, heard, settled>>
  BY DEF ReadAcknowledged
<1>3. /\ frames \in SUBSET UpFrame
      /\ \A x \in Keys : <<"reply_ack", x>> \notin frames
  BY DEF UpFrame
<1>4. /\ next = "retirement_pending" => <<i, k>> \in heard /\ k \in consumed
      /\ next # "ready"
  BY <1>2, ReadIsConsumed DEF ExchangeInv, Earned
<1> HIDE DEF frames, next
<1>5. up' \in [Sockets -> Seq(UpFrame)] /\ Queues(frames) /\ TakesDown
  BY <1>1, <1>2, <1>3, PushQueues, ReadsTakes
<1>6. /\ phase' \in [Installations -> [Keys -> HandsetPhase]]
      /\ \A j \in Installations, x \in Keys :
           phase'[j][x] = IF saved /\ j = i /\ x = k THEN next ELSE phase[j][x]
  BY <1>1, <1>2, CommitType
<1>7. \A j \in Installations, x \in Keys :
        /\ phase'[j][x] \in {"ready", "retirement_pending"} => <<j, x>> \in heard'
        /\ phase'[j][x] = "retirement_pending" => x \in consumed
  BY <1>2, <1>4, <1>6 DEF ExchangeInv, Earned, RetirementIsConsumed
<1>8. \A ik \in settled' : ik[2] \in consumed
  BY <1>2 DEF ExchangeInv, Earned
<1> QED
  BY <1>1, <1>2, <1>3, <1>5, <1>6, <1>7, <1>8, HandsetEarns DEF ExchangeTypeOK

\* reply_ack_retired erases only a receipt in retirement, so a consumed one.
LEMMA ReadRetiredEarns ==
  ASSUME ExchangeInv, NEW i \in Installations, NEW k \in Keys,
         NEW saved \in BOOLEAN, ReadRetired(i, k, saved)
  PROVE  ExchangeInv'
<1> DEFINE erased == phase[i][k] = "retirement_pending"
           next == IF erased THEN "absent" ELSE phase[i][k]
<1>1. TypeOK /\ ExchangeTypeOK /\ next \in HandsetPhase
  BY DEF ExchangeInv, BridgeInv, ExchangeTypeOK, HandsetPhase
<1>2. /\ Reads(i, <<"reply_ack_retired", k>>) /\ Commit(i, k, next, saved)
      /\ settled' = IF erased /\ saved THEN settled \cup {<<i, k>>} ELSE settled
      /\ UNCHANGED <<bridgeRest, up, current, linkUp, stopped, heard>>
  BY DEF ReadRetired
<1>3. erased => <<i, k>> \in heard /\ k \in consumed
  BY DEF ExchangeInv, Earned, RetirementIsConsumed
<1>4. next \in {"ready", "retirement_pending"} => next = phase[i][k]
  OBVIOUS
<1>5. up' \in [Sockets -> Seq(UpFrame)] /\ TakesDown
  BY <1>1, <1>2, ReadsTakes DEF TypeOK
<1> HIDE DEF next
<1>6. /\ phase' \in [Installations -> [Keys -> HandsetPhase]]
      /\ \A j \in Installations, x \in Keys :
           phase'[j][x] = IF saved /\ j = i /\ x = k THEN next ELSE phase[j][x]
  BY <1>1, <1>2, CommitType
<1>7. \A j \in Installations, x \in Keys :
        /\ phase'[j][x] \in {"ready", "retirement_pending"} => <<j, x>> \in heard'
        /\ phase'[j][x] = "retirement_pending" => x \in consumed
  <2>1. \A j \in Installations, x \in Keys :
          phase'[j][x] \in {"ready", "retirement_pending"} => phase'[j][x] = phase[j][x]
    BY <1>4, <1>6
  <2> QED
    BY <2>1, <1>2 DEF ExchangeInv, Earned, RetirementIsConsumed
<1>8. settled' \subseteq heard' /\ \A ik \in settled' : ik[2] \in consumed
  BY <1>2, <1>3 DEF ExchangeInv, ExchangeTypeOK, Earned
<1>9. /\ current' \in [Installations -> Sockets \cup {NoSocket}]
      /\ linkUp' \in [Installations -> BOOLEAN]
      /\ stopped' \in [Installations -> SUBSET Keys]
      /\ heard' \subseteq Installations \X Keys /\ heard \subseteq heard'
      /\ Queues({}) /\ {} \in SUBSET UpFrame /\ UNCHANGED bridgeRest
  BY <1>1, <1>2, NothingQueued DEF ExchangeTypeOK
<1> QED
  BY <1>5, <1>6, <1>7, <1>8, <1>9, HandsetEarns

\* The retry timer of the handset repeats what it earned before.
LEMMA ResendEarns ==
  ASSUME ExchangeInv, NEW i \in Installations, NEW k \in Keys, Resend(i, k)
  PROVE  ExchangeInv'
<1> DEFINE frames == Command(phase[i][k], k)
<1>1. /\ frames \in SUBSET UpFrame
      /\ \A x \in Keys : <<"reply_ack", x>> \in frames => <<i, x>> \in heard
  BY CommandFrames DEF ExchangeInv, Earned
<1>2. Push(i, frames) /\ UNCHANGED <<bridgeRest, down, handset>>
  BY DEF Resend
<1> HIDE DEF frames
<1>3. up' \in [Sockets -> Seq(UpFrame)] /\ Queues(frames) /\ TakesDown
  BY <1>1, <1>2, PushQueues DEF TakesDown, ExchangeInv, BridgeInv
<1> QED
  BY <1>1, <1>2, <1>3, HandsetEarns DEF handset, ExchangeInv, ExchangeTypeOK,
     Earned, RetirementIsConsumed, HeardKeys

-----------------------------------------------------------------------------
(* The theorems *)

\* The exchange starts with nothing heard and nothing that could be consumed.
LEMMA ExchangeInitEarns == ExchangeInit => ExchangeInv
<1> SUFFICES ASSUME ExchangeInit PROVE ExchangeInv
  OBVIOUS
<1>1. BridgeInv /\ TypeOK
  BY InitSafe DEF ExchangeInit, BridgeInv
<1>2. ExchangeTypeOK
  BY <1>1 DEF ExchangeInit, ExchangeTypeOK, HandsetPhase
<1>3. Cause = {}
  <2>1. \A s \in Sockets : Len(up[s]) = 0
    BY DEF ExchangeInit, Init
  <2>2. Asked("reply_ack") = {}
    BY <2>1 DEF Asked
  <2> QED
    BY <2>2 DEF ExchangeInit, Init, Cause, TimerKeys, TaskKeys
<1> QED
  BY <1>1, <1>2, <1>3 DEF ExchangeInv, Earned, ExchangeInit, RetirementIsConsumed

\* telepathosd consumes what it was asked to, one delivery a step.
LEMMA BridgeConsumes ==
  ASSUME BridgeNext
  PROVE  \/ consumed' = consumed
         \/ \E k \in Keys : k \in requests /\ consumed' = consumed \cup {k}
<1>1. ASSUME NEW k \in Keys, TelepathosdConsumes(k)
      PROVE  k \in requests /\ consumed' = consumed \cup {k}
  BY <1>1 DEF TelepathosdConsumes
<1>2. ASSUME NEW s, NEW o, Hello(s, o) \/ Close(s, o)
      PROVE  consumed' = consumed
  BY <1>2 DEF Hello, Close
<1>3. \A s, k, w, o : Prepare(s, k, w, o) => consumed' = consumed
  BY DEF Prepare
<1>4. ASSUME NEW s, NEW k, NEW o,
             ReceiveReplyAck(s, k, o) \/ RetireReplyAck(s, k, o)
      PROVE  consumed' = consumed
  BY <1>4 DEF ReceiveReplyAck, RetireReplyAck
<1>5. /\ \A s, k : AcknowledgeReplyAck(s, k) => consumed' = consumed
      /\ \A k : RetryTimer(k) => consumed' = consumed
  BY DEF AcknowledgeReplyAck, RetryTimer
<1>6. /\ \A t, o : ConsumeAnswered(t, o) => consumed' = consumed
      /\ \A t : ConsumeFailed(t) \/ ConfirmationSent(t) => consumed' = consumed
  BY DEF ConsumeAnswered, ConsumeFailed, ConfirmationSent
<1>7. /\ \A o : PeriodicSweep(o) => consumed' = consumed
      /\ Crash \/ Start \/ Tick \/ Rollback => consumed' = consumed
  BY DEF PeriodicSweep, Crash, Start, Tick, Rollback
<1> QED
  BY <1>1, <1>2, <1>3, <1>4, <1>5, <1>6, <1>7 DEF BridgeNext

\* A step of the bridge hands causes on and leaves the handsets alone.
LEMMA BridgeStepEarns ==
  ASSUME ExchangeInv, BridgeStep
  PROVE  ExchangeInv'
<1>1. BridgeInv' /\ Cause' \subseteq Cause
  BY StepSafe, BridgeCauses DEF BridgeStep, Next, ExchangeInv, BridgeInv
<1>2. UNCHANGED <<phase, current, linkUp, stopped, heard, settled>>
  BY DEF BridgeStep, handset
<1>3. consumed \subseteq consumed'
  BY BridgeConsumes DEF BridgeStep
<1> QED
  BY <1>1, <1>2, <1>3 DEF ExchangeInv, ExchangeTypeOK, BridgeInv, Earned,
     HeardKeys, RetirementIsConsumed

\* Every step of the exchange keeps the invariant.
LEMMA ExchangeStepEarns == ExchangeInv /\ [ExchangeNext]_allVars => ExchangeInv'
<1> SUFFICES ASSUME ExchangeInv, [ExchangeNext]_allVars PROVE ExchangeInv'
  OBVIOUS
<1>1. CASE BridgeStep
  BY <1>1, BridgeStepEarns
<1>2. CASE HandsetStep
  <2>1. ASSUME NEW i \in Installations, NEW s \in Sockets, Connect(i, s)
        PROVE  ExchangeInv'
    BY <2>1, ConnectEarns
  <2>2. ASSUME NEW i \in Installations, NEW ok \in BOOLEAN, ReadReady(i, ok)
        PROVE  ExchangeInv'
    BY <2>2, ReadReadyEarns
  <2>3. ASSUME NEW i \in Installations, NEW k \in Keys, NEW ok \in BOOLEAN,
               \/ ReadAgentEnd(i, k, ok) \/ ReadReceived(i, k, ok)
               \/ Heard(i, k, ok) \/ ReadAcknowledged(i, k, ok)
               \/ ReadRetired(i, k, ok) \/ Fence(i, k, ok)
        PROVE  ExchangeInv'
    BY <2>3, BeforeHeardEarns, HeardEarns, ReadAcknowledgedEarns,
       ReadRetiredEarns
  <2>4. ASSUME NEW i \in Installations, NEW k \in Keys, Resend(i, k)
        PROVE  ExchangeInv'
    BY <2>4, ResendEarns
  <2> QED
    BY <1>2, <2>1, <2>2, <2>3, <2>4, DisconnectEarns, HandsetCases
<1>3. CASE UNCHANGED allVars
  <2>1. UNCHANGED <<vars, handset>>
    BY <1>3 DEF allVars
  <2>2. BridgeInv'
    BY <2>1, StepSafe DEF ExchangeInv
  <2>3. Cause' = Cause /\ HeardKeys' = HeardKeys
    BY <2>1 DEF vars, handset, Cause, TimerKeys, TaskKeys, Asked, HeardKeys
  <2>4. UNCHANGED <<consumed, phase, current, linkUp, stopped, heard, settled>>
    BY <2>1 DEF vars, handset
  <2> QED
    BY <2>2, <2>3, <2>4 DEF ExchangeInv, ExchangeTypeOK, BridgeInv, Earned,
       RetirementIsConsumed
<1> QED
  BY <1>1, <1>2, <1>3 DEF ExchangeNext

\* The invariant of the exchange holds in every reachable state.
THEOREM ExchangeCorrect == ExchangeSpec => []ExchangeInv
BY ExchangeInitEarns, ExchangeStepEarns, PTL DEF ExchangeSpec

\* A handset erases a receipt, or prepares to, only for a delivery telepathosd
\* consumed.
THEOREM RetirementWasConsumed == ExchangeSpec => []RetirementIsConsumed
<1>1. ExchangeInv => RetirementIsConsumed
  BY DEF ExchangeInv, Earned
<1> QED
  BY <1>1, ExchangeCorrect, PTL

-----------------------------------------------------------------------------
(* The refinement *)

\* A bridge step is a consumption of a reply that was heard, or nothing that
\* the promise speaks of.
LEMMA BridgeStepKeepsPromise ==
  ASSUME ExchangeInv, BridgeStep
  PROVE  [Promise!Next]_Promise!vars
<1>1. UNCHANGED <<heard, settled>>
  BY DEF BridgeStep, handset
<1>2. CASE consumed' = consumed
  BY <1>1, <1>2 DEF Promise!vars
<1>3. CASE \E k \in Keys : k \in requests /\ consumed' = consumed \cup {k}
  <2>1. PICK k \in Keys : k \in requests /\ consumed' = consumed \cup {k}
    BY <1>3
  <2>2. k \in HeardKeys
    BY <2>1 DEF ExchangeInv, Earned, Cause
  <2>3. Promise!Consume(k)
    BY <1>1, <2>1, <2>2 DEF Promise!Consume, HeardKeys
  <2> QED
    BY <2>3 DEF Promise!Next
<1> QED
  BY <1>2, <1>3, BridgeConsumes DEF BridgeStep

\* Recording that k was heard is the abstract Hear.
LEMMA HeardKeepsPromise ==
  ASSUME ExchangeInv, NEW i \in Installations, NEW k \in Keys, NEW saved \in BOOLEAN,
         Heard(i, k, saved)
  PROVE  [Promise!Next]_Promise!vars
<1>1. /\ heard' = IF saved THEN heard \cup {<<i, k>>} ELSE heard
      /\ UNCHANGED <<consumed, settled>>
  BY DEF Heard, bridgeRest
<1>2. CASE saved
  <2>1. HeardKeys' = HeardKeys \cup {k}
    BY <1>1, <1>2 DEF HeardKeys
  <2>2. Promise!Hear(k)
    BY <1>1, <2>1 DEF Promise!Hear, HeardKeys
  <2> QED
    BY <2>2 DEF Promise!Next
<1>3. CASE ~saved
  BY <1>1, <1>3 DEF Promise!vars
<1> QED
  BY <1>2, <1>3

\* Erasing the receipt of k is the abstract Settle: k was consumed.
LEMMA ReadRetiredKeepsPromise ==
  ASSUME ExchangeInv, NEW i \in Installations, NEW k \in Keys, NEW saved \in BOOLEAN,
         ReadRetired(i, k, saved)
  PROVE  [Promise!Next]_Promise!vars
<1> DEFINE erased == phase[i][k] = "retirement_pending"
           SettledKeys == {x \in Keys : \E j \in Installations : <<j, x>> \in settled}
<1>1. /\ settled' = IF erased /\ saved THEN settled \cup {<<i, k>>} ELSE settled
      /\ UNCHANGED <<consumed, heard>>
  BY DEF ReadRetired, bridgeRest
<1>2. CASE erased /\ saved
  <2>1. k \in consumed
    BY <1>2 DEF ExchangeInv, Earned, RetirementIsConsumed
  <2>2. SettledKeys' = SettledKeys \cup {k}
    BY <1>1, <1>2
  <2>3. Promise!Settle(k)
    BY <1>1, <2>1, <2>2 DEF Promise!Settle
  <2> QED
    BY <2>3 DEF Promise!Next
<1>3. CASE ~(erased /\ saved)
  BY <1>1, <1>3 DEF Promise!vars
<1> QED
  BY <1>2, <1>3

\* Every other step of a handset is a stutter.
LEMMA QuietKeepsPromise ==
  ASSUME ExchangeInv,
         \/ \E i \in Installations, s \in Sockets : Connect(i, s)
         \/ Lost
         \/ \E i \in Installations, ok \in BOOLEAN : ReadReady(i, ok)
         \/ \E i \in Installations, k \in Keys, ok \in BOOLEAN :
              \/ ReadAgentEnd(i, k, ok) \/ ReadReceived(i, k, ok)
              \/ ReadAcknowledged(i, k, ok) \/ Fence(i, k, ok)
         \/ \E i \in Installations, k \in Keys : Resend(i, k)
  PROVE  UNCHANGED <<heard, consumed, settled>>
<1>1. ASSUME NEW i, NEW s, Connect(i, s)
      PROVE  UNCHANGED <<heard, consumed, settled>>
  BY <1>1 DEF Connect, Dial
<1>2. CASE Lost
  BY <1>2 DEF Lost, Disconnect, Unread, RefuseAgentEnd, bridgeRest, handset
<1>3. ASSUME NEW i, NEW ok, ReadReady(i, ok)
      PROVE  UNCHANGED <<heard, consumed, settled>>
  BY <1>3 DEF ReadReady, bridgeRest
<1>4. ASSUME NEW i, NEW k, NEW ok,
             \/ ReadAgentEnd(i, k, ok) \/ ReadReceived(i, k, ok)
             \/ ReadAcknowledged(i, k, ok) \/ Fence(i, k, ok)
      PROVE  UNCHANGED <<heard, consumed, settled>>
  BY <1>4 DEF ReadAgentEnd, ReadReceived, ReadAcknowledged, Fence, bridgeRest
<1>5. ASSUME NEW i, NEW k, Resend(i, k)
      PROVE  UNCHANGED <<heard, consumed, settled>>
  BY <1>5 DEF Resend, bridgeRest, handset
<1> QED
  BY <1>1, <1>2, <1>3, <1>4, <1>5

\* Every step of the exchange is a step of the promise, or a stutter.
LEMMA StepKeepsPromise ==
  ASSUME ExchangeInv, [ExchangeNext]_allVars
  PROVE  [Promise!Next]_Promise!vars
<1>1. CASE BridgeStep
  BY <1>1, BridgeStepKeepsPromise
<1>2. CASE HandsetStep
  <2>1. ASSUME NEW i \in Installations, NEW k \in Keys, NEW ok \in BOOLEAN,
               Heard(i, k, ok) \/ ReadRetired(i, k, ok)
        PROVE  [Promise!Next]_Promise!vars
    BY <2>1, HeardKeepsPromise, ReadRetiredKeepsPromise
  <2>2. ASSUME UNCHANGED <<heard, consumed, settled>>
        PROVE  [Promise!Next]_Promise!vars
    BY <2>2 DEF Promise!vars
  <2> QED
    BY <1>2, <2>1, <2>2, QuietKeepsPromise, HandsetCases
<1>3. CASE UNCHANGED allVars
  BY <1>3 DEF allVars, vars, handset, Promise!vars
<1> QED
  BY <1>1, <1>2, <1>3 DEF ExchangeNext

\* The exchange implements the promise of ReplyDelivery: whatever frames are
\* lost or repeated, whichever side restarts or fails to save, a delivery is
\* consumed at telepathosd only after some handset heard the reply to its end,
\* a receipt is erased only after that, and none of it is undone.
THEOREM PromiseKept == ExchangeSpec => KeepsPromise
<1>1. ExchangeInit => Promise!Init
  BY DEF ExchangeInit, Init, Promise!Init
<1>2. ExchangeInv /\ [ExchangeNext]_allVars => [Promise!Next]_Promise!vars
  BY StepKeepsPromise
<1> QED
  BY <1>1, <1>2, ExchangeCorrect, PTL DEF ExchangeSpec, KeepsPromise, Promise!Spec

-----------------------------------------------------------------------------
(***************************************************************************)
(* One handset never plays a reply again once it recorded hearing it.      *)
(*                                                                         *)
(* A reply is played only after an agent_end, and the bridge emits one     *)
(* only for a reply it prepares or holds prepared.  The argument follows   *)
(* a receipt the handset has erased: the bridge had said reply_ack_retired *)
(* of it, no snapshot held it prepared by then, none ever does again, and  *)
(* no agent_end for it is left behind the confirmation in any queue.       *)
(*                                                                         *)
(* With several handsets a receipt may change owner and be prepared again, *)
(* so the theorem is about one.                                            *)
(***************************************************************************)

\* One handset, which the bridge knows by its installation id.
OneHandset == \A i, j \in Installations : i = j

IsPrepared(b) == b # NoBinding /\ b.st = "prepared"
Prepared(b) == {k \in Keys : IsPrepared(b[k])}

\* The receipts the process or a snapshot it may restart from holds prepared,
\* and those it holds at all.
PreparedIn(st) ==
  Prepared(st.bindings) \cup Prepared(st.disk.bindings) \cup Prepared(st.prior.bindings)
HeldIn(st) ==
  Present(st.bindings, NoBinding) \cup Present(st.disk.bindings, NoBinding)
    \cup Present(st.prior.bindings, NoBinding)

\* Receipts that have been used: their turn is over.
Known == sent \cup HeldIn(store)
              \cup UNION {Present(pending[s], NoBinding) : s \in Sockets}

\* A receipt that can never be replayed: it was sent, and is prepared nowhere.
Closed(k) == k \in sent /\ k \notin PreparedIn(store)

Replayed(s, k) == \E n \in 1..Len(down[s]) : down[s][n] = <<"agent_end", k>>

\* What is prepared of X is prepared in the process itself.
Current(st, X) == X \cap PreparedIn(st) \subseteq Prepared(st.bindings)

Turns ==
  /\ Known \cap turns = {}
  /\ running => Current(store, sent)

\* The queues to the handset replay only what was sent, on sockets the bridge
\* has; after a confirmation of retirement comes no agent_end of its receipt.
Orderly ==
  /\ \A s \in Sockets, k \in Keys :
       Replayed(s, k) => k \in sent /\ link[s] # "closed"
  /\ \A s \in Sockets, k \in Keys : \A n \in 1..Len(down[s]) :
       down[s][n] = <<"reply_ack_retired", k>> =>
         Closed(k) /\ \A m \in n..Len(down[s]) : down[s][m] # <<"agent_end", k>>

Frames == Orderly /\ Asked("reply_ack_retire") \subseteq consumed

Receipts ==
  /\ \A i \in Installations, k \in Keys : phase[i][k] # "absent" => k \in sent
  /\ \A ik \in heard :
       /\ ik[2] \in sent
       /\ \/ phase[ik[1]][ik[2]] \in {"ready", "retirement_pending"}
          \/ phase[ik[1]][ik[2]] = "absent" /\ ik \in settled
  /\ \A ik \in settled :
       Closed(ik[2]) /\ (current[ik[1]] # NoSocket => ~Replayed(current[ik[1]], ik[2]))

PlaybackInv == ExchangeInv /\ Turns /\ Frames /\ Receipts

-----------------------------------------------------------------------------
(* What a save may hold prepared *)

\* A store that replaces st holds nothing new prepared but F, nothing new at
\* all but A, and stays current for whatever is not in F.
Tame(st, new, F, A) ==
  /\ PreparedIn(new) \subseteq PreparedIn(st) \cup F
  /\ HeldIn(new) \subseteq HeldIn(st) \cup A
  /\ \A X \in SUBSET Keys :
       X \cap F = {} /\ Current(st, X) => Current(new, X)

\* A store that holds the same bindings is tame.
LEMMA SameTame ==
  ASSUME NEW st, NEW new, NEW F, NEW A, new.bindings = st.bindings,
         new.disk = st.disk, new.prior = st.prior
  PROVE  Tame(st, new, F, A)
BY DEF Tame, PreparedIn, HeldIn, Current

\* Tame steps compose.
LEMMA TameTwice ==
  ASSUME NEW st, NEW mid, NEW new, NEW F, NEW A,
         Tame(st, mid, {}, {}), Tame(mid, new, F, A)
  PROVE  Tame(st, new, F, A)
BY DEF Tame

\* Refreshing last-seen times prepares nothing and adds nothing.
LEMMA RefreshedSame ==
  ASSUME Clocks, NEW b \in Bindings, NEW seen \in [Installations -> Nat]
  PROVE  /\ Prepared(Refreshed(b, seen)) = Prepared(b)
         /\ Present(Refreshed(b, seen), NoBinding) = Present(b, NoBinding)
<1>1. \A k \in Keys :
        /\ Refreshed(b, seen)[k] = NoBinding <=> b[k] = NoBinding
        /\ b[k] # NoBinding => Refreshed(b, seen)[k].st = b[k].st
  BY RefreshedKeeps
<1> QED
  BY <1>1 DEF Prepared, IsPrepared, Present

\* A save is as tame as the bindings it is asked to store.
LEMMA SaveTame ==
  ASSUME Clocks, NEW st \in Store, NEW b \in Bindings, NEW t, NEW sameMap,
         NEW active, NEW outcome, NEW F, NEW A,
         Prepared(b) \subseteq Prepared(st.bindings) \cup F,
         Present(b, NoBinding) \subseteq Present(st.bindings, NoBinding) \cup A
  PROVE  Tame(st, Save(st, b, t, sameMap, active, outcome).store, F, A)
<1> DEFINE saved == Save(st, b, t, sameMap, active, outcome)
           normal == Refreshed(b, st.seen)
           snapshot == SnapshotOf(st, b, t)
<1>1. /\ Prepared(normal) = Prepared(b)
      /\ Present(normal, NoBinding) = Present(b, NoBinding)
  BY RefreshedSame DEF Store
<1>2. snapshot.bindings = normal
  BY DEF SnapshotOf
<1>3. CASE saved.store = st
  BY <1>3, SameTame
<1>4. CASE /\ saved.store.bindings = st.bindings
           /\ saved.store.disk = snapshot /\ saved.store.prior = st.disk
  BY <1>1, <1>2, <1>4 DEF Tame, PreparedIn, HeldIn, Current
<1>5. CASE /\ saved.store.bindings = normal
           /\ saved.store.disk = snapshot /\ saved.store.prior = snapshot
  BY <1>1, <1>2, <1>5 DEF Tame, PreparedIn, HeldIn, Current
<1> HIDE DEF saved
<1> QED
  BY <1>3, <1>4, <1>5, SaveEffect DEF saved

\* What a successful save stores is all that is left prepared.
LEMMA SavePrepares ==
  ASSUME Clocks, NEW st \in Store, NEW b \in Bindings, NEW t, NEW sameMap,
         NEW active, NEW outcome, NEW saved,
         saved = Save(st, b, t, sameMap, active, outcome), saved.ok
  PROVE  /\ PreparedIn(saved.store) = Prepared(b)
         /\ Prepared(saved.store.bindings) = Prepared(b)
<1> DEFINE normal == Refreshed(b, st.seen)
           snapshot == SnapshotOf(st, b, t)
<1>1. Prepared(normal) = Prepared(b)
  BY RefreshedSame DEF Store
<1>2. snapshot.bindings = normal
  BY DEF SnapshotOf
<1>3. /\ saved.store.bindings = normal
      /\ saved.store.disk = snapshot /\ saved.store.prior = snapshot
  BY SaveEffect
<1> HIDE DEF normal, snapshot
<1> QED
  BY <1>1, <1>2, <1>3 DEF PreparedIn

\* Sighting an owner is tame.
LEMMA NoteSeenTame ==
  ASSUME NEW st \in Store, NEW i, NEW active
  PROVE  Tame(st, NoteSeen(st, i, active), {}, {})
BY NoteSeenEffect, SameTame

\* The sweep is tame: it only removes bindings.
LEMMA SweepTame ==
  ASSUME Clocks, NEW st \in Store, NEW lk, NEW outcome
  PROVE  Tame(st, Sweep(st, lk, outcome), {}, {})
<1> DEFINE S == {k \in Reclaimable(st) : st.bindings[k].inst \notin ActiveOwners(lk)}
           r == Reclaim(st, S)
           saved == Save(st, r.bindings, r.tombstones, FALSE, ActiveOwners(lk), outcome)
<1>1. S \in SUBSET Present(st.bindings, NoBinding)
  BY DEF Reclaimable
<1>2. /\ r.bindings \in Bindings
      /\ \A k \in Keys : r.bindings[k] \in {st.bindings[k], NoBinding}
  BY <1>1, ReclaimType DEF Reclaim
<1>3. Sweep(st, lk, outcome) = IF r.changed THEN saved.store ELSE st
  BY DEF Sweep
<1> HIDE DEF r
<1>4. /\ Prepared(r.bindings) \subseteq Prepared(st.bindings) \cup {}
      /\ Present(r.bindings, NoBinding) \subseteq Present(st.bindings, NoBinding) \cup {}
  BY <1>2 DEF Prepared, IsPrepared, Present
<1>5. Tame(st, saved.store, {}, {})
  BY <1>2, <1>4, SaveTame
<1>6. Tame(st, st, {}, {})
  BY SameTame
<1> HIDE DEF saved
<1> QED
  BY <1>3, <1>5, <1>6

\* With one handset a hello takes nothing over, so it prepares nothing again.
LEMMA ReconciledPrepares ==
  ASSUME Clocks, OneHandset, NEW st \in Store, NEW i \in Installations, NEW lk
  PROVE  LET r == Reconciled(st, i, lk)
         IN  /\ Prepared(r.bindings) \subseteq Prepared(st.bindings)
             /\ Present(r.bindings, NoBinding) \subseteq Present(st.bindings, NoBinding)
<1> DEFINE r == Reclaim(st, Reclaimable(st))
           skipped == {k \in Present(st.bindings, NoBinding) :
                         r.bindings[k] = NoBinding}
           taken == Taken(st, i, lk, skipped)
           now(b) == Later(LastSeenAt(b, st.seen), clock)
           next == [k \in Keys |->
                      IF r.bindings[k] = NoBinding THEN NoBinding
                      ELSE IF k \in taken
                      THEN [inst |-> i, st |-> "prepared", at |-> clock,
                            seen |-> now(st.bindings[k])]
                      ELSE IF st.bindings[k].inst = i
                      THEN [st.bindings[k] EXCEPT !.seen = now(st.bindings[k])]
                      ELSE st.bindings[k]]
<1>1. \A k \in Keys : r.bindings[k] \in {st.bindings[k], NoBinding}
  BY DEF Reclaim
<1>2. Reconciled(st, i, lk).bindings = next
  BY DEF Reconciled
<1>3. taken = {}
  <2>1. \A k \in Present(st.bindings, NoBinding) : st.bindings[k].inst = i
    BY DEF Present, Store, Bindings, Binding, OneHandset
  <2> QED
    BY <2>1 DEF Taken
<1> HIDE DEF r, taken
<1>4. \A k \in Keys : next[k] # NoBinding =>
        /\ st.bindings[k] # NoBinding
        /\ next[k].st = st.bindings[k].st
  <2> SUFFICES ASSUME NEW k \in Keys, next[k] # NoBinding
               PROVE  st.bindings[k] # NoBinding /\ next[k].st = st.bindings[k].st
    OBVIOUS
  <2>1. r.bindings[k] # NoBinding /\ st.bindings[k] # NoBinding
    BY <1>1
  <2>2. st.bindings[k] \in Binding
    BY <2>1 DEF Store, Bindings
  <2>3. \A n : [st.bindings[k] EXCEPT !.seen = n].st = st.bindings[k].st
    BY <2>2 DEF Binding
  <2> HIDE DEF now
  <2> QED
    BY <1>3, <2>1, <2>3
<1> HIDE DEF next
<1> QED
  BY <1>2, <1>4 DEF Prepared, IsPrepared, Present

\* Handling a close is tame: it refreshes last-seen times.
LEMMA DisconnectedTame ==
  ASSUME Clocks, NEW st \in Store, NEW s \in Sockets, NEW lk, NEW outcome
  PROVE  Tame(st, Disconnected(st, s, lk, outcome), {}, {})
<1> DEFINE i == SocketOwner[s]
           noted == NoteSeen(st, i, ActiveOwners(lk))
           next == [k \in Keys |->
                      IF noted.bindings[k] # NoBinding /\ noted.bindings[k].inst = i
                      THEN [noted.bindings[k] EXCEPT
                              !.seen = LastSeenAt(noted.bindings[k], noted.seen)]
                      ELSE noted.bindings[k]]
           saved == SaveBindings(noted, next, ActiveOwners(lk), outcome)
<1>1. noted \in Store /\ Tame(st, noted, {}, {})
  BY OwnerAssumption, NoteSeenType, NoteSeenTame
<1>2. Disconnected(st, s, lk, outcome) =
        IF next # noted.bindings THEN saved.store ELSE noted
  BY DEF Disconnected
<1> HIDE DEF noted, i
<1>3. \A k \in Keys :
        /\ noted.bindings[k] # NoBinding =>
             next[k] \in Binding /\ next[k].st = noted.bindings[k].st
        /\ noted.bindings[k] = NoBinding => next[k] = NoBinding
  <2> SUFFICES ASSUME NEW k \in Keys, noted.bindings[k] # NoBinding
               PROVE  next[k] \in Binding /\ next[k].st = noted.bindings[k].st
    OBVIOUS
  <2>1. noted.bindings[k] \in Binding
    BY <1>1 DEF Store, Bindings
  <2>2. LastSeenAt(noted.bindings[k], noted.seen) \in Nat
    BY <1>1, <2>1, LastSeenType DEF Store
  <2> QED
    BY <2>1, <2>2 DEF Binding
<1>4. next \in Bindings
  BY <1>3 DEF Bindings
<1> HIDE DEF next
<1>5. /\ Prepared(next) \subseteq Prepared(noted.bindings) \cup {}
      /\ Present(next, NoBinding) \subseteq Present(noted.bindings, NoBinding) \cup {}
  BY <1>3 DEF Prepared, IsPrepared, Present
<1>6. Tame(noted, saved.store, {}, {})
  BY <1>1, <1>4, <1>5, SaveTame DEF SaveBindings
<1> HIDE DEF saved
<1> QED
  BY <1>1, <1>2, <1>6, TameTwice

-----------------------------------------------------------------------------
(* What a step may emit *)

\* What was sent stays sent, and what is closed stays closed.
Stays == sent \subseteq sent' /\ \A k \in Keys : Closed(k) => Closed(k)'

\* Only receipts that are not closed are replayed anew.
ReplaysOpen ==
  \A s \in Sockets, k \in Keys : Replayed(s, k)' => Replayed(s, k) \/ ~Closed(k)

\* Frames appended to a queue that replay only open receipts, and confirm only
\* the retirement of closed ones, keep the order of every queue.
LEMMA AppendedFrames ==
  ASSUME TypeOK, Orderly, Stays, NEW s, NEW fs \in Seq(DownFrame), Emit(s, fs),
         \A x \in Sockets : link'[x] = "closed" => link[x] = "closed",
         s \in Sockets => \A n \in 1..Len(fs), k \in Keys :
           /\ fs[n] = <<"agent_end", k>> =>
                k \in sent' /\ ~Closed(k) /\ link'[s] # "closed"
           /\ fs[n] = <<"reply_ack_retired", k>> => Closed(k)' /\ Len(fs) = 1
  PROVE  Orderly' /\ ReplaysOpen
<1>1. \A x \in Sockets : ~(s \in Sockets /\ x = s) => down'[x] = down[x]
  BY DEF Emit, TypeOK
<1>2. ASSUME s \in Sockets
      PROVE  /\ down[s] \in Seq(DownFrame) /\ down'[s] = down[s] \o fs
             /\ \A n \in 1..Len(down'[s]) :
                  \/ n \in 1..Len(down[s]) /\ down'[s][n] = down[s][n]
                  \/ n - Len(down[s]) \in 1..Len(fs)
                       /\ down'[s][n] = fs[n - Len(down[s])]
  <2>1. down[s] \in Seq(DownFrame) /\ down'[s] = down[s] \o fs
    BY <1>2 DEF Emit, TypeOK
  <2> QED
    BY <2>1, ConcatElements
<1>3. ASSUME NEW x \in Sockets, NEW k \in Keys, Replayed(x, k)'
      PROVE  /\ k \in sent' /\ link'[x] # "closed"
             /\ Replayed(x, k) \/ ~Closed(k)
  <2>1. CASE Replayed(x, k)
    BY <2>1 DEF Orderly, Stays
  <2>2. CASE ~Replayed(x, k)
    <3>1. s \in Sockets /\ x = s
      BY <1>1, <1>3, <2>2 DEF Replayed
    <3>2. PICK n \in 1..Len(down'[s]) : down'[s][n] = <<"agent_end", k>>
      BY <1>3, <3>1 DEF Replayed
    <3>3. n - Len(down[s]) \in 1..Len(fs) /\ fs[n - Len(down[s])] = <<"agent_end", k>>
      BY <1>2, <2>2, <3>1, <3>2 DEF Replayed
    <3> QED
      BY <3>1, <3>3
  <2> QED
    BY <2>1, <2>2
<1>4. ASSUME NEW x \in Sockets, NEW k \in Keys, NEW n \in 1..Len(down'[x]),
             down'[x][n] = <<"reply_ack_retired", k>>,
             NEW m \in n..Len(down'[x])
      PROVE  Closed(k)' /\ down'[x][m] # <<"agent_end", k>>
  <2>1. CASE ~(s \in Sockets /\ x = s)
    BY <1>1, <1>4, <2>1 DEF Orderly, Stays
  <2>2. CASE s \in Sockets /\ x = s
    <3> DEFINE old == Len(down[s])
    <3>1. old \in Nat /\ Len(fs) \in Nat /\ m \in 1..Len(down'[s]) /\ n <= m
      BY <1>2, <2>2
    <3>2. CASE n \in 1..old /\ down'[s][n] = down[s][n]
      <4>1. /\ Closed(k)
            /\ \A j \in n..old : down[s][j] # <<"agent_end", k>>
        BY <1>4, <2>2, <3>2 DEF Orderly
      <4>2. CASE m \in 1..old /\ down'[s][m] = down[s][m]
        BY <2>2, <3>1, <4>1, <4>2 DEF Stays
      <4>3. CASE m - old \in 1..Len(fs) /\ down'[s][m] = fs[m - old]
        BY <2>2, <4>1, <4>3 DEF Stays
      <4> QED
        BY <1>2, <2>2, <3>1, <4>2, <4>3
    <3>3. CASE n - old \in 1..Len(fs) /\ down'[s][n] = fs[n - old]
      <4>1. Closed(k)' /\ Len(fs) = 1
        BY <1>4, <2>2, <3>3
      <4>2. m = n
        <5>1. ~(m \in 1..old)
          BY <3>1, <3>3
        <5>2. m - old \in 1..Len(fs)
          BY <1>2, <2>2, <3>1, <5>1
        <5> QED
          BY <3>1, <3>3, <4>1, <5>2
      <4> QED
        BY <1>4, <2>2, <4>1, <4>2
    <3> QED
      BY <1>2, <1>4, <2>2, <3>2, <3>3
  <2> QED
    BY <2>1, <2>2
<1>5. \A x \in Sockets, k \in Keys : \A n \in 1..Len(down'[x]) :
        down'[x][n] = <<"reply_ack_retired", k>> => n \in n..Len(down'[x])
  <2>1. \A x \in Sockets : Len(down'[x]) \in Nat
    BY EmitType DEF TypeOK
  <2> QED
    BY <2>1
<1> QED
  BY <1>3, <1>4, <1>5 DEF Orderly, ReplaysOpen

\* Losing frames keeps the order of those that are left.
LEMMA LostFrames ==
  ASSUME TypeOK, Orderly, Stays,
         \A x \in Sockets :
           \/ down'[x] = down[x] /\ (link'[x] = "closed" => link[x] = "closed")
           \/ down'[x] = <<>>
           \/ /\ down[x] # <<>> /\ down'[x] = Tail(down[x])
              /\ link'[x] = link[x]
  PROVE  /\ Orderly'
         /\ \A x \in Sockets, k \in Keys : Replayed(x, k)' => Replayed(x, k)
<1> SUFFICES ASSUME NEW x \in Sockets, NEW k \in Keys
             PROVE  /\ Replayed(x, k)' =>
                         Replayed(x, k) /\ k \in sent' /\ link'[x] # "closed"
                    /\ \A n \in 1..Len(down'[x]) :
                         down'[x][n] = <<"reply_ack_retired", k>> =>
                           /\ Closed(k)'
                           /\ \A m \in n..Len(down'[x]) :
                                down'[x][m] # <<"agent_end", k>>
  BY DEF Orderly
<1>1. down[x] \in Seq(DownFrame)
  BY DEF TypeOK
<1> HIDE DEF DownFrame
<1>2. CASE down'[x] = down[x] /\ (link'[x] = "closed" => link[x] = "closed")
  BY <1>2 DEF Orderly, Stays, Replayed
<1>3. CASE down'[x] = <<>>
  <2>1. Len(down'[x]) = 0
    BY <1>3
  <2> QED
    BY <2>1 DEF Replayed
<1>4. CASE down[x] # <<>> /\ down'[x] = Tail(down[x]) /\ link'[x] = link[x]
  <2>1. /\ Len(down'[x]) = Len(down[x]) - 1 /\ Len(down[x]) \in Nat
        /\ \A n \in 1..Len(down'[x]) :
             n + 1 \in 1..Len(down[x]) /\ down'[x][n] = down[x][n + 1]
    BY <1>1, <1>4, HeadTailProperties
  <2>2. Replayed(x, k)' => Replayed(x, k)
    BY <2>1 DEF Replayed
  <2>3. ASSUME NEW n \in 1..Len(down'[x]), down'[x][n] = <<"reply_ack_retired", k>>
        PROVE  /\ Closed(k)'
               /\ \A m \in n..Len(down'[x]) : down'[x][m] # <<"agent_end", k>>
    <3>1. /\ Closed(k)
          /\ \A m \in (n + 1)..Len(down[x]) : down[x][m] # <<"agent_end", k>>
      BY <2>1, <2>3 DEF Orderly
    <3>2. \A m \in n..Len(down'[x]) :
            m \in 1..Len(down'[x]) /\ m + 1 \in (n + 1)..Len(down[x])
      BY <2>1
    <3> QED
      BY <2>1, <3>1, <3>2 DEF Stays
  <2> QED
    BY <1>4, <2>2, <2>3 DEF Orderly, Stays
<1> QED
  BY <1>2, <1>3, <1>4

\* One frame, or none, that replays an open receipt or confirms the retirement
\* of a closed one.
LEMMA OneFrame ==
  ASSUME TypeOK, Orderly, Stays, NEW s, NEW x \in Keys, NEW P \in BOOLEAN,
         NEW op \in {"agent_end", "reply_received", "reply_acknowledged",
                     "reply_ack_retired"},
         Emit(s, IF P THEN << <<op, x>> >> ELSE <<>>), UNCHANGED link,
         P /\ s \in Sockets /\ op = "agent_end" =>
           x \in sent' /\ ~Closed(x) /\ link[s] # "closed",
         P /\ op = "reply_ack_retired" => Closed(x)'
  PROVE  Orderly' /\ ReplaysOpen
<1>1. CASE P
  <2> DEFINE fs == << <<op, x>> >>
  <2>1. /\ Emit(s, fs) /\ fs \in Seq(DownFrame) /\ Len(fs) = 1
        /\ \A n \in 1..Len(fs) : fs[n] = <<op, x>>
    <3>1. <<op, x>> \in DownFrame
      BY DEF DownFrame
    <3> QED
      BY <1>1, <3>1
  <2>2. \A k, kind : <<op, x>> = <<kind, k>> => op = kind /\ x = k
    OBVIOUS
  <2> HIDE DEF fs
  <2>3. s \in Sockets => \A n \in 1..Len(fs), k \in Keys :
          /\ fs[n] = <<"agent_end", k>> =>
               k \in sent' /\ ~Closed(k) /\ link'[s] # "closed"
          /\ fs[n] = <<"reply_ack_retired", k>> => Closed(k)' /\ Len(fs) = 1
    BY <1>1, <2>1, <2>2
  <2> QED
    BY <2>1, <2>3, AppendedFrames
<1>2. CASE ~P
  <2> DEFINE fs == <<>>
  <2>1. Emit(s, fs) /\ fs \in Seq(DownFrame) /\ Len(fs) = 0
    BY <1>2
  <2> HIDE DEF fs
  <2>2. \A n \in 1..Len(fs) : FALSE
    BY <2>1
  <2>3. s \in Sockets => \A n \in 1..Len(fs), k \in Keys :
          /\ fs[n] = <<"agent_end", k>> =>
               k \in sent' /\ ~Closed(k) /\ link'[s] # "closed"
          /\ fs[n] = <<"reply_ack_retired", k>> => Closed(k)' /\ Len(fs) = 1
    BY <2>2
  <2> QED
    BY <2>1, <2>3, AppendedFrames
<1> QED
  BY <1>1, <1>2

-----------------------------------------------------------------------------
(* The steps of the bridge *)

\* What a step of the bridge leaves to the handset.
Played == Turns' /\ Orderly' /\ Stays /\ ReplaysOpen

\* A step that saves a tame store keeps the turns and reopens nothing.
LEMMA TurnsKept ==
  ASSUME TypeOK, Turns, running, NEW F, NEW A, Tame(store, store', F, A),
         turns' \subseteq turns, F \subseteq turns \ turns', A \cap turns' = {},
         sent \subseteq sent', (sent' \ sent) \cap turns' = {},
         \A s \in Sockets : Present(pending'[s], NoBinding) \cap turns' = {},
         Current(store', sent' \ sent)
  PROVE  Turns' /\ Stays
<1>1. sent \subseteq Keys /\ sent \cap F = {}
  BY DEF TypeOK, Turns, Known
<1>2. Known' \cap turns' = {}
  BY DEF Turns, Known, Tame
<1>3. Current(store', sent')
  BY <1>1 DEF Tame, Current, Turns
<1>4. Stays
  BY <1>1 DEF Stays, Closed, Tame
<1> QED
  BY <1>2, <1>3, <1>4 DEF Turns

\* A step that saves nothing new and uses no receipt.
LEMMA TurnsQuiet ==
  ASSUME TypeOK, Turns, running, Tame(store, store', {}, {}),
         UNCHANGED <<turns, sent>>,
         \A s \in Sockets :
           Present(pending'[s], NoBinding) \subseteq Present(pending[s], NoBinding)
  PROVE  Turns' /\ Stays
<1>1. \A s \in Sockets : Present(pending'[s], NoBinding) \cap turns' = {}
  BY DEF Turns, Known
<1>2. Current(store', sent' \ sent)
  BY DEF Current
<1> QED
  BY <1>1, <1>2, TurnsKept

\* A hello replays what is prepared, so what is not closed.
LEMMA HelloPlays ==
  ASSUME BridgeInv, OneHandset, Turns, Orderly, NEW s \in Sockets, NEW outcome,
         Hello(s, outcome)
  PROVE  Played
<1> DEFINE i == SocketOwner[s]
           lk == [link EXCEPT ![s] = "open"]
           active == ActiveOwners(lk)
           noted == NoteSeen(store, i, active)
           r == Reconciled(noted, i, lk)
           saved == Save(noted, r.bindings, r.tombstones, FALSE, active, outcome)
           st == IF r.changed THEN saved.store ELSE noted
           replayed == {k \in Present(st.bindings, NoBinding) :
                          st.bindings[k].st = "prepared" /\ st.bindings[k].inst = i}
<1>1. /\ Clocks /\ i \in Installations /\ store \in Store /\ TypeOK
  BY OwnerAssumption DEF BridgeInv, TypeOK, Clocks
<1>2. noted \in Store /\ Tame(store, noted, {}, {})
  BY <1>1, NoteSeenType, NoteSeenTame
<1>3. /\ link' = lk /\ store' = st
      /\ pending' = [pending EXCEPT ![s] =
            [k \in Keys |-> IF k \in replayed THEN st.bindings[k] ELSE @[k]]]
      /\ \E order \in SetToSeqs(replayed) :
            Emit(s, [n \in 1..Len(order) |-> <<"agent_end", order[n]>>]
                      \o << <<"ready">> >>)
      /\ sent' = sent \cup replayed
      /\ running /\ UNCHANGED turns
  BY DEF Hello
<1> HIDE DEF noted, i
<1>4. /\ r.bindings \in Bindings
      /\ Prepared(r.bindings) \subseteq Prepared(noted.bindings) \cup {}
      /\ Present(r.bindings, NoBinding) \subseteq Present(noted.bindings, NoBinding) \cup {}
  BY <1>1, <1>2, ReconciledType, ReconciledPrepares
<1> HIDE DEF r
<1>5. Tame(noted, saved.store, {}, {})
  BY <1>1, <1>2, <1>4, SaveTame
<1> HIDE DEF saved
<1>6. Tame(store, store', {}, {})
  BY <1>2, <1>3, <1>5, TameTwice
<1> HIDE DEF st
<1>7. /\ replayed \subseteq Prepared(store'.bindings)
      /\ replayed \subseteq PreparedIn(store)
      /\ replayed \cap turns = {}
  <2>1. replayed \subseteq Prepared(store'.bindings)
    BY <1>3 DEF Present, Prepared, IsPrepared
  <2> HIDE DEF replayed
  <2>2. replayed \subseteq PreparedIn(store)
    BY <1>6, <2>1 DEF PreparedIn, Tame
  <2>3. PreparedIn(store) \subseteq Known
    BY DEF PreparedIn, HeldIn, Prepared, IsPrepared, Present, Known
  <2> QED
    BY <2>1, <2>2, <2>3 DEF Turns
<1>8. Turns' /\ Stays
  <2>1. \A x \in Sockets : Present(pending'[x], NoBinding) \cap turns' = {}
    <3> HIDE DEF replayed
    <3>1. \A x \in Sockets, k \in Keys :
            pending'[x][k] = pending[x][k] \/ k \in replayed
      BY <1>1, <1>3 DEF TypeOK
    <3>2. \A x \in Sockets :
            Present(pending'[x], NoBinding) \subseteq Present(pending[x], NoBinding) \cup replayed
      BY <3>1 DEF Present
    <3>3. \A x \in Sockets : Present(pending[x], NoBinding) \cap turns = {}
      BY DEF Turns, Known
    <3> QED
      BY <1>3, <1>7, <3>2, <3>3
  <2> HIDE DEF replayed
  <2>2. Current(store', sent' \ sent)
    BY <1>3, <1>7 DEF Current
  <2>3. (sent' \ sent) \cap turns' = {} /\ sent \subseteq sent'
    BY <1>3, <1>7
  <2>4. turns' \subseteq turns /\ {} \subseteq turns \ turns' /\ {} \cap turns' = {}
    BY <1>3
  <2> QED
    BY <1>1, <1>3, <1>6, <2>1, <2>2, <2>3, <2>4, TurnsKept
<1>9. Orderly' /\ ReplaysOpen
  <2>1. PICK order \in SetToSeqs(replayed) :
          Emit(s, [n \in 1..Len(order) |-> <<"agent_end", order[n]>>]
                    \o << <<"ready">> >>)
    BY <1>3
  <2>2. replayed \subseteq Keys /\ Cardinality(replayed) \in Nat
    BY KeysAssumption, FS_Subset, FS_CardinalityType DEF Present
  <2>3. order \in Seq(Keys) /\ \A n \in 1..Len(order) : order[n] \in replayed
    <3>1. order \in [1..Cardinality(replayed) -> replayed]
      BY DEF SetToSeqs
    <3> HIDE DEF replayed
    <3> QED
      BY <2>2, <3>1
  <2> DEFINE ends == [n \in 1..Len(order) |-> <<"agent_end", order[n]>>]
             last == << <<"ready">> >>
  <2>4. ends \in Seq(DownFrame) /\ last \in Seq(DownFrame)
    <3>1. \A n \in 1..Len(order) : <<"agent_end", order[n]>> \in DownFrame
      BY <2>3 DEF DownFrame
    <3>2. <<"ready">> \in DownFrame
      BY DEF DownFrame
    <3> HIDE DEF DownFrame
    <3> QED
      BY <2>3, <3>1, <3>2
  <2>5. ends \o last \in Seq(DownFrame)
    BY <2>4, ConcatProperties
  <2>6. \A n \in 1..Len(ends \o last) :
          \/ (ends \o last)[n] = <<"ready">>
          \/ \E k \in replayed : (ends \o last)[n] = <<"agent_end", k>>
    <3> SUFFICES ASSUME NEW n \in 1..Len(ends \o last)
                 PROVE  \/ (ends \o last)[n] = <<"ready">>
                        \/ \E k \in replayed : (ends \o last)[n] = <<"agent_end", k>>
      OBVIOUS
    <3>1. Len(ends) = Len(order) /\ Len(last) = 1 /\ Len(order) \in Nat
      BY <2>3
    <3>2. CASE n \in 1..Len(order)
      BY <2>3, <2>4, <3>1, <3>2, ConcatProperties
    <3>3. CASE n = Len(order) + 1
      BY <2>4, <3>1, <3>3, ConcatProperties
    <3> QED
      BY <2>4, <3>1, <3>2, <3>3, ConcatProperties
  <2> HIDE DEF ends, last, replayed
  <2>7. Emit(s, ends \o last)
    BY <2>1 DEF ends, last
  <2>8. \A k \in replayed : k \in sent' /\ ~Closed(k)
    BY <1>3, <1>7 DEF Closed
  <2>9. /\ link'[s] = "open"
        /\ \A x \in Sockets : link'[x] = "closed" => link[x] = "closed"
    BY <1>1, <1>3 DEF TypeOK
  <2>10. \A n \in 1..Len(ends \o last), k \in Keys :
           /\ (ends \o last)[n] = <<"agent_end", k>> => k \in replayed
           /\ (ends \o last)[n] # <<"reply_ack_retired", k>>
    BY <2>6
  <2> QED
    BY <1>1, <1>8, <2>5, <2>7, <2>8, <2>9, <2>10, AppendedFrames
<1> QED
  BY <1>8, <1>9 DEF Played

\* A prepared reply is sent once its envelope is saved, and was never sent.
LEMMA PreparePlays ==
  ASSUME BridgeInv, Turns, Orderly, NEW s \in Sockets, NEW k \in Keys, NEW swept,
         NEW outcome, Prepare(s, k, swept, outcome)
  PROVE  Played
<1> DEFINE i == SocketOwner[s]
           st == Sweep(store, link, swept)
           b == Envelope(st, i)
           next == [st.bindings EXCEPT ![k] = b]
           available == /\ ~st.fenced
                        /\ Cardinality(Present(st.bindings, NoBinding)) < MaxBindings
           saved == SaveBindings(st, next, ActiveOwners(link), outcome)
           done == available /\ saved.ok
<1>1. Clocks /\ i \in Installations /\ store \in Store /\ TypeOK
  BY OwnerAssumption DEF BridgeInv, TypeOK, Clocks
<1>2. st \in Store /\ Tame(store, st, {}, {})
  BY <1>1, SweepType, SweepTame
<1>3. /\ running /\ link[s] = "open" /\ k \in turns /\ turns' = turns \ {k}
      /\ store' = IF available THEN saved.store ELSE st
      /\ sent' = IF done THEN sent \cup {k} ELSE sent
      /\ pending' = IF done
                    THEN [pending EXCEPT ![s][k] = saved.store.bindings[k]]
                    ELSE pending
      /\ Emit(s, IF done THEN << <<"agent_end", k>> >> ELSE <<>>)
      /\ UNCHANGED link
  BY DEF Prepare
<1> HIDE DEF i, st
<1>4. b \in Binding
  <2>1. Later(Later(st.seen[i], clock), startedAt) \in Nat
    BY <1>1, <1>2, LaterType DEF Clocks, Store
  <2> QED
    BY <1>1, <2>1 DEF Envelope, Binding, Phase, Clocks
<1> HIDE DEF b
<1>5. /\ next \in Bindings
      /\ Prepared(next) \subseteq Prepared(st.bindings) \cup {k}
      /\ Present(next, NoBinding) \subseteq Present(st.bindings, NoBinding) \cup {k}
  BY <1>2, <1>4 DEF Store, Bindings, Prepared, IsPrepared, Present
<1> HIDE DEF next
<1>6. /\ Tame(st, saved.store, {k}, {k})
      /\ saved.ok => PreparedIn(saved.store) = Prepared(saved.store.bindings)
  <2>1. Tame(st, saved.store, {k}, {k})
    BY <1>1, <1>2, <1>5, SaveTame DEF SaveBindings
  <2>2. ASSUME saved.ok
        PROVE  PreparedIn(saved.store) = Prepared(saved.store.bindings)
    <3> DEFINE sameMap == TRUE
    <3>1. saved = Save(st, next, st.tombstones, sameMap, ActiveOwners(link), outcome)
      BY DEF SaveBindings
    <3> HIDE DEF saved, sameMap
    <3> QED
      BY <1>1, <1>2, <1>5, <2>2, <3>1, SavePrepares
  <2> QED
    BY <2>1, <2>2
<1>7. saved.ok \in BOOLEAN
  BY <1>1, <1>2, <1>5, SaveType DEF SaveBindings, Store
<1> HIDE DEF saved, available
<1>8. Tame(store, store', {k}, {k})
  <2>1. Tame(st, st, {k}, {k})
    BY SameTame
  <2> QED
    BY <1>2, <1>3, <1>6, <2>1, TameTwice
<1>9. Turns' /\ Stays
  <2>1. \A x \in Sockets : Present(pending'[x], NoBinding) \cap turns' = {}
    <3>1. \A x \in Sockets, y \in Keys : pending'[x][y] = pending[x][y] \/ y = k
      BY <1>1, <1>3 DEF TypeOK, Bindings
    <3>2. \A x \in Sockets : Present(pending[x], NoBinding) \cap turns = {}
      BY DEF Turns, Known
    <3> QED
      BY <1>3, <3>1, <3>2 DEF Present
  <2>2. Current(store', sent' \ sent)
    BY <1>3, <1>6 DEF Current
  <2>3. /\ turns' \subseteq turns /\ {k} \subseteq turns \ turns'
        /\ {k} \cap turns' = {}
        /\ sent \subseteq sent' /\ (sent' \ sent) \cap turns' = {}
    BY <1>3
  <2> QED
    BY <1>1, <1>3, <1>8, <2>1, <2>2, <2>3, TurnsKept
<1>10. Orderly' /\ ReplaysOpen
  <2>1. done \in BOOLEAN
    BY <1>7 DEF available
  <2>2. done => k \in sent' /\ ~Closed(k) /\ link[s] # "closed"
    BY <1>3 DEF Closed, Turns, Known
  <2> HIDE DEF done
  <2> QED
    BY <1>1, <1>3, <1>9, <2>1, <2>2, OneFrame
<1> QED
  BY <1>9, <1>10 DEF Played

\* A binding that moves past prepared leaves less prepared.
LEMMA AdvanceTame ==
  ASSUME Clocks, NEW st \in Store, NEW k \in Keys, NEW b \in Binding,
         NEW p \in {"received", "consumed"}, NEW active, NEW outcome
  PROVE  Tame(st, SaveBindings(st, [st.bindings EXCEPT
                                      ![k] = [b EXCEPT !.st = p, !.at = clock]],
                               active, outcome).store, {}, {k})
<1> DEFINE new == [b EXCEPT !.st = p, !.at = clock]
           next == [st.bindings EXCEPT ![k] = new]
<1>1. new \in Binding /\ new.st = p
  BY DEF Binding, Phase, Clocks
<1> HIDE DEF new
<1>2. /\ next \in Bindings
      /\ Prepared(next) \subseteq Prepared(st.bindings) \cup {}
      /\ Present(next, NoBinding) \subseteq Present(st.bindings, NoBinding) \cup {k}
  BY <1>1 DEF Store, Bindings, Prepared, IsPrepared, Present
<1> HIDE DEF next
<1>3. Tame(st, SaveBindings(st, next, active, outcome).store, {}, {k})
  BY <1>2, SaveTame DEF SaveBindings
<1> QED
  BY <1>3 DEF next, new

\* reply_received advances a binding that is held, so a known one.
LEMMA ReceiveReplyAckPlays ==
  ASSUME BridgeInv, Turns, Orderly, NEW s \in Sockets, NEW k \in Keys,
         NEW outcome, ReceiveReplyAck(s, k, outcome)
  PROVE  Played
<1> DEFINE b == Owned(SourceOf(s), k)
           effect == IF clock < b.at THEN "pre" ELSE outcome
           saved == SaveBindings(store, [store.bindings EXCEPT
                                  ![k] = [b EXCEPT !.st = "received", !.at = clock]],
                                 ActiveOwners(link), effect)
           first == b # NoBinding /\ b.st = "prepared"
           confirmed == b # NoBinding /\ (first => saved.ok)
<1>1. /\ Clocks /\ store \in Store /\ TypeOK
      /\ b \in Binding \cup {NoBinding}
  BY OwnedType, SourceType DEF BridgeInv, TypeOK, Clocks
<1>2. first => k \in Known
  <2>1. first => pending[s][k] # NoBinding \/ store.bindings[k] # NoBinding
    BY AbsentAssumption DEF Owned, SourceOf
  <2> QED
    BY <2>1 DEF Known, HeldIn, Present
<1>3. /\ Takes(s, "reply_received", k)
      /\ store' = IF first THEN saved.store ELSE store
      /\ pending' = IF first /\ saved.ok
                    THEN [pending EXCEPT ![s][k] = saved.store.bindings[k]]
                    ELSE pending
      /\ Emit(s, IF confirmed THEN << <<"reply_received", k>> >> ELSE <<>>)
      /\ UNCHANGED <<link, turns, sent>>
  BY DEF ReceiveReplyAck
<1>4. running /\ k \in Keys
  BY <1>3 DEF Takes
<1> HIDE DEF b, effect
<1>5. first => Tame(store, saved.store, {}, {k})
  BY <1>1, AdvanceTame
<1>6. saved.ok \in BOOLEAN \/ b = NoBinding
  BY <1>1, AdvanceType DEF Phase
<1> HIDE DEF saved
<1>7. Turns' /\ Stays
  <2> DEFINE A == IF first THEN {k} ELSE {}
  <2>1. Tame(store, store', {}, A)
    BY <1>3, <1>5, SameTame
  <2>2. A \cap turns' = {}
    BY <1>2, <1>3 DEF Turns
  <2>3. \A x \in Sockets : Present(pending'[x], NoBinding) \cap turns' = {}
    <3>1. \A x \in Sockets, y \in Keys :
            pending'[x][y] = pending[x][y] \/ (first /\ y = k)
      BY <1>1, <1>3 DEF TypeOK, Bindings
    <3>2. \A x \in Sockets : Present(pending[x], NoBinding) \cap turns = {}
      BY DEF Turns, Known
    <3> QED
      BY <1>2, <1>3, <3>1, <3>2 DEF Present, Turns
  <2>4. Current(store', sent' \ sent)
    BY <1>3 DEF Current
  <2>5. turns' \subseteq turns /\ {} \subseteq turns \ turns' /\ sent \subseteq sent'
        /\ (sent' \ sent) \cap turns' = {}
    BY <1>3
  <2> HIDE DEF A
  <2> QED
    BY <1>1, <1>4, <2>1, <2>2, <2>3, <2>4, <2>5, TurnsKept
<1>8. Orderly' /\ ReplaysOpen
  <2>1. confirmed \in BOOLEAN
    BY <1>6
  <2> HIDE DEF confirmed
  <2> QED
    BY <1>1, <1>3, <1>7, <2>1, OneFrame
<1> QED
  BY <1>7, <1>8 DEF Played

\* reply_ack and the retry timer save nothing and replay nothing.
LEMMA AcknowledgePlays ==
  ASSUME BridgeInv, Turns, Orderly, NEW src \in Source, NEW k \in Keys,
         NEW waiting, Acknowledge(src, k, waiting), running,
         UNCHANGED <<running, store, link, pending, turns, sent>>
  PROVE  Played
<1> DEFINE b == Owned(src, k)
           t == store.tombstones[k]
           starts == Acknowledgeable(b) /\ ~InFlight(k)
           calls == starts /\ MustConsume(b)
           says == \/ b = NoBinding /\ t # NoTombstone /\ t.inst = src.inst
                   \/ starts /\ ~calls /\ src.sock # NoSocket
<1>1. TypeOK /\ Emit(src.sock, IF says THEN << <<"reply_acknowledged", k>> >> ELSE <<>>)
  BY DEF Acknowledge, BridgeInv
<1>2. says \in BOOLEAN
  BY DEF Acknowledgeable, MustConsume
<1>3. Turns' /\ Stays
  <2>1. Tame(store, store', {}, {})
    BY SameTame
  <2> QED
    BY <1>1, <2>1, TurnsQuiet
<1> HIDE DEF says
<1>4. Orderly' /\ ReplaysOpen
  BY <1>1, <1>2, <1>3, OneFrame
<1> QED
  BY <1>3, <1>4 DEF Played

\* Consumption moves on a binding the store holds.
LEMMA ConsumeAnsweredPlays ==
  ASSUME BridgeInv, Turns, Orderly, NEW t \in tasks, NEW outcome,
         ConsumeAnswered(t, outcome)
  PROVE  Played
<1> DEFINE k == t.key
           effect == IF clock < t.b.at THEN "pre" ELSE outcome
           saved == SaveBindings(store, [store.bindings EXCEPT
                                  ![k] = [t.b EXCEPT !.st = "consumed", !.at = clock]],
                                 ActiveOwners(link), effect)
           same == store.bindings[k] = t.b
           done == same /\ saved.ok
<1>1. /\ Clocks /\ store \in Store /\ TypeOK
      /\ k \in Keys /\ t.b \in Binding /\ t.b # NoBinding
  BY AbsentAssumption DEF BridgeInv, TypeOK, Clocks, Task, Binding, Phase
<1>2. /\ running /\ store' = IF same THEN saved.store ELSE store
      /\ Emit(t.src.sock, IF done THEN << <<"reply_acknowledged", k>> >> ELSE <<>>)
      /\ UNCHANGED <<link, pending, turns, sent>>
  BY DEF ConsumeAnswered
<1> HIDE DEF k, effect
<1>3. Tame(store, saved.store, {}, {k}) /\ saved.ok \in BOOLEAN
  BY <1>1, AdvanceTame, AdvanceType DEF Phase
<1> HIDE DEF saved
<1>4. same => k \in HeldIn(store)
  BY <1>1 DEF HeldIn, Present
<1>5. Tame(store, store', {}, {})
  BY <1>2, <1>3, <1>4, SameTame DEF Tame
<1>6. Turns' /\ Stays
  BY <1>1, <1>2, <1>5, TurnsQuiet
<1>7. Orderly' /\ ReplaysOpen
  <2>1. done \in BOOLEAN
    BY <1>3
  <2> HIDE DEF done
  <2> QED
    BY <1>1, <1>2, <1>6, <2>1, OneFrame
<1> QED
  BY <1>6, <1>7 DEF Played

\* A step that emits nothing and saves nothing new plays nothing.
LEMMA SilentPlays ==
  ASSUME BridgeInv, Turns, Orderly, running, Tame(store, store', {}, {}),
         UNCHANGED <<turns, sent>>,
         \A s \in Sockets :
           /\ Present(pending'[s], NoBinding) \subseteq Present(pending[s], NoBinding)
           /\ \/ down'[s] = down[s] /\ link'[s] = link[s]
              \/ down'[s] = <<>>
  PROVE  Played
<1>1. TypeOK /\ Turns' /\ Stays
  BY TurnsQuiet DEF BridgeInv
<1> QED
  BY <1>1, LostFrames DEF Played, ReplaysOpen

\* The end of a task drops a pending binding at most.
LEMMA TaskEndPlays ==
  ASSUME BridgeInv, Turns, Orderly, NEW t \in tasks,
         ConsumeFailed(t) \/ ConfirmationSent(t)
  PROVE  Played
<1>1. /\ running /\ UNCHANGED <<store, link, down, turns, sent>>
      /\ \A s \in Sockets, k \in Keys : pending'[s][k] \in {pending[s][k], NoBinding}
  <2>1. CASE ConsumeFailed(t)
    BY <2>1 DEF ConsumeFailed
  <2>2. CASE ConfirmationSent(t)
    <3>1. pending \in [Sockets -> Bindings] /\ t.src.sock \in Sockets \cup {NoSocket}
      BY DEF BridgeInv, TypeOK, Task, Source
    <3>2. \/ pending' = pending
          \/ /\ t.src.sock \in Sockets
             /\ pending' = [pending EXCEPT ![t.src.sock][t.key] = NoBinding]
      BY <2>2, <3>1 DEF ConfirmationSent
    <3>3. \A s \in Sockets, k \in Keys : pending'[s][k] \in {pending[s][k], NoBinding}
      BY <3>1, <3>2 DEF Bindings
    <3> QED
      BY <2>2, <3>3 DEF ConfirmationSent
  <2> QED
    BY <2>1, <2>2
<1>2. \A s \in Sockets :
        Present(pending'[s], NoBinding) \subseteq Present(pending[s], NoBinding)
  BY <1>1 DEF Present
<1>3. Tame(store, store', {}, {})
  BY <1>1, SameTame
<1> QED
  BY <1>1, <1>2, <1>3, SilentPlays

\* Retirement is confirmed only when no snapshot holds the receipt prepared,
\* and it was asked for only after the reply was sent.
LEMMA RetireReplyAckPlays ==
  ASSUME PlaybackInv, NEW s \in Sockets, NEW k \in Keys, NEW outcome,
         RetireReplyAck(s, k, outcome)
  PROVE  Played
<1> DEFINE b == store.bindings[k]
           t == store.tombstones[k]
           active == ActiveOwners(link)
           owned == Retirable(b, SocketOwner[s])
           buried == b = NoBinding /\ t # NoTombstone /\ t.inst = SocketOwner[s]
           nothing == b = NoBinding /\ t = NoTombstone
           next == [store.bindings EXCEPT ![k] = NoBinding]
           cleared == [store.tombstones EXCEPT ![k] = NoTombstone]
           saved == IF owned THEN SaveBindings(store, next, active, outcome)
                    ELSE Save(store, store.bindings, cleared, FALSE, active, outcome)
           removed == (owned \/ buried) /\ saved.ok
<1>1. /\ BridgeInv /\ Turns /\ Orderly
      /\ Clocks /\ store \in Store /\ store.bindings \in Bindings /\ TypeOK
  BY DEF PlaybackInv, ExchangeInv, BridgeInv, TypeOK, Clocks, Frames, Store
<1>2. /\ Takes(s, "reply_ack_retire", k)
      /\ store' = IF owned \/ buried THEN saved.store ELSE store
      /\ pending' = IF owned /\ removed
                    THEN [pending EXCEPT ![s][k] = NoBinding] ELSE pending
      /\ Emit(s, IF nothing \/ removed THEN << <<"reply_ack_retired", k>> >>
                 ELSE <<>>)
      /\ UNCHANGED <<link, turns, sent>>
  BY DEF RetireReplyAck
<1>3. k \in sent
  <2>1. k \in Asked("reply_ack_retire")
    BY <1>1, <1>2, TakesQueued
  <2>2. k \in HeardKeys
    BY <2>1 DEF PlaybackInv, Frames, ExchangeInv, Earned, Cause
  <2> QED
    BY <2>2 DEF HeardKeys, PlaybackInv, Receipts
<1>4. running
  BY <1>2 DEF Takes
<1>5. /\ next \in Bindings
      /\ Prepared(next) \subseteq Prepared(store.bindings) \cup {}
      /\ Present(next, NoBinding) \subseteq Present(store.bindings, NoBinding) \cup {}
      /\ k \notin Prepared(next)
      /\ b = NoBinding => k \notin Prepared(store.bindings)
  BY <1>1 DEF Bindings, Prepared, IsPrepared, Present
<1> HIDE DEF next, cleared, owned, b
<1>6. Tame(store, saved.store, {}, {})
  <2>1. CASE owned
    BY <1>1, <1>5, <2>1, SaveTame DEF SaveBindings
  <2>2. CASE ~owned
    <3>1. Tame(store, Save(store, store.bindings, cleared, FALSE, active,
                           outcome).store, {}, {})
      BY <1>1, SaveTame
    <3> QED
      BY <2>2, <3>1
  <2> QED
    BY <2>1, <2>2
<1>7. ASSUME owned \/ b = NoBinding, saved.ok
      PROVE  k \notin PreparedIn(saved.store)
  <2> DEFINE yes == TRUE
             no == FALSE
  <2>1. /\ owned => saved = Save(store, next, store.tombstones, yes, active, outcome)
        /\ ~owned => saved = Save(store, store.bindings, cleared, no, active, outcome)
    BY DEF SaveBindings
  <2> HIDE DEF saved, yes, no
  <2> QED
    BY <1>1, <1>5, <1>7, <2>1, SavePrepares
<1>8. saved.ok \in BOOLEAN
  <2>1. cleared \in Tombstones /\ store.tombstones \in Tombstones
    BY <1>1 DEF Store, Tombstones, cleared
  <2>2. SaveBindings(store, next, active, outcome).ok \in BOOLEAN
    BY <1>1, <1>5, <2>1, SaveType DEF SaveBindings
  <2>3. Save(store, store.bindings, cleared, FALSE, active, outcome).ok \in BOOLEAN
    BY <1>1, <2>1, SaveType
  <2> QED
    BY <2>2, <2>3
<1> HIDE DEF saved
<1>9. Tame(store, store', {}, {})
  BY <1>2, <1>6, SameTame
<1>10. Turns' /\ Stays
  <2>1. \A x \in Sockets :
          Present(pending'[x], NoBinding) \subseteq Present(pending[x], NoBinding)
    <3>1. \A x \in Sockets, y \in Keys : pending'[x][y] \in {pending[x][y], NoBinding}
      BY <1>1, <1>2 DEF TypeOK, Bindings
    <3> QED
      BY <3>1 DEF Present
  <2> QED
    BY <1>1, <1>2, <1>4, <1>9, <2>1, TurnsQuiet
<1>11. nothing \/ removed => Closed(k)'
  <2>1. k \in sent'
    BY <1>2, <1>3
  <2>2. CASE removed
    BY <1>2, <1>7, <2>1, <2>2 DEF Closed
  <2>3. CASE nothing /\ ~removed
    <3>1. ~owned
      BY <2>3, AbsentAssumption DEF owned, Retirable
    <3>2. store' = store
      BY <1>2, <2>3, <3>1
    <3>3. Current(store, sent)
      BY <1>1, <1>4 DEF Turns
    <3>4. k \notin PreparedIn(store)
      BY <1>3, <1>5, <2>3, <3>3 DEF Current
    <3> QED
      BY <2>1, <3>2, <3>4 DEF Closed
  <2> QED
    BY <2>2, <2>3
<1>12. Orderly' /\ ReplaysOpen
  <2> DEFINE says == nothing \/ removed
  <2>1. says \in BOOLEAN
    BY <1>8 DEF owned, Retirable
  <2> HIDE DEF nothing, removed
  <2>2. Emit(s, IF says THEN << <<"reply_ack_retired", k>> >> ELSE <<>>)
    BY <1>2
  <2>3. says => Closed(k)'
    BY <1>11
  <2> HIDE DEF says
  <2> QED
    BY <1>1, <1>2, <1>10, <2>1, <2>2, <2>3, OneFrame
<1> QED
  BY <1>10, <1>12 DEF Played

\* A close forgets what the socket held.
LEMMA ClosePlays ==
  ASSUME BridgeInv, Turns, Orderly, NEW s \in Sockets, NEW outcome,
         Close(s, outcome)
  PROVE  Played
<1>1. /\ running /\ UNCHANGED <<turns, sent>>
      /\ link' = [link EXCEPT ![s] = "closed"]
      /\ store' = IF link[s] = "open" THEN Disconnected(store, s, link', outcome)
                  ELSE store
      /\ pending' = [pending EXCEPT ![s] = EmptyBindings]
      /\ down' = [down EXCEPT ![s] = <<>>]
  BY DEF Close
<1>2. TypeOK /\ Clocks /\ store \in Store
  BY DEF BridgeInv, TypeOK, Clocks
<1>3. Tame(store, store', {}, {})
  <2>1. Tame(store, store, {}, {})
    BY SameTame
  <2>2. Tame(store, Disconnected(store, s, [link EXCEPT ![s] = "closed"], outcome), {}, {})
    BY <1>2, DisconnectedTame
  <2> QED
    BY <1>1, <2>1, <2>2
<1>4. \A x \in Sockets :
        Present(pending'[x], NoBinding) \subseteq Present(pending[x], NoBinding)
  BY <1>1, <1>2 DEF TypeOK, Present, EmptyBindings
<1>5. \A x \in Sockets : \/ down'[x] = down[x] /\ link'[x] = link[x]
                         \/ down'[x] = <<>>
  BY <1>1, <1>2 DEF TypeOK
<1> QED
  BY <1>1, <1>3, <1>4, <1>5, SilentPlays

\* A crash leaves the snapshots and no queue.
LEMMA CrashPlays ==
  ASSUME BridgeInv, Turns, Orderly, Crash
  PROVE  Played
<1>1. /\ ~running' /\ UNCHANGED <<turns, sent>>
      /\ \A s \in Sockets : pending'[s] = EmptyBindings /\ down'[s] = <<>>
      /\ store'.bindings = EmptyBindings
      /\ store'.disk = store.disk /\ store'.prior = store.prior
  BY DEF Crash, BridgeInv, TypeOK, Store
<1>2. Prepared(EmptyBindings) = {} /\ Present(EmptyBindings, NoBinding) = {}
  BY DEF EmptyBindings, Prepared, IsPrepared, Present
<1>3. Turns' /\ Stays
  BY <1>1, <1>2 DEF Turns, Known, HeldIn, PreparedIn, Stays, Closed
<1> QED
  BY <1>1, <1>3, LostFrames DEF Played, ReplaysOpen, BridgeInv

\* A start finds one of the snapshots.
LEMMA StartPlays ==
  ASSUME BridgeInv, Turns, Orderly, Start
  PROVE  Played
<1>1. UNCHANGED <<turns, sent, pending, link, down>>
  BY DEF Start
<1>2. PICK found \in {store.disk, store.prior} :
        /\ store'.bindings = found.bindings
        /\ store'.disk = found /\ store'.prior = found
  BY DEF Start, BridgeInv, TypeOK, Store
<1>3. /\ PreparedIn(store') = Prepared(store'.bindings)
      /\ PreparedIn(store') \subseteq PreparedIn(store)
      /\ HeldIn(store') \subseteq HeldIn(store)
  BY <1>2 DEF PreparedIn, HeldIn
<1>4. Turns' /\ Stays
  BY <1>1, <1>3 DEF Turns, Known, Current, Stays, Closed
<1> QED
  BY <1>1, <1>4, LostFrames DEF Played, ReplaysOpen, BridgeInv

\* A sweep, time and telepathosd emit nothing.
LEMMA QuietPlays ==
  ASSUME BridgeInv, Turns, Orderly,
         \/ \E o \in SaveOutcomes : PeriodicSweep(o)
         \/ Tick \/ Rollback
         \/ \E k \in Keys : TelepathosdConsumes(k)
  PROVE  Played
<1>1. UNCHANGED <<link, pending, down, turns, sent, running>>
  BY DEF PeriodicSweep, Tick, Rollback, TelepathosdConsumes
<1>2. \/ running /\ Tame(store, store', {}, {})
      \/ store' = store
  <2>1. store \in Store /\ Clocks
    BY DEF BridgeInv, TypeOK, Clocks
  <2> QED
    BY <2>1, SweepTame DEF PeriodicSweep, Tick, Rollback, TelepathosdConsumes
<1>3. CASE running /\ Tame(store, store', {}, {})
  BY <1>1, <1>3, SilentPlays
<1>4. CASE store' = store
  <2>1. Turns' /\ Stays
    BY <1>1, <1>4 DEF Turns, Known, Stays, Closed
  <2> QED
    BY <1>1, <2>1, LostFrames DEF Played, ReplaysOpen, BridgeInv
<1> QED
  BY <1>2, <1>3, <1>4

\* No step of the bridge queues a frame on its way to the bridge.
LEMMA BridgeAsks ==
  ASSUME TypeOK, BridgeNext, NEW op
  PROVE  Asked(op)' \subseteq Asked(op)
<1>1. CASE up' = up
  BY <1>1 DEF Asked
<1>2. ASSUME NEW s \in Sockets, NEW k \in Keys, NEW any, Takes(s, any, k)
      PROVE  Asked(op)' \subseteq Asked(op)
  BY <1>2, TakesQueued
<1>3. ASSUME NEW s \in Sockets, NEW o, Hello(s, o) \/ PeriodicSweep(o)
      PROVE  up' = up
  BY <1>3 DEF Hello, PeriodicSweep
<1>4. \A s, k, w, o : Prepare(s, k, w, o) => up' = up
  BY DEF Prepare
<1>5. ASSUME NEW s \in Sockets, NEW k \in Keys, NEW o,
             \/ ReceiveReplyAck(s, k, o) \/ AcknowledgeReplyAck(s, k)
             \/ RetireReplyAck(s, k, o)
      PROVE  Asked(op)' \subseteq Asked(op)
  BY <1>2, <1>5 DEF ReceiveReplyAck, AcknowledgeReplyAck, RetireReplyAck
<1>6. /\ \A k : RetryTimer(k) => up' = up
      /\ \A t, o : ConsumeAnswered(t, o) => up' = up
      /\ \A t : ConsumeFailed(t) \/ ConfirmationSent(t) => up' = up
  BY DEF RetryTimer, ConsumeAnswered, ConsumeFailed, ConfirmationSent
<1>7. ASSUME NEW s \in Sockets, NEW o, Close(s, o)
      PROVE  Asked(op)' \subseteq Asked(op)
  BY <1>7, LessQueued DEF Close, TypeOK
<1>8. Crash => Asked(op)' \subseteq Asked(op)
  BY LessQueued DEF Crash
<1>9. /\ \A o : PeriodicSweep(o) => up' = up
      /\ Start \/ Tick \/ Rollback => up' = up
      /\ \A k : TelepathosdConsumes(k) => up' = up
  BY DEF PeriodicSweep, Start, Tick, Rollback, TelepathosdConsumes
<1> QED
  BY <1>1, <1>3, <1>4, <1>5, <1>6, <1>7, <1>8, <1>9 DEF BridgeNext

\* Every step of the bridge replays open receipts only, and reopens none.
LEMMA BridgePlays ==
  ASSUME PlaybackInv, OneHandset, BridgeNext
  PROVE  Played
<1>1. BridgeInv /\ Turns /\ Orderly
  BY DEF PlaybackInv, ExchangeInv, Frames
<1>2. ASSUME NEW s \in Sockets, NEW o, Hello(s, o) PROVE Played
  BY <1>1, <1>2, HelloPlays
<1>3. ASSUME NEW s \in Sockets, NEW k \in Keys, NEW w, NEW o, Prepare(s, k, w, o)
      PROVE  Played
  BY <1>1, <1>3, PreparePlays
<1>4. ASSUME NEW s \in Sockets, NEW k \in Keys, NEW o, ReceiveReplyAck(s, k, o)
      PROVE  Played
  BY <1>1, <1>4, ReceiveReplyAckPlays
<1>5. ASSUME NEW s \in Sockets, NEW k \in Keys, AcknowledgeReplyAck(s, k)
      PROVE  Played
  <2>1. /\ Acknowledge(SourceOf(s), k, timers) /\ running
        /\ UNCHANGED <<running, store, link, pending, turns, sent>>
    BY <1>5 DEF AcknowledgeReplyAck, Takes
  <2> QED
    BY <1>1, <2>1, SourceType, AcknowledgePlays
<1>6. ASSUME NEW k \in Keys, RetryTimer(k) PROVE Played
  <2>1. /\ Acknowledge(timers[k], k, [timers EXCEPT ![k] = NoTimer]) /\ running
        /\ timers[k] \in Source
        /\ UNCHANGED <<running, store, link, pending, turns, sent>>
    BY <1>1, <1>6 DEF RetryTimer, BridgeInv, TypeOK
  <2> QED
    BY <1>1, <2>1, AcknowledgePlays
<1>7. ASSUME NEW t \in tasks, NEW o, ConsumeAnswered(t, o) PROVE Played
  BY <1>1, <1>7, ConsumeAnsweredPlays
<1>8. ASSUME NEW t \in tasks, ConsumeFailed(t) \/ ConfirmationSent(t) PROVE Played
  BY <1>1, <1>8, TaskEndPlays
<1>9. ASSUME NEW s \in Sockets, NEW k \in Keys, NEW o, RetireReplyAck(s, k, o)
      PROVE  Played
  BY <1>9, RetireReplyAckPlays
<1>10. ASSUME NEW s \in Sockets, NEW o, Close(s, o) PROVE Played
  BY <1>1, <1>10, ClosePlays
<1>11. CASE Crash \/ Start
  BY <1>1, <1>11, CrashPlays, StartPlays
<1>12. CASE \/ \E o \in SaveOutcomes : PeriodicSweep(o)
            \/ Tick \/ Rollback
            \/ \E k \in Keys : TelepathosdConsumes(k)
  BY <1>1, <1>12, QuietPlays
<1> QED
  BY <1>2, <1>3, <1>4, <1>5, <1>6, <1>7, <1>8, <1>9, <1>10, <1>11, <1>12
     DEF BridgeNext

\* So a step of the bridge keeps the invariant.
LEMMA BridgeStepPlays ==
  ASSUME PlaybackInv, OneHandset, BridgeStep
  PROVE  PlaybackInv'
<1>1. ExchangeInv' /\ Played
  BY BridgeStepEarns, BridgePlays DEF BridgeStep, PlaybackInv
<1>2. Asked("reply_ack_retire")' \subseteq consumed'
  <2>1. Asked("reply_ack_retire")' \subseteq Asked("reply_ack_retire")
    BY BridgeAsks DEF BridgeStep, PlaybackInv, ExchangeInv, BridgeInv
  <2>2. consumed \subseteq consumed'
    BY BridgeConsumes DEF BridgeStep
  <2> QED
    BY <2>1, <2>2 DEF PlaybackInv, Frames
<1>3. Receipts'
  <2>1. UNCHANGED <<phase, current, heard, settled>>
    BY DEF BridgeStep, handset
  <2>2. sent \subseteq sent'
    BY <1>1 DEF Played, Stays
  <2>3. ASSUME NEW ik \in settled
        PROVE  /\ Closed(ik[2])'
               /\ current[ik[1]] # NoSocket => ~Replayed(current[ik[1]], ik[2])'
    <3>1. ik[1] \in Installations /\ ik[2] \in Keys /\ current[ik[1]] \in Sockets \cup {NoSocket}
      BY DEF PlaybackInv, ExchangeInv, ExchangeTypeOK
    <3>2. /\ Closed(ik[2])
          /\ current[ik[1]] # NoSocket => ~Replayed(current[ik[1]], ik[2])
      BY DEF PlaybackInv, Receipts
    <3>3. Closed(ik[2])'
      BY <1>1, <3>1, <3>2 DEF Played, Stays
    <3>4. \A s \in Sockets : ~Replayed(s, ik[2]) => ~Replayed(s, ik[2])'
      BY <1>1, <3>1, <3>2 DEF Played, ReplaysOpen
    <3> QED
      BY <2>1, <3>1, <3>2, <3>3, <3>4 DEF Replayed
  <2> QED
    BY <2>1, <2>2, <2>3 DEF PlaybackInv, Receipts, Replayed
<1> QED
  BY <1>1, <1>2, <1>3 DEF PlaybackInv, Played, Frames

-----------------------------------------------------------------------------
(* The steps of the handset *)

\* A handset step keeps the invariant when it asks to retire only what was
\* consumed, holds only receipts that were sent, and stays in retirement or
\* erases; what it erases must be closed and not replayed any more.
LEMMA HandsetPlays ==
  ASSUME PlaybackInv, ExchangeInv', NEW frames \in SUBSET UpFrame, Queues(frames),
         UNCHANGED bridgeRest, TakesDown,
         \A k \in Keys : <<"reply_ack_retire", k>> \in frames => k \in consumed,
         \A i \in Installations : current'[i] \in {current[i], NoSocket},
         \A i \in Installations, k \in Keys : phase'[i][k] # "absent" => k \in sent,
         \A i \in Installations, k \in Keys : <<i, k>> \in heard' =>
           \/ phase'[i][k] \in {"ready", "retirement_pending"}
           \/ phase'[i][k] = "absent" /\ <<i, k>> \in settled',
         \A ik \in heard' : ik[2] \in sent,
         \A i \in Installations, k \in Keys : <<i, k>> \in settled' =>
           \/ <<i, k>> \in settled
           \/ Closed(k) /\ \A s \in Sockets : s = current[i] => ~Replayed(s, k)'
  PROVE  PlaybackInv'
<1>1. UNCHANGED <<store, link, pending, running, turns, sent, consumed>>
  BY DEF bridgeRest
<1>2. TypeOK /\ Orderly /\ Turns /\ Receipts
  BY DEF PlaybackInv, ExchangeInv, BridgeInv, Frames
<1>3. Turns' /\ Stays
  BY <1>1, <1>2 DEF Turns, Known, Stays, Closed
<1>4. \A x \in Sockets :
        \/ down'[x] = down[x] /\ (link'[x] = "closed" => link[x] = "closed")
        \/ down'[x] = <<>>
        \/ down[x] # <<>> /\ down'[x] = Tail(down[x]) /\ link'[x] = link[x]
  BY <1>1, <1>2 DEF TakesDown, TypeOK
<1>5. /\ Orderly'
      /\ \A x \in Sockets, k \in Keys : Replayed(x, k)' => Replayed(x, k)
  BY <1>2, <1>3, <1>4, LostFrames
<1>6. Asked("reply_ack_retire")' \subseteq consumed'
  BY <1>1, <1>2, QueuesAsk DEF PlaybackInv, Frames
<1>7. ASSUME NEW i \in Installations, NEW k \in Keys, <<i, k>> \in settled'
      PROVE  /\ Closed(k)'
             /\ \A s \in Sockets : s = current'[i] => ~Replayed(s, k)'
  <2>1. current[i] \in Sockets \cup {NoSocket} /\ current'[i] \in {current[i], NoSocket}
    BY DEF PlaybackInv, ExchangeInv, ExchangeTypeOK
  <2>2. NoSocket \notin Sockets
    BY AbsentAssumption
  <2>3. CASE <<i, k>> \in settled
    <3>1. Closed(k) /\ (current[i] # NoSocket => ~Replayed(current[i], k))
      BY <1>2, <2>3 DEF Receipts
    <3> QED
      BY <1>3, <1>5, <2>1, <2>2, <3>1 DEF Stays
  <2>4. CASE Closed(k) /\ \A s \in Sockets : s = current[i] => ~Replayed(s, k)'
    BY <1>3, <2>1, <2>2, <2>4 DEF Stays
  <2> QED
    BY <1>7, <2>3, <2>4
<1>8. Receipts'
  <2>1. \A ik \in heard' : ik = <<ik[1], ik[2]>> /\ ik[1] \in Installations /\ ik[2] \in Keys
    BY DEF ExchangeInv, ExchangeTypeOK
  <2>2. \A ik \in settled' : ik \in heard'
    BY DEF ExchangeInv, ExchangeTypeOK
  <2>3. \A i \in Installations : current'[i] \in Sockets \cup {NoSocket}
    BY DEF ExchangeInv, ExchangeTypeOK
  <2>4. ASSUME NEW ik \in settled'
        PROVE  /\ Closed(ik[2])'
               /\ current'[ik[1]] # NoSocket => ~Replayed(current[ik[1]], ik[2])'
    <3>1. PICK i \in Installations, k \in Keys : ik = <<i, k>>
      BY <2>1, <2>2, <2>4
    <3>2. Closed(k)' /\ (current'[i] # NoSocket => ~Replayed(current[i], k)')
      BY <1>7, <2>3, <2>4, <3>1 DEF Replayed
    <3> QED
      BY <3>1, <3>2
  <2>5. \A i \in Installations, k \in Keys : phase'[i][k] # "absent" => k \in sent'
    BY <1>1
  <2>6. \A ik \in heard' :
          /\ ik[2] \in sent'
          /\ \/ phase'[ik[1]][ik[2]] \in {"ready", "retirement_pending"}
             \/ phase'[ik[1]][ik[2]] = "absent" /\ ik \in settled'
    BY <1>1, <2>1
  <2> QED
    BY <2>4, <2>5, <2>6 DEF Receipts
<1> QED
  BY <1>3, <1>5, <1>6, <1>8 DEF PlaybackInv, Frames

\* Most steps erase nothing: every receipt that was heard keeps its phase, or
\* moves on to retirement.
LEMMA NothingErased ==
  ASSUME PlaybackInv, ExchangeInv', NEW frames \in SUBSET UpFrame, Queues(frames),
         UNCHANGED bridgeRest, TakesDown,
         \A k \in Keys : <<"reply_ack_retire", k>> \in frames => k \in consumed,
         \A i \in Installations : current'[i] \in {current[i], NoSocket},
         \A i \in Installations, k \in Keys :
           \/ phase'[i][k] = phase[i][k]
           \/ k \in sent /\ <<i, k>> \notin heard
           \/ k \in sent /\ phase'[i][k] \in {"ready", "retirement_pending"},
         heard' = heard, settled' = settled
  PROVE  PlaybackInv'
<1>1. Receipts
  BY DEF PlaybackInv
<1>2. \A ik \in heard : ik = <<ik[1], ik[2]>> /\ ik[1] \in Installations /\ ik[2] \in Keys
  BY DEF PlaybackInv, ExchangeInv, ExchangeTypeOK
<1>3. \A i \in Installations, k \in Keys : phase'[i][k] # "absent" => k \in sent
  BY <1>1 DEF Receipts
<1>4. \A i \in Installations, k \in Keys : <<i, k>> \in heard' =>
        \/ phase'[i][k] \in {"ready", "retirement_pending"}
        \/ phase'[i][k] = "absent" /\ <<i, k>> \in settled'
  <2> SUFFICES ASSUME NEW i \in Installations, NEW k \in Keys, <<i, k>> \in heard
               PROVE  \/ phase'[i][k] \in {"ready", "retirement_pending"}
                      \/ phase'[i][k] = "absent" /\ <<i, k>> \in settled
    OBVIOUS
  <2>1. \/ phase[i][k] \in {"ready", "retirement_pending"}
        \/ phase[i][k] = "absent" /\ <<i, k>> \in settled
    <3> DEFINE ik == <<i, k>>
    <3>1. ik \in heard /\ ik[1] = i /\ ik[2] = k
      OBVIOUS
    <3> HIDE DEF ik
    <3>2. \/ phase[ik[1]][ik[2]] \in {"ready", "retirement_pending"}
          \/ phase[ik[1]][ik[2]] = "absent" /\ ik \in settled
      BY <1>1, <3>1 DEF Receipts
    <3> QED
      BY <3>1, <3>2 DEF ik
  <2> QED
    BY <2>1
<1>5. \A ik \in heard' : ik[2] \in sent
  BY <1>1 DEF Receipts
<1> QED
  BY <1>3, <1>4, <1>5, HandsetPlays

\* What was heard and is not erased is past playback, so neither re-arming nor
\* suppression touches it.
LEMMA HeardKept ==
  ASSUME NEW p
  PROVE  p \in {"ready", "retirement_pending", "absent"} => Rearm(p) = p /\ Suppress(p) = p
BY DEF Rearm, Suppress

\* The phase of a receipt that was heard, and whether the handset knows it.
LEMMA HeardPhase ==
  ASSUME PlaybackInv, NEW i \in Installations, NEW k \in Keys
  PROVE  /\ phase[i][k] # "absent" => k \in sent
         /\ <<i, k>> \in heard =>
              \/ phase[i][k] \in {"ready", "retirement_pending"}
              \/ phase[i][k] = "absent" /\ <<i, k>> \in settled
         /\ <<i, k>> \in settled =>
              Closed(k) /\ (current[i] # NoSocket => ~Replayed(current[i], k))
<1> DEFINE ik == <<i, k>>
<1>1. ik[1] = i /\ ik[2] = k
  OBVIOUS
<1> HIDE DEF ik
<1>2. /\ ik \in heard =>
           \/ phase[ik[1]][ik[2]] \in {"ready", "retirement_pending"}
           \/ phase[ik[1]][ik[2]] = "absent" /\ ik \in settled
      /\ ik \in settled =>
           /\ Closed(ik[2])
           /\ current[ik[1]] # NoSocket => ~Replayed(current[ik[1]], ik[2])
  BY DEF PlaybackInv, Receipts
<1>3. phase[i][k] # "absent" => k \in sent
  BY DEF PlaybackInv, Receipts
<1> QED
  BY <1>1, <1>2, <1>3 DEF ik

\* A new connection starts with empty queues: nothing is replayed on it yet.
LEMMA ConnectPlays ==
  ASSUME PlaybackInv, NEW i \in Installations, NEW s \in Sockets, Connect(i, s)
  PROVE  PlaybackInv'
<1>1. ExchangeInv'
  BY ConnectEarns DEF PlaybackInv
<1>2. /\ UNCHANGED <<store, pending, running, turns, sent, consumed, up, down>>
      /\ link[s] = "closed" /\ link' = [link EXCEPT ![s] = "opening"]
      /\ current' = [current EXCEPT ![i] = s]
      /\ UNCHANGED <<phase, heard, settled>>
  BY DEF Connect, Dial
<1>3. Turns' /\ Stays /\ Asked("reply_ack_retire")' \subseteq consumed'
  BY <1>2 DEF PlaybackInv, Turns, Known, Stays, Closed, Frames, Asked
<1>4. TypeOK /\ ExchangeTypeOK /\ Orderly /\ Receipts
  BY DEF PlaybackInv, ExchangeInv, BridgeInv, Frames
<1>5. Orderly'
  BY <1>2, <1>3, <1>4 DEF Orderly, Replayed, Stays, TypeOK
<1>6. ASSUME NEW ik \in settled
      PROVE  /\ Closed(ik[2])'
             /\ current'[ik[1]] # NoSocket => ~Replayed(current[ik[1]], ik[2])'
  <2>1. ik[1] \in Installations /\ ik[2] \in Keys
    BY <1>4 DEF ExchangeTypeOK
  <2>2. Closed(ik[2]) /\ (current[ik[1]] # NoSocket => ~Replayed(current[ik[1]], ik[2]))
    BY <1>4 DEF Receipts
  <2>3. ~Replayed(s, ik[2])
    BY <1>2, <1>4, <2>1 DEF Orderly
  <2> QED
    BY <1>2, <1>3, <1>4, <2>1, <2>2, <2>3 DEF Stays, Replayed, ExchangeTypeOK
<1>7. Receipts'
  BY <1>2, <1>4, <1>6 DEF Receipts
<1> QED
  BY <1>1, <1>3, <1>5, <1>7 DEF PlaybackInv, Frames

\* A lost socket plays nothing.
LEMMA DisconnectPlays ==
  ASSUME PlaybackInv,
         Lost
  PROVE  PlaybackInv'
<1>1. ExchangeInv'
  BY DisconnectEarns DEF PlaybackInv
<1>2. /\ UNCHANGED <<bridgeRest, up, phase, heard, settled>> /\ TakesDown
      /\ \A i \in Installations : current'[i] \in {current[i], NoSocket}
  BY ReadsTakes DEF Lost, Disconnect, Unread, RefuseAgentEnd, TakesDown, handset, PlaybackInv,
     ExchangeInv, ExchangeTypeOK
<1> QED
  BY <1>1, <1>2, NothingQueued, NothingErased

\* ready re-arms no reply that was heard, and asks again for what was consumed.
LEMMA ReadReadyPlays ==
  ASSUME PlaybackInv, NEW i \in Installations, NEW saved \in BOOLEAN,
         ReadReady(i, saved)
  PROVE  PlaybackInv'
<1> DEFINE frames == UNION {Command(phase[i][k], k) : k \in Keys}
<1>1. ExchangeInv' /\ ExchangeInv /\ TypeOK /\ ExchangeTypeOK
  BY ReadReadyEarns DEF PlaybackInv, ExchangeInv, BridgeInv
<1>2. frames \in SUBSET UpFrame
  BY CommandFrames
<1>3. \A k \in Keys : <<"reply_ack_retire", k>> \in frames => k \in consumed
  <2> SUFFICES ASSUME NEW k \in Keys, NEW x \in Keys,
                      <<"reply_ack_retire", k>> \in Command(phase[i][x], x)
               PROVE  k \in consumed
    OBVIOUS
  <2>1. k = x /\ phase[i][x] = "retirement_pending"
    BY CommandFrames
  <2> QED
    BY <1>1, <2>1 DEF ExchangeInv, Earned, RetirementIsConsumed
<1> HIDE DEF frames
<1>4. Queues(frames)
  <2>1. \/ up' = up
        \/ up' = [up EXCEPT ![current[i]] = @ \o SetToSeq(frames \ Queued(current[i]))]
    BY DEF ReadReady, frames
  <2> QED
    BY <1>1, <1>2, <2>1, QueueFrames DEF Queues
<1>5. TakesDown /\ UNCHANGED <<bridgeRest, current, heard, settled>>
  BY <1>1, ReadsTakes DEF ReadReady
<1>6. \A j \in Installations, k \in Keys :
        \/ phase'[j][k] = phase[j][k]
        \/ k \in sent /\ <<j, k>> \notin heard
  <2> SUFFICES ASSUME NEW j \in Installations, NEW k \in Keys,
                      phase'[j][k] # phase[j][k]
               PROVE  k \in sent /\ <<j, k>> \notin heard
    OBVIOUS
  <2>1. phase'[j][k] = Rearm(phase[j][k])
    BY <1>1 DEF ReadReady, ExchangeTypeOK
  <2>2. phase[j][k] \notin {"ready", "retirement_pending", "absent"}
    BY <2>1, HeardKept
  <2> QED
    BY <2>2, HeardPhase
<1> QED
  BY <1>1, <1>2, <1>3, <1>4, <1>5, <1>6, NothingErased

\* agent_end arms only a receipt the handset has not erased.
LEMMA ReadAgentEndPlays ==
  ASSUME PlaybackInv, NEW i \in Installations, NEW k \in Keys,
         NEW saved \in BOOLEAN, ReadAgentEnd(i, k, saved)
  PROVE  PlaybackInv'
<1> DEFINE p == phase[i][k]
           s == current[i]
<1>1. ExchangeInv' /\ ExchangeInv /\ TypeOK /\ ExchangeTypeOK /\ p \in HandsetPhase
  BY BeforeHeardEarns DEF PlaybackInv, ExchangeInv, BridgeInv, ExchangeTypeOK
<1>2. /\ TakesDown /\ s \in Sockets /\ down[s] # <<>>
      /\ down[s] \in Seq(DownFrame) /\ Head(down[s]) = <<"agent_end", k>>
      /\ UNCHANGED <<bridgeRest, current, heard, settled>>
  BY <1>1, ReadsTakes DEF ReadAgentEnd
<1>3. k \in sent /\ <<i, k>> \notin settled
  <2>1. 1 \in 1..Len(down[s]) /\ down[s][1] = <<"agent_end", k>>
    BY <1>2 DEF DownFrame
  <2>2. Replayed(s, k) /\ s # NoSocket
    BY <1>2, <2>1, AbsentAssumption DEF Replayed
  <2> QED
    BY <1>2, <2>2, HeardPhase DEF PlaybackInv, Frames, Orderly
<1>4. PICK next \in HandsetPhase :
        /\ Commit(i, k, next, saved)
        /\ Push(i, Command(IF saved THEN next ELSE p, k))
        /\ p # "absent" => next \in {p, Suppress(p)}
        /\ p = "absent" => next \in {"receipt_pending", "receipt_pending_suppressed"}
  BY <1>1, RearmKeeps DEF ReadAgentEnd, HandsetPhase
<1> DEFINE after == IF saved THEN next ELSE p
<1>5. \A j \in Installations, x \in Keys :
        phase'[j][x] = IF saved /\ j = i /\ x = k THEN next ELSE phase[j][x]
  BY <1>1, <1>4, CommitType
<1>6. <<i, k>> \in heard => next = p
  BY <1>3, <1>4, HeardPhase, HeardKept
<1>7. Command(after, k) \in SUBSET UpFrame /\ Queues(Command(after, k))
  BY <1>1, <1>4, CommandFrames, PushQueues
<1>8. \A x \in Keys : <<"reply_ack_retire", x>> \in Command(after, k) => x \in consumed
  <2> SUFFICES ASSUME NEW x \in Keys, <<"reply_ack_retire", x>> \in Command(after, k)
               PROVE  x \in consumed
    OBVIOUS
  <2>1. x = k /\ after = "retirement_pending"
    BY CommandFrames
  <2>2. p = "retirement_pending"
    BY <1>1, <1>4, <2>1, RearmKeeps
  <2> QED
    BY <1>1, <2>1, <2>2 DEF ExchangeInv, Earned, RetirementIsConsumed
<1> HIDE DEF p
<1>9. \A j \in Installations, x \in Keys :
        \/ phase'[j][x] = phase[j][x]
        \/ x \in sent /\ <<j, x>> \notin heard
  BY <1>3, <1>5, <1>6 DEF p
<1>10. \A j \in Installations : current'[j] \in {current[j], NoSocket}
  BY <1>2
<1> QED
  BY <1>1, <1>2, <1>7, <1>8, <1>9, <1>10, NothingErased

\* reply_received and a fence leave a receipt that was heard alone.
LEMMA BeforeHeardPlays ==
  ASSUME PlaybackInv, NEW i \in Installations, NEW k \in Keys,
         NEW saved \in BOOLEAN,
         ReadReceived(i, k, saved) \/ Fence(i, k, saved)
  PROVE  PlaybackInv'
<1> DEFINE p == phase[i][k]
<1>1. ExchangeInv' /\ TypeOK /\ ExchangeTypeOK /\ p \in HandsetPhase
  BY BeforeHeardEarns DEF PlaybackInv, ExchangeInv, BridgeInv, ExchangeTypeOK
<1>2. TakesDown /\ UNCHANGED <<bridgeRest, up, current, heard, settled>>
  BY <1>1, ReadsTakes DEF ReadReceived, Fence, TakesDown
<1>3. PICK next \in HandsetPhase :
        /\ Commit(i, k, next, saved)
        /\ p \in {"ready", "retirement_pending", "absent"} => next = p
  <2>1. CASE ReadReceived(i, k, saved)
    BY <1>1, <2>1 DEF ReadReceived, HandsetPhase
  <2>2. CASE Fence(i, k, saved)
    BY <1>1, <2>2, RearmKeeps, HeardKept DEF Fence
  <2> QED
    BY <2>1, <2>2
<1>4. \A j \in Installations, x \in Keys :
        phase'[j][x] = IF saved /\ j = i /\ x = k THEN next ELSE phase[j][x]
  BY <1>1, <1>3, CommitType
<1>5. next # p => k \in sent /\ <<i, k>> \notin heard
  BY <1>3, HeardPhase
<1> HIDE DEF p
<1>6. \A j \in Installations, x \in Keys :
        \/ phase'[j][x] = phase[j][x]
        \/ x \in sent /\ <<j, x>> \notin heard
  BY <1>4, <1>5 DEF p
<1>7. \A j \in Installations : current'[j] \in {current[j], NoSocket}
  BY <1>2
<1> QED
  BY <1>1, <1>2, <1>6, <1>7, NothingQueued, NothingErased

\* Hearing a reply that was sent makes it ready.
LEMMA HeardPlays ==
  ASSUME PlaybackInv, NEW i \in Installations, NEW k \in Keys,
         NEW saved \in BOOLEAN, Heard(i, k, saved)
  PROVE  PlaybackInv'
<1> DEFINE frames == IF saved THEN {<<"reply_ack", k>>} ELSE {}
<1>1. ExchangeInv' /\ TypeOK /\ ExchangeTypeOK /\ "ready" \in HandsetPhase
  BY HeardEarns DEF PlaybackInv, ExchangeInv, BridgeInv, HandsetPhase
<1>2. /\ phase[i][k] = "awaiting_playback" /\ Commit(i, k, "ready", saved)
      /\ heard' = IF saved THEN heard \cup {<<i, k>>} ELSE heard
      /\ Push(i, frames)
      /\ UNCHANGED <<bridgeRest, down, current, settled>>
  BY DEF Heard
<1>3. frames \in SUBSET UpFrame /\ \A x \in Keys : <<"reply_ack_retire", x>> \notin frames
  BY DEF UpFrame
<1> HIDE DEF frames
<1>4. Queues(frames) /\ TakesDown
  BY <1>1, <1>2, <1>3, PushQueues DEF TakesDown
<1>5. \A j \in Installations, x \in Keys :
        phase'[j][x] = IF saved /\ j = i /\ x = k THEN "ready" ELSE phase[j][x]
  BY <1>1, <1>2, CommitType
<1>6. k \in sent
  BY <1>2, HeardPhase
<1>7. \A j \in Installations, x \in Keys : phase'[j][x] # "absent" => x \in sent
  BY <1>5, <1>6, HeardPhase
<1>8. \A j \in Installations, x \in Keys : <<j, x>> \in heard' =>
        \/ phase'[j][x] \in {"ready", "retirement_pending"}
        \/ phase'[j][x] = "absent" /\ <<j, x>> \in settled'
  BY <1>2, <1>5, HeardPhase
<1>9. \A ik \in heard' : ik[2] \in sent
  <2>1. \A ik \in heard : ik[2] \in sent
    BY DEF PlaybackInv, Receipts
  <2> QED
    BY <1>2, <1>6, <2>1
<1>10. \A j \in Installations : current'[j] \in {current[j], NoSocket}
  BY <1>2
<1>11. \A x \in Keys : <<"reply_ack_retire", x>> \in frames => x \in consumed
  BY <1>3
<1>12. PlaybackInv /\ UNCHANGED bridgeRest /\ settled' = settled
  BY <1>2
<1> QED
  BY <1>1, <1>3, <1>4, <1>7, <1>8, <1>9, <1>10, <1>11, <1>12, HandsetPlays

\* reply_acknowledged moves a receipt on, to retirement.
LEMMA ReadAcknowledgedPlays ==
  ASSUME PlaybackInv, NEW i \in Installations, NEW k \in Keys,
         NEW saved \in BOOLEAN, ReadAcknowledged(i, k, saved)
  PROVE  PlaybackInv'
<1> DEFINE p == phase[i][k]
           retires == p = "retirement_pending" \/ p = "ready"
           next == IF retires THEN "retirement_pending" ELSE p
           frames == IF retires /\ saved THEN {<<"reply_ack_retire", k>>} ELSE {}
<1>1. /\ ExchangeInv' /\ ExchangeInv /\ TypeOK /\ ExchangeTypeOK
      /\ next \in HandsetPhase
  BY ReadAcknowledgedEarns DEF PlaybackInv, ExchangeInv, BridgeInv, ExchangeTypeOK,
     HandsetPhase
<1>2. /\ Reads(i, <<"reply_acknowledged", k>>)
      /\ Commit(i, k, next, saved) /\ Push(i, frames)
      /\ UNCHANGED <<bridgeRest, current, heard, settled>>
  BY DEF ReadAcknowledged
<1>3. k \in consumed
  BY <1>1, <1>2, ReadIsConsumed
<1>4. /\ frames \in SUBSET UpFrame
      /\ \A x \in Keys : <<"reply_ack_retire", x>> \in frames => x \in consumed
  BY <1>3 DEF UpFrame
<1> HIDE DEF frames
<1>5. Queues(frames) /\ TakesDown
  BY <1>1, <1>2, <1>4, PushQueues, ReadsTakes
<1>6. \A j \in Installations, x \in Keys :
        phase'[j][x] = IF saved /\ j = i /\ x = k THEN next ELSE phase[j][x]
  BY <1>1, <1>2, CommitType
<1>7. retires => k \in sent
  BY HeardPhase
<1>8. \A j \in Installations, x \in Keys :
        \/ phase'[j][x] = phase[j][x]
        \/ x \in sent /\ phase'[j][x] \in {"ready", "retirement_pending"}
  BY <1>6, <1>7
<1>9. \A j \in Installations : current'[j] \in {current[j], NoSocket}
  BY <1>2
<1> QED
  BY <1>1, <1>2, <1>4, <1>5, <1>8, <1>9, NothingErased

\* A receipt is erased for good: it is closed, and the queue the confirmation
\* was read from replays it no more.
LEMMA ReadRetiredPlays ==
  ASSUME PlaybackInv, NEW i \in Installations, NEW k \in Keys,
         NEW saved \in BOOLEAN, ReadRetired(i, k, saved)
  PROVE  PlaybackInv'
<1> DEFINE erased == phase[i][k] = "retirement_pending"
           next == IF erased THEN "absent" ELSE phase[i][k]
           s == current[i]
<1>1. /\ ExchangeInv' /\ ExchangeInv /\ TypeOK /\ ExchangeTypeOK
      /\ next \in HandsetPhase
  BY ReadRetiredEarns DEF PlaybackInv, ExchangeInv, BridgeInv, ExchangeTypeOK,
     HandsetPhase
<1>2. /\ Reads(i, <<"reply_ack_retired", k>>) /\ Commit(i, k, next, saved)
      /\ settled' = IF erased /\ saved THEN settled \cup {<<i, k>>} ELSE settled
      /\ UNCHANGED <<bridgeRest, up, current, heard>>
  BY DEF ReadRetired
<1>3. /\ TakesDown /\ s \in Sockets /\ down[s] # <<>> /\ down[s] \in Seq(DownFrame)
      /\ Head(down[s]) = <<"reply_ack_retired", k>>
      /\ down' = [down EXCEPT ![s] = Tail(@)]
  BY <1>1, <1>2, ReadsTakes
<1>4. Closed(k) /\ ~Replayed(s, k)'
  <2>1. 1 \in 1..Len(down[s]) /\ down[s][1] = <<"reply_ack_retired", k>>
    BY <1>3 DEF DownFrame
  <2>2. Closed(k) /\ \A m \in 1..Len(down[s]) : down[s][m] # <<"agent_end", k>>
    BY <1>3, <2>1 DEF PlaybackInv, Frames, Orderly
  <2>3. down'[s] = Tail(down[s])
    BY <1>1, <1>3 DEF TypeOK
  <2>4. \A n \in 1..Len(down'[s]) :
          n + 1 \in 1..Len(down[s]) /\ down'[s][n] = down[s][n + 1]
    <3> HIDE DEF DownFrame, s
    <3> QED
      BY <1>3, <2>3, TailElements
  <2>5. \A n \in 1..Len(down'[s]) : down'[s][n] # <<"agent_end", k>>
    BY <2>2, <2>4
  <2>6. s' = s
    BY <1>2
  <2> QED
    BY <2>2, <2>5, <2>6 DEF Replayed
<1>5. \A j \in Installations, x \in Keys :
        phase'[j][x] = IF saved /\ j = i /\ x = k THEN next ELSE phase[j][x]
  BY <1>1, <1>2, CommitType
<1>6. \A j \in Installations, x \in Keys : phase'[j][x] # "absent" => x \in sent
  BY <1>5, HeardPhase
<1>7. \A j \in Installations, x \in Keys : <<j, x>> \in heard' =>
        \/ phase'[j][x] \in {"ready", "retirement_pending"}
        \/ phase'[j][x] = "absent" /\ <<j, x>> \in settled'
  BY <1>2, <1>5, HeardPhase
<1>8. \A ik \in heard' : ik[2] \in sent
  BY <1>2 DEF PlaybackInv, Receipts
<1>9. \A j \in Installations, x \in Keys : <<j, x>> \in settled' =>
        \/ <<j, x>> \in settled
        \/ Closed(x) /\ \A y \in Sockets : y = current[j] => ~Replayed(y, x)'
  <2> SUFFICES ASSUME NEW j \in Installations, NEW x \in Keys,
                      <<j, x>> \in settled', <<j, x>> \notin settled
               PROVE  /\ Closed(x)
                      /\ \A y \in Sockets : y = current[j] => ~Replayed(y, x)'
    OBVIOUS
  <2>1. j = i /\ x = k
    BY <1>2
  <2>2. current' = current
    BY <1>2
  <2> QED
    BY <1>4, <2>1, <2>2 DEF Replayed
<1>10. \A j \in Installations : current'[j] \in {current[j], NoSocket}
  BY <1>2
<1>11. PlaybackInv /\ UNCHANGED bridgeRest /\ Queues({}) /\ {} \in SUBSET UpFrame
  BY <1>2, NothingQueued
<1> QED
  BY <1>1, <1>3, <1>6, <1>7, <1>8, <1>9, <1>10, <1>11, HandsetPlays

\* The retry timer of the handset asks to retire only what was consumed.
LEMMA ResendPlays ==
  ASSUME PlaybackInv, NEW i \in Installations, NEW k \in Keys, Resend(i, k)
  PROVE  PlaybackInv'
<1> DEFINE frames == Command(phase[i][k], k)
<1>1. ExchangeInv' /\ ExchangeInv /\ TypeOK
  BY ResendEarns DEF PlaybackInv, ExchangeInv, BridgeInv
<1>2. /\ frames \in SUBSET UpFrame
      /\ \A x \in Keys : <<"reply_ack_retire", x>> \in frames => x \in consumed
  BY <1>1, CommandFrames DEF ExchangeInv, Earned, RetirementIsConsumed
<1>3. Push(i, frames) /\ UNCHANGED <<bridgeRest, down, handset>>
  BY DEF Resend
<1> HIDE DEF frames
<1>4. Queues(frames) /\ TakesDown
  BY <1>1, <1>2, <1>3, PushQueues DEF TakesDown
<1>5. UNCHANGED <<phase, current, heard, settled>>
  BY <1>3 DEF handset
<1> QED
  BY <1>1, <1>2, <1>3, <1>4, <1>5, NothingErased

-----------------------------------------------------------------------------
(* The theorem *)

\* The exchange starts with nothing sent and nothing held.
LEMMA PlaybackInit == ExchangeInit => PlaybackInv
<1> SUFFICES ASSUME ExchangeInit PROVE PlaybackInv
  OBVIOUS
<1>1. /\ \A s \in Sockets : Len(down[s]) = 0 /\ Len(up[s]) = 0
      /\ \A s \in Sockets : pending[s] = EmptyBindings
      /\ store.bindings = EmptyBindings /\ store.disk.bindings = EmptyBindings
      /\ store.prior.bindings = EmptyBindings /\ sent = {}
  BY DEF ExchangeInit, Init, EmptySnapshot
<1>2. Prepared(EmptyBindings) = {} /\ Present(EmptyBindings, NoBinding) = {}
  BY DEF EmptyBindings, Prepared, IsPrepared, Present
<1>3. Turns
  BY <1>1, <1>2 DEF Turns, Known, HeldIn, PreparedIn, Current
<1>4. Frames
  BY <1>1 DEF Frames, Orderly, Replayed, Asked
<1>5. Receipts
  BY DEF ExchangeInit, Receipts
<1> QED
  BY <1>3, <1>4, <1>5, ExchangeInitEarns DEF PlaybackInv

\* Every step keeps the invariant when there is one handset.
LEMMA PlaybackStep ==
  ASSUME OneHandset, PlaybackInv, [ExchangeNext]_allVars
  PROVE  PlaybackInv'
<1>1. CASE BridgeStep
  BY <1>1, BridgeStepPlays
<1>2. CASE HandsetStep
  <2>1. ASSUME NEW i \in Installations, NEW s \in Sockets, Connect(i, s)
        PROVE  PlaybackInv'
    BY <2>1, ConnectPlays
  <2>2. ASSUME NEW i \in Installations, NEW ok \in BOOLEAN, ReadReady(i, ok)
        PROVE  PlaybackInv'
    BY <2>2, ReadReadyPlays
  <2>3. ASSUME NEW i \in Installations, NEW k \in Keys, NEW ok \in BOOLEAN,
               \/ ReadAgentEnd(i, k, ok) \/ ReadReceived(i, k, ok)
               \/ Heard(i, k, ok) \/ ReadAcknowledged(i, k, ok)
               \/ ReadRetired(i, k, ok) \/ Fence(i, k, ok)
        PROVE  PlaybackInv'
    BY <2>3, ReadAgentEndPlays, BeforeHeardPlays, HeardPlays,
       ReadAcknowledgedPlays, ReadRetiredPlays
  <2>4. ASSUME NEW i \in Installations, NEW k \in Keys, Resend(i, k)
        PROVE  PlaybackInv'
    BY <2>4, ResendPlays
  <2> QED
    BY <1>2, <2>1, <2>2, <2>3, <2>4, DisconnectPlays, HandsetCases
<1>3. CASE UNCHANGED allVars
  <2>1. /\ UNCHANGED <<store, pending, down, up, link, running, turns, sent, consumed>>
        /\ UNCHANGED <<phase, current, heard, settled>>
    BY <1>3 DEF allVars, vars, handset
  <2>2. ExchangeInv'
    BY <1>3, ExchangeStepEarns DEF PlaybackInv
  <2>3. Turns' /\ Orderly' /\ Asked("reply_ack_retire")' = Asked("reply_ack_retire")
    BY <2>1 DEF PlaybackInv, Turns, Known, Frames, Orderly, Closed, Replayed, Asked
  <2>4. Receipts'
    BY <2>1 DEF PlaybackInv, Receipts, Closed, Replayed
  <2> QED
    BY <2>1, <2>2, <2>3, <2>4 DEF PlaybackInv, Frames
<1> QED
  BY <1>1, <1>2, <1>3 DEF ExchangeNext

\* A handset never plays a reply again once it recorded hearing it, and keeps
\* no receipt of a reply it heard in a phase that could: whatever is replayed,
\* retried, lost or restarted, with one handset.
THEOREM NeverPlayedTwice ==
  ASSUME OneHandset
  PROVE  ExchangeSpec => []HandsetIsTruthful
<1>1. ExchangeInit => PlaybackInv
  BY PlaybackInit
<1>2. PlaybackInv /\ [ExchangeNext]_allVars => PlaybackInv'
  BY PlaybackStep
<1>3. PlaybackInv => HandsetIsTruthful
  BY DEF PlaybackInv, Receipts, ExchangeInv, Earned, HandsetIsTruthful, HeardOnce
<1> QED
  BY <1>1, <1>2, <1>3, PTL DEF ExchangeSpec

-----------------------------------------------------------------------------
(***************************************************************************)
(* A handset's proof outlives the bridge's record of it.                   *)
(*                                                                         *)
(* The two durable stores move in turns.  The bridge records a receipt as  *)
(* received or consumed only for a frame its handset sent in a phase that  *)
(* says as much, and the handset leaves those phases only for a frame of   *)
(* the bridge.  Between the two lie queues, timers, tasks and restarts     *)
(* that bring back an older snapshot, so what is proved is what each of    *)
(* them implies.  The turning point is a receipt that is over: no snapshot *)
(* holds it prepared or received, and none ever will again.                *)
(***************************************************************************)

\* A binding of which the bridge has nothing left to hear but retirement.
Done(b) == b = NoBinding \/ b.st = "consumed"

\* Whatever snapshot is found, receipt k is done.
Finished(st, k) == Done(st.disk.bindings[k]) /\ Done(st.prior.bindings[k])

\* Whatever snapshot is found, receipt k is not bound to installation i.
Released(st, i, k) ==
  /\ st.disk.bindings[k] # NoBinding => st.disk.bindings[k].inst # i
  /\ st.prior.bindings[k] # NoBinding => st.prior.bindings[k].inst # i

Entombed(st, k) ==
  \/ st.tombstones[k] # NoTombstone
  \/ st.disk.tombstones[k] # NoTombstone
  \/ st.prior.tombstones[k] # NoTombstone

\* Receipt k is over, and so are installation i and receipt k.
Over(k) == k \notin turns /\ Finished(store, k)
Parted(i, k) == Over(k) /\ Released(store, i, k)

\* Installation i holds receipt k, unless it is about to erase it.
Holds(i, k) == phase[i][k] \notin {"absent", "retirement_pending"}

\* Installation i has heard the reply of receipt k, and still says so.
Confirms(i, k) == phase[i][k] \in {"ready", "retirement_pending"}

\* The handset that binding b of receipt k names is as far as b says.
Matches(b, k) ==
  b # NoBinding => /\ b.st = "received" => Holds(b.inst, k)
                   /\ b.st = "consumed" => Confirms(b.inst, k)

\* What the snapshots of st say of receipt k is true, and a consumption or a
\* burial in the older one is in the newer one as well.
Recorded(st, k) ==
  /\ Matches(st.disk.bindings[k], k) /\ Matches(st.prior.bindings[k], k)
  /\ Spent(st.prior.bindings[k]) => k \notin turns /\ Finished(st, k)
  /\ st.prior.bindings[k] = NoBinding =>
       st.disk.bindings[k] = NoBinding \/ Unproved(st.disk.bindings[k])
  /\ Entombed(st, k) => k \notin turns /\ Finished(st, k)

\* The process holds what the older snapshot says.
Live(st) == st.prior.bindings = st.bindings

\* What is over stays over, from st to st2.
Settles(st, st2, k) ==
  k \notin turns /\ Finished(st, k) =>
    /\ Finished(st2, k)
    /\ \A i : Released(st, i, k) => Released(st2, i, k)

\* How a save may change binding b of receipt k to c: it is done and goes, it
\* is prepared (again), it stays in its phase, or the handset proved the next.
Advances(k, b, c) ==
  \/ c = NoBinding /\ Done(b)
  \/ Unproved(c) /\ ~Spent(b) /\ (b = NoBinding => k \in turns)
  \/ b # NoBinding /\ c # NoBinding /\ c.inst = b.inst /\ c.st = b.st
  \/ Unproved(b) /\ c # NoBinding /\ c.st = "received" /\ Holds(c.inst, k)
  \/ /\ b # NoBinding /\ b.st = "received" /\ k \notin turns
     /\ Spent(c) /\ c.inst = b.inst /\ Confirms(c.inst, k)

\* A store with the same snapshots and maps is as good.
LEMMA SameRecorded ==
  ASSUME NEW st, NEW st2, NEW k, Recorded(st, k),
         st2.bindings = st.bindings, st2.tombstones = st.tombstones,
         st2.disk = st.disk, st2.prior = st.prior
  PROVE  Recorded(st2, k) /\ Settles(st, st2, k) /\ (Live(st) => Live(st2))
BY DEF Recorded, Settles, Finished, Released, Entombed, Live

\* What settles twice, settles.
LEMMA SettlesTwice ==
  ASSUME NEW st, NEW mid, NEW st2, NEW k, Settles(st, mid, k), Settles(mid, st2, k)
  PROVE  Settles(st, st2, k)
BY DEF Settles

\* Refreshing last-seen times does not change how a binding advances.
LEMMA RefreshedAdvances ==
  ASSUME Clocks, NEW b \in Bindings, NEW seen \in [Installations -> Nat],
         NEW k \in Keys, NEW old, Advances(k, old, b[k])
  PROVE  Advances(k, old, Refreshed(b, seen)[k])
<1>1. /\ Refreshed(b, seen)[k] = NoBinding <=> b[k] = NoBinding
      /\ b[k] # NoBinding => /\ Refreshed(b, seen)[k].st = b[k].st
                             /\ Refreshed(b, seen)[k].inst = b[k].inst
  BY RefreshedKeeps
<1> QED
  BY <1>1 DEF Advances, Unproved, Spent

\* One save of bindings that advance keeps the snapshots true.
LEMMA SaveRecorded ==
  ASSUME Clocks, NEW st \in Store, NEW b \in Bindings, NEW t \in Tombstones,
         NEW sameMap, NEW active, NEW outcome, NEW k \in Keys,
         Mirrors(st), Live(st), Recorded(st, k),
         Advances(k, st.bindings[k], b[k]),
         t[k] = NoTombstone \/ st.tombstones[k] # NoTombstone \/ Spent(st.bindings[k]),
         NEW saved, saved = Save(st, b, t, sameMap, active, outcome)
  PROVE  /\ Recorded(saved.store, k) /\ Settles(st, saved.store, k)
         /\ Live(saved.store)
<1> DEFINE normal == Refreshed(b, st.seen)
           snapshot == SnapshotOf(st, b, t)
           old == st.bindings[k]
           new == normal[k]
<1>1. Advances(k, old, new)
  BY RefreshedAdvances DEF Store
<1>2. snapshot.bindings = normal /\ snapshot.tombstones = t
  BY DEF SnapshotOf
<1>3. EmptyTombstones[k] = NoTombstone
  BY DEF EmptyTombstones
<1> HIDE DEF normal, snapshot
<1>4. \/ saved.store = st
      \/ /\ ~st.fenced /\ saved.store.bindings = st.bindings
         /\ saved.store.tombstones = st.tombstones
         /\ saved.store.disk = snapshot /\ saved.store.prior = st.disk
      \/ /\ ~st.fenced /\ saved.store.bindings = normal
         /\ saved.store.tombstones \in {EmptyTombstones, t}
         /\ saved.store.disk = snapshot /\ saved.store.prior = snapshot
  BY SaveEffect DEF normal, snapshot
<1>5. st.prior.bindings[k] = old
  BY DEF Live
<1>6. ~st.fenced => st.disk.bindings = st.bindings /\ st.prior = st.disk
  BY DEF Mirrors
<1>7. /\ Done(old) /\ k \notin turns => Done(new)
      /\ Spent(old) => k \notin turns /\ Done(new)
      /\ old = NoBinding => new = NoBinding \/ Unproved(new)
      /\ Spent(new) => k \notin turns
      /\ Matches(old, k) /\ Matches(new, k)
      /\ Done(old) /\ k \notin turns /\ new # NoBinding =>
           old # NoBinding /\ new.inst = old.inst
  BY <1>1, <1>5 DEF Advances, Recorded, Done, Spent, Unproved, Matches
<1>8. \/ t[k] = NoTombstone
      \/ Done(old) /\ k \notin turns
  BY <1>5 DEF Recorded, Entombed, Finished, Spent, Done
<1> HIDE DEF old, new
<1>9. CASE saved.store = st
  BY <1>9 DEF Settles
<1>10. CASE /\ ~st.fenced /\ saved.store.bindings = st.bindings
            /\ saved.store.tombstones = st.tombstones
            /\ saved.store.disk = snapshot /\ saved.store.prior = st.disk
  <2>1. /\ saved.store.disk.bindings[k] = new /\ saved.store.prior.bindings[k] = old
        /\ st.disk.bindings[k] = old /\ st.prior.bindings[k] = old
        /\ saved.store.disk.tombstones = t
        /\ saved.store.prior.tombstones = st.prior.tombstones
    BY <1>2, <1>6, <1>10 DEF old, new
  <2>2. Entombed(saved.store, k) => Done(old) /\ k \notin turns
    BY <1>8, <1>10, <2>1 DEF Entombed, Recorded, Finished
  <2>3. Recorded(saved.store, k)
    BY <1>7, <2>1, <2>2 DEF Recorded, Finished, Spent, Done
  <2>4. Settles(st, saved.store, k)
    BY <1>7, <2>1 DEF Settles, Finished, Released
  <2>5. Live(saved.store)
    BY <1>6, <1>10 DEF Live
  <2> QED
    BY <2>3, <2>4, <2>5
<1>11. CASE /\ ~st.fenced /\ saved.store.bindings = normal
            /\ saved.store.tombstones \in {EmptyTombstones, t}
            /\ saved.store.disk = snapshot /\ saved.store.prior = snapshot
  <2>1. /\ saved.store.disk.bindings[k] = new /\ saved.store.prior.bindings[k] = new
        /\ st.disk.bindings[k] = old /\ st.prior.bindings[k] = old
        /\ saved.store.disk.tombstones = t /\ saved.store.prior.tombstones = t
    BY <1>2, <1>6, <1>11 DEF old, new
  <2>2. Entombed(saved.store, k) => Done(old) /\ k \notin turns
    BY <1>3, <1>8, <1>11, <2>1 DEF Entombed
  <2>3. Recorded(saved.store, k)
    BY <1>7, <2>1, <2>2 DEF Recorded, Finished, Spent, Done
  <2>4. Settles(st, saved.store, k)
    BY <1>7, <2>1 DEF Settles, Finished, Released
  <2>5. Live(saved.store)
    BY <1>2, <1>11 DEF Live
  <2> QED
    BY <2>3, <2>4, <2>5
<1> QED
  BY <1>4, <1>9, <1>10, <1>11

\* A binding that keeps its owner and its phase, or is done and goes.
LEMMA SameAdvances ==
  ASSUME NEW k, NEW b, NEW c,
         b = NoBinding => c = NoBinding,
         b # NoBinding => c # NoBinding /\ c.inst = b.inst /\ c.st = b.st
  PROVE  Advances(k, b, c)
BY DEF Advances, Done

\* What reclaims is done, and only that is buried anew.
LEMMA ReclaimAdvances ==
  ASSUME NEW st \in Store, NEW S \in SUBSET Reclaimable(st), NEW k \in Keys
  PROVE  /\ \/ Reclaim(st, S).bindings[k] = st.bindings[k]
            \/ Reclaim(st, S).bindings[k] = NoBinding /\ Spent(st.bindings[k])
         /\ Advances(k, st.bindings[k], Reclaim(st, S).bindings[k])
         /\ \/ Reclaim(st, S).tombstones[k] = NoTombstone
            \/ st.tombstones[k] # NoTombstone
            \/ Spent(st.bindings[k])
<1>1. \/ Reclaim(st, S).bindings[k] = st.bindings[k]
      \/ Reclaim(st, S).bindings[k] = NoBinding /\ Spent(st.bindings[k])
  BY ReclaimPreserves DEF ConsumedExpired, Spent
<1>2. \/ Reclaim(st, S).tombstones[k] = NoTombstone
      \/ st.tombstones[k] # NoTombstone
      \/ k \in S
  BY DEF Reclaim
<1>3. k \in S => Spent(st.bindings[k])
  BY DEF Reclaimable, Present, ConsumedExpired, Spent
<1>4. Advances(k, st.bindings[k], Reclaim(st, S).bindings[k])
  <2>1. CASE Reclaim(st, S).bindings[k] = st.bindings[k]
    BY <2>1, SameAdvances
  <2>2. CASE Reclaim(st, S).bindings[k] = NoBinding /\ Spent(st.bindings[k])
    <3>1. PICK b, c : b = st.bindings[k] /\ c = Reclaim(st, S).bindings[k]
      OBVIOUS
    <3>2. Done(b) /\ c = NoBinding
      BY <2>2, <3>1 DEF Done, Spent
    <3>3. Advances(k, b, c)
      BY <3>2 DEF Advances
    <3> QED
      BY <3>1, <3>3
  <2> QED
    BY <1>1, <2>1, <2>2
<1>5. \/ Reclaim(st, S).tombstones[k] = NoTombstone
      \/ st.tombstones[k] # NoTombstone
      \/ Spent(st.bindings[k])
  BY <1>2, <1>3
<1> QED
  BY <1>1, <1>4, <1>5

\* The sweep keeps the snapshots true.
LEMMA SweepRecorded ==
  ASSUME Clocks, NEW st \in Store, NEW lk, NEW outcome, NEW k \in Keys,
         Mirrors(st), Live(st), Recorded(st, k),
         NEW swept, swept = Sweep(st, lk, outcome)
  PROVE  Recorded(swept, k) /\ Settles(st, swept, k) /\ Live(swept)
<1> DEFINE S == {x \in Reclaimable(st) : st.bindings[x].inst \notin ActiveOwners(lk)}
           r == Reclaim(st, S)
<1>1. r.bindings \in Bindings /\ r.tombstones \in Tombstones
  BY ReclaimType DEF Reclaimable
<1>2. /\ Advances(k, st.bindings[k], r.bindings[k])
      /\ \/ r.tombstones[k] = NoTombstone
         \/ st.tombstones[k] # NoTombstone
         \/ Spent(st.bindings[k])
  BY ReclaimAdvances
<1>3. PICK same \in BOOLEAN : same = FALSE
  OBVIOUS
<1>4. PICK saved : saved = Save(st, r.bindings, r.tombstones, same, ActiveOwners(lk), outcome)
  OBVIOUS
<1>5. swept = IF r.changed THEN saved.store ELSE st
  BY <1>3, <1>4 DEF Sweep
<1> HIDE DEF S, r
<1>6. Recorded(saved.store, k) /\ Settles(st, saved.store, k) /\ Live(saved.store)
  BY <1>1, <1>2, <1>4, SaveRecorded
<1>7. Settles(st, st, k)
  BY DEF Settles
<1> QED
  BY <1>5, <1>6, <1>7

\* So does a save of the bindings alone.
LEMMA SaveBindingsRecorded ==
  ASSUME Clocks, NEW st \in Store, NEW b \in Bindings, NEW active, NEW outcome,
         NEW k \in Keys, Mirrors(st), Live(st), Recorded(st, k),
         Advances(k, st.bindings[k], b[k]),
         NEW saved, saved = SaveBindings(st, b, active, outcome)
  PROVE  /\ Recorded(saved.store, k) /\ Settles(st, saved.store, k)
         /\ Live(saved.store)
<1>1. \E same : saved = Save(st, b, st.tombstones, same, active, outcome)
  BY DEF SaveBindings
<1>2. PICK same : saved = Save(st, b, st.tombstones, same, active, outcome)
  BY <1>1
<1>3. st.tombstones \in Tombstones
  BY DEF Store
<1> QED
  BY <1>2, <1>3, SaveRecorded

\* The bridge noting a closed socket moves no receipt.
LEMMA DisconnectedRecorded ==
  ASSUME Clocks, NEW st \in Store, NEW s \in Sockets, NEW lk, NEW outcome,
         NEW k \in Keys, Mirrors(st), Live(st), Recorded(st, k),
         NEW gone, gone = Disconnected(st, s, lk, outcome)
  PROVE  Recorded(gone, k) /\ Settles(st, gone, k) /\ Live(gone)
<1> DEFINE i == SocketOwner[s]
           noted == NoteSeen(st, i, ActiveOwners(lk))
           next == [x \in Keys |->
                      IF noted.bindings[x] # NoBinding /\ noted.bindings[x].inst = i
                      THEN [noted.bindings[x] EXCEPT
                              !.seen = LastSeenAt(noted.bindings[x], noted.seen)]
                      ELSE noted.bindings[x]]
           saved == SaveBindings(noted, next, ActiveOwners(lk), outcome)
<1>1. noted \in Store /\ i \in Installations
  BY OwnerAssumption, NoteSeenType
<1>2. /\ Mirrors(noted) /\ Recorded(noted, k) /\ Settles(st, noted, k) /\ Live(noted)
  BY NoteSeenEffect, SameRecorded DEF Mirrors
<1>3. gone = IF next # noted.bindings THEN saved.store ELSE noted
  BY DEF Disconnected
<1> HIDE DEF noted, i
<1>4. \A x \in Keys :
        /\ noted.bindings[x] # NoBinding =>
             /\ next[x] \in Binding /\ next[x] # NoBinding
             /\ next[x].st = noted.bindings[x].st
             /\ next[x].inst = noted.bindings[x].inst
        /\ noted.bindings[x] = NoBinding => next[x] = NoBinding
  <2> SUFFICES ASSUME NEW x \in Keys, noted.bindings[x] # NoBinding
               PROVE  /\ next[x] \in Binding /\ next[x] # NoBinding
                      /\ next[x].st = noted.bindings[x].st
                      /\ next[x].inst = noted.bindings[x].inst
    OBVIOUS
  <2>1. noted.bindings[x] \in Binding
    BY <1>1 DEF Store, Bindings
  <2>2. LastSeenAt(noted.bindings[x], noted.seen) \in Nat
    BY <1>1, <2>1, LastSeenType DEF Store
  <2>3. /\ [noted.bindings[x] EXCEPT !.seen = LastSeenAt(noted.bindings[x], noted.seen)]
             \in Binding
        /\ [noted.bindings[x] EXCEPT !.seen = LastSeenAt(noted.bindings[x], noted.seen)].st
             = noted.bindings[x].st
        /\ [noted.bindings[x] EXCEPT !.seen = LastSeenAt(noted.bindings[x], noted.seen)].inst
             = noted.bindings[x].inst
    BY <2>1, <2>2 DEF Binding
  <2>4. /\ next[x] \in Binding /\ next[x].st = noted.bindings[x].st
        /\ next[x].inst = noted.bindings[x].inst
    BY <2>1, <2>3
  <2> QED
    BY <2>4, AbsentAssumption DEF Binding, Phase
<1>5. next \in Bindings
  BY <1>4 DEF Bindings
<1>6. Advances(k, noted.bindings[k], next[k])
  BY <1>4, SameAdvances
<1> HIDE DEF next
<1>7. Recorded(saved.store, k) /\ Settles(noted, saved.store, k) /\ Live(saved.store)
  BY <1>1, <1>2, <1>5, <1>6, SaveBindingsRecorded
<1> HIDE DEF saved
<1>8. Settles(st, saved.store, k)
  BY <1>2, <1>7, SettlesTwice
<1> QED
  BY <1>2, <1>3, <1>7, <1>8

\* Receipt k is truly recorded, and what a step owes it.
Told(k) == Recorded(store, k) /\ (running => Live(store))

Tells(k) ==
  Recorded(store', k) /\ Settles(store, store', k) /\ (running' => Live(store'))

\* A hello reclaims what is done, and what it takes over starts again.
LEMMA HelloTells ==
  ASSUME PhaseInv, NEW s \in Sockets, NEW outcome, Hello(s, outcome),
         NEW x \in Keys, Told(x)
  PROVE  Tells(x)
<1> PICK same : same = FALSE
  OBVIOUS
<1> DEFINE i == SocketOwner[s]
           lk == [link EXCEPT ![s] = "open"]
           active == ActiveOwners(lk)
           noted == NoteSeen(store, i, active)
           r == Reclaim(noted, Reclaimable(noted))
           skipped == {y \in Present(noted.bindings, NoBinding) :
                         r.bindings[y] = NoBinding}
           taken == Taken(noted, i, lk, skipped)
           now(b) == Later(LastSeenAt(b, noted.seen), clock)
           next == [y \in Keys |->
                      IF r.bindings[y] = NoBinding THEN NoBinding
                      ELSE IF y \in taken
                      THEN [inst |-> i, st |-> "prepared", at |-> clock,
                            seen |-> now(noted.bindings[y])]
                      ELSE IF noted.bindings[y].inst = i
                      THEN [noted.bindings[y] EXCEPT !.seen = now(noted.bindings[y])]
                      ELSE noted.bindings[y]]
           want == Reconciled(noted, i, lk)
           saved == Save(noted, want.bindings, want.tombstones, same, active, outcome)
           b == store.bindings[x]
<1>1. /\ running
      /\ store' = IF want.changed THEN saved.store ELSE noted
  BY DEF Hello
<1>2. /\ TypeOK /\ Clocks /\ store \in Store /\ Mirrors(store) /\ i \in Installations
      /\ Live(store)
  BY <1>1, PhasesRunning, OwnerAssumption DEF Told
<1>3. /\ noted \in Store /\ Mirrors(noted) /\ noted.bindings = store.bindings
      /\ noted.tombstones = store.tombstones
      /\ noted.disk = store.disk /\ noted.prior = store.prior
  BY <1>2, NoteSeenType, NoteSeenEffect DEF Mirrors
<1>4. want.bindings = next /\ want.tombstones = r.tombstones
  BY DEF Reconciled
<1>5. want.bindings \in Bindings /\ want.tombstones \in Tombstones
  BY <1>2, <1>3, ReconciledType
<1>6. /\ \/ r.bindings[x] = b
         \/ r.bindings[x] = NoBinding /\ Spent(b)
      /\ \/ r.tombstones[x] = NoTombstone
         \/ noted.tombstones[x] # NoTombstone
         \/ Spent(b)
  BY <1>3, ReclaimAdvances
<1>7. x \in taken => ~Spent(b)
  BY <1>3 DEF Taken, Spent
<1>8. Recorded(noted, x) /\ Settles(store, noted, x) /\ Live(noted)
  BY <1>2, <1>3, SameRecorded DEF Told
<1> HIDE DEF noted, r, taken, want, active, i
<1>9. Advances(x, b, next[x])
  <2>1. CASE r.bindings[x] = NoBinding
    <3>1. next[x] = NoBinding /\ Done(b)
      BY <1>6, <2>1 DEF Done, Spent
    <3> HIDE DEF next, b
    <3> QED
      BY <3>1 DEF Advances
  <2>2. CASE r.bindings[x] # NoBinding
    <3>1. r.bindings[x] = b /\ b # NoBinding
      BY <1>6, <2>2
    <3>2. /\ b \in Binding /\ now(b) \in Nat
      <4>1. b \in Binding
        BY <1>2, <3>1 DEF Store, Bindings
      <4> QED
        BY <1>2, <1>3, <4>1, LastSeenType, LaterType DEF Store, Clocks
    <3> HIDE DEF now
    <3>3. CASE x \in taken
      <4>1. next[x] = [inst |-> i, st |-> "prepared", at |-> clock, seen |-> now(b)]
        BY <1>3, <2>2, <3>3
      <4>2. next[x] # NoBinding /\ next[x].st = "prepared"
        BY <1>2, <3>2, <4>1, AbsentAssumption DEF Clocks
      <4> HIDE DEF next, b
      <4> QED
        BY <1>7, <3>1, <3>3, <4>2 DEF Unproved, Advances
    <3>4. CASE x \notin taken
      <4>1. next[x] \in {b, [b EXCEPT !.seen = now(b)]}
        BY <1>3, <2>2, <3>4
      <4>2. /\ [b EXCEPT !.seen = now(b)] \in Binding
            /\ [b EXCEPT !.seen = now(b)].st = b.st
            /\ [b EXCEPT !.seen = now(b)].inst = b.inst
        BY <3>2 DEF Binding
      <4>3. next[x] # NoBinding /\ next[x].st = b.st /\ next[x].inst = b.inst
        BY <3>1, <3>2, <4>1, <4>2, AbsentAssumption DEF Binding, Phase
      <4> HIDE DEF next, b
      <4> QED
        BY <3>1, <4>3, SameAdvances
    <3> QED
      BY <3>3, <3>4
  <2> QED
    BY <2>1, <2>2
<1> HIDE DEF next
<1>10. /\ Recorded(saved.store, x) /\ Settles(noted, saved.store, x)
       /\ Live(saved.store)
  BY <1>2, <1>3, <1>4, <1>5, <1>6, <1>8, <1>9, SaveRecorded
<1> HIDE DEF saved, b
<1>11. Settles(store, saved.store, x)
  BY <1>8, <1>10, SettlesTwice
<1> QED
  BY <1>1, <1>8, <1>10, <1>11 DEF Tells

\* The end of a turn sweeps, and prepares a receipt nobody had.
LEMMA PrepareTells ==
  ASSUME PhaseInv, NEW s \in Sockets, NEW k \in Keys, NEW swept, NEW outcome,
         Prepare(s, k, swept, outcome), NEW x \in Keys, Told(x)
  PROVE  Tells(x)
<1> DEFINE st == Sweep(store, link, swept)
           b == Envelope(st, SocketOwner[s])
           next == [st.bindings EXCEPT ![k] = b]
           available == /\ ~st.fenced
                        /\ Cardinality(Present(st.bindings, NoBinding)) < MaxBindings
           saved == SaveBindings(st, next, ActiveOwners(link), outcome)
<1>1. /\ running /\ k \in turns
      /\ store' = IF available THEN saved.store ELSE st
  BY DEF Prepare
<1>2. /\ TypeOK /\ Clocks /\ SocketOwner[s] \in Installations
      /\ store \in Store /\ Mirrors(store) /\ st \in Store /\ Live(store)
  BY <1>1, PhasesRunning, OwnerAssumption, SweepType DEF Told
<1>3. Recorded(st, x) /\ Settles(store, st, x) /\ Live(st)
  BY <1>2, SweepRecorded DEF Told
<1>4. store.bindings[k] = NoBinding
  BY <1>1 DEF PhaseInv, OwnersInv, NotYetBound, Unbound
<1>5. Mirrors(st)
  <2>1. Sound(store, proved, consumed)
    BY <1>1, RunningSound DEF PhaseInv, OwnersInv
  <2> QED
    BY <1>2, <2>1, SweepSound DEF Sound
<1> HIDE DEF st
<1>6. b \in Binding /\ b.st = "prepared" /\ b # NoBinding
  <2>1. Later(Later(st.seen[SocketOwner[s]], clock), startedAt) \in Nat
    BY <1>2, LaterType DEF Clocks, Store
  <2> QED
    BY <1>2, <2>1, AbsentAssumption DEF Envelope, Binding, Phase, Clocks
<1> HIDE DEF b
<1>7. /\ next \in Bindings /\ next[k] = b
      /\ \A y \in Keys \ {k} : next[y] = st.bindings[y]
  BY <1>2, <1>6 DEF Store, Bindings
<1> HIDE DEF next
<1>8. Advances(x, st.bindings[x], next[x])
  <2>1. CASE x # k
    BY <1>7, <2>1, SameAdvances
  <2>2. CASE x = k
    <3>1. ~Spent(st.bindings[k])
      BY <1>1, <1>3, <2>2 DEF Live, Recorded
    <3>2. Unproved(next[k])
      BY <1>6, <1>7 DEF Unproved
    <3> QED
      BY <1>1, <2>2, <3>1, <3>2 DEF Advances
  <2> QED
    BY <2>1, <2>2
<1>9. Recorded(saved.store, x) /\ Settles(st, saved.store, x) /\ Live(saved.store)
  BY <1>2, <1>3, <1>5, <1>7, <1>8, SaveBindingsRecorded
<1> HIDE DEF saved, available
<1>10. Settles(store, saved.store, x)
  BY <1>3, <1>9, SettlesTwice
<1> QED
  BY <1>1, <1>3, <1>9, <1>10 DEF Tells

\* A receipt is recorded as received for a handset that holds it.
LEMMA ReceiveTells ==
  ASSUME PhaseInv, NEW s \in Sockets, NEW k \in Keys, NEW outcome,
         ReceiveReplyAck(s, k, outcome), Over(k) \/ Holds(SocketOwner[s], k),
         NEW x \in Keys, Told(x)
  PROVE  Tells(x)
<1> DEFINE b == Owned(SourceOf(s), k)
           effect == IF clock < b.at THEN "pre" ELSE outcome
           next == [store.bindings EXCEPT ![k] = [b EXCEPT !.st = "received", !.at = clock]]
           saved == SaveBindings(store, next, ActiveOwners(link), effect)
           first == b # NoBinding /\ b.st = "prepared"
<1>1. running /\ store' = IF first THEN saved.store ELSE store
  BY DEF ReceiveReplyAck, Takes
<1>2. /\ TypeOK /\ Clocks /\ store \in Store /\ Mirrors(store) /\ Live(store)
      /\ store.bindings \in Bindings
  BY <1>1, PhasesRunning DEF Told
<1>3. /\ \/ b = pending[s][k] \/ b = store.bindings[k] \/ b = NoBinding
      /\ b # NoBinding => b.inst = SocketOwner[s]
  BY DEF Owned, SourceOf
<1>4. b # NoBinding => b \in Binding
  BY <1>2, <1>3 DEF TypeOK, Bindings
<1> HIDE DEF b, effect
<1>5. CASE ~first
  BY <1>1, <1>2, <1>5, SameRecorded DEF Told, Tells
<1>6. CASE first
  <2>1. /\ next \in Bindings /\ next[k] # NoBinding /\ next[k].st = "received"
        /\ next[k].inst = SocketOwner[s]
        /\ \A y \in Keys \ {k} : next[y] = store.bindings[y]
    <3>1. /\ [b EXCEPT !.st = "received", !.at = clock] \in Binding
          /\ [b EXCEPT !.st = "received", !.at = clock].st = "received"
          /\ [b EXCEPT !.st = "received", !.at = clock].inst = SocketOwner[s]
      BY <1>2, <1>3, <1>4, <1>6 DEF Binding, Phase, Clocks
    <3> QED
      BY <1>2, <3>1, AbsentAssumption DEF Bindings, Binding, Phase
  <2> HIDE DEF next
  <2>2. Unproved(store.bindings[k])
    BY <1>3, <1>6 DEF PhaseInv, HeldAlike, Unproved
  <2>3. Advances(x, store.bindings[x], next[x])
    <3>1. CASE x # k
      BY <2>1, <3>1, SameAdvances
    <3>2. CASE x = k
      <4>1. ~Over(k)
        BY <1>2, <2>2 DEF Over, Finished, Done, Live, Unproved
      <4> QED
        BY <2>1, <2>2, <3>2, <4>1 DEF Advances
    <3> QED
      BY <3>1, <3>2
  <2>4. /\ Recorded(saved.store, x) /\ Settles(store, saved.store, x)
        /\ Live(saved.store)
    BY <1>2, <2>1, <2>3, SaveBindingsRecorded DEF Told
  <2> HIDE DEF saved
  <2> QED
    BY <1>1, <1>6, <2>4 DEF Tells
<1> QED
  BY <1>5, <1>6

\* Installation i says it heard the reply of receipt k, or k is over.
Answered(i, k) == Confirms(i, k) \/ Over(k)

\* A consumption is recorded for a handset that heard the reply.
LEMMA ConsumeAnsweredTells ==
  ASSUME PhaseInv, NEW t \in tasks, NEW outcome, ConsumeAnswered(t, outcome),
         t.b.inst = t.src.inst, Answered(t.src.inst, t.key),
         NEW x \in Keys, Told(x)
  PROVE  Tells(x)
<1> DEFINE k == t.key
           effect == IF clock < t.b.at THEN "pre" ELSE outcome
           next == [store.bindings EXCEPT ![k] = [t.b EXCEPT !.st = "consumed", !.at = clock]]
           saved == SaveBindings(store, next, ActiveOwners(link), effect)
           same == store.bindings[k] = t.b
<1>1. /\ running /\ t.call = "calling"
      /\ store' = IF same THEN saved.store ELSE store
  BY DEF ConsumeAnswered
<1>2. /\ TypeOK /\ Clocks /\ store \in Store /\ Mirrors(store) /\ Live(store)
      /\ store.bindings \in Bindings
  BY <1>1, PhasesRunning DEF Told
<1>3. /\ t \in Task /\ k \in Keys /\ t.b \in Binding /\ t.b # NoBinding
      /\ t.b.st = "received"
  <2>1. t \in Task /\ k \in Keys /\ t.b \in Binding
    BY <1>2 DEF TypeOK, Task
  <2> QED
    BY <1>1, <2>1, AbsentAssumption DEF PhaseInv, CallsReceived, Binding, Phase
<1>4. PICK i : i = t.src.inst
  OBVIOUS
<1>5. t.b.inst = i /\ Answered(i, k)
  BY <1>4
<1> HIDE DEF effect, k
<1>6. CASE ~same
  BY <1>1, <1>2, <1>6, SameRecorded DEF Told, Tells
<1>7. CASE same
  <2>1. /\ next \in Bindings /\ Spent(next[k]) /\ next[k].inst = i
        /\ \A y \in Keys \ {k} : next[y] = store.bindings[y]
    <3>1. /\ [t.b EXCEPT !.st = "consumed", !.at = clock] \in Binding
          /\ [t.b EXCEPT !.st = "consumed", !.at = clock].st = "consumed"
          /\ [t.b EXCEPT !.st = "consumed", !.at = clock].inst = i
      BY <1>2, <1>3, <1>5 DEF Binding, Phase, Clocks
    <3> QED
      BY <1>2, <1>3, <3>1, AbsentAssumption DEF Bindings, Binding, Phase, Spent
  <2>2. PICK b : b = store.bindings[k]
    OBVIOUS
  <2>3. b # NoBinding /\ b.st = "received" /\ b.inst = i
    BY <1>3, <1>5, <1>7, <2>2
  <2>4. k \notin turns
    BY <2>2, <2>3 DEF PhaseInv, OwnersInv, NotYetBound, Unbound
  <2> HIDE DEF next, same
  <2>5. Advances(x, store.bindings[x], next[x])
    <3>1. CASE x # k
      BY <2>1, <3>1, SameAdvances
    <3>2. CASE x = k
      <4>1. ~Over(k)
        BY <1>2, <2>2, <2>3 DEF Over, Finished, Done, Live
      <4>2. Confirms(i, k)
        BY <1>5, <4>1 DEF Answered
      <4>3. PICK c : c = next[k]
        OBVIOUS
      <4>4. Advances(k, b, c)
        BY <2>1, <2>3, <2>4, <4>2, <4>3 DEF Advances
      <4> QED
        BY <2>2, <3>2, <4>3, <4>4
    <3> QED
      BY <3>1, <3>2
  <2>6. /\ Recorded(saved.store, x) /\ Settles(store, saved.store, x)
        /\ Live(saved.store)
    BY <1>2, <2>1, <2>5, SaveBindingsRecorded DEF Told
  <2> HIDE DEF saved
  <2> QED
    BY <1>1, <1>7, <2>6 DEF Tells
<1> QED
  BY <1>6, <1>7

\* A retirement drops a consumed binding, or a tombstone.
LEMMA RetireTells ==
  ASSUME PhaseInv, NEW s \in Sockets, NEW k \in Keys, NEW outcome,
         RetireReplyAck(s, k, outcome), NEW x \in Keys, Told(x)
  PROVE  Tells(x)
<1> DEFINE b == store.bindings[k]
           t == store.tombstones[k]
           active == ActiveOwners(link)
           without == [store.bindings EXCEPT ![k] = NoBinding]
           unburied == [store.tombstones EXCEPT ![k] = NoTombstone]
           owned == Retirable(b, SocketOwner[s])
           buried == b = NoBinding /\ t # NoTombstone /\ t.inst = SocketOwner[s]
           dropped == SaveBindings(store, without, active, outcome)
           cleared == Save(store, store.bindings, unburied, FALSE, active, outcome)
           saved == IF owned THEN dropped ELSE cleared
<1>1. /\ running /\ store' = IF owned \/ buried THEN saved.store ELSE store
  BY DEF RetireReplyAck, Takes
<1>2. /\ TypeOK /\ Clocks /\ store \in Store /\ Mirrors(store) /\ Live(store)
      /\ store.bindings \in Bindings /\ store.tombstones \in Tombstones
  BY <1>1, PhasesRunning DEF Told
<1>3. CASE ~owned /\ ~buried
  BY <1>1, <1>2, <1>3, SameRecorded DEF Told, Tells
<1>4. CASE buried /\ ~owned
  <2>1. /\ unburied \in Tombstones
        /\ unburied[x] = NoTombstone \/ store.tombstones[x] # NoTombstone
    BY <1>2 DEF Tombstones
  <2> HIDE DEF unburied
  <2>2. \E w : cleared = Save(store, store.bindings, unburied, w, active, outcome)
    OBVIOUS
  <2>3. PICK w : cleared = Save(store, store.bindings, unburied, w, active, outcome)
    BY <2>2
  <2>4. Advances(x, store.bindings[x], store.bindings[x])
    BY SameAdvances
  <2> HIDE DEF cleared, active
  <2>5. /\ Recorded(cleared.store, x) /\ Settles(store, cleared.store, x)
        /\ Live(cleared.store)
    BY <1>2, <2>1, <2>3, <2>4, SaveRecorded DEF Told
  <2> HIDE DEF owned, buried
  <2> QED
    BY <1>1, <1>4, <2>5 DEF Tells
<1>5. CASE owned
  <2>1. without \in Bindings
    BY <1>2 DEF Bindings
  <2>2. Advances(x, store.bindings[x], without[x])
    <3>1. CASE x # k
      <4>1. without[x] = store.bindings[x]
        BY <1>2, <3>1 DEF Bindings
      <4> HIDE DEF without
      <4> QED
        BY <4>1, SameAdvances
    <3>2. CASE x = k
      <4>1. without[x] = NoBinding /\ Done(store.bindings[x])
        BY <1>2, <1>5, <3>2 DEF Bindings, Retirable, Done
      <4> HIDE DEF without
      <4> QED
        BY <4>1 DEF Advances
    <3> QED
      BY <3>1, <3>2
  <2> HIDE DEF without
  <2>3. /\ Recorded(dropped.store, x) /\ Settles(store, dropped.store, x)
        /\ Live(dropped.store)
    BY <1>2, <2>1, <2>2, SaveBindingsRecorded DEF Told
  <2> HIDE DEF owned, buried, dropped, cleared
  <2> QED
    BY <1>1, <1>5, <2>3 DEF Tells
<1> QED
  BY <1>3, <1>4, <1>5

\* A close and the interval sweep change no receipt that is not done.
LEMMA CloseTells ==
  ASSUME PhaseInv, NEW s \in Sockets, NEW outcome, Close(s, outcome),
         NEW x \in Keys, Told(x)
  PROVE  Tells(x)
<1> DEFINE lk == [link EXCEPT ![s] = "closed"]
           gone == Disconnected(store, s, lk, outcome)
<1>1. /\ running
      /\ store' = IF link[s] = "open" THEN gone ELSE store
  BY DEF Close
<1>2. TypeOK /\ Clocks /\ store \in Store /\ Mirrors(store) /\ Live(store)
  BY <1>1, PhasesRunning DEF Told
<1>3. Recorded(gone, x) /\ Settles(store, gone, x) /\ Live(gone)
  BY <1>2, DisconnectedRecorded DEF Told
<1>4. Recorded(store, x) /\ Settles(store, store, x) /\ Live(store)
  BY <1>2, SameRecorded DEF Told
<1> HIDE DEF gone
<1> QED
  BY <1>1, <1>3, <1>4 DEF Tells

\* The hourly sweep records no more than any other.
LEMMA PeriodicSweepTells ==
  ASSUME PhaseInv, NEW outcome, PeriodicSweep(outcome), NEW x \in Keys, Told(x)
  PROVE  Tells(x)
<1>1. running /\ store' = Sweep(store, link, outcome)
  BY DEF PeriodicSweep
<1>2. TypeOK /\ Clocks /\ store \in Store /\ Mirrors(store) /\ Live(store)
  BY <1>1, PhasesRunning DEF Told
<1> QED
  BY <1>1, <1>2, SweepRecorded DEF Told, Tells

\* A crash forgets what the process held, and leaves both snapshots.
LEMMA CrashTells ==
  ASSUME PhaseInv, Crash, NEW x \in Keys, Told(x)
  PROVE  Tells(x)
<1>1. /\ store'.disk = store.disk /\ store'.prior = store.prior
      /\ store'.tombstones = EmptyTombstones /\ ~running'
  BY DEF Crash, PhaseInv, OwnersInv, BridgeInv, TypeOK, Store
<1>2. store'.tombstones[x] = NoTombstone
  BY <1>1 DEF EmptyTombstones
<1> QED
  BY <1>1, <1>2 DEF Told, Tells, Recorded, Settles, Finished, Released, Entombed

\* A start finds either snapshot, and both are true.
LEMMA StartTells ==
  ASSUME PhaseInv, Start, NEW x \in Keys, Told(x)
  PROVE  Tells(x)
<1>1. PICK found \in {store.disk, store.prior} :
        store' = [store EXCEPT !.bindings = found.bindings,
                               !.tombstones = found.tombstones,
                               !.disk = found, !.prior = found, !.fenced = FALSE]
  BY DEF Start
<1>2. /\ store'.disk = found /\ store'.prior = found
      /\ store'.bindings = found.bindings /\ store'.tombstones = found.tombstones
  BY <1>1 DEF PhaseInv, OwnersInv, BridgeInv, TypeOK, Store
<1>3. x \in turns => found.bindings[x] = NoBinding
  BY <1>1 DEF PhaseInv, OwnersInv, NotYetBound, Unbound
<1>4. PICK b : b = found.bindings[x]
  OBVIOUS
<1>5. /\ Matches(b, x)
      /\ Spent(b) => x \notin turns /\ Done(b)
      /\ found.tombstones[x] # NoTombstone => x \notin turns /\ Done(b)
      /\ x \notin turns /\ Finished(store, x) => Done(b)
      /\ \A i : Released(store, i, x) /\ b # NoBinding => b.inst # i
  BY <1>1, <1>3, <1>4 DEF Told, Recorded, Finished, Released, Entombed, Spent, Done
<1>6. Recorded(store', x)
  BY <1>2, <1>4, <1>5 DEF Recorded, Finished, Entombed, Unproved
<1>7. Settles(store, store', x)
  BY <1>2, <1>4, <1>5 DEF Settles, Finished, Released
<1>8. Live(store')
  BY <1>2 DEF Live
<1> QED
  BY <1>6, <1>7, <1>8 DEF Tells

\* No other step of the bridge touches the store.
LEMMA QuietTells ==
  ASSUME NEW x \in Keys, Told(x), store' = store, running' = running
  PROVE  Tells(x)
BY SameRecorded DEF Told, Tells

-----------------------------------------------------------------------------
(* What the queues, the timers and the tasks still say *)

\* What acts on an acknowledgement (a frame, a timer or a task) acts for an
\* installation and a receipt of P, and a task on a binding of its own.
Vouched(P) ==
  /\ \A s \in Sockets, k \in Keys :
       <<"reply_ack", k>> \in Queued(s) => <<SocketOwner[s], k>> \in P
  /\ \A k \in Keys : timers[k] # NoTimer => <<timers[k].inst, k>> \in P
  /\ \A t \in tasks : t.b.inst = t.src.inst /\ <<t.src.inst, t.key>> \in P

\* A queue loses its head, or everything.
LEMMA QueueShrinks ==
  ASSUME NEW S, NEW q \in Seq(S), NEW r,
         \/ r \in {q, <<>>}
         \/ q # <<>> /\ r = Tail(q)
  PROVE  {r[n] : n \in 1..Len(r)} \subseteq {q[n] : n \in 1..Len(q)}
<1>1. CASE r = <<>>
  <2>1. Len(r) = 0
    BY <1>1
  <2> QED
    BY <2>1
<1>2. CASE q # <<>> /\ r = Tail(q)
  BY <1>2, TailElements
<1> QED
  BY <1>1, <1>2

\* A handler takes a frame of the queue of its socket, and adds none.
LEMMA TakesShrinks ==
  ASSUME TypeOK, NEW s \in Sockets, NEW op, NEW k \in Keys, Takes(s, op, k)
  PROVE  /\ <<op, k>> \in Queued(s)
         /\ \A x \in Sockets : Queued(x)' \subseteq Queued(x)
<1>1. /\ up[s] \in Seq(UpFrame) /\ up[s] # <<>> /\ Head(up[s]) = <<op, k>>
      /\ up' = [up EXCEPT ![s] = Tail(@)] /\ up \in [Sockets -> Seq(UpFrame)]
  BY DEF Takes, TypeOK
<1>2. 1 \in 1..Len(up[s]) /\ up[s][1] = <<op, k>>
  BY <1>1 DEF UpFrame
<1>3. ASSUME NEW x \in Sockets PROVE Queued(x)' \subseteq Queued(x)
  <2>1. PICK q, r : q = up[x] /\ r = up'[x]
    OBVIOUS
  <2>2. /\ q \in Seq(UpFrame)
        /\ \/ r \in {q, <<>>}
           \/ q # <<>> /\ r = Tail(q)
    BY <1>1, <2>1
  <2>3. {r[n] : n \in 1..Len(r)} \subseteq {q[n] : n \in 1..Len(q)}
    BY <2>2, QueueShrinks
  <2> QED
    BY <2>1, <2>3 DEF Queued
<1> QED
  BY <1>2, <1>3 DEF Queued

\* No step of the bridge queues a frame of a handset.
LEMMA BridgeShrinks ==
  ASSUME TypeOK, BridgeNext, NEW x \in Sockets
  PROVE  Queued(x)' \subseteq Queued(x)
<1>1. CASE up' = up
  BY <1>1 DEF Queued
<1>2. ASSUME NEW s \in Sockets, NEW k \in Keys, NEW any, Takes(s, any, k)
      PROVE  Queued(x)' \subseteq Queued(x)
  BY <1>2, TakesShrinks
<1>3. ASSUME NEW s \in Sockets, NEW o, Hello(s, o) PROVE up' = up
  BY <1>3 DEF Hello
<1>8. \A s, k, w, o : Prepare(s, k, w, o) => up' = up
  BY DEF Prepare
<1>4. ASSUME NEW s \in Sockets, NEW k \in Keys, NEW o,
             \/ ReceiveReplyAck(s, k, o) \/ AcknowledgeReplyAck(s, k)
             \/ RetireReplyAck(s, k, o)
      PROVE  Queued(x)' \subseteq Queued(x)
  BY <1>2, <1>4 DEF ReceiveReplyAck, AcknowledgeReplyAck, RetireReplyAck
<1>5. /\ \A k : RetryTimer(k) => up' = up
      /\ \A t, o : ConsumeAnswered(t, o) => up' = up
      /\ \A t : ConsumeFailed(t) \/ ConfirmationSent(t) => up' = up
  BY DEF RetryTimer, ConsumeAnswered, ConsumeFailed, ConfirmationSent
<1>6. ASSUME NEW s \in Sockets, NEW o, Close(s, o) \/ Crash
      PROVE  Queued(x)' \subseteq Queued(x)
  <2>1. PICK q, r : q = up[x] /\ r = up'[x]
    OBVIOUS
  <2>2. q \in Seq(UpFrame) /\ r \in {q, <<>>}
    BY <1>6, <2>1 DEF Close, Crash, TypeOK
  <2>3. {r[n] : n \in 1..Len(r)} \subseteq {q[n] : n \in 1..Len(q)}
    BY <2>2, QueueShrinks
  <2> QED
    BY <2>1, <2>3 DEF Queued
<1>7. /\ \A o : PeriodicSweep(o) => up' = up
      /\ Start \/ Tick \/ Rollback => up' = up
      /\ \A k : TelepathosdConsumes(k) => up' = up
  BY DEF PeriodicSweep, Start, Tick, Rollback, TelepathosdConsumes
<1> QED
  BY <1>1, <1>3, <1>4, <1>5, <1>6, <1>7, <1>8 DEF BridgeNext

\* Answering reply_ack, or a retry timer, hands its own source on.
LEMMA AcknowledgeVouched ==
  ASSUME TypeOK, NEW P, NEW src \in Source, NEW k \in Keys,
         NEW waiting \in [Keys -> Source \cup {NoTimer}],
         Acknowledge(src, k, waiting),
         <<src.inst, k>> \in P, Vouched(P),
         \A x \in Keys : waiting[x] \in {timers[x], NoTimer}
  PROVE  /\ \A x \in Keys : timers'[x] # NoTimer => <<timers'[x].inst, x>> \in P
         /\ \A t \in tasks' : t.b.inst = t.src.inst /\ <<t.src.inst, t.key>> \in P
<1> DEFINE b == Owned(src, k)
           Starting(call) == [key |-> k, src |-> src, b |-> b, done |-> b,
                              call |-> call, current |-> TRUE]
<1>1. \A x \in Keys : timers'[x] \in {timers[x], NoTimer, IF x = k THEN src ELSE NoTimer}
  BY DEF Acknowledge
<1>2. \A t \in tasks' : t \in tasks \/ (b # NoBinding /\ \E call : t = Starting(call))
  BY DEF Acknowledge, Acknowledgeable
<1>3. b # NoBinding => b.inst = src.inst
  BY DEF Owned
<1>4. \A call : /\ Starting(call).key = k /\ Starting(call).src = src
                /\ Starting(call).b = b
  OBVIOUS
<1> HIDE DEF b, Starting
<1>5. ASSUME NEW x \in Keys, timers'[x] # NoTimer PROVE <<timers'[x].inst, x>> \in P
  BY <1>1, <1>5 DEF Vouched
<1>6. ASSUME NEW t \in tasks'
      PROVE  t.b.inst = t.src.inst /\ <<t.src.inst, t.key>> \in P
  <2>1. CASE t \in tasks
    BY <2>1 DEF Vouched
  <2>2. CASE t \notin tasks
    <3>1. PICK call : t = Starting(call) /\ b # NoBinding
      BY <1>2, <2>2
    <3> QED
      BY <1>3, <1>4, <3>1
  <2> QED
    BY <2>1, <2>2
<1> QED
  BY <1>5, <1>6

\* A hello starts no task and no timer.
LEMMA HelloVouched ==
  ASSUME TypeOK, NEW P, Vouched(P), NEW s \in Sockets, NEW outcome, Hello(s, outcome)
  PROVE  /\ \A k \in Keys : timers'[k] # NoTimer => <<timers'[k].inst, k>> \in P
         /\ \A t \in tasks' : t.b.inst = t.src.inst /\ <<t.src.inst, t.key>> \in P
<1>1. \E taken : /\ timers' = [k \in Keys |-> IF k \in taken THEN NoTimer ELSE timers[k]]
                 /\ tasks' = {[t EXCEPT !.current = @ /\ t.key \notin taken] : t \in tasks}
  BY DEF Hello
<1>2. PICK taken :
        /\ timers' = [k \in Keys |-> IF k \in taken THEN NoTimer ELSE timers[k]]
        /\ tasks' = {[t EXCEPT !.current = @ /\ t.key \notin taken] : t \in tasks}
  BY <1>1
<1>3. ASSUME NEW u \in tasks'
      PROVE  u.b.inst = u.src.inst /\ <<u.src.inst, u.key>> \in P
  <2>1. PICK t \in tasks : u = [t EXCEPT !.current = @ /\ t.key \notin taken]
    BY <1>2
  <2>2. t \in Task
    BY DEF TypeOK
  <2>3. u.b = t.b /\ u.src = t.src /\ u.key = t.key
    BY <2>1, <2>2 DEF Task
  <2> QED
    BY <2>3 DEF Vouched
<1>4. ASSUME NEW k \in Keys, timers'[k] # NoTimer
      PROVE  <<timers'[k].inst, k>> \in P
  BY <1>2, <1>4 DEF Vouched
<1> QED
  BY <1>3, <1>4

\* A close moves tasks and timers off the socket, not to another handset.
LEMMA CloseVouched ==
  ASSUME TypeOK, NEW P, Vouched(P), NEW s \in Sockets, NEW outcome, Close(s, outcome)
  PROVE  /\ \A k \in Keys : timers'[k] # NoTimer => <<timers'[k].inst, k>> \in P
         /\ \A t \in tasks' : t.b.inst = t.src.inst /\ <<t.src.inst, t.key>> \in P
<1> DEFINE Gone(src) == IF src.sock = s THEN [src EXCEPT !.sock = NoSocket] ELSE src
<1>1. /\ timers' = [k \in Keys |-> IF timers[k] = NoTimer THEN NoTimer
                                   ELSE Gone(timers[k])]
      /\ tasks' = {[t EXCEPT !.src = Gone(@)] : t \in tasks}
  BY DEF Close
<1>2. \A src \in Source : Gone(src).inst = src.inst
  BY DEF Source
<1> HIDE DEF Gone
<1>3. ASSUME NEW u \in tasks'
      PROVE  u.b.inst = u.src.inst /\ <<u.src.inst, u.key>> \in P
  <2>1. PICK t \in tasks : u = [t EXCEPT !.src = Gone(@)]
    BY <1>1
  <2>2. t \in Task
    BY DEF TypeOK
  <2>3. u.b = t.b /\ u.src = Gone(t.src) /\ u.key = t.key /\ t.src \in Source
    BY <2>1, <2>2 DEF Task
  <2> QED
    BY <1>2, <2>3 DEF Vouched
<1>4. ASSUME NEW k \in Keys, timers'[k] # NoTimer
      PROVE  <<timers'[k].inst, k>> \in P
  <2>1. timers[k] # NoTimer /\ timers[k] \in Source /\ timers'[k] = Gone(timers[k])
    BY <1>1, <1>4 DEF TypeOK
  <2> QED
    BY <1>2, <2>1 DEF Vouched
<1> QED
  BY <1>3, <1>4

\* The end of a task, answered, failed or sent, leaves its source to a timer at
\* most.
LEMMA TaskVouched ==
  ASSUME TypeOK, NEW P, Vouched(P), NEW t \in tasks,
         \/ \E o \in SaveOutcomes : ConsumeAnswered(t, o)
         \/ ConsumeFailed(t)
         \/ ConfirmationSent(t)
  PROVE  /\ \A k \in Keys : timers'[k] # NoTimer => <<timers'[k].inst, k>> \in P
         /\ \A u \in tasks' : u.b.inst = u.src.inst /\ <<u.src.inst, u.key>> \in P
<1> DEFINE Moved(d) == [t EXCEPT !.call = "sending", !.done = d]
<1>1. t \in Task /\ t.key \in Keys
  BY DEF TypeOK, Task
<1>2. timers' = timers \/ timers' = [timers EXCEPT ![t.key] = t.src]
  BY DEF ConsumeAnswered, ConsumeFailed, ConfirmationSent
<1>3. \A u \in tasks' : u \in tasks \/ \E d : u = Moved(d)
  <2>1. tasks' = tasks \ {t}
          \/ \E d : \/ tasks' = (tasks \ {t}) \cup {[t EXCEPT !.call = "sending", !.done = d]}
                  \/ tasks' = (tasks \ {t}) \cup {}
    BY Zenon DEF ConsumeAnswered, ConsumeFailed, ConfirmationSent
  <2> QED
    BY <2>1
<1>4. \A d : /\ Moved(d).key = t.key /\ Moved(d).src = t.src
             /\ Moved(d).b = t.b
  BY <1>1 DEF Task
<1> HIDE DEF Moved
<1>5. ASSUME NEW u \in tasks'
      PROVE  u.b.inst = u.src.inst /\ <<u.src.inst, u.key>> \in P
  <2>1. \E v \in tasks : u.b = v.b /\ u.src = v.src /\ u.key = v.key
    BY <1>3, <1>4
  <2> QED
    BY <2>1 DEF Vouched
<1>6. ASSUME NEW k \in Keys, timers'[k] # NoTimer
      PROVE  <<timers'[k].inst, k>> \in P
  BY <1>1, <1>2, <1>6 DEF Vouched, TypeOK
<1> QED
  BY <1>5, <1>6

\* No step of the bridge acts on an acknowledgement nobody sent.
LEMMA BridgeVouched ==
  ASSUME TypeOK, BridgeNext, NEW P, Vouched(P)
  PROVE  Vouched(P)'
<1>1. \A s \in Sockets, k \in Keys :
        <<"reply_ack", k>> \in Queued(s)' => <<SocketOwner[s], k>> \in P
  BY BridgeShrinks DEF Vouched
<1> DEFINE Rest == /\ \A k \in Keys : timers'[k] # NoTimer => <<timers'[k].inst, k>> \in P
                   /\ \A t \in tasks' : /\ t.b.inst = t.src.inst
                                        /\ <<t.src.inst, t.key>> \in P
<1>2. Rest
  <2>1. CASE timers' = timers /\ tasks' = tasks
    BY <2>1 DEF Vouched
  <2>2. ASSUME NEW s \in Sockets, NEW o, Hello(s, o) PROVE Rest
    BY <2>2, HelloVouched
  <2>3. \A s, k, w, o : Prepare(s, k, w, o) => timers' = timers /\ tasks' = tasks
    BY DEF Prepare
  <2>4. ASSUME NEW s, NEW k \in Keys, NEW o,
               ReceiveReplyAck(s, k, o) \/ RetireReplyAck(s, k, o)
        PROVE  Rest
    <3>1. tasks' = tasks /\ \A x \in Keys : timers'[x] \in {timers[x], NoTimer}
      BY <2>4 DEF ReceiveReplyAck, RetireReplyAck, TypeOK
    <3> QED
      BY <3>1 DEF Vouched
  <2>5. ASSUME NEW s \in Sockets, NEW k \in Keys, AcknowledgeReplyAck(s, k)
        PROVE  Rest
    <3>1. /\ SourceOf(s) \in Source /\ SourceOf(s).inst = SocketOwner[s]
          /\ Acknowledge(SourceOf(s), k, timers)
          /\ timers \in [Keys -> Source \cup {NoTimer}]
      BY <2>5, SourceType DEF AcknowledgeReplyAck, SourceOf, TypeOK
    <3>2. <<SocketOwner[s], k>> \in P
      BY <2>5, TakesShrinks DEF AcknowledgeReplyAck, Vouched
    <3> QED
      BY <3>1, <3>2, AcknowledgeVouched
  <2>6. ASSUME NEW k \in Keys, RetryTimer(k) PROVE Rest
    <3>1. PICK waiting : waiting = [timers EXCEPT ![k] = NoTimer]
      OBVIOUS
    <3>2. /\ timers[k] \in Source /\ <<timers[k].inst, k>> \in P
          /\ Acknowledge(timers[k], k, waiting)
          /\ waiting \in [Keys -> Source \cup {NoTimer}]
          /\ \A x \in Keys : waiting[x] \in {timers[x], NoTimer}
      BY <2>6, <3>1 DEF RetryTimer, TypeOK, Vouched
    <3> QED
      BY <3>2, AcknowledgeVouched
  <2>7. ASSUME NEW t \in tasks,
               \/ \E o \in SaveOutcomes : ConsumeAnswered(t, o)
               \/ ConsumeFailed(t)
               \/ ConfirmationSent(t)
        PROVE  Rest
    BY <2>7, TaskVouched
  <2>8. ASSUME NEW s \in Sockets, NEW o, Close(s, o) PROVE Rest
    BY <2>8, CloseVouched
  <2>9. Crash => Rest
    BY DEF Crash
  <2>10. /\ \A o : PeriodicSweep(o) => timers' = timers /\ tasks' = tasks
         /\ Start \/ Tick \/ Rollback => timers' = timers /\ tasks' = tasks
         /\ \A k : TelepathosdConsumes(k) => timers' = timers /\ tasks' = tasks
    BY DEF PeriodicSweep, Start, Tick, Rollback, TelepathosdConsumes
  <2> HIDE DEF Rest
  <2> QED
    BY <2>1, <2>2, <2>3, <2>4, <2>5, <2>6, <2>7, <2>8, <2>9, <2>10 DEF BridgeNext
<1> QED
  BY <1>1, <1>2 DEF Vouched

\* What the bridge still says to the handset of socket s.
Said(s) == {down[s][n] : n \in 1..Len(down[s])}

\* The bridge says acknowledged of receipts of A only, and retired of
\* installations and receipts of R only.
Saying(A, R) ==
  \A s \in Sockets, k \in Keys :
    /\ <<"reply_acknowledged", k>> \in Said(s) => k \in A
    /\ <<"reply_ack_retired", k>> \in Said(s) => <<SocketOwner[s], k>> \in R

\* Frames that say no more than A and R leave the queues as true.
LEMMA EmitSays ==
  ASSUME TypeOK, NEW A, NEW R, Saying(A, R), NEW s, NEW fs \in Seq(DownFrame),
         Emit(s, fs),
         s \in Sockets => \A n \in 1..Len(fs), k \in Keys :
           /\ fs[n] = <<"reply_acknowledged", k>> => k \in A
           /\ fs[n] = <<"reply_ack_retired", k>> => <<SocketOwner[s], k>> \in R
  PROVE  Saying(A, R)'
<1>1. \A x \in Sockets : ~(s \in Sockets /\ x = s) => down'[x] = down[x]
  BY DEF Emit, TypeOK
<1>2. ASSUME s \in Sockets
      PROVE  \A f \in Said(s)' : f \in Said(s) \/ \E n \in 1..Len(fs) : f = fs[n]
  <2>1. down[s] \in Seq(DownFrame) /\ down'[s] = down[s] \o fs
    BY <1>2 DEF Emit, TypeOK
  <2>2. \A n \in 1..Len(down'[s]) :
          \/ n \in 1..Len(down[s]) /\ down'[s][n] = down[s][n]
          \/ n - Len(down[s]) \in 1..Len(fs) /\ down'[s][n] = fs[n - Len(down[s])]
    BY <2>1, ConcatElements
  <2> QED
    BY <2>2 DEF Said
<1>3. \A x \in Sockets : \A f \in Said(x)' :
        f \in Said(x) \/ (x = s /\ \E n \in 1..Len(fs) : f = fs[n])
  <2> SUFFICES ASSUME NEW x \in Sockets
               PROVE  \A f \in Said(x)' :
                        f \in Said(x) \/ (x = s /\ \E n \in 1..Len(fs) : f = fs[n])
    OBVIOUS
  <2>1. CASE x = s
    BY <1>2, <2>1
  <2>2. CASE x # s
    BY <1>1, <2>2 DEF Said
  <2> QED
    BY <2>1, <2>2
<1> QED
  BY <1>3 DEF Saying

\* So does a frame, if there is one.
LEMMA OneFrameSays ==
  ASSUME TypeOK, NEW A, NEW R, Saying(A, R), NEW s, NEW x \in Keys,
         NEW P \in BOOLEAN,
         NEW op \in {"agent_end", "reply_received", "reply_acknowledged",
                     "reply_ack_retired"},
         Emit(s, IF P THEN << <<op, x>> >> ELSE <<>>),
         P /\ op = "reply_acknowledged" => x \in A,
         P /\ s \in Sockets /\ op = "reply_ack_retired" => <<SocketOwner[s], x>> \in R
  PROVE  Saying(A, R)'
<1>1. CASE P
  <2> DEFINE fs == << <<op, x>> >>
  <2>1. /\ Emit(s, fs) /\ fs \in Seq(DownFrame) /\ Len(fs) = 1
        /\ \A n \in 1..Len(fs) : fs[n] = <<op, x>>
    <3>1. <<op, x>> \in DownFrame
      BY DEF DownFrame
    <3> QED
      BY <1>1, <3>1
  <2>2. \A k, kind : <<op, x>> = <<kind, k>> => op = kind /\ x = k
    OBVIOUS
  <2> HIDE DEF fs
  <2>3. s \in Sockets => \A n \in 1..Len(fs), k \in Keys :
          /\ fs[n] = <<"reply_acknowledged", k>> => k \in A
          /\ fs[n] = <<"reply_ack_retired", k>> => <<SocketOwner[s], k>> \in R
    BY <1>1, <2>1, <2>2
  <2> QED
    BY <2>1, <2>3, EmitSays
<1>2. CASE ~P
  <2> DEFINE fs == <<>>
  <2>1. Emit(s, fs) /\ fs \in Seq(DownFrame) /\ Len(fs) = 0
    BY <1>2
  <2> HIDE DEF fs
  <2>2. \A n \in 1..Len(fs) : FALSE
    BY <2>1
  <2>3. s \in Sockets => \A n \in 1..Len(fs), k \in Keys :
          /\ fs[n] = <<"reply_acknowledged", k>> => k \in A
          /\ fs[n] = <<"reply_ack_retired", k>> => <<SocketOwner[s], k>> \in R
    BY <2>2
  <2> QED
    BY <2>1, <2>3, EmitSays
<1> QED
  BY <1>1, <1>2

\* A queue the handset reads, or loses, says no more.
LEMMA LessSays ==
  ASSUME TypeOK, NEW A, NEW R, Saying(A, R),
         \A s \in Sockets : \/ down'[s] \in {down[s], <<>>}
                            \/ down[s] # <<>> /\ down'[s] = Tail(down[s])
  PROVE  Saying(A, R)'
<1>1. ASSUME NEW s \in Sockets PROVE Said(s)' \subseteq Said(s)
  <2>1. PICK q, r : q = down[s] /\ r = down'[s]
    OBVIOUS
  <2>2. /\ q \in Seq(DownFrame)
        /\ \/ r \in {q, <<>>}
           \/ q # <<>> /\ r = Tail(q)
    BY <2>1 DEF TypeOK
  <2>3. {r[n] : n \in 1..Len(r)} \subseteq {q[n] : n \in 1..Len(q)}
    BY <2>2, QueueShrinks
  <2> QED
    BY <2>1, <2>3 DEF Said
<1> QED
  BY <1>1 DEF Saying

\* No socket holds a consumed receipt pending.
Unspent == \A s \in Sockets, k \in Keys : ~Spent(pending[s][k])

\* Acknowledging says so of a receipt that is over.
LEMMA AcknowledgeSays ==
  ASSUME TypeOK, running, NEW A, NEW R, Saying(A, R), NEW src \in Source,
         NEW k \in Keys, NEW waiting, Acknowledge(src, k, waiting), Unspent,
         Told(k), Over(k) => k \in A
  PROVE  Saying(A, R)'
<1> DEFINE b == Owned(src, k)
           t == store.tombstones[k]
           live == Acknowledgeable(b)
           starts == live /\ ~InFlight(k)
           calls == starts /\ MustConsume(b)
           says == \/ b = NoBinding /\ t # NoTombstone /\ t.inst = src.inst
                   \/ starts /\ ~calls /\ src.sock # NoSocket
<1>1. b \in Binding \cup {NoBinding}
  BY OwnedType
<1>2. says => t # NoTombstone \/ Spent(b)
  BY <1>1 DEF Acknowledgeable, MustConsume, Binding, Phase, Spent
<1>3. Spent(b) => Spent(store.bindings[k])
  BY DEF Owned, Unspent, Spent, Source
<1>4. says => Over(k)
  BY <1>2, <1>3 DEF Told, Live, Recorded, Entombed, Over
<1>5. Emit(src.sock, IF says THEN << <<"reply_acknowledged", k>> >> ELSE <<>>)
  BY DEF Acknowledge
<1>6. says \in BOOLEAN
  OBVIOUS
<1> HIDE DEF says
<1> QED
  BY <1>4, <1>5, <1>6, OneFrameSays

\* What a save that succeeds wrote of receipt k, in the process and in the file.
LEMMA SavedPhase ==
  ASSUME Clocks, NEW st \in Store, NEW b \in Bindings, NEW active, NEW outcome,
         NEW k \in Keys,
         NEW saved, saved = SaveBindings(st, b, active, outcome), saved.ok
  PROVE  /\ SamePhase(b[k], saved.store.bindings[k])
         /\ saved.store.disk.bindings[k] = saved.store.bindings[k]
         /\ saved.store.prior.bindings[k] = saved.store.bindings[k]
<1>1. \E same : saved = Save(st, b, st.tombstones, same, active, outcome)
  BY DEF SaveBindings
<1>2. PICK same : saved = Save(st, b, st.tombstones, same, active, outcome)
  BY <1>1
<1> DEFINE normal == Refreshed(b, st.seen)
           snapshot == SnapshotOf(st, b, st.tombstones)
<1>3. SamePhase(b[k], normal[k])
  BY RefreshedKeeps DEF Store, SamePhase
<1>4. snapshot.bindings = normal
  BY DEF SnapshotOf
<1> HIDE DEF normal, snapshot
<1>5. /\ saved.store.bindings = normal
      /\ saved.store.disk = snapshot /\ saved.store.prior = snapshot
  BY <1>2, SaveEffect DEF normal, snapshot
<1> QED
  BY <1>3, <1>4, <1>5

\* A hello says agent_end and ready, nothing of a receipt that is over.
LEMMA HelloSays ==
  ASSUME TypeOK, NEW A, NEW R, Saying(A, R), NEW s \in Sockets, NEW outcome,
         Hello(s, outcome)
  PROVE  Saying(A, R)'
<1>1. \E replayed \in SUBSET Keys : \E order \in SetToSeqs(replayed) :
        Emit(s, [n \in 1..Len(order) |-> <<"agent_end", order[n]>>]
                  \o << <<"ready">> >>)
  BY DEF Hello, Present
<1>2. PICK replayed \in SUBSET Keys : \E order \in SetToSeqs(replayed) :
        Emit(s, [n \in 1..Len(order) |-> <<"agent_end", order[n]>>]
                  \o << <<"ready">> >>)
  BY <1>1
<1>3. PICK order \in SetToSeqs(replayed) :
        Emit(s, [n \in 1..Len(order) |-> <<"agent_end", order[n]>>]
                  \o << <<"ready">> >>)
  BY <1>2
<1>4. Cardinality(replayed) \in Nat
  BY KeysAssumption, FS_Subset, FS_CardinalityType
<1>5. order \in Seq(Keys)
  <2>1. order \in [1..Cardinality(replayed) -> replayed]
    BY DEF SetToSeqs
  <2> QED
    BY <1>4, <2>1
<1> DEFINE ends == [n \in 1..Len(order) |-> <<"agent_end", order[n]>>]
           last == << <<"ready">> >>
<1>6. ends \in Seq(DownFrame) /\ last \in Seq(DownFrame)
  <2>1. \A n \in 1..Len(order) : <<"agent_end", order[n]>> \in DownFrame
    BY <1>5 DEF DownFrame
  <2>2. <<"ready">> \in DownFrame
    BY DEF DownFrame
  <2> HIDE DEF DownFrame
  <2> QED
    BY <1>5, <2>1, <2>2
<1>7. ends \o last \in Seq(DownFrame)
  BY <1>6, ConcatProperties
<1>8. \A n \in 1..Len(ends \o last) :
        \/ (ends \o last)[n] = <<"ready">>
        \/ \E k \in Keys : (ends \o last)[n] = <<"agent_end", k>>
  <2> SUFFICES ASSUME NEW n \in 1..Len(ends \o last)
               PROVE  \/ (ends \o last)[n] = <<"ready">>
                      \/ \E k \in Keys : (ends \o last)[n] = <<"agent_end", k>>
    OBVIOUS
  <2>1. Len(ends) = Len(order) /\ Len(last) = 1 /\ Len(order) \in Nat
    BY <1>5
  <2>2. CASE n \in 1..Len(order)
    BY <1>5, <1>6, <2>1, <2>2, ConcatProperties
  <2>3. CASE n = Len(order) + 1
    BY <1>6, <2>1, <2>3, ConcatProperties
  <2> QED
    BY <1>6, <2>1, <2>2, <2>3, ConcatProperties
<1>9. Emit(s, ends \o last)
  BY <1>3
<1> HIDE DEF ends, last
<1>10. \A n \in 1..Len(ends \o last), k \in Keys :
         /\ (ends \o last)[n] # <<"reply_acknowledged", k>>
         /\ (ends \o last)[n] # <<"reply_ack_retired", k>>
  BY <1>8
<1> QED
  BY <1>7, <1>9, <1>10, EmitSays

\* The answer to a consume call is acknowledged once its record is durable.
LEMMA ConsumeAnsweredSays ==
  ASSUME PhaseInv, NEW A, NEW R, Saying(A, R), NEW t \in tasks, NEW outcome,
         ConsumeAnswered(t, outcome), Tells(t.key), Over(t.key)' => t.key \in A
  PROVE  Saying(A, R)'
<1> DEFINE k == t.key
           effect == IF clock < t.b.at THEN "pre" ELSE outcome
           next == [store.bindings EXCEPT ![k] = [t.b EXCEPT !.st = "consumed", !.at = clock]]
           saved == SaveBindings(store, next, ActiveOwners(link), effect)
           same == store.bindings[k] = t.b
           done == same /\ saved.ok
           src == t.src
<1>1. /\ running /\ running' = running /\ turns' = turns
      /\ store' = IF same THEN saved.store ELSE store
      /\ Emit(src.sock, IF done THEN << <<"reply_acknowledged", k>> >> ELSE <<>>)
  BY DEF ConsumeAnswered
<1>2. /\ TypeOK /\ Clocks /\ store \in Store /\ store.bindings \in Bindings
  BY <1>1, PhasesRunning
<1>3. t \in Task /\ k \in Keys /\ t.b \in Binding
  BY <1>2 DEF TypeOK, Task
<1>4. next \in Bindings /\ Spent(next[k])
  <2>1. /\ [t.b EXCEPT !.st = "consumed", !.at = clock] \in Binding
        /\ [t.b EXCEPT !.st = "consumed", !.at = clock].st = "consumed"
    BY <1>2, <1>3 DEF Binding, Phase, Clocks
  <2> QED
    BY <1>2, <1>3, <2>1, AbsentAssumption DEF Bindings, Binding, Phase, Spent
<1> HIDE DEF effect, next
<1>5. done => k \in A
  <2> SUFFICES ASSUME same, saved.ok PROVE k \in A
    OBVIOUS
  <2>1. store' = saved.store
    BY <1>1
  <2>2. /\ SamePhase(next[k], saved.store.bindings[k])
        /\ saved.store.prior.bindings[k] = saved.store.bindings[k]
    BY <1>2, <1>3, <1>4, SavedPhase
  <2> HIDE DEF saved
  <2>3. PICK c : c = store'.prior.bindings[k]
    OBVIOUS
  <2>4. Spent(c)
    BY <1>4, <2>1, <2>2, <2>3 DEF SamePhase, Spent
  <2>5. k \notin turns /\ Finished(store', k)
    BY <2>3, <2>4 DEF Tells, Recorded
  <2> QED
    BY <1>1, <2>5 DEF Over
<1> DEFINE says == done
<1>6. says \in BOOLEAN
  <2>1. saved.ok \in BOOLEAN
    BY <1>2, <1>4, SaveType DEF SaveBindings, Store
  <2> QED
    BY <2>1
<1>7. Emit(src.sock, IF says THEN << <<"reply_acknowledged", k>> >> ELSE <<>>)
  BY <1>1
<1>8. says => k \in A
  BY <1>5
<1> HIDE DEF says, k
<1> QED
  BY <1>2, <1>3, <1>6, <1>7, <1>8, OneFrameSays

\* A retirement is confirmed once no snapshot binds the receipt to its owner.
LEMMA RetireSays ==
  ASSUME PhaseInv, NEW A, NEW R, Saying(A, R), NEW s \in Sockets, NEW k \in Keys,
         NEW outcome, RetireReplyAck(s, k, outcome), Told(k), Tells(k), Over(k),
         Parted(SocketOwner[s], k)' => <<SocketOwner[s], k>> \in R
  PROVE  Saying(A, R)'
<1> DEFINE b == store.bindings[k]
           t == store.tombstones[k]
           active == ActiveOwners(link)
           without == [store.bindings EXCEPT ![k] = NoBinding]
           unburied == [store.tombstones EXCEPT ![k] = NoTombstone]
           owned == Retirable(b, SocketOwner[s])
           buried == b = NoBinding /\ t # NoTombstone /\ t.inst = SocketOwner[s]
           nothing == b = NoBinding /\ t = NoTombstone
           dropped == SaveBindings(store, without, active, outcome)
           cleared == Save(store, store.bindings, unburied, FALSE, active, outcome)
           saved == IF owned THEN dropped ELSE cleared
           removed == (owned \/ buried) /\ saved.ok
           says == nothing \/ removed
           i == SocketOwner[s]
<1>1. /\ running /\ turns' = turns /\ running' = running
      /\ store' = IF owned \/ buried THEN saved.store ELSE store
      /\ Emit(s, IF says THEN << <<"reply_ack_retired", k>> >> ELSE <<>>)
  BY DEF RetireReplyAck, Takes
<1>2. /\ TypeOK /\ Clocks /\ store \in Store /\ Live(store)
      /\ store.bindings \in Bindings /\ store.tombstones \in Tombstones
  BY <1>1, PhasesRunning DEF Told
<1>3. Finished(store', k) /\ k \notin turns'
  BY <1>1 DEF Tells, Settles, Over
<1>4. b = NoBinding => Released(store', i, k)
  <2> SUFFICES ASSUME b = NoBinding PROVE Released(store', i, k)
    OBVIOUS
  <2>1. store.prior.bindings[k] = NoBinding
    BY <1>2 DEF Live
  <2>2. store.disk.bindings[k] = NoBinding
    BY <2>1 DEF Told, Recorded, Over, Finished, Done, Unproved
  <2>3. Released(store, i, k)
    BY <2>1, <2>2 DEF Released
  <2> QED
    BY <2>3 DEF Tells, Settles, Over
<1>5. owned /\ saved.ok => Released(store', i, k)
  <2> SUFFICES ASSUME owned, dropped.ok PROVE Released(store', i, k)
    OBVIOUS
  <2>1. without \in Bindings /\ without[k] = NoBinding
    BY <1>2 DEF Bindings
  <2> HIDE DEF without
  <2>2. /\ SamePhase(without[k], dropped.store.bindings[k])
        /\ dropped.store.disk.bindings[k] = dropped.store.bindings[k]
        /\ dropped.store.prior.bindings[k] = dropped.store.bindings[k]
    BY <1>2, <2>1, SavedPhase
  <2>3. store' = dropped.store
    BY <1>1
  <2> HIDE DEF dropped
  <2>4. store'.disk.bindings[k] = NoBinding /\ store'.prior.bindings[k] = NoBinding
    BY <2>1, <2>2, <2>3 DEF SamePhase
  <2> QED
    BY <2>4 DEF Released
<1>6. says \in BOOLEAN
  <2>1. dropped.ok \in BOOLEAN /\ cleared.ok \in BOOLEAN
    <3>1. without \in Bindings /\ unburied \in Tombstones
      BY <1>2 DEF Bindings, Tombstones
    <3> HIDE DEF without, unburied
    <3> QED
      BY <1>2, <3>1, SaveType DEF SaveBindings
  <2> HIDE DEF dropped, cleared, owned, buried, nothing
  <2> QED
    BY <2>1
<1>7. says => Released(store', i, k)
  BY <1>4, <1>5
<1>8. says => <<SocketOwner[s], k>> \in R
  BY <1>3, <1>7 DEF Parted, Over
<1> HIDE DEF says
<1> QED
  BY <1>1, <1>2, <1>6, <1>8, OneFrameSays

\* Whatever the bridge says by a step is true after it.
LEMMA BridgeSays ==
  ASSUME PhaseInv, Unspent, BridgeNext, NEW A, NEW R, Saying(A, R),
         \A k \in Keys : /\ Told(k) /\ Tells(k)
                         /\ Over(k) \/ Over(k)' => k \in A
                         /\ \A i \in Installations : Parted(i, k)' => <<i, k>> \in R,
         \A s \in Sockets, k \in Keys :
           <<"reply_ack_retire", k>> \in Queued(s) => Over(k)
  PROVE  Saying(A, R)'
<1>1. TypeOK
  BY DEF PhaseInv, OwnersInv, BridgeInv
<1>2. CASE down' = down
  BY <1>2 DEF Saying, Said
<1>3. ASSUME NEW s \in Sockets, NEW o \in SaveOutcomes, Hello(s, o)
      PROVE  Saying(A, R)'
  BY <1>1, <1>3, HelloSays
<1>4. ASSUME NEW s \in Sockets, NEW k \in Keys, NEW w, NEW o, Prepare(s, k, w, o)
      PROVE  Saying(A, R)'
  <2>1. \E P \in BOOLEAN : Emit(s, IF P THEN << <<"agent_end", k>> >> ELSE <<>>)
    <3>1. \/ Emit(s, << <<"agent_end", k>> >>)
          \/ Emit(s, <<>>)
      BY <1>4 DEF Prepare
    <3> QED
      BY <3>1
  <2> QED
    BY <1>1, <2>1, OneFrameSays
<1>5. ASSUME NEW s \in Sockets, NEW k \in Keys, NEW o, ReceiveReplyAck(s, k, o)
      PROVE  Saying(A, R)'
  <2>1. \E P \in BOOLEAN : Emit(s, IF P THEN << <<"reply_received", k>> >> ELSE <<>>)
    <3>1. \/ Emit(s, << <<"reply_received", k>> >>)
          \/ Emit(s, <<>>)
      BY <1>5 DEF ReceiveReplyAck
    <3> QED
      BY <3>1
  <2> QED
    BY <1>1, <2>1, OneFrameSays
<1>6. ASSUME NEW s \in Sockets, NEW k \in Keys, AcknowledgeReplyAck(s, k)
      PROVE  Saying(A, R)'
  <2>1. running /\ Acknowledge(SourceOf(s), k, timers) /\ SourceOf(s) \in Source
    BY <1>6, SourceType DEF AcknowledgeReplyAck, Takes
  <2> QED
    BY <1>1, <2>1, AcknowledgeSays
<1>7. ASSUME NEW k \in Keys, RetryTimer(k) PROVE Saying(A, R)'
  <2>1. /\ running /\ timers[k] \in Source
        /\ Acknowledge(timers[k], k, [timers EXCEPT ![k] = NoTimer])
    BY <1>1, <1>7 DEF RetryTimer, TypeOK
  <2> QED
    BY <1>1, <2>1, AcknowledgeSays
<1>8. ASSUME NEW t \in tasks, NEW o \in SaveOutcomes, ConsumeAnswered(t, o)
      PROVE  Saying(A, R)'
  <2>1. t.key \in Keys
    BY <1>1 DEF TypeOK, Task
  <2> QED
    BY <1>8, <2>1, ConsumeAnsweredSays
<1>9. ASSUME NEW s \in Sockets, NEW k \in Keys, NEW o, RetireReplyAck(s, k, o)
      PROVE  Saying(A, R)'
  <2>1. <<"reply_ack_retire", k>> \in Queued(s)
    BY <1>1, <1>9, TakesShrinks DEF RetireReplyAck
  <2> QED
    BY <1>9, <2>1, OwnerAssumption, RetireSays
<1>10. ASSUME NEW s \in Sockets, NEW o, Close(s, o)
       PROVE  Saying(A, R)'
  <2>1. \A x \in Sockets : down'[x] \in {down[x], <<>>}
    BY <1>1, <1>10 DEF Close, TypeOK
  <2> QED
    BY <1>1, <2>1, LessSays
<1>11. Crash => Saying(A, R)'
  <2> SUFFICES ASSUME Crash PROVE Saying(A, R)'
    OBVIOUS
  <2>1. \A x \in Sockets : down'[x] \in {down[x], <<>>}
    BY DEF Crash
  <2> QED
    BY <1>1, <2>1, LessSays
<1>12. /\ \A t : ConsumeFailed(t) \/ ConfirmationSent(t) => down' = down
       /\ \A o : PeriodicSweep(o) => down' = down
       /\ Start \/ Tick \/ Rollback => down' = down
       /\ \A k : TelepathosdConsumes(k) => down' = down
  BY DEF ConsumeFailed, ConfirmationSent, PeriodicSweep, Start, Tick, Rollback,
         TelepathosdConsumes
<1> QED
  BY <1>2, <1>3, <1>4, <1>5, <1>6, <1>7, <1>8, <1>9, <1>10, <1>11, <1>12
     DEF BridgeNext

\* A socket takes up prepared and received receipts only.
LEMMA UnspentKept ==
  ASSUME PhaseInv, BridgeNext, Unspent
  PROVE  Unspent'
<1>1. TypeOK /\ pending \in [Sockets -> Bindings]
  BY DEF PhaseInv, OwnersInv, BridgeInv, TypeOK
<1>2. CASE pending' = pending
  BY <1>2 DEF Unspent
<1>3. ASSUME \A x \in Sockets, y \in Keys :
               \/ pending'[x][y] \in {pending[x][y], NoBinding}
               \/ ~Spent(pending'[x][y])
      PROVE  Unspent'
  BY <1>3 DEF Unspent, Spent
<1>4. ASSUME NEW s \in Sockets, NEW o, Hello(s, o) PROVE Unspent'
  <2> DEFINE replayed == {k \in Present(store'.bindings, NoBinding) :
                            /\ store'.bindings[k].st = "prepared"
                            /\ store'.bindings[k].inst = SocketOwner[s]}
  <2>1. pending' = [pending EXCEPT ![s] =
          [k \in Keys |-> IF k \in replayed THEN store'.bindings[k] ELSE @[k]]]
    BY <1>4 DEF Hello
  <2>2. \A k \in replayed : ~Spent(store'.bindings[k])
    BY DEF Spent
  <2> HIDE DEF replayed
  <2>3. \A x \in Sockets, y \in Keys :
          \/ pending'[x][y] = pending[x][y]
          \/ y \in replayed /\ pending'[x][y] = store'.bindings[y]
    BY <1>1, <2>1 DEF Bindings
  <2> QED
    BY <1>3, <2>2, <2>3
<1>5. ASSUME NEW s \in Sockets, NEW k \in Keys, NEW w, NEW o, Prepare(s, k, w, o)
      PROVE  Unspent'
  <2> DEFINE st == Sweep(store, link, w)
             b == Envelope(st, SocketOwner[s])
             next == [st.bindings EXCEPT ![k] = b]
             saved == SaveBindings(st, next, ActiveOwners(link), o)
  <2>1. /\ running
        /\ \/ pending' = pending
           \/ saved.ok /\ pending' = [pending EXCEPT ![s][k] = saved.store.bindings[k]]
    BY <1>5 DEF Prepare
  <2>2. Clocks /\ SocketOwner[s] \in Installations /\ st \in Store
    BY <2>1, PhasesRunning, OwnerAssumption, SweepType
  <2> HIDE DEF st
  <2>3. b \in Binding /\ b.st = "prepared" /\ b # NoBinding
    <3>1. Later(Later(st.seen[SocketOwner[s]], clock), startedAt) \in Nat
      BY <2>2, LaterType DEF Clocks, Store
    <3> QED
      BY <2>2, <3>1, AbsentAssumption DEF Envelope, Binding, Phase, Clocks
  <2> HIDE DEF b
  <2>4. next \in Bindings /\ next[k] = b
    BY <2>2, <2>3 DEF Store, Bindings
  <2> HIDE DEF next
  <2>5. saved.ok => ~Spent(saved.store.bindings[k])
    <3>1. saved.ok => SamePhase(next[k], saved.store.bindings[k])
      BY <2>2, <2>4, SavedPhase
    <3> QED
      BY <2>3, <2>4, <3>1 DEF SamePhase, Spent
  <2> HIDE DEF saved
  <2>6. \A x \in Sockets, y \in Keys :
          \/ pending'[x][y] = pending[x][y]
          \/ ~Spent(pending'[x][y])
    BY <1>1, <2>1, <2>5 DEF Bindings
  <2> QED
    BY <1>3, <2>6
<1>6. ASSUME NEW s \in Sockets, NEW k \in Keys, NEW o, ReceiveReplyAck(s, k, o)
      PROVE  Unspent'
  <2> DEFINE b == Owned(SourceOf(s), k)
             effect == IF clock < b.at THEN "pre" ELSE o
             next == [store.bindings EXCEPT ![k] = [b EXCEPT !.st = "received", !.at = clock]]
             saved == SaveBindings(store, next, ActiveOwners(link), effect)
  <2>1. /\ running
        /\ \/ pending' = pending
           \/ /\ b # NoBinding /\ saved.ok
              /\ pending' = [pending EXCEPT ![s][k] = saved.store.bindings[k]]
    BY <1>6 DEF ReceiveReplyAck, Takes
  <2>2. Clocks /\ store \in Store /\ store.bindings \in Bindings
    BY <2>1, PhasesRunning
  <2>3. b # NoBinding => b \in Binding
    BY <1>1, SourceType, OwnedType
  <2> HIDE DEF b, effect
  <2>4. b # NoBinding =>
          next \in Bindings /\ next[k] # NoBinding /\ next[k].st = "received"
    <3>1. b # NoBinding =>
            /\ [b EXCEPT !.st = "received", !.at = clock] \in Binding
            /\ [b EXCEPT !.st = "received", !.at = clock].st = "received"
      BY <2>2, <2>3 DEF Binding, Phase, Clocks
    <3> QED
      BY <2>2, <3>1, AbsentAssumption DEF Bindings, Binding, Phase
  <2> HIDE DEF next
  <2>5. b # NoBinding /\ saved.ok => ~Spent(saved.store.bindings[k])
    <3>1. b # NoBinding /\ saved.ok => SamePhase(next[k], saved.store.bindings[k])
      BY <2>2, <2>4, SavedPhase
    <3> QED
      BY <2>4, <3>1 DEF SamePhase, Spent
  <2> HIDE DEF saved
  <2>6. \A x \in Sockets, y \in Keys :
          \/ pending'[x][y] = pending[x][y]
          \/ ~Spent(pending'[x][y])
    BY <1>1, <2>1, <2>5 DEF Bindings
  <2> QED
    BY <1>3, <2>6
<1>7. ASSUME NEW s \in Sockets, NEW k \in Keys, NEW o, RetireReplyAck(s, k, o)
      PROVE  Unspent'
  <2>1. \/ pending' = pending
        \/ pending' = [pending EXCEPT ![s][k] = NoBinding]
    BY <1>7 DEF RetireReplyAck
  <2>2. \A x \in Sockets, y \in Keys : pending'[x][y] \in {pending[x][y], NoBinding}
    BY <1>1, <2>1 DEF Bindings
  <2> QED
    BY <1>3, <2>2
<1>8. ASSUME NEW t \in tasks, ConfirmationSent(t) PROVE Unspent'
  <2>1. \/ pending' = pending
        \/ pending' = [pending EXCEPT ![t.src.sock][t.key] = NoBinding]
    BY <1>8 DEF ConfirmationSent
  <2>2. \A x \in Sockets, y \in Keys : pending'[x][y] \in {pending[x][y], NoBinding}
    BY <1>1, <2>1 DEF Bindings
  <2> QED
    BY <1>3, <2>2
<1>9. ASSUME NEW s \in Sockets, NEW o, Close(s, o) PROVE Unspent'
  <2>1. \A x \in Sockets, y \in Keys : pending'[x][y] \in {pending[x][y], NoBinding}
    BY <1>1, <1>9 DEF Close, EmptyBindings
  <2> QED
    BY <1>3, <2>1
<1>10. Crash => Unspent'
  BY DEF Crash, EmptyBindings, Unspent, Spent
<1>11. /\ \A s, k : AcknowledgeReplyAck(s, k) => pending' = pending
       /\ \A k : RetryTimer(k) \/ TelepathosdConsumes(k) => pending' = pending
       /\ \A t, o : ConsumeAnswered(t, o) => pending' = pending
       /\ \A t : ConsumeFailed(t) => pending' = pending
       /\ \A o : PeriodicSweep(o) => pending' = pending
       /\ Start \/ Tick \/ Rollback => pending' = pending
  BY DEF AcknowledgeReplyAck, RetryTimer, TelepathosdConsumes, ConsumeAnswered,
         ConsumeFailed, PeriodicSweep, Start, Tick, Rollback
<1> QED
  BY <1>2, <1>4, <1>5, <1>6, <1>7, <1>8, <1>9, <1>10, <1>11 DEF BridgeNext

\* Who asks, asks truly: a handset proves what it holds, acknowledges what it
\* heard, and asks to retire what is over.
Asking ==
  \A s \in Sockets, k \in Keys :
    /\ <<"reply_received", k>> \in Queued(s) => Over(k) \/ Holds(SocketOwner[s], k)
    /\ <<"reply_ack_retire", k>> \in Queued(s) => Over(k)

Answerers == {x \in Installations \X Keys : Answered(x[1], x[2])}

\* Every step of the bridge records truly.
LEMMA BridgeTells ==
  ASSUME PhaseInv, BridgeNext, Asking, Vouched(Answerers), NEW x \in Keys, Told(x)
  PROVE  Tells(x)
<1>1. TypeOK
  BY DEF PhaseInv, OwnersInv, BridgeInv
<1>2. ASSUME NEW s \in Sockets, NEW k \in Keys, NEW o, ReceiveReplyAck(s, k, o)
      PROVE  Tells(x)
  <2>1. <<"reply_received", k>> \in Queued(s)
    BY <1>1, <1>2, TakesShrinks DEF ReceiveReplyAck
  <2> QED
    BY <1>2, <2>1, ReceiveTells DEF Asking
<1>3. ASSUME NEW t \in tasks, NEW o, ConsumeAnswered(t, o) PROVE Tells(x)
  <2>1. t.b.inst = t.src.inst /\ <<t.src.inst, t.key>> \in Answerers
    BY DEF Vouched
  <2>2. Answered(t.src.inst, t.key)
    BY <2>1 DEF Answerers
  <2> QED
    BY <1>3, <2>1, <2>2, ConsumeAnsweredTells
<1>4. /\ \A s, k : AcknowledgeReplyAck(s, k) => store' = store /\ running' = running
      /\ \A k : RetryTimer(k) \/ TelepathosdConsumes(k) =>
                  store' = store /\ running' = running
      /\ \A t : ConsumeFailed(t) \/ ConfirmationSent(t) =>
                  store' = store /\ running' = running
      /\ Tick \/ Rollback => store' = store /\ running' = running
  BY DEF AcknowledgeReplyAck, RetryTimer, TelepathosdConsumes, ConsumeFailed,
         ConfirmationSent, Tick, Rollback
<1> QED
  BY <1>2, <1>3, <1>4, HelloTells, PrepareTells, RetireTells, CloseTells,
     PeriodicSweepTells, CrashTells, StartTells, QuietTells DEF BridgeNext

-----------------------------------------------------------------------------
(* The invariant of the two stores, and the steps of the bridge *)

\* Each installation has one socket the bridge has not seen closed.
Single ==
  \A s, t \in Sockets :
    /\ link[s] # "closed" /\ link[t] # "closed"
    /\ SocketOwner[s] = SocketOwner[t]
    => s = t

Ended == {k \in Keys : Over(k)}
Partings == {x \in Installations \X Keys : Parted(x[1], x[2])}

\* A handset enters terminal retirement when its receipt is over, and erases it
\* when the bridge has no record of it left.
Retirements ==
  /\ \A i \in Installations, k \in Keys :
       phase[i][k] = "retirement_pending" => Over(k)
  /\ settled \subseteq Partings

ProofInv ==
  /\ ExchangeInv /\ PhaseInv /\ Single
  /\ \A i \in Installations : current[i] # NoSocket => SocketOwner[current[i]] = i
  /\ \A k \in Keys : Told(k)
  /\ Unspent /\ Asking /\ Vouched(Answerers)
  /\ Saying(Ended, Partings)
  /\ Retirements

\* The steps of the bridge open no link, and begin no turn.
LEMMA BridgeLinks ==
  ASSUME TypeOK, BridgeNext
  PROVE  /\ \A s \in Sockets : link'[s] # "closed" => link[s] # "closed"
         /\ turns' \subseteq turns
<1>1. CASE link' = link /\ turns' = turns
  BY <1>1
<1>2. ASSUME NEW s \in Sockets, NEW o, Hello(s, o)
      PROVE  /\ link' = [link EXCEPT ![s] = "open"] /\ turns' = turns
             /\ link[s] = "opening"
  BY <1>2 DEF Hello
<1>3. \A s, k, w, o : Prepare(s, k, w, o) => link' = link /\ turns' = turns \ {k}
  BY DEF Prepare
<1>4. ASSUME NEW s \in Sockets, NEW o, Close(s, o)
      PROVE  link' = [link EXCEPT ![s] = "closed"] /\ turns' = turns
  BY <1>4 DEF Close
<1>5. Crash => turns' = turns /\ \A s \in Sockets : link'[s] = "closed"
  BY DEF Crash
<1>8. \A s, k, o : RetireReplyAck(s, k, o) => link' = link /\ turns' = turns
  BY DEF RetireReplyAck
<1>9. \A s, k, o : ReceiveReplyAck(s, k, o) => link' = link /\ turns' = turns
  BY DEF ReceiveReplyAck
<1>6. /\ \A s, k : AcknowledgeReplyAck(s, k) => link' = link /\ turns' = turns
      /\ \A k : RetryTimer(k) \/ TelepathosdConsumes(k) => link' = link /\ turns' = turns
      /\ \A t, o : ConsumeAnswered(t, o) => link' = link /\ turns' = turns
      /\ \A t : ConsumeFailed(t) \/ ConfirmationSent(t) => link' = link /\ turns' = turns
      /\ \A o : PeriodicSweep(o) => link' = link /\ turns' = turns
      /\ Start \/ Tick \/ Rollback => link' = link /\ turns' = turns
  BY DEF AcknowledgeReplyAck, RetryTimer, TelepathosdConsumes, ConsumeAnswered, ConsumeFailed, ConfirmationSent,
         PeriodicSweep, Start, Tick, Rollback
<1>7. link \in [Sockets -> {"closed", "opening", "open"}]
  BY DEF TypeOK
<1> QED
  BY <1>1, <1>2, <1>3, <1>4, <1>5, <1>6, <1>7, <1>8, <1>9 DEF BridgeNext

\* What the invariant says of open sockets.
LEMMA SingleOpen ==
  ASSUME Single PROVE OneOpenEach
BY DEF Single, OneOpenEach

\* What is over stays over, and parted.
LEMMA OverStays ==
  ASSUME NEW k \in Keys, Settles(store, store', k), turns' \subseteq turns
  PROVE  /\ Over(k) => Over(k)'
         /\ \A i : Parted(i, k) => Parted(i, k)'
BY DEF Settles, Over, Parted

\* Every step of the bridge keeps the two stores in step.
LEMMA BridgeStepProves ==
  ASSUME ProofInv, BridgeStep
  PROVE  ProofInv'
<1>1. /\ ExchangeInv /\ PhaseInv /\ TypeOK /\ BridgeNext /\ UNCHANGED handset
  BY DEF ProofInv, BridgeStep, PhaseInv, OwnersInv, BridgeInv
<1>2. ExchangeInv'
  BY <1>1, ExchangeStepEarns DEF ExchangeNext, BridgeStep
<1>3. PhaseInv'
  BY <1>1, SingleOpen, StepPhases DEF Next, ProofInv
<1>4. \A k \in Keys : Tells(k)
  BY <1>1, BridgeTells DEF ProofInv
<1>5. /\ \A s \in Sockets : link'[s] # "closed" => link[s] # "closed"
      /\ turns' \subseteq turns
  BY <1>1, BridgeLinks
<1>6. /\ \A k \in Keys : Over(k) => Over(k)'
      /\ \A k \in Keys : \A i : Parted(i, k) => Parted(i, k)'
  BY <1>4, <1>5, OverStays DEF Tells
<1>7. phase' = phase /\ settled' = settled /\ current' = current
  BY <1>1 DEF handset
<1>8. \A i, k : /\ Holds(i, k)' <=> Holds(i, k)
                /\ Confirms(i, k)' <=> Confirms(i, k)
  BY <1>7 DEF Holds, Confirms
<1>9. \A k \in Keys : Told(k)'
  BY <1>4, <1>5, <1>8 DEF Tells, Told, Recorded, Matches, Finished, Entombed, Live
<1>10. Asking'
  <2>1. \A s \in Sockets : Queued(s)' \subseteq Queued(s)
    BY <1>1, BridgeShrinks
  <2> QED
    BY <1>6, <1>8, <2>1 DEF ProofInv, Asking
<1>11. Vouched(Answerers)'
  <2>1. PICK P : P = Answerers
    OBVIOUS
  <2>2. Vouched(P)'
    BY <1>1, <2>1, BridgeVouched DEF ProofInv
  <2>3. P \subseteq Answerers'
    BY <1>6, <1>8, <2>1 DEF Answerers, Answered
  <2> QED
    BY <2>2, <2>3 DEF Vouched
<1>12. Saying(Ended, Partings)'
  <2>1. PICK A, R : A = Ended' /\ R = Partings'
    OBVIOUS
  <2>2. Saying(A, R)
    BY <1>6, <2>1 DEF ProofInv, Saying, Ended, Partings
  <2>3. \A k \in Keys : /\ Told(k) /\ Tells(k)
                        /\ Over(k) \/ Over(k)' => k \in A
                        /\ \A i \in Installations : Parted(i, k)' => <<i, k>> \in R
    BY <1>4, <1>6, <2>1 DEF ProofInv, Ended, Partings
  <2>4. Saying(A, R)'
    BY <1>1, <2>2, <2>3, BridgeSays DEF ProofInv, Asking
  <2> QED
    BY <2>1, <2>4 DEF Saying
<1>13. Unspent'
  BY <1>1, UnspentKept DEF ProofInv
<1>14. Single'
  BY <1>5 DEF ProofInv, Single
<1>15. Retirements'
  BY <1>6, <1>7 DEF ProofInv, Retirements, Partings
<1>16. \A i \in Installations : current'[i] # NoSocket => SocketOwner[current'[i]] = i
  BY <1>7 DEF ProofInv
<1> QED
  BY <1>2, <1>3, <1>9, <1>10, <1>11, <1>12, <1>13, <1>14, <1>15, <1>16 DEF ProofInv

-----------------------------------------------------------------------------
(* The steps of the handsets *)

\* The frames of installation i are queued on its own socket, or not at all.
Sends(i, frames) ==
  \A s \in Sockets : \A f \in Queued(s)' :
    f \in Queued(s) \/ (s = current[i] /\ f \in frames)

\* Frames of installation i that are true after the step that queues them.
Honest(i, frames) ==
  \A k \in Keys :
    /\ <<"reply_received", k>> \in frames => Holds(i, k)' \/ Over(k)
    /\ <<"reply_ack", k>> \in frames => Confirms(i, k)' \/ Over(k)
    /\ <<"reply_ack_retire", k>> \in frames => Over(k)

\* A command is what its phase says.
LEMMA CommandHonest ==
  ASSUME NEW p, NEW k \in Keys, NEW x \in Keys
  PROVE  /\ <<"reply_received", x>> \in Command(p, k) =>
              x = k /\ p \in {"receipt_pending", "receipt_pending_suppressed"}
         /\ <<"reply_ack", x>> \in Command(p, k) => x = k /\ p = "ready"
         /\ <<"reply_ack_retire", x>> \in Command(p, k) =>
              x = k /\ p = "retirement_pending"
<1>1. CASE p \in {"receipt_pending", "receipt_pending_suppressed"}
  BY <1>1 DEF Command
<1>2. CASE p = "ready"
  BY <1>2 DEF Command
<1>3. CASE p = "retirement_pending"
  BY <1>3 DEF Command
<1>4. CASE p \notin {"receipt_pending", "receipt_pending_suppressed", "ready",
                     "retirement_pending"}
  BY <1>4 DEF Command
<1> QED
  BY <1>1, <1>2, <1>3, <1>4

\* Frames are queued behind the others of the socket.
LEMMA QueueSends ==
  ASSUME TypeOK, NEW i, NEW frames \in SUBSET UpFrame,
         \/ up' = up
         \/ up' = [up EXCEPT ![current[i]] =
                     @ \o SetToSeq(frames \ Queued(current[i]))]
  PROVE  Sends(i, frames)
<1>1. CASE up' = up
  BY <1>1 DEF Sends, Queued
<1>2. CASE up' = [up EXCEPT ![current[i]] =
                    @ \o SetToSeq(frames \ Queued(current[i]))]
  <2> DEFINE new == SetToSeq(frames \ Queued(current[i]))
  <2>1. new \in Seq(frames \ Queued(current[i]))
    BY FramesFinite, SetToSeqType
  <2>2. new \in Seq(frames) /\ \A n \in 1..Len(new) : new[n] \in frames
    <3>1. PICK t, X : t = new /\ X = frames \ Queued(current[i])
      OBVIOUS
    <3>2. t \in Seq(X) /\ \A f \in X : f \in frames
      BY <2>1, <3>1
    <3>3. t \in Seq(frames) /\ \A n \in 1..Len(t) : t[n] \in frames
      BY <3>2
    <3> QED
      BY <3>1, <3>3
  <2>3. \A s \in Sockets : up[s] \in Seq(UpFrame)
    BY DEF TypeOK
  <2>4. \A s \in Sockets : up'[s] = IF s = current[i] THEN up[s] \o new ELSE up[s]
    BY <1>2 DEF TypeOK
  <2> HIDE DEF new, UpFrame
  <2>5. ASSUME NEW s \in Sockets, NEW n \in 1..Len(up'[s])
        PROVE  \/ \E m \in 1..Len(up[s]) : up'[s][n] = up[s][m]
               \/ s = current[i] /\ up'[s][n] \in frames
    <3>1. CASE s = current[i]
      <4>1. up'[s] = up[s] \o new
        BY <2>4, <3>1
      <4>2. PICK q : q = up[s]
        OBVIOUS
      <4>3. /\ q \in Seq(UpFrame) /\ n \in 1..Len(q \o new)
            /\ up'[s][n] = (q \o new)[n]
        BY <2>3, <4>1, <4>2
      <4>4. \/ n \in 1..Len(q) /\ (q \o new)[n] = q[n]
            \/ n - Len(q) \in 1..Len(new) /\ (q \o new)[n] = new[n - Len(q)]
        BY <2>2, <4>3, ConcatElements
      <4> QED
        BY <2>2, <3>1, <4>2, <4>3, <4>4
    <3>2. CASE s # current[i]
      BY <2>4, <3>2
    <3> QED
      BY <3>1, <3>2
  <2>6. ASSUME NEW s \in Sockets, NEW f \in Queued(s)'
        PROVE  f \in Queued(s) \/ (s = current[i] /\ f \in frames)
    <3>1. PICK n \in 1..Len(up'[s]) : f = up'[s][n]
      BY <2>6 DEF Queued
    <3> QED
      BY <2>5, <3>1 DEF Queued
  <2> QED
    BY <2>6 DEF Sends
<1> QED
  BY <1>1, <1>2

\* So are the frames of a push.
LEMMA PushSends ==
  ASSUME TypeOK, NEW i, NEW frames \in SUBSET UpFrame, Push(i, frames)
  PROVE  Sends(i, frames)
BY QueueSends DEF Push

\* A step of a handset whose frames are honest, that gives up a receipt when it
\* is over and its proof when it parted, keeps the two stores in step.
LEMMA HandsetProves ==
  ASSUME ProofInv, ExchangeInv', UNCHANGED bridgeRest, TakesDown,
         NEW i \in Installations, NEW frames, Sends(i, frames), Honest(i, frames),
         \A j \in Installations, k \in Keys :
           /\ Holds(j, k) => Holds(j, k)' \/ Over(k)
           /\ Confirms(j, k) => Confirms(j, k)' \/ Parted(j, k)
           /\ phase'[j][k] = "retirement_pending" => Over(k),
         settled' \subseteq Partings,
         \A j \in Installations : current'[j] \in {current[j], NoSocket}
  PROVE  ProofInv'
<1>1. /\ UNCHANGED <<store, turns, pending, tasks, timers, link, running, clock,
                     idle, startedAt>>
      /\ TypeOK
  BY DEF bridgeRest, ProofInv, PhaseInv, OwnersInv, BridgeInv
<1>2. \A k : /\ Over(k)' <=> Over(k)
             /\ \A j : Parted(j, k)' <=> Parted(j, k)
  BY <1>1 DEF Over, Parted, Finished, Released
<1>3. PhaseInv'
  BY <1>1 DEF ProofInv, PhaseInv, OwnersInv, CallsReceived, HeldAlike, NotYetBound,
              Unbound, PendingOwned, Sighted, ActiveOwners, LastSeenAt, ExchangeInv
<1>4. Single' /\ Unspent'
  BY <1>1 DEF ProofInv, Single, Unspent
<1>5. \A j \in Installations : current'[j] # NoSocket => SocketOwner[current'[j]] = j
  BY DEF ProofInv
<1>6. ASSUME NEW k \in Keys PROVE Told(k)'
  <2>1. Told(k) /\ store \in Store
    BY <1>1 DEF ProofInv, TypeOK
  <2>2. ASSUME NEW b \in {store.disk.bindings[k], store.prior.bindings[k]}
        PROVE  Matches(b, k)'
    <3>1. SUFFICES ASSUME b # NoBinding
                   PROVE  /\ b.st = "received" => Holds(b.inst, k)'
                          /\ b.st = "consumed" => Confirms(b.inst, k)'
      BY DEF Matches, Holds, Confirms
    <3>2. b.inst \in Installations /\ Matches(b, k)
      BY <2>1, <3>1 DEF Store, Snapshot, Bindings, Binding, Told, Recorded
    <3>3. b.st = "received" => ~Over(k)
      BY <3>1 DEF Over, Finished, Done
    <3>4. ~Parted(b.inst, k)
      BY <3>1 DEF Parted, Released
    <3> QED
      BY <3>1, <3>2, <3>3, <3>4 DEF Matches
  <2> QED
    BY <1>1, <2>1, <2>2 DEF Told, Recorded, Finished, Entombed, Live
<1>7. SocketOwner[current[i]] = i \/ current[i] = NoSocket
  BY DEF ProofInv
<1>8. \A s \in Sockets : \A f \in Queued(s)' :
        f \in Queued(s) \/ (SocketOwner[s] = i /\ f \in frames)
  BY <1>7, AbsentAssumption DEF Sends
<1>9. \A s \in Sockets : SocketOwner[s] \in Installations
  BY OwnerAssumption
<1>10. Asking'
  BY <1>2, <1>8, <1>9 DEF ProofInv, Asking, Honest
<1>11. \A j \in Installations, k \in Keys : Answered(j, k) => Answered(j, k)'
  BY <1>2 DEF Answered, Parted
<1>12. Answerers \subseteq Answerers'
  BY <1>11 DEF Answerers
<1>13. Vouched(Answerers)'
  <2>1. \A s \in Sockets, k \in Keys :
          <<"reply_ack", k>> \in Queued(s)' => <<SocketOwner[s], k>> \in Answerers'
    <3> SUFFICES ASSUME NEW s \in Sockets, NEW k \in Keys,
                        <<"reply_ack", k>> \in Queued(s)'
                 PROVE  <<SocketOwner[s], k>> \in Answerers'
      OBVIOUS
    <3>1. CASE <<"reply_ack", k>> \in Queued(s)
      BY <1>12, <3>1 DEF ProofInv, Vouched
    <3>2. CASE SocketOwner[s] = i /\ <<"reply_ack", k>> \in frames
      BY <1>2, <3>2 DEF Honest, Answerers, Answered
    <3> QED
      BY <1>8, <3>1, <3>2
  <2> QED
    BY <1>1, <1>12, <2>1 DEF ProofInv, Vouched
<1>14. Saying(Ended, Partings)'
  <2>1. PICK A, R : A = Ended /\ R = Partings
    OBVIOUS
  <2>2. A = Ended' /\ R = Partings'
    BY <1>2, <2>1 DEF Ended, Partings
  <2>3. \A s \in Sockets : \/ down'[s] \in {down[s], <<>>}
                           \/ down[s] # <<>> /\ down'[s] = Tail(down[s])
    BY <1>1 DEF TakesDown, TypeOK
  <2>4. Saying(A, R)'
    BY <1>1, <2>1, <2>3, LessSays DEF ProofInv
  <2> QED
    BY <2>2, <2>4 DEF Saying
<1>15. Retirements'
  BY <1>2 DEF Retirements, Partings
<1> QED
  BY <1>3, <1>4, <1>5, <1>6, <1>10, <1>13, <1>14, <1>15 DEF ProofInv

\* What a step of a handset needs of the invariant.
LEMMA ProofParts ==
  ASSUME ProofInv
  PROVE  TypeOK /\ ExchangeTypeOK /\ Retirements /\ Saying(Ended, Partings)
BY DEF ProofInv, ExchangeInv, BridgeInv

\* A step of a handset that queues nothing.
LEMMA NothingSent ==
  ASSUME NEW i, up' = up
  PROVE  Sends(i, {}) /\ Honest(i, {})
BY DEF Sends, Honest, Queued

\* What a command says is as true as the phase it repeats.
LEMMA PhaseHonest ==
  ASSUME ProofInv, NEW i \in Installations, NEW k \in Keys, NEW x \in Keys, NEW p,
         p \in {phase[i][k], phase'[i][k]},
         \A y \in Keys : /\ Holds(i, y) => Holds(i, y)' \/ Over(y)
                         /\ Confirms(i, y) => Confirms(i, y)' \/ Over(y)
                         /\ phase'[i][y] = "retirement_pending" => Over(y)
  PROVE  /\ <<"reply_received", x>> \in Command(p, k) => Holds(i, x)' \/ Over(x)
         /\ <<"reply_ack", x>> \in Command(p, k) => Confirms(i, x)' \/ Over(x)
         /\ <<"reply_ack_retire", x>> \in Command(p, k) => Over(x)
<1>1. p \in {"receipt_pending", "receipt_pending_suppressed"} => Holds(i, k)' \/ Over(k)
  BY DEF Holds
<1>2. p = "ready" => Confirms(i, k)' \/ Over(k)
  BY DEF Confirms
<1>3. p = "retirement_pending" => Over(k)
  BY DEF ProofInv, Retirements
<1> QED
  BY <1>1, <1>2, <1>3, CommandHonest

\* What the handset reads was said.
LEMMA ReadWasSaid ==
  ASSUME ExchangeTypeOK, NEW i \in Installations, NEW k \in Keys, NEW op,
         Reads(i, <<op, k>>)
  PROVE  current[i] \in Sockets /\ <<op, k>> \in Said(current[i])
<1>1. PICK q : q = down[current[i]]
  OBVIOUS
<1>2. current[i] \in Sockets /\ q \in Seq(DownFrame) /\ q # <<>> /\ Head(q) = <<op, k>>
  BY <1>1, ReadsTakes
<1> HIDE DEF DownFrame
<1>3. 1 \in 1..Len(q) /\ q[1] = <<op, k>>
  BY <1>2
<1> QED
  BY <1>1, <1>2, <1>3 DEF Said

\* Losing a socket, or frames nobody reads, changes no phase.
LEMMA DisconnectProves ==
  ASSUME ProofInv, ExchangeInv',
         Lost
  PROVE  ProofInv'
<1>1. PICK i \in Installations :
        /\ UNCHANGED <<bridgeRest, up, phase, settled>> /\ TakesDown
        /\ \A j \in Installations : current'[j] \in {current[j], NoSocket}
  <2>1. ASSUME NEW i \in Installations, NEW died \in BOOLEAN, Disconnect(i, died)
        PROVE  /\ UNCHANGED <<bridgeRest, up, phase, settled>> /\ TakesDown
               /\ \A j \in Installations : current'[j] \in {current[j], NoSocket}
    BY <2>1, ProofParts DEF Disconnect, TakesDown, ExchangeTypeOK
  <2>2. ASSUME NEW s \in Sockets, Unread(s)
        PROVE  /\ SocketOwner[s] \in Installations
               /\ UNCHANGED <<bridgeRest, up, phase, settled>> /\ TakesDown
               /\ \A j \in Installations : current'[j] \in {current[j], NoSocket}
    BY <2>2, OwnerAssumption DEF Unread, TakesDown, handset
  <2>3. ASSUME NEW i \in Installations, NEW k \in Keys, RefuseAgentEnd(i, k)
        PROVE  /\ UNCHANGED <<bridgeRest, up, phase, settled>> /\ TakesDown
               /\ \A j \in Installations : current'[j] \in {current[j], NoSocket}
    BY <2>3, ProofParts, ReadsTakes DEF RefuseAgentEnd, handset
  <2> QED
    BY <2>1, <2>2, <2>3 DEF Lost
<1>2. Sends(i, {}) /\ Honest(i, {})
  BY <1>1, NothingSent
<1>3. /\ \A j \in Installations, k \in Keys :
           /\ Holds(j, k) => Holds(j, k)' \/ Over(k)
           /\ Confirms(j, k) => Confirms(j, k)' \/ Parted(j, k)
           /\ phase'[j][k] = "retirement_pending" => Over(k)
      /\ settled' \subseteq Partings
  BY <1>1, ProofParts DEF Holds, Confirms, Retirements
<1> QED
  BY <1>1, <1>2, <1>3, HandsetProves

\* ready repeats what the phases say, and re-arming gives up none.
LEMMA ReadReadyProves ==
  ASSUME ProofInv, ExchangeInv', NEW i \in Installations, NEW saved \in BOOLEAN,
         ReadReady(i, saved)
  PROVE  ProofInv'
<1> DEFINE frames == UNION {Command(phase[i][k], k) : k \in Keys}
<1>1. frames \in SUBSET UpFrame
  BY CommandFrames
<1>2. /\ UNCHANGED <<bridgeRest, current, settled>> /\ TakesDown
      /\ \/ up' = up
         \/ up' = [up EXCEPT ![current[i]] = @ \o SetToSeq(frames \ Queued(current[i]))]
  BY ProofParts, ReadsTakes DEF ReadReady
<1>3. \A j \in Installations, k \in Keys :
        phase'[j][k] = phase[j][k] \/ phase'[j][k] = Rearm(phase[j][k])
  BY ProofParts DEF ReadReady, ExchangeTypeOK
<1>4. \A j \in Installations, k \in Keys :
        /\ Holds(j, k) => Holds(j, k)'
        /\ Confirms(j, k) => Confirms(j, k)'
        /\ phase'[j][k] = "retirement_pending" => Over(k)
  <2> SUFFICES ASSUME NEW j \in Installations, NEW k \in Keys
               PROVE  /\ Holds(j, k) => Holds(j, k)'
                      /\ Confirms(j, k) => Confirms(j, k)'
                      /\ phase'[j][k] = "retirement_pending" => Over(k)
    OBVIOUS
  <2>1. PICK p, q : p = phase[j][k] /\ q = phase'[j][k]
    OBVIOUS
  <2>2. p \in HandsetPhase /\ (q = p \/ q = Rearm(p))
        /\ (p = "retirement_pending" => Over(k))
    BY <1>3, <2>1, ProofParts DEF ExchangeTypeOK, Retirements
  <2>3. /\ q = "retirement_pending" => p = "retirement_pending"
        /\ p \notin {"absent", "retirement_pending"} =>
             q \notin {"absent", "retirement_pending"}
        /\ p \in {"ready", "retirement_pending"} => q \in {"ready", "retirement_pending"}
    BY <2>2 DEF Rearm, HandsetPhase
  <2> QED
    BY <2>1, <2>2, <2>3 DEF Holds, Confirms
<1>5. Honest(i, frames)
  <2> SUFFICES ASSUME NEW x \in Keys, NEW k \in Keys
               PROVE  /\ <<"reply_received", x>> \in Command(phase[i][k], k) =>
                           Holds(i, x)' \/ Over(x)
                      /\ <<"reply_ack", x>> \in Command(phase[i][k], k) =>
                           Confirms(i, x)' \/ Over(x)
                      /\ <<"reply_ack_retire", x>> \in Command(phase[i][k], k) => Over(x)
    BY DEF Honest
  <2>1. PICK p : p = phase[i][k]
    OBVIOUS
  <2> QED
    BY <1>4, <2>1, PhaseHonest
<1> HIDE DEF frames
<1>6. Sends(i, frames)
  BY <1>1, <1>2, ProofParts, QueueSends
<1>7. /\ settled' \subseteq Partings
      /\ \A j \in Installations : current'[j] \in {current[j], NoSocket}
  BY <1>2, ProofParts DEF Retirements
<1> QED
  BY <1>2, <1>4, <1>5, <1>6, <1>7, HandsetProves

\* A step of the handset on receipt k alone: it goes from phase p to q.
LEMMA OneReceiptProves ==
  ASSUME ProofInv, ExchangeInv', NEW i \in Installations, NEW k \in Keys,
         NEW q \in HandsetPhase, NEW saved \in BOOLEAN, Commit(i, k, q, saved),
         NEW frames, Sends(i, frames),
         \A x \in Keys :
           /\ <<"reply_received", x>> \in frames => Holds(i, x)' \/ Over(x)
           /\ <<"reply_ack", x>> \in frames => Confirms(i, x)' \/ Over(x)
           /\ <<"reply_ack_retire", x>> \in frames => Over(x),
         UNCHANGED bridgeRest, TakesDown, current' = current,
         saved => /\ Holds(i, k) => q \notin {"absent", "retirement_pending"} \/ Over(k)
                  /\ Confirms(i, k) => q \in {"ready", "retirement_pending"} \/ Parted(i, k)
                  /\ q = "retirement_pending" => Over(k),
         settled' \subseteq Partings
  PROVE  ProofInv'
<1>1. \A j \in Installations, x \in Keys :
        phase'[j][x] = IF saved /\ j = i /\ x = k THEN q ELSE phase[j][x]
  BY ProofParts, CommitType
<1>2. \A j \in Installations, x \in Keys :
        /\ Holds(j, x) => Holds(j, x)' \/ Over(x)
        /\ Confirms(j, x) => Confirms(j, x)' \/ Parted(j, x)
        /\ phase'[j][x] = "retirement_pending" => Over(x)
  BY <1>1, ProofParts DEF Holds, Confirms, Retirements
<1>3. Honest(i, frames)
  BY DEF Honest
<1>4. \A j \in Installations : current'[j] \in {current[j], NoSocket}
  OBVIOUS
<1> QED
  BY <1>2, <1>3, <1>4, HandsetProves

\* agent_end, and a fence: a receipt begins, or loses its playback.
LEMMA BeginProves ==
  ASSUME ProofInv, ExchangeInv', NEW i \in Installations, NEW k \in Keys,
         NEW saved \in BOOLEAN,
         ReadAgentEnd(i, k, saved) \/ Fence(i, k, saved)
  PROVE  ProofInv'
<1>1. PICK p : p = phase[i][k]
  OBVIOUS
<1>2. /\ p \in HandsetPhase /\ phase \in [Installations -> [Keys -> HandsetPhase]]
      /\ p = "retirement_pending" => Over(k)
      /\ settled \subseteq Partings
  BY <1>1, ProofParts DEF ExchangeTypeOK, Retirements
<1>3. PICK q : /\ Commit(i, k, q, saved)
               /\ \/ p = "absent"
                     /\ q \in {"receipt_pending", "receipt_pending_suppressed", "absent"}
                  \/ p # "absent" /\ q \in {p, Suppress(p)}
               /\ ReadAgentEnd(i, k, saved) =>
                    Push(i, Command(IF saved THEN q ELSE p, k))
  <2>1. CASE ReadAgentEnd(i, k, saved)
    BY <1>1, <2>1 DEF ReadAgentEnd
  <2>2. CASE Fence(i, k, saved) /\ ~ReadAgentEnd(i, k, saved)
    <3>1. Commit(i, k, Suppress(p), saved)
      BY <1>1, <2>2 DEF Fence
    <3>2. p = "absent" => Suppress(p) = "absent"
      BY DEF Suppress
    <3> QED
      BY <2>2, <3>1, <3>2
  <2> QED
    BY <2>1, <2>2
<1>4. /\ q \in HandsetPhase
      /\ p \notin {"absent", "retirement_pending"} =>
           q \notin {"absent", "retirement_pending"}
      /\ p \in {"ready", "retirement_pending"} => q = p
      /\ q \in {"ready", "retirement_pending"} => q = p
  BY <1>2, <1>3 DEF Suppress, HandsetPhase
<1>5. phase'[i][k] = IF saved THEN q ELSE p
  BY <1>1, <1>2, <1>3 DEF Commit
<1>6. /\ UNCHANGED <<bridgeRest, current, settled>> /\ TakesDown
      /\ Fence(i, k, saved) => up' = up
  <2>1. CASE ReadAgentEnd(i, k, saved)
    BY <2>1, ProofParts, ReadsTakes DEF ReadAgentEnd, Fence
  <2>2. CASE Fence(i, k, saved)
    BY <2>2 DEF Fence, TakesDown
  <2> QED
    BY <2>1, <2>2
<1>7. saved => /\ Holds(i, k) => q \notin {"absent", "retirement_pending"}
               /\ Confirms(i, k) => q \in {"ready", "retirement_pending"}
               /\ q = "retirement_pending" => Over(k)
  BY <1>1, <1>2, <1>4 DEF Holds, Confirms
<1>8. PICK frames :
        /\ Sends(i, frames)
        /\ \A x \in Keys :
             /\ <<"reply_received", x>> \in frames => Holds(i, x)' \/ Over(x)
             /\ <<"reply_ack", x>> \in frames => Confirms(i, x)' \/ Over(x)
             /\ <<"reply_ack_retire", x>> \in frames => Over(x)
  <2>1. CASE ReadAgentEnd(i, k, saved)
    <3>1. PICK after : after = phase'[i][k]
      OBVIOUS
    <3>2. Push(i, Command(after, k)) /\ Command(after, k) \in SUBSET UpFrame
      BY <1>3, <1>5, <2>1, <3>1, CommandFrames
    <3>3. Sends(i, Command(after, k))
      BY <3>2, ProofParts, PushSends
    <3>4. /\ after \in {"receipt_pending", "receipt_pending_suppressed"} => Holds(i, k)'
          /\ after = "ready" => Confirms(i, k)'
          /\ after = "retirement_pending" => Over(k)
      BY <1>2, <1>4, <1>5, <3>1 DEF Holds, Confirms
    <3> QED
      BY <3>3, <3>4, CommandHonest
  <2>2. CASE Fence(i, k, saved)
    BY <1>6, <2>2, NothingSent
  <2> QED
    BY <2>1, <2>2
<1>9. settled' \subseteq Partings /\ current' = current /\ UNCHANGED bridgeRest
  BY <1>2, <1>6
<1> QED
  BY <1>3, <1>4, <1>6, <1>7, <1>8, <1>9, OneReceiptProves

\* reply_received: the receipt stays held, whether it is to be played or not.
LEMMA ReadReceivedProves ==
  ASSUME ProofInv, ExchangeInv', NEW i \in Installations, NEW k \in Keys,
         NEW saved \in BOOLEAN, ReadReceived(i, k, saved)
  PROVE  ProofInv'
<1>1. PICK p : p = phase[i][k]
  OBVIOUS
<1>2. /\ p \in HandsetPhase
      /\ p = "retirement_pending" => Over(k)
      /\ settled \subseteq Partings
  BY <1>1, ProofParts DEF ExchangeTypeOK, Retirements
<1>3. PICK q : /\ Commit(i, k, q, saved)
               /\ \/ q = p
                  \/ /\ p \in {"receipt_pending", "receipt_pending_suppressed"}
                     /\ q \in {"awaiting_playback", "playback_suppressed"}
  BY <1>1 DEF ReadReceived
<1>4. q \in HandsetPhase
  BY <1>2, <1>3 DEF HandsetPhase
<1>5. /\ Holds(i, k) => q \notin {"absent", "retirement_pending"}
      /\ Confirms(i, k) => q \in {"ready", "retirement_pending"}
      /\ q = "retirement_pending" => Over(k)
  BY <1>1, <1>2, <1>3 DEF Holds, Confirms
<1>6. UNCHANGED <<bridgeRest, up, current, settled>> /\ TakesDown
  BY ProofParts, ReadsTakes DEF ReadReceived
<1>7. Sends(i, {}) /\ \A f : f \notin {}
  BY <1>6, NothingSent
<1>8. settled' \subseteq Partings /\ current' = current /\ UNCHANGED bridgeRest
  BY <1>2, <1>6
<1> QED
  BY <1>3, <1>4, <1>5, <1>6, <1>7, <1>8, OneReceiptProves

\* A reply that was awaited is heard, and says so from then on.
LEMMA HeardProves ==
  ASSUME ProofInv, ExchangeInv', NEW i \in Installations, NEW k \in Keys,
         NEW saved \in BOOLEAN, Heard(i, k, saved)
  PROVE  ProofInv'
<1> DEFINE frames == IF saved THEN {<<"reply_ack", k>>} ELSE {}
<1>1. /\ "ready" \in HandsetPhase /\ frames \in SUBSET UpFrame
      /\ phase[i][k] = "awaiting_playback"
      /\ Commit(i, k, "ready", saved) /\ Push(i, frames)
      /\ UNCHANGED <<bridgeRest, down, current, settled>>
  BY DEF HandsetPhase, UpFrame, Heard
<1>2. saved => phase'[i][k] = "ready"
  BY <1>1, ProofParts DEF Commit, ExchangeTypeOK
<1>3. Sends(i, frames)
  BY <1>1, ProofParts, PushSends
<1>4. \A x \in Keys :
        /\ <<"reply_received", x>> \notin frames
        /\ <<"reply_ack", x>> \in frames => Confirms(i, x)'
        /\ <<"reply_ack_retire", x>> \notin frames
  BY <1>2 DEF Confirms
<1>5. PICK q : q = "ready"
  OBVIOUS
<1>6. q \notin {"absent", "retirement_pending"} /\ (saved => ~Confirms(i, k))
  BY <1>1, <1>5 DEF Confirms
<1>7. settled' \subseteq Partings /\ TakesDown /\ current' = current /\ UNCHANGED bridgeRest
  BY <1>1, ProofParts DEF Retirements, TakesDown
<1> HIDE DEF frames
<1>8. q \in HandsetPhase /\ Commit(i, k, q, saved)
  BY <1>1, <1>5
<1> QED
  BY <1>3, <1>4, <1>6, <1>7, <1>8, OneReceiptProves

\* reply_acknowledged is said of receipts that are over.
LEMMA ReadAcknowledgedProves ==
  ASSUME ProofInv, ExchangeInv', NEW i \in Installations, NEW k \in Keys,
         NEW saved \in BOOLEAN, ReadAcknowledged(i, k, saved)
  PROVE  ProofInv'
<1> DEFINE p == phase[i][k]
           retires == p = "retirement_pending" \/ p = "ready"
           next == IF retires THEN "retirement_pending" ELSE p
           frames == IF retires /\ saved THEN {<<"reply_ack_retire", k>>} ELSE {}
<1>1. /\ p \in HandsetPhase /\ settled \subseteq Partings
      /\ p = "retirement_pending" => Over(k)
  BY ProofParts DEF ExchangeTypeOK, Retirements
<1>2. /\ Reads(i, <<"reply_acknowledged", k>>)
      /\ Commit(i, k, next, saved) /\ Push(i, frames)
      /\ UNCHANGED <<bridgeRest, current, settled>>
  BY DEF ReadAcknowledged
<1>3. Over(k)
  BY <1>2, ProofParts, ReadWasSaid DEF Saying, Ended
<1>4. frames \in SUBSET UpFrame
  BY DEF UpFrame
<1>5. \A x \in Keys :
        /\ <<"reply_received", x>> \notin frames
        /\ <<"reply_ack", x>> \notin frames
        /\ <<"reply_ack_retire", x>> \in frames => Over(x)
  BY <1>3
<1>6. PICK q : q = next
  OBVIOUS
<1>7. /\ q \in HandsetPhase
      /\ Confirms(i, k) => q \in {"ready", "retirement_pending"}
  BY <1>1, <1>6 DEF HandsetPhase, Confirms
<1>8. Commit(i, k, q, saved)
  BY <1>2, <1>6
<1> HIDE DEF frames, next, retires, p
<1>9. Sends(i, frames) /\ TakesDown
  BY <1>2, <1>4, ProofParts, PushSends, ReadsTakes
<1>10. settled' \subseteq Partings /\ current' = current /\ UNCHANGED bridgeRest
  BY <1>1, <1>2
<1> QED
  BY <1>3, <1>5, <1>7, <1>8, <1>9, <1>10, OneReceiptProves

\* reply_ack_retired is said where no snapshot binds the receipt any more.
LEMMA ReadRetiredProves ==
  ASSUME ProofInv, ExchangeInv', NEW i \in Installations, NEW k \in Keys,
         NEW saved \in BOOLEAN, ReadRetired(i, k, saved)
  PROVE  ProofInv'
<1> DEFINE erased == phase[i][k] = "retirement_pending"
           next == IF erased THEN "absent" ELSE phase[i][k]
<1>1. /\ phase[i][k] \in HandsetPhase /\ settled \subseteq Partings
      /\ phase[i][k] = "retirement_pending" => Over(k)
  BY ProofParts DEF ExchangeTypeOK, Retirements
<1>2. /\ Reads(i, <<"reply_ack_retired", k>>) /\ Commit(i, k, next, saved)
      /\ settled' = IF erased /\ saved THEN settled \cup {<<i, k>>} ELSE settled
      /\ UNCHANGED <<bridgeRest, up, current>>
  BY DEF ReadRetired
<1>3. <<i, k>> \in Partings
  <2>1. /\ current[i] \in Sockets
        /\ <<"reply_ack_retired", k>> \in Said(current[i])
    BY <1>2, ProofParts, ReadWasSaid
  <2>2. SocketOwner[current[i]] = i
    BY <2>1, AbsentAssumption DEF ProofInv
  <2> QED
    BY <2>1, <2>2, ProofParts DEF Saying
<1>4. Parted(i, k) /\ Over(k) /\ settled' \subseteq Partings
  BY <1>1, <1>2, <1>3 DEF Partings, Parted
<1>5. PICK q : q = next
  OBVIOUS
<1>6. /\ q \in HandsetPhase
      /\ q = "retirement_pending" => Over(k)
      /\ Commit(i, k, q, saved)
  BY <1>1, <1>2, <1>4, <1>5 DEF HandsetPhase
<1> HIDE DEF next, erased
<1>7. Sends(i, {}) /\ (\A f : f \notin {}) /\ TakesDown
  BY <1>2, NothingSent, ProofParts, ReadsTakes
<1>8. current' = current /\ UNCHANGED bridgeRest
  BY <1>2
<1> QED
  BY <1>4, <1>6, <1>7, <1>8, OneReceiptProves

\* The retry timer repeats what the phase says.
LEMMA ResendProves ==
  ASSUME ProofInv, ExchangeInv', NEW i \in Installations, NEW k \in Keys, Resend(i, k)
  PROVE  ProofInv'
<1>1. /\ Push(i, Command(phase[i][k], k)) /\ UNCHANGED <<bridgeRest, down, handset>>
      /\ Command(phase[i][k], k) \in SUBSET UpFrame
  BY CommandFrames DEF Resend
<1>2. Sends(i, Command(phase[i][k], k))
  BY <1>1, ProofParts, PushSends
<1>3. \A j \in Installations, x \in Keys :
        /\ Holds(j, x) <=> Holds(j, x)'
        /\ Confirms(j, x) <=> Confirms(j, x)'
        /\ phase'[j][x] = "retirement_pending" => Over(x)
  BY <1>1, ProofParts DEF handset, Holds, Confirms, Retirements
<1>4. Honest(i, Command(phase[i][k], k))
  <2>1. PICK p : p = phase[i][k]
    OBVIOUS
  <2>2. \A x \in Keys :
          /\ <<"reply_received", x>> \in Command(p, k) => Holds(i, x)' \/ Over(x)
          /\ <<"reply_ack", x>> \in Command(p, k) => Confirms(i, x)' \/ Over(x)
          /\ <<"reply_ack_retire", x>> \in Command(p, k) => Over(x)
    BY <1>3, <2>1, PhaseHonest
  <2> QED
    BY <2>1, <2>2 DEF Honest
<1>5. /\ settled' \subseteq Partings /\ TakesDown /\ UNCHANGED bridgeRest
      /\ \A j \in Installations : current'[j] \in {current[j], NoSocket}
  BY <1>1, ProofParts DEF Retirements, TakesDown, handset
<1> QED
  BY <1>2, <1>3, <1>4, <1>5, HandsetProves

\* Without half-open sockets a handset dials only when its last socket is gone
\* on both sides.
LEMMA ConnectProves ==
  ASSUME ProofInv, ExchangeInv', ~HalfOpen, NEW i \in Installations,
         NEW s \in Sockets, Connect(i, s)
  PROVE  ProofInv'
<1>1. /\ UNCHANGED <<clock, idle, running, startedAt, store, pending, tasks, timers,
                     up, down, requests, consumed, turns, sent, proved, phase, settled>>
      /\ link' = [link EXCEPT ![s] = "opening"]
      /\ current' = [current EXCEPT ![i] = s] /\ SocketOwner[s] = i
      /\ \A x \in Sockets : SocketOwner[x] = i => link[x] = "closed"
  BY DEF Connect, Dial
<1>2. PhaseInv /\ OneOpenEach /\ TypeOK /\ ExchangeTypeOK
  BY SingleOpen, ProofParts DEF ProofInv
<1>3. HandsetNext
  BY DEF Connect, HandsetNext
<1>4. PhaseInv'
  BY <1>2, <1>3, StepPhases DEF Next
<1>5. Single'
  <2>1. \A x \in Sockets : link'[x] = IF x = s THEN "opening" ELSE link[x]
    BY <1>1, <1>2 DEF TypeOK
  <2> QED
    BY <1>1, <2>1 DEF ProofInv, Single
<1>6. \A j \in Installations : current'[j] # NoSocket => SocketOwner[current'[j]] = j
  BY <1>1, <1>2 DEF ProofInv, ExchangeTypeOK
<1>7. \A k : /\ Over(k)' <=> Over(k)
             /\ \A j : /\ Parted(j, k)' <=> Parted(j, k)
                       /\ Holds(j, k)' <=> Holds(j, k)
                       /\ Confirms(j, k)' <=> Confirms(j, k)
                       /\ Answered(j, k)' <=> Answered(j, k)
  BY <1>1 DEF Over, Parted, Finished, Released, Holds, Confirms, Answered
<1>8. \A k \in Keys : Told(k)'
  BY <1>1, <1>7 DEF ProofInv, Told, Recorded, Matches, Finished, Entombed, Live
<1>9. Unspent' /\ Asking'
  BY <1>1, <1>7 DEF ProofInv, Unspent, Asking, Queued
<1>10. Vouched(Answerers)'
  <2>1. Answerers \subseteq Answerers'
    BY <1>7 DEF Answerers
  <2> QED
    BY <1>1, <2>1 DEF ProofInv, Vouched, Queued
<1>11. Saying(Ended, Partings)' /\ Retirements'
  <2>1. Ended' = Ended /\ Partings' = Partings
    BY <1>7 DEF Ended, Partings
  <2>2. \A x \in Sockets : Said(x)' = Said(x)
    BY <1>1 DEF Said
  <2> QED
    BY <1>1, <1>7, <2>1, <2>2 DEF ProofInv, Saying, Retirements
<1> QED
  BY <1>4, <1>5, <1>6, <1>8, <1>9, <1>10, <1>11 DEF ProofInv

\* At the start nothing is bound, queued or settled, and no socket is open.
LEMMA ProofInit == ExchangeInit => ProofInv
<1> SUFFICES ASSUME ExchangeInit PROVE ProofInv
  OBVIOUS
<1>1. Init /\ ExchangeInv
  BY ExchangeInitEarns DEF ExchangeInit
<1>2. PhaseInv
  <2>1. CallsReceived /\ \A k \in Keys : HeldAlike(k)
    BY <1>1 DEF Init, CallsReceived, HeldAlike, Unproved, EmptyBindings
  <2> QED
    BY <1>1, <2>1, InitOwners DEF PhaseInv
<1>3. Single /\ \A i \in Installations : current[i] # NoSocket => SocketOwner[current[i]] = i
  BY <1>1 DEF ExchangeInit, Init, Single
<1>4. \A k \in Keys : Told(k)
  BY <1>1 DEF Init, EmptyBindings, EmptyTombstones, EmptySnapshot, Told, Recorded,
     Matches, Spent, Entombed, Live
<1>5. \A s \in Sockets : Queued(s) = {} /\ Said(s) = {}
  BY <1>1 DEF Init, Queued, Said
<1>6. Unspent /\ Asking
  BY <1>1, <1>5 DEF Init, EmptyBindings, Unspent, Spent, Asking
<1>7. Vouched(Answerers) /\ Saying(Ended, Partings)
  BY <1>1, <1>5 DEF Init, Vouched, Saying
<1>8. Retirements
  BY DEF ExchangeInit, Retirements
<1> QED
  BY <1>1, <1>2, <1>3, <1>4, <1>6, <1>7, <1>8 DEF ProofInv

\* Every step of the exchange keeps the two stores in step.
LEMMA ProofStep ==
  ASSUME ~HalfOpen, ProofInv, [ExchangeNext]_allVars
  PROVE  ProofInv'
<1>1. ExchangeInv'
  BY ExchangeStepEarns DEF ProofInv
<1>2. CASE BridgeStep
  BY <1>2, BridgeStepProves
<1>3. CASE HandsetStep
  <2>1. ASSUME NEW i \in Installations, NEW s \in Sockets, Connect(i, s)
        PROVE  ProofInv'
    BY <1>1, <2>1, ConnectProves
  <2>2. ASSUME NEW i \in Installations, NEW ok \in BOOLEAN, ReadReady(i, ok)
        PROVE  ProofInv'
    BY <1>1, <2>2, ReadReadyProves
  <2>3. ASSUME NEW i \in Installations, NEW k \in Keys, NEW ok \in BOOLEAN,
               \/ ReadAgentEnd(i, k, ok) \/ ReadReceived(i, k, ok)
               \/ Heard(i, k, ok) \/ ReadAcknowledged(i, k, ok)
               \/ ReadRetired(i, k, ok) \/ Fence(i, k, ok)
        PROVE  ProofInv'
    BY <1>1, <2>3, BeginProves, ReadReceivedProves, HeardProves,
       ReadAcknowledgedProves, ReadRetiredProves
  <2>4. ASSUME NEW i \in Installations, NEW k \in Keys, Resend(i, k)
        PROVE  ProofInv'
    BY <1>1, <2>4, ResendProves
  <2>5. CASE Lost
    BY <1>1, <2>5, DisconnectProves
  <2> QED
    BY <1>3, <2>1, <2>2, <2>3, <2>4, <2>5, HandsetCases
<1>4. CASE UNCHANGED allVars
  <2>1. UNCHANGED <<vars, handset>>
    BY <1>4 DEF allVars
  <2>2. PhaseInv'
    BY <2>1, StepPhases, SingleOpen DEF ProofInv
  <2>3. UNCHANGED <<clock, idle, running, startedAt, store, link, pending, tasks, timers,
                    up, down, turns, phase, current, settled>>
    BY <2>1 DEF vars, handset
  <2>4. /\ Single' /\ (\A k \in Keys : Told(k)') /\ Unspent'
        /\ \A i \in Installations : current'[i] # NoSocket => SocketOwner[current'[i]] = i
    BY <2>3 DEF ProofInv, Single, Unspent, Told, Recorded, Matches, Holds, Confirms,
       Finished, Entombed, Live
  <2>5. Asking' /\ Vouched(Answerers)'
    BY <2>3 DEF ProofInv, Asking, Vouched, Answerers, Answered, Queued, Over, Parted,
       Finished, Released, Holds, Confirms
  <2>6. Saying(Ended, Partings)' /\ Retirements'
    BY <2>3 DEF ProofInv, Saying, Ended, Partings, Said, Retirements, Over, Parted,
       Finished, Released
  <2> QED
    BY <1>1, <2>2, <2>4, <2>5, <2>6 DEF ProofInv
<1> QED
  BY <1>2, <1>3, <1>4 DEF ExchangeNext

\* A handset's proof outlives the bridge's record of it, whatever the number of
\* installations, sockets and receipts and however often either side restarts:
\* while the file says received, or consumed, the owner still holds the receipt
\* in a matching phase, unless a handset may redial before the bridge saw its
\* last socket close.
THEOREM ProofOutlivesRecord == ASSUME ~HalfOpen PROVE ExchangeSpec => []HandsetKeepsProof
<1>1. ProofInv /\ [ExchangeNext]_allVars => ProofInv'
  BY ProofStep
<1>2. ProofInv => HandsetKeepsProof
  BY DEF ProofInv, Told, Recorded, Matches, Holds, Confirms, HandsetKeepsProof
<1> QED
  BY <1>1, <1>2, ProofInit, PTL DEF ExchangeSpec

\* Under the same assumption no snapshot a restart may find binds a receipt to
\* the handset that erased it.
THEOREM SettledStaysGone == ASSUME ~HalfOpen PROVE ExchangeSpec => []SettledIsGone
<1>1. ProofInv /\ [ExchangeNext]_allVars => ProofInv'
  BY ProofStep
<1>2. ProofInv => SettledIsGone
  <2> SUFFICES ASSUME ProofInv, NEW ik \in settled
               PROVE  Released(store, ik[1], ik[2])
    BY DEF SettledIsGone, Released
  <2> QED
    BY DEF ProofInv, Retirements, Partings, Parted
<1> QED
  BY <1>1, <1>2, ProofInit, PTL DEF ExchangeSpec

-----------------------------------------------------------------------------
(***************************************************************************)
(* A reply is played once, for any number of handsets.                     *)
(*                                                                         *)
(* With several handsets a receipt may change owner and be prepared again, *)
(* but not one that is over.  Without half-open sockets a receipt that a   *)
(* handset erased is over, so it is replayed only by an agent_end that was *)
(* queued before, and the confirmation of its retirement came after those. *)
(***************************************************************************)

\* Replays wait on sockets the bridge has, and none of a receipt waits behind
\* the confirmation of its retirement.
Ordered ==
  /\ \A s \in Sockets, k \in Keys : Replayed(s, k) => link[s] # "closed"
  /\ \A s \in Sockets, k \in Keys : \A n \in 1..Len(down[s]) :
       down[s][n] = <<"reply_ack_retired", k>> =>
         \A m \in n..Len(down[s]) : down[s][m] # <<"agent_end", k>>

\* Retirement is confirmed of receipts of C only.
Confirmed(C) == \A s \in Sockets, k \in Keys : <<"reply_ack_retired", k>> \in Said(s) => k \in C

\* What a step replays anew is not in C.
ReplaysOutside(C) ==
  \A s \in Sockets, k \in Keys : Replayed(s, k)' => Replayed(s, k) \/ k \notin C

\* Frames appended to a queue keep the order of every queue.
LEMMA AppendedOrdered ==
  ASSUME TypeOK, Ordered, NEW C, Confirmed(C), NEW s, NEW fs \in Seq(DownFrame),
         Emit(s, fs),
         \A x \in Sockets : link'[x] = "closed" => link[x] = "closed",
         s \in Sockets => \A n \in 1..Len(fs), k \in Keys :
           /\ fs[n] = <<"agent_end", k>> => k \notin C /\ link'[s] # "closed"
           /\ fs[n] = <<"reply_ack_retired", k>> => Len(fs) = 1
  PROVE  Ordered' /\ ReplaysOutside(C)
<1>1. \A x \in Sockets : ~(s \in Sockets /\ x = s) => down'[x] = down[x]
  BY DEF Emit, TypeOK
<1>2. ASSUME s \in Sockets
      PROVE  /\ down[s] \in Seq(DownFrame) /\ down'[s] = down[s] \o fs
             /\ \A n \in 1..Len(down'[s]) :
                  \/ n \in 1..Len(down[s]) /\ down'[s][n] = down[s][n]
                  \/ n - Len(down[s]) \in 1..Len(fs)
                       /\ down'[s][n] = fs[n - Len(down[s])]
  <2>1. down[s] \in Seq(DownFrame) /\ down'[s] = down[s] \o fs
    BY <1>2 DEF Emit, TypeOK
  <2> QED
    BY <2>1, ConcatElements
<1>3. ASSUME NEW x \in Sockets, NEW k \in Keys, Replayed(x, k)'
      PROVE  link'[x] # "closed" /\ (Replayed(x, k) \/ k \notin C)
  <2>1. CASE Replayed(x, k)
    BY <2>1 DEF Ordered
  <2>2. CASE ~Replayed(x, k)
    <3>1. s \in Sockets /\ x = s
      BY <1>1, <1>3, <2>2 DEF Replayed
    <3>2. PICK n \in 1..Len(down'[s]) : down'[s][n] = <<"agent_end", k>>
      BY <1>3, <3>1 DEF Replayed
    <3>3. n - Len(down[s]) \in 1..Len(fs) /\ fs[n - Len(down[s])] = <<"agent_end", k>>
      BY <1>2, <2>2, <3>1, <3>2 DEF Replayed
    <3> QED
      BY <3>1, <3>3
  <2> QED
    BY <2>1, <2>2
<1>4. ASSUME NEW x \in Sockets, NEW k \in Keys, NEW n \in 1..Len(down'[x]),
             down'[x][n] = <<"reply_ack_retired", k>>,
             NEW m \in n..Len(down'[x])
      PROVE  down'[x][m] # <<"agent_end", k>>
  <2>1. CASE ~(s \in Sockets /\ x = s)
    BY <1>1, <1>4, <2>1 DEF Ordered
  <2>2. CASE s \in Sockets /\ x = s
    <3> DEFINE old == Len(down[s])
    <3>1. old \in Nat /\ Len(fs) \in Nat /\ m \in 1..Len(down'[s]) /\ n <= m
      BY <1>2, <2>2
    <3>2. CASE n \in 1..old /\ down'[s][n] = down[s][n]
      <4>1. \A j \in n..old : down[s][j] # <<"agent_end", k>>
        BY <1>4, <2>2, <3>2 DEF Ordered
      <4>2. k \in C
        BY <1>4, <2>2, <3>2 DEF Confirmed, Said
      <4>3. CASE m \in 1..old /\ down'[s][m] = down[s][m]
        BY <2>2, <3>1, <4>1, <4>3
      <4>4. CASE m - old \in 1..Len(fs) /\ down'[s][m] = fs[m - old]
        BY <2>2, <4>2, <4>4
      <4> QED
        BY <1>2, <2>2, <3>1, <4>3, <4>4
    <3>3. CASE n - old \in 1..Len(fs) /\ down'[s][n] = fs[n - old]
      <4>1. Len(fs) = 1
        BY <1>4, <2>2, <3>3
      <4>2. m = n
        <5>1. ~(m \in 1..old)
          BY <3>1, <3>3
        <5>2. m - old \in 1..Len(fs)
          BY <1>2, <2>2, <3>1, <5>1
        <5> QED
          BY <3>1, <3>3, <4>1, <5>2
      <4> QED
        BY <1>4, <2>2, <4>2
    <3> QED
      BY <1>2, <1>4, <2>2, <3>2, <3>3
  <2> QED
    BY <2>1, <2>2
<1> QED
  BY <1>3, <1>4 DEF Ordered, ReplaysOutside

\* One frame, or none, keeps the order when it replays nothing of C.
LEMMA OneFrameOrdered ==
  ASSUME TypeOK, Ordered, NEW C, Confirmed(C), NEW s, NEW x \in Keys,
         NEW op \in {"agent_end", "reply_received", "reply_acknowledged",
                     "reply_ack_retired"},
         Emit(s, << <<op, x>> >>) \/ Emit(s, <<>>), UNCHANGED link,
         s \in Sockets /\ op = "agent_end" => x \notin C /\ link[s] # "closed"
  PROVE  Ordered' /\ ReplaysOutside(C)
<1>1. CASE Emit(s, << <<op, x>> >>)
  <2> DEFINE fs == << <<op, x>> >>
  <2>1. /\ Emit(s, fs) /\ fs \in Seq(DownFrame) /\ Len(fs) = 1
        /\ \A n \in 1..Len(fs) : fs[n] = <<op, x>>
    <3>1. <<op, x>> \in DownFrame
      BY DEF DownFrame
    <3> QED
      BY <1>1, <3>1
  <2>2. \A k, kind : <<op, x>> = <<kind, k>> => op = kind /\ x = k
    OBVIOUS
  <2> HIDE DEF fs
  <2>3. s \in Sockets => \A n \in 1..Len(fs), k \in Keys :
          /\ fs[n] = <<"agent_end", k>> => k \notin C /\ link'[s] # "closed"
          /\ fs[n] = <<"reply_ack_retired", k>> => Len(fs) = 1
    BY <2>1, <2>2
  <2> QED
    BY <2>1, <2>3, AppendedOrdered
<1>2. CASE Emit(s, <<>>)
  <2> DEFINE fs == <<>>
  <2>1. Emit(s, fs) /\ fs \in Seq(DownFrame) /\ Len(fs) = 0
    BY <1>2
  <2> HIDE DEF fs
  <2>2. \A n \in 1..Len(fs) : FALSE
    BY <2>1
  <2>3. s \in Sockets => \A n \in 1..Len(fs), k \in Keys :
          /\ fs[n] = <<"agent_end", k>> => k \notin C /\ link'[s] # "closed"
          /\ fs[n] = <<"reply_ack_retired", k>> => Len(fs) = 1
    BY <2>2
  <2> QED
    BY <2>1, <2>3, AppendedOrdered
<1> QED
  BY <1>1, <1>2

\* Losing frames keeps the order of those that are left.
LEMMA LostOrdered ==
  ASSUME TypeOK, Ordered,
         \A x \in Sockets :
           \/ down'[x] = down[x] /\ (link'[x] = "closed" => link[x] = "closed")
           \/ down'[x] = <<>>
           \/ down[x] # <<>> /\ down'[x] = Tail(down[x]) /\ link'[x] = link[x]
  PROVE  /\ Ordered'
         /\ \A x \in Sockets, k \in Keys : Replayed(x, k)' => Replayed(x, k)
<1> SUFFICES ASSUME NEW x \in Sockets, NEW k \in Keys
             PROVE  /\ Replayed(x, k)' => Replayed(x, k) /\ link'[x] # "closed"
                    /\ \A n \in 1..Len(down'[x]) :
                         down'[x][n] = <<"reply_ack_retired", k>> =>
                           \A m \in n..Len(down'[x]) :
                             down'[x][m] # <<"agent_end", k>>
  BY DEF Ordered
<1>1. down[x] \in Seq(DownFrame)
  BY DEF TypeOK
<1> HIDE DEF DownFrame
<1>2. CASE down'[x] = down[x] /\ (link'[x] = "closed" => link[x] = "closed")
  BY <1>2 DEF Ordered, Replayed
<1>3. CASE down'[x] = <<>>
  <2>1. Len(down'[x]) = 0
    BY <1>3
  <2> QED
    BY <2>1 DEF Replayed
<1>4. CASE down[x] # <<>> /\ down'[x] = Tail(down[x]) /\ link'[x] = link[x]
  <2>1. /\ Len(down'[x]) = Len(down[x]) - 1 /\ Len(down[x]) \in Nat
        /\ \A n \in 1..Len(down'[x]) :
             n + 1 \in 1..Len(down[x]) /\ down'[x][n] = down[x][n + 1]
    BY <1>1, <1>4, HeadTailProperties
  <2>2. Replayed(x, k)' => Replayed(x, k)
    BY <2>1 DEF Replayed
  <2>3. ASSUME NEW n \in 1..Len(down'[x]), down'[x][n] = <<"reply_ack_retired", k>>
        PROVE  \A m \in n..Len(down'[x]) : down'[x][m] # <<"agent_end", k>>
    <3>1. \A m \in (n + 1)..Len(down[x]) : down[x][m] # <<"agent_end", k>>
      BY <2>1, <2>3 DEF Ordered
    <3>2. \A m \in n..Len(down'[x]) :
            m \in 1..Len(down'[x]) /\ m + 1 \in (n + 1)..Len(down[x])
      BY <2>1
    <3> QED
      BY <2>1, <3>1, <3>2
  <2> QED
    BY <1>4, <2>2, <2>3 DEF Ordered
<1> QED
  BY <1>2, <1>3, <1>4

\* A hello replays what is prepared after it, so nothing that is over.
LEMMA HelloOrdered ==
  ASSUME TypeOK, Ordered, NEW C, Confirmed(C), NEW s \in Sockets, NEW outcome,
         Hello(s, outcome),
         \A k \in Keys : IsPrepared(store'.bindings[k]) => k \notin C
  PROVE  Ordered' /\ ReplaysOutside(C)
<1>1. PICK replayed \in SUBSET Keys :
        /\ \A k \in replayed : k \notin C
        /\ \E order \in SetToSeqs(replayed) :
             Emit(s, [n \in 1..Len(order) |-> <<"agent_end", order[n]>>]
                       \o << <<"ready">> >>)
  <2>1. \E replayed \in SUBSET Keys :
          /\ \A k \in replayed : IsPrepared(store'.bindings[k])
          /\ \E order \in SetToSeqs(replayed) :
               Emit(s, [n \in 1..Len(order) |-> <<"agent_end", order[n]>>]
                         \o << <<"ready">> >>)
    <3>1. \E st : LET replayed == {k \in Present(st.bindings, NoBinding) :
                        st.bindings[k].st = "prepared"
                          /\ st.bindings[k].inst = SocketOwner[s]}
                  IN  /\ store' = st
                      /\ \E order \in SetToSeqs(replayed) :
                           Emit(s, [n \in 1..Len(order) |-> <<"agent_end", order[n]>>]
                                     \o << <<"ready">> >>)
      BY DEF Hello
    <3> QED
      BY <3>1 DEF Present, IsPrepared
  <2> QED
    BY <2>1
<1>2. PICK order \in SetToSeqs(replayed) :
        Emit(s, [n \in 1..Len(order) |-> <<"agent_end", order[n]>>]
                  \o << <<"ready">> >>)
  BY <1>1
<1>3. Cardinality(replayed) \in Nat
  BY KeysAssumption, FS_Subset, FS_CardinalityType
<1>4. order \in Seq(Keys) /\ \A n \in 1..Len(order) : order[n] \in replayed
  <2>1. order \in [1..Cardinality(replayed) -> replayed]
    BY DEF SetToSeqs
  <2> QED
    BY <1>3, <2>1
<1> DEFINE ends == [n \in 1..Len(order) |-> <<"agent_end", order[n]>>]
           last == << <<"ready">> >>
<1>5. ends \in Seq(DownFrame) /\ last \in Seq(DownFrame)
  <2>1. \A n \in 1..Len(order) : <<"agent_end", order[n]>> \in DownFrame
    BY <1>4 DEF DownFrame
  <2>2. <<"ready">> \in DownFrame
    BY DEF DownFrame
  <2> HIDE DEF DownFrame
  <2> QED
    BY <1>4, <2>1, <2>2
<1>6. ends \o last \in Seq(DownFrame)
  BY <1>5, ConcatProperties
<1>7. \A n \in 1..Len(ends \o last) :
        \/ (ends \o last)[n] = <<"ready">>
        \/ \E k \in replayed : (ends \o last)[n] = <<"agent_end", k>>
  <2> SUFFICES ASSUME NEW n \in 1..Len(ends \o last)
               PROVE  \/ (ends \o last)[n] = <<"ready">>
                      \/ \E k \in replayed : (ends \o last)[n] = <<"agent_end", k>>
    OBVIOUS
  <2>1. Len(ends) = Len(order) /\ Len(last) = 1 /\ Len(order) \in Nat
    BY <1>4
  <2>2. CASE n \in 1..Len(order)
    BY <1>4, <1>5, <2>1, <2>2, ConcatProperties
  <2>3. CASE n = Len(order) + 1
    BY <1>5, <2>1, <2>3, ConcatProperties
  <2> QED
    BY <1>5, <2>1, <2>2, <2>3, ConcatProperties
<1>8. Emit(s, ends \o last)
  BY <1>2
<1> HIDE DEF ends, last
<1>9. /\ link'[s] = "open"
      /\ \A x \in Sockets : link'[x] = "closed" => link[x] = "closed"
  BY DEF Hello, TypeOK
<1>10. \A n \in 1..Len(ends \o last), k \in Keys :
         /\ (ends \o last)[n] = <<"agent_end", k>> => k \in replayed
         /\ (ends \o last)[n] # <<"reply_ack_retired", k>>
  BY <1>7
<1> QED
  BY <1>1, <1>6, <1>8, <1>9, <1>10, AppendedOrdered

\* Acknowledging replays nothing.
LEMMA AcknowledgeOrdered ==
  ASSUME TypeOK, Ordered, NEW C, Confirmed(C), NEW src, NEW k \in Keys, NEW waiting,
         Acknowledge(src, k, waiting), UNCHANGED link
  PROVE  Ordered' /\ ReplaysOutside(C)
<1>1. \/ Emit(src.sock, << <<"reply_acknowledged", k>> >>)
      \/ Emit(src.sock, <<>>)
  BY DEF Acknowledge
<1> QED
  BY <1>1, OneFrameOrdered

\* No step of the bridge replays what is over, or out of order.
LEMMA BridgeOrdered ==
  ASSUME ProofInv, Ordered, BridgeNext
  PROVE  /\ Ordered'
         /\ \A s \in Sockets, k \in Keys : Replayed(s, k)' => Replayed(s, k) \/ ~Over(k)
<1>1. /\ PhaseInv /\ TypeOK /\ Saying(Ended, Partings)
      /\ \A k \in Keys : Told(k)
  BY ProofParts DEF ProofInv
<1>2. \A k \in Keys : Tells(k)
  BY <1>1, BridgeTells DEF ProofInv
<1>3. PICK C : C = Ended
  OBVIOUS
<1>4. Confirmed(C) /\ \A k \in Keys : k \in C <=> Over(k)
  BY <1>1, <1>3, OwnerAssumption DEF Saying, Confirmed, Ended, Partings, Parted
<1>5. SUFFICES Ordered' /\ ReplaysOutside(C)
  BY <1>4 DEF ReplaysOutside
<1>6. CASE UNCHANGED <<down, link>>
  BY <1>6 DEF Ordered, ReplaysOutside, Replayed
<1>7. ASSUME NEW s \in Sockets, NEW o \in SaveOutcomes, Hello(s, o)
      PROVE  Ordered' /\ ReplaysOutside(C)
  <2>1. running' /\ turns' = turns
    BY <1>7 DEF Hello
  <2>2. ASSUME NEW k \in Keys, IsPrepared(store'.bindings[k]) PROVE ~Over(k)
    <3>1. Live(store') /\ Settles(store, store', k)
      BY <1>2, <2>1 DEF Tells
    <3>2. ~Finished(store', k)
      BY <2>2, <3>1 DEF Live, Finished, Done, IsPrepared
    <3> QED
      BY <3>1, <3>2 DEF Settles, Over
  <2>3. \A k \in Keys : IsPrepared(store'.bindings[k]) => k \notin C
    BY <1>4, <2>2
  <2> QED
    BY <1>1, <1>4, <1>7, <2>3, HelloOrdered
<1>8. ASSUME NEW s \in Sockets, NEW k \in Keys, NEW w, NEW o, Prepare(s, k, w, o)
      PROVE  Ordered' /\ ReplaysOutside(C)
  <2>1. /\ Emit(s, << <<"agent_end", k>> >>) \/ Emit(s, <<>>)
        /\ k \in turns /\ link[s] = "open" /\ UNCHANGED link
    BY <1>8 DEF Prepare
  <2>2. k \notin C
    BY <1>4, <2>1 DEF Over
  <2> QED
    BY <1>1, <1>4, <2>1, <2>2, OneFrameOrdered
<1>9. ASSUME NEW s \in Sockets, NEW k \in Keys, NEW o, ReceiveReplyAck(s, k, o)
      PROVE  Ordered' /\ ReplaysOutside(C)
  <2>1. /\ Emit(s, << <<"reply_received", k>> >>) \/ Emit(s, <<>>)
        /\ UNCHANGED link
    BY <1>9 DEF ReceiveReplyAck
  <2> QED
    BY <1>1, <1>4, <2>1, OneFrameOrdered
<1>10. ASSUME NEW s \in Sockets, NEW k \in Keys, NEW o, RetireReplyAck(s, k, o)
       PROVE  Ordered' /\ ReplaysOutside(C)
  <2>1. /\ Emit(s, << <<"reply_ack_retired", k>> >>) \/ Emit(s, <<>>)
        /\ UNCHANGED link
    BY <1>10 DEF RetireReplyAck
  <2> QED
    BY <1>1, <1>4, <2>1, OneFrameOrdered
<1>11. ASSUME NEW s \in Sockets, NEW k \in Keys, AcknowledgeReplyAck(s, k)
       PROVE  Ordered' /\ ReplaysOutside(C)
  <2>1. Acknowledge(SourceOf(s), k, timers) /\ UNCHANGED link
    BY <1>11 DEF AcknowledgeReplyAck
  <2> QED
    BY <1>1, <1>4, <2>1, AcknowledgeOrdered
<1>12. ASSUME NEW k \in Keys, RetryTimer(k) PROVE Ordered' /\ ReplaysOutside(C)
  <2>1. /\ Acknowledge(timers[k], k, [timers EXCEPT ![k] = NoTimer])
        /\ UNCHANGED link
    BY <1>12 DEF RetryTimer
  <2> QED
    BY <1>1, <1>4, <2>1, AcknowledgeOrdered
<1>13. ASSUME NEW t \in tasks, NEW o, ConsumeAnswered(t, o)
       PROVE  Ordered' /\ ReplaysOutside(C)
  <2>1. /\ \/ Emit(t.src.sock, << <<"reply_acknowledged", t.key>> >>)
           \/ Emit(t.src.sock, <<>>)
        /\ UNCHANGED link
    BY <1>13 DEF ConsumeAnswered
  <2>2. t.key \in Keys
    BY <1>1 DEF TypeOK, Task
  <2> QED
    BY <1>1, <1>4, <2>1, <2>2, OneFrameOrdered
<1>14. ASSUME \/ \E s \in Sockets, o \in SaveOutcomes : Close(s, o)
              \/ Crash
       PROVE  Ordered' /\ ReplaysOutside(C)
  <2>1. \A x \in Sockets :
          \/ down'[x] = down[x] /\ link'[x] = link[x]
          \/ down'[x] = <<>>
    <3>1. ASSUME NEW s \in Sockets, NEW o, Close(s, o)
          PROVE  \A x \in Sockets :
                   \/ down'[x] = down[x] /\ link'[x] = link[x]
                   \/ down'[x] = <<>>
      BY <1>1, <3>1 DEF Close, TypeOK
    <3>2. Crash => \A x \in Sockets : down'[x] = <<>>
      BY DEF Crash
    <3> QED
      BY <1>14, <3>1, <3>2
  <2> QED
    BY <1>1, <2>1, LostOrdered DEF ReplaysOutside
<1>15. /\ \A t : ConsumeFailed(t) \/ ConfirmationSent(t) => UNCHANGED <<down, link>>
       /\ \A o : PeriodicSweep(o) => UNCHANGED <<down, link>>
       /\ Start \/ Tick \/ Rollback => UNCHANGED <<down, link>>
       /\ \A k : TelepathosdConsumes(k) => UNCHANGED <<down, link>>
  BY DEF ConsumeFailed, ConfirmationSent, PeriodicSweep, Start, Tick, Rollback,
         TelepathosdConsumes
<1> QED
  BY <1>6, <1>7, <1>8, <1>9, <1>10, <1>11, <1>12, <1>13, <1>14, <1>15 DEF BridgeNext

\* A reply that was heard waits for its retirement, or is erased, and what is
\* erased is not replayed on the socket of the handset.
Fenced ==
  \A i \in Installations, k \in Keys :
    /\ <<i, k>> \in heard =>
         \/ phase[i][k] \in {"ready", "retirement_pending"}
         \/ phase[i][k] = "absent" /\ <<i, k>> \in settled
    /\ <<i, k>> \in settled =>
         \A s \in Sockets : current[i] = s => ~Replayed(s, k)

\* The invariant of the theorem, and its parts.
FencedInv == ProofInv /\ Ordered /\ Fenced

\* What the steps below need of it.
LEMMA FencedParts ==
  ASSUME FencedInv
  PROVE  /\ TypeOK /\ ExchangeTypeOK /\ Ordered /\ Fenced /\ ProofInv
         /\ settled \subseteq Partings
BY ProofParts DEF FencedInv, Retirements

\* The bridge replays nothing that is over, and what is erased is.
LEMMA BridgeFences ==
  ASSUME FencedInv, ProofInv', BridgeStep
  PROVE  FencedInv'
<1>1. /\ ProofInv /\ Ordered /\ Fenced /\ BridgeNext
      /\ UNCHANGED <<phase, current, heard, settled>> /\ settled \subseteq Partings
  BY FencedParts DEF BridgeStep, handset, FencedInv
<1>2. Ordered' /\ \A s \in Sockets, k \in Keys : Replayed(s, k)' => Replayed(s, k) \/ ~Over(k)
  BY <1>1, BridgeOrdered
<1>3. Fenced'
  <2> SUFFICES ASSUME NEW i \in Installations, NEW k \in Keys, <<i, k>> \in settled,
                      NEW s \in Sockets, current[i] = s
               PROVE  ~Replayed(s, k)'
    BY <1>1 DEF Fenced, Replayed
  <2>1. ~Replayed(s, k)
    BY <1>1 DEF Fenced
  <2>2. Over(k)
    BY <1>1 DEF Partings, Parted
  <2> QED
    BY <1>2, <2>1, <2>2
<1> QED
  BY <1>2, <1>3 DEF FencedInv

\* A step of a handset that opens no socket brings back no replay.
LEMMA HandsetFences ==
  ASSUME FencedInv, ProofInv', UNCHANGED link, TakesDown,
         \A i \in Installations : current'[i] \in {current[i], NoSocket},
         \A i \in Installations, k \in Keys : <<i, k>> \in heard' =>
           \/ phase'[i][k] \in {"ready", "retirement_pending"}
           \/ phase'[i][k] = "absent" /\ <<i, k>> \in settled',
         \A i \in Installations, k \in Keys : <<i, k>> \in settled' =>
           \/ <<i, k>> \in settled
           \/ \A s \in Sockets : current[i] = s => ~Replayed(s, k)'
  PROVE  FencedInv'
<1>1. TypeOK /\ Ordered /\ Fenced
  BY FencedParts
<1>2. \A x \in Sockets :
        \/ down'[x] = down[x] /\ (link'[x] = "closed" => link[x] = "closed")
        \/ down'[x] = <<>>
        \/ down[x] # <<>> /\ down'[x] = Tail(down[x]) /\ link'[x] = link[x]
  BY <1>1 DEF TakesDown, TypeOK
<1>3. Ordered' /\ \A x \in Sockets, k \in Keys : Replayed(x, k)' => Replayed(x, k)
  BY <1>1, <1>2, LostOrdered
<1>4. ASSUME NEW i \in Installations, NEW k \in Keys, <<i, k>> \in settled',
             NEW s \in Sockets, current'[i] = s
      PROVE  ~Replayed(s, k)'
  <2>1. current[i] = s
    BY <1>4, AbsentAssumption
  <2>2. CASE <<i, k>> \in settled
    BY <1>1, <1>3, <2>1, <2>2 DEF Fenced
  <2> QED
    BY <1>4, <2>1, <2>2
<1>5. Fenced'
  <2> SUFFICES ASSUME NEW i \in Installations, NEW k \in Keys
               PROVE  /\ <<i, k>> \in heard' =>
                           \/ phase'[i][k] \in {"ready", "retirement_pending"}
                           \/ phase'[i][k] = "absent" /\ <<i, k>> \in settled'
                      /\ <<i, k>> \in settled' =>
                           \A s \in Sockets : current'[i] = s => ~Replayed(s, k)'
    BY DEF Fenced, Replayed
  <2> QED
    BY <1>4
<1> QED
  BY <1>3, <1>5 DEF FencedInv

\* Most steps hear nothing and erase nothing.
LEMMA NothingHeard ==
  ASSUME FencedInv, ProofInv', UNCHANGED <<link, heard, settled>>, TakesDown,
         \A i \in Installations : current'[i] \in {current[i], NoSocket},
         \A i \in Installations, k \in Keys : <<i, k>> \in heard =>
           \/ phase'[i][k] = phase[i][k]
           \/ phase'[i][k] \in {"ready", "retirement_pending"}
  PROVE  FencedInv'
<1>1. Fenced
  BY FencedParts
<1>2. \A i \in Installations, k \in Keys : <<i, k>> \in heard' =>
        \/ phase'[i][k] \in {"ready", "retirement_pending"}
        \/ phase'[i][k] = "absent" /\ <<i, k>> \in settled'
  BY <1>1 DEF Fenced
<1> QED
  BY <1>2, HandsetFences

\* A new connection starts with nothing replayed.
LEMMA ConnectFences ==
  ASSUME FencedInv, ProofInv', NEW i \in Installations, NEW s \in Sockets, Connect(i, s)
  PROVE  FencedInv'
<1>1. TypeOK /\ ExchangeTypeOK /\ Ordered /\ Fenced
  BY FencedParts
<1>2. /\ link[s] = "closed" /\ link' = [link EXCEPT ![s] = "opening"]
      /\ current' = [current EXCEPT ![i] = s]
      /\ UNCHANGED <<down, phase, heard, settled>>
  BY DEF Connect, Dial
<1>3. Ordered'
  BY <1>1, <1>2 DEF Ordered, Replayed, TypeOK
<1>4. ASSUME NEW j \in Installations, NEW k \in Keys, <<j, k>> \in settled,
             NEW x \in Sockets, current'[j] = x
      PROVE  ~Replayed(x, k)
  <2>1. CASE x = s
    BY <1>1, <1>2, <2>1 DEF Ordered
  <2>2. CASE x # s
    BY <1>1, <1>2, <1>4, <2>2 DEF Fenced, ExchangeTypeOK
  <2> QED
    BY <2>1, <2>2
<1>5. Fenced'
  <2>1. ASSUME NEW j \in Installations, NEW k \in Keys
        PROVE  /\ <<j, k>> \in heard' =>
                    \/ phase'[j][k] \in {"ready", "retirement_pending"}
                    \/ phase'[j][k] = "absent" /\ <<j, k>> \in settled'
               /\ <<j, k>> \in settled' =>
                    \A x \in Sockets : current'[j] = x => ~Replayed(x, k)'
    <3>1. \A x \in Sockets : Replayed(x, k)' <=> Replayed(x, k)
      BY <1>2 DEF Replayed
    <3>2. UNCHANGED <<phase, heard, settled>>
      BY <1>2
    <3> QED
      BY <1>1, <1>4, <3>1, <3>2 DEF Fenced
  <2> QED
    BY <2>1 DEF Fenced, Replayed
<1> QED
  BY <1>3, <1>5 DEF FencedInv

\* A lost socket, the retry timer and ready play nothing again.
LEMMA QuietFences ==
  ASSUME FencedInv, ProofInv',
         \/ Lost
         \/ \E i \in Installations, saved \in BOOLEAN : ReadReady(i, saved)
         \/ \E i \in Installations, k \in Keys : Resend(i, k)
  PROVE  FencedInv'
<1>1. TypeOK /\ ExchangeTypeOK /\ Fenced
  BY FencedParts
<1>2. CASE \/ Lost
           \/ \E i \in Installations, k \in Keys : Resend(i, k)
  <2>1. /\ UNCHANGED <<link, phase, heard, settled>> /\ TakesDown
        /\ \A i \in Installations : current'[i] \in {current[i], NoSocket}
    BY <1>1, <1>2, ReadsTakes DEF Lost, Disconnect, Unread, RefuseAgentEnd, Resend, TakesDown,
       handset, bridgeRest, ExchangeTypeOK
  <2> QED
    BY <2>1, NothingHeard
<1>3. ASSUME NEW i \in Installations, NEW saved \in BOOLEAN, ReadReady(i, saved)
      PROVE  FencedInv'
  <2>1. TakesDown /\ UNCHANGED <<link, current, heard, settled>>
    BY <1>1, <1>3, ReadsTakes DEF ReadReady, bridgeRest
  <2>2. \A j \in Installations, k \in Keys :
          <<j, k>> \in heard => phase'[j][k] = phase[j][k]
    <3> SUFFICES ASSUME NEW j \in Installations, NEW k \in Keys, <<j, k>> \in heard
                 PROVE  phase'[j][k] = phase[j][k]
      OBVIOUS
    <3>1. phase'[j][k] \in {phase[j][k], Rearm(phase[j][k])}
      BY <1>1, <1>3 DEF ReadReady, ExchangeTypeOK
    <3>2. phase[j][k] \in {"ready", "retirement_pending", "absent"}
      BY <1>1 DEF Fenced
    <3> QED
      BY <3>1, <3>2, HeardKept
  <2> QED
    BY <2>1, <2>2, NothingHeard
<1> QED
  BY <1>2, <1>3

\* An erased receipt is not replayed to the handset that erased it, so
\* agent_end arms none that was heard; nor do reply_received and a fence.
LEMMA ArmingFences ==
  ASSUME FencedInv, ProofInv', NEW i \in Installations, NEW k \in Keys,
         NEW saved \in BOOLEAN,
         ReadAgentEnd(i, k, saved) \/ ReadReceived(i, k, saved) \/ Fence(i, k, saved)
  PROVE  FencedInv'
<1>1. TypeOK /\ ExchangeTypeOK /\ Fenced
  BY FencedParts
<1>2. PICK p : p = phase[i][k]
  OBVIOUS
<1>3. p \in HandsetPhase
  BY <1>1, <1>2 DEF ExchangeTypeOK
<1>4. TakesDown /\ UNCHANGED <<link, current, heard, settled>>
  BY <1>1, ReadsTakes DEF ReadAgentEnd, ReadReceived, Fence, TakesDown, bridgeRest
<1>5. <<i, k>> \in heard => p \in {"ready", "retirement_pending", "absent"}
  BY <1>1, <1>2 DEF Fenced
<1>6. PICK q \in HandsetPhase : Commit(i, k, q, saved) /\ (<<i, k>> \in heard => q = p)
  <2>1. CASE ReadAgentEnd(i, k, saved)
    <3>1. CASE p = "absent"
      <4> DEFINE s == current[i]
      <4>1. /\ s \in Sockets /\ down[s] # <<>> /\ down[s] \in Seq(DownFrame)
            /\ Head(down[s]) = <<"agent_end", k>>
        BY <1>1, <2>1, ReadsTakes DEF ReadAgentEnd
      <4>2. Replayed(s, k)
        <5>1. 1 \in 1..Len(down[s]) /\ down[s][1] = <<"agent_end", k>>
          BY <4>1 DEF DownFrame
        <5> QED
          BY <5>1 DEF Replayed
      <4>3. <<i, k>> \notin settled
        BY <1>1, <4>1, <4>2 DEF Fenced
      <4>4. <<i, k>> \notin heard
        BY <1>1, <1>2, <3>1, <4>3 DEF Fenced
      <4> HIDE DEF s
      <4> QED
        BY <1>2, <1>3, <2>1, <3>1, <4>4 DEF ReadAgentEnd, HandsetPhase
    <3>2. CASE p # "absent"
      <4>1. PICK q \in {p, Suppress(p)} : Commit(i, k, q, saved)
        BY <1>2, <2>1, <3>2 DEF ReadAgentEnd
      <4> QED
        BY <1>3, <1>5, <4>1, RearmKeeps, HeardKept
    <3> QED
      BY <3>1, <3>2
  <2>2. CASE ReadReceived(i, k, saved)
    BY <1>2, <1>3, <1>5, <2>2 DEF ReadReceived, HandsetPhase
  <2>3. CASE Fence(i, k, saved)
    BY <1>2, <1>3, <1>5, <2>3, RearmKeeps, HeardKept DEF Fence
  <2> QED
    BY <2>1, <2>2, <2>3
<1>7. \A j \in Installations, x \in Keys :
        phase'[j][x] = IF saved /\ j = i /\ x = k THEN q ELSE phase[j][x]
  BY <1>1, <1>6, CommitType
<1>8. \A j \in Installations, x \in Keys :
        <<j, x>> \in heard => phase'[j][x] = phase[j][x]
  BY <1>2, <1>6, <1>7
<1> QED
  BY <1>4, <1>8, NothingHeard

\* Hearing a reply makes it ready.
LEMMA HeardFences ==
  ASSUME FencedInv, ProofInv', NEW i \in Installations, NEW k \in Keys,
         NEW saved \in BOOLEAN, Heard(i, k, saved)
  PROVE  FencedInv'
<1>1. TypeOK /\ ExchangeTypeOK /\ Fenced
  BY FencedParts
<1>2. PICK q \in HandsetPhase : q = "ready"
  BY DEF HandsetPhase
<1>3. /\ Commit(i, k, q, saved)
      /\ heard' = IF saved THEN heard \cup {<<i, k>>} ELSE heard
      /\ TakesDown /\ UNCHANGED <<link, current, settled>>
  BY <1>2 DEF Heard, TakesDown, bridgeRest
<1>4. \A j \in Installations, x \in Keys :
        phase'[j][x] = IF saved /\ j = i /\ x = k THEN q ELSE phase[j][x]
  BY <1>1, <1>3, CommitType
<1>5. \A j \in Installations, x \in Keys : <<j, x>> \in heard' =>
        \/ phase'[j][x] \in {"ready", "retirement_pending"}
        \/ phase'[j][x] = "absent" /\ <<j, x>> \in settled'
  BY <1>1, <1>2, <1>3, <1>4 DEF Fenced
<1> QED
  BY <1>3, <1>5, HandsetFences

\* reply_acknowledged moves a receipt on to retirement.
LEMMA AcknowledgedFences ==
  ASSUME FencedInv, ProofInv', NEW i \in Installations, NEW k \in Keys,
         NEW saved \in BOOLEAN, ReadAcknowledged(i, k, saved)
  PROVE  FencedInv'
<1>1. TypeOK /\ ExchangeTypeOK
  BY FencedParts
<1>2. PICK p : p = phase[i][k]
  OBVIOUS
<1>3. PICK q \in HandsetPhase :
        Commit(i, k, q, saved) /\ (q = p \/ q = "retirement_pending")
  BY <1>1, <1>2 DEF ReadAcknowledged, ExchangeTypeOK, HandsetPhase
<1>4. TakesDown /\ UNCHANGED <<link, current, heard, settled>>
  BY <1>1, ReadsTakes DEF ReadAcknowledged, bridgeRest
<1>5. \A j \in Installations, x \in Keys :
        phase'[j][x] = IF saved /\ j = i /\ x = k THEN q ELSE phase[j][x]
  BY <1>1, <1>3, CommitType
<1> QED
  BY <1>2, <1>3, <1>4, <1>5, NothingHeard

\* The confirmation that erases a receipt came after its last replay.
LEMMA RetiredFences ==
  ASSUME FencedInv, ProofInv', NEW i \in Installations, NEW k \in Keys,
         NEW saved \in BOOLEAN, ReadRetired(i, k, saved)
  PROVE  FencedInv'
<1> DEFINE s == current[i]
<1>1. TypeOK /\ ExchangeTypeOK /\ Ordered /\ Fenced
  BY FencedParts
<1>2. PICK p : p = phase[i][k]
  OBVIOUS
<1>3. PICK q \in HandsetPhase :
        /\ Commit(i, k, q, saved)
        /\ p = "retirement_pending" => q = "absent"
        /\ p # "retirement_pending" => q = p
  BY <1>1, <1>2 DEF ReadRetired, ExchangeTypeOK, HandsetPhase
<1>4. /\ Reads(i, <<"reply_ack_retired", k>>)
      /\ settled' = IF p = "retirement_pending" /\ saved
                    THEN settled \cup {<<i, k>>} ELSE settled
      /\ UNCHANGED <<link, current, heard>>
  BY <1>2 DEF ReadRetired, bridgeRest
<1>5. /\ TakesDown /\ s \in Sockets /\ down[s] # <<>> /\ down[s] \in Seq(DownFrame)
      /\ Head(down[s]) = <<"reply_ack_retired", k>>
      /\ down' = [down EXCEPT ![s] = Tail(@)]
  BY <1>1, <1>4, ReadsTakes
<1>6. ~Replayed(s, k)'
  <2>1. 1 \in 1..Len(down[s]) /\ down[s][1] = <<"reply_ack_retired", k>>
    BY <1>5 DEF DownFrame
  <2>2. \A m \in 1..Len(down[s]) : down[s][m] # <<"agent_end", k>>
    BY <1>1, <1>5, <2>1 DEF Ordered
  <2>3. down'[s] = Tail(down[s])
    BY <1>1, <1>5 DEF TypeOK
  <2>4. \A n \in 1..Len(down'[s]) :
          n + 1 \in 1..Len(down[s]) /\ down'[s][n] = down[s][n + 1]
    <3> HIDE DEF DownFrame, s
    <3> QED
      BY <1>5, <2>3, TailElements
  <2>5. \A n \in 1..Len(down'[s]) : down'[s][n] # <<"agent_end", k>>
    BY <2>2, <2>4
  <2>6. s' = s
    BY <1>4
  <2> QED
    BY <2>5, <2>6 DEF Replayed
<1>7. \A j \in Installations, x \in Keys :
        phase'[j][x] = IF saved /\ j = i /\ x = k THEN q ELSE phase[j][x]
  BY <1>1, <1>3, CommitType
<1>8. \A j \in Installations, x \in Keys : <<j, x>> \in heard' =>
        \/ phase'[j][x] \in {"ready", "retirement_pending"}
        \/ phase'[j][x] = "absent" /\ <<j, x>> \in settled'
  BY <1>1, <1>2, <1>3, <1>4, <1>7 DEF Fenced
<1>9. \A j \in Installations, x \in Keys : <<j, x>> \in settled' =>
        \/ <<j, x>> \in settled
        \/ \A y \in Sockets : current[j] = y => ~Replayed(y, x)'
  <2> SUFFICES ASSUME NEW j \in Installations, NEW x \in Keys,
                      <<j, x>> \in settled', <<j, x>> \notin settled,
                      NEW y \in Sockets, current[j] = y
               PROVE  ~Replayed(y, x)'
    OBVIOUS
  <2>1. j = i /\ x = k /\ y = s /\ s' = s
    BY <1>4
  <2> HIDE DEF s
  <2> QED
    BY <1>6, <2>1 DEF Replayed
<1>10. UNCHANGED link /\ \A j \in Installations : current'[j] \in {current[j], NoSocket}
  BY <1>4
<1> QED
  BY <1>5, <1>8, <1>9, <1>10, HandsetFences

\* At the start nothing is replayed or heard.
LEMMA FencedInit == ExchangeInit => FencedInv
<1> SUFFICES ASSUME ExchangeInit PROVE FencedInv
  OBVIOUS
<1>1. \A s \in Sockets : Len(down[s]) = 0
  BY DEF ExchangeInit, Init
<1>2. Ordered
  BY <1>1 DEF Ordered, Replayed
<1>3. Fenced
  BY DEF ExchangeInit, Fenced
<1> QED
  BY <1>2, <1>3, ProofInit DEF FencedInv

\* Every step of the exchange keeps what was heard behind the fence.
LEMMA FencedStep ==
  ASSUME ~HalfOpen, FencedInv, [ExchangeNext]_allVars
  PROVE  FencedInv'
<1>1. ProofInv'
  BY ProofStep, FencedParts
<1>2. CASE BridgeStep
  BY <1>1, <1>2, BridgeFences
<1>3. CASE HandsetStep
  <2>1. ASSUME NEW i \in Installations, NEW s \in Sockets, Connect(i, s)
        PROVE  FencedInv'
    BY <1>1, <2>1, ConnectFences
  <2>2. ASSUME NEW i \in Installations, NEW ok \in BOOLEAN, ReadReady(i, ok)
        PROVE  FencedInv'
    BY <1>1, <2>2, QuietFences
  <2>3. ASSUME NEW i \in Installations, NEW k \in Keys, NEW ok \in BOOLEAN,
               \/ ReadAgentEnd(i, k, ok) \/ ReadReceived(i, k, ok)
               \/ Heard(i, k, ok) \/ ReadAcknowledged(i, k, ok)
               \/ ReadRetired(i, k, ok) \/ Fence(i, k, ok)
        PROVE  FencedInv'
    BY <1>1, <2>3, ArmingFences, HeardFences, AcknowledgedFences, RetiredFences
  <2>4. ASSUME NEW i \in Installations, NEW k \in Keys, Resend(i, k)
        PROVE  FencedInv'
    BY <1>1, <2>4, QuietFences
  <2>5. CASE Lost
    BY <1>1, <2>5, QuietFences
  <2> QED
    BY <1>3, <2>1, <2>2, <2>3, <2>4, <2>5, HandsetCases
<1>4. CASE UNCHANGED allVars
  <2>1. UNCHANGED <<down, link, phase, current, heard, settled>>
    BY <1>4 DEF allVars, vars, handset
  <2>2. Ordered' /\ Fenced'
    BY <2>1 DEF FencedInv, Ordered, Fenced, Replayed
  <2> QED
    BY <1>1, <2>2 DEF FencedInv
<1> QED
  BY <1>2, <1>3, <1>4 DEF ExchangeNext

\* No handset plays a reply again once it recorded hearing it, and none enters
\* terminal retirement but for a delivery telepathosd consumed, for any number
\* of handsets: whatever is replayed, retried, lost, restarted or taken over by
\* another installation, unless a handset may redial before the bridge saw its
\* last socket close.
THEOREM HeardOnceByEach ==
  ASSUME ~HalfOpen
  PROVE  ExchangeSpec => []HandsetIsTruthful
<1>1. FencedInv /\ [ExchangeNext]_allVars => FencedInv'
  BY FencedStep
<1>2. FencedInv => HandsetIsTruthful
  <2> SUFFICES ASSUME FencedInv PROVE HandsetIsTruthful
    OBVIOUS
  <2>1. ExchangeTypeOK /\ RetirementIsConsumed
    BY FencedParts DEF ProofInv, ExchangeInv, Earned
  <2>2. HeardOnce
    BY <2>1, FencedParts DEF Fenced, HeardOnce, ExchangeTypeOK
  <2> QED
    BY <2>1, <2>2 DEF HandsetIsTruthful
<1> QED
  BY <1>1, <1>2, FencedInit, PTL DEF ExchangeSpec
=============================================================================
