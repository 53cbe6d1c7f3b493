-------------------------- MODULE RelayRequestsProofs --------------------------
(***************************************************************************)
(* For any calls, words, limits and faults: a success of POST /api/message *)
(* is the caller's own.  The argument is the compare-exchange: until a     *)
(* start finds the clock set back, an id that was taken lies below seq, so *)
(* the next one taken is new; and the row found under it is the caller's,  *)
(* since one that says something else is a mistake.                        *)
(***************************************************************************)
EXTENDS RelayRequests, FiniteSetTheorems, QueueLemmas

\* The steps of a call that owns an id, and of one that owns a row.
Named == {"named", "queued", "accepted"}
WithRow == {"queued", "accepted"}

PostIsCall ==
  /\ post = [t \in Turns |-> post[t]]
  /\ \A t \in Turns :
       /\ post[t] = [step |-> post[t].step, id |-> post[t].id, row |-> post[t].row]
       /\ post[t].step \in Steps /\ post[t].id \in Nat

\* A row that a call found or wrote has its id and its words.
RowIsCalls ==
  \A t \in Turns : post[t].step \in WithRow =>
    post[t].row.id = post[t].id /\ post[t].row.says = Says[t]

\* Ids taken are below the next one, and nobody shares one.
IdsAreTaken ==
  ~setBack => \A t \in Turns : post[t].step \in Named =>
    /\ post[t].id < seq
    /\ \A u \in Turns : u # t /\ post[u].step \in Named => post[u].id # post[t].id

CallsInv ==
  /\ seq \in Nat /\ setBack \in BOOLEAN
  /\ PostIsCall /\ RowIsCalls /\ IdsAreTaken

-----------------------------------------------------------------------------
\* Before the first call nobody has an id.
LEMMA InitCalls == Init => CallsInv
<1> SUFFICES ASSUME Init PROVE CallsInv OBVIOUS
<1>1. /\ seq = 0 /\ setBack = FALSE /\ post = [t \in Turns |-> NoPost] BY DEF Init
<1>2. \A t \in Turns : post[t] = NoPost BY <1>1
<1>3. NoPost.step = "new" /\ NoPost.id = 0 /\ NoPost.row = NoRow BY DEF NoPost
<1>4. NoPost = [step |-> NoPost.step, id |-> NoPost.id, row |-> NoPost.row]
  BY DEF NoPost
<1>5. PostIsCall
  <2>1. post = [t \in Turns |-> post[t]] BY <1>1
  <2> QED BY <2>1, <1>2, <1>3, <1>4 DEF PostIsCall, Steps
<1>6. RowIsCalls BY <1>2, <1>3 DEF RowIsCalls, WithRow
<1>7. IdsAreTaken BY <1>2, <1>3 DEF IdsAreTaken, Named
<1> QED BY <1>1, <1>5, <1>6, <1>7 DEF CallsInv

\* Reading the next id takes nothing.
LEMMA LoadCalls == ASSUME CallsInv, NEW t \in Turns, Load(t) PROVE CallsInv'
<1> USE DEF CallsInv, Load, Named, WithRow
<1>1. post' = [post EXCEPT ![t] = [step |-> "loaded", id |-> seq, row |-> post[t].row]]
  OBVIOUS
<1>2. PostIsCall' BY <1>1 DEF PostIsCall, Steps
<1>3. RowIsCalls' BY <1>1 DEF PostIsCall, RowIsCalls
<1>4. IdsAreTaken' BY <1>1 DEF PostIsCall, IdsAreTaken, history
<1> QED BY <1>2, <1>3, <1>4 DEF history

\* The compare-exchange takes the id that equals seq, and moves seq past it.
LEMMA AllocateCalls == ASSUME CallsInv, NEW t \in Turns, Allocate(t) PROVE CallsInv'
<1> USE DEF CallsInv, Named, WithRow
<1>1. PICK s \in {"mistaken", "new", "named"} :
        /\ post' = [post EXCEPT ![t].step = s]
        /\ IF s = "named" THEN seq = post[t].id /\ seq' = seq + 1 ELSE seq' = seq
  BY DEF Allocate, Moves
<1>2. setBack' = setBack BY DEF Allocate, history
<1>3. PostIsCall' BY <1>1 DEF PostIsCall, Steps
<1>4. \A u \in Turns : /\ post'[u].id = post[u].id /\ post'[u].row = post[u].row
                       /\ u # t => post'[u].step = post[u].step
                       /\ u = t => post'[u].step = s
  BY <1>1 DEF PostIsCall
<1>5. RowIsCalls' BY <1>4 DEF RowIsCalls
<1>6. IdsAreTaken'
  <2>1. CASE s = "named" BY <2>1, <1>1, <1>2, <1>4 DEF IdsAreTaken, PostIsCall
  <2>2. CASE s # "named" BY <2>2, <1>1, <1>2, <1>4 DEF IdsAreTaken, PostIsCall
  <2> QED BY <2>1, <2>2
<1> QED BY <1>1, <1>2, <1>3, <1>5, <1>6 DEF PostIsCall

\* The row written, or found under the id, says what the call says.
LEMMA EnqueueCalls == ASSUME CallsInv, NEW t \in Turns, Enqueue(t) PROVE CallsInv'
<1> USE DEF CallsInv, Named, WithRow
<1>1. seq' = seq /\ setBack' = setBack /\ post[t].step = "named" BY DEF Enqueue
<1>2. \/ \E s \in {"refused", "mistaken"} : post' = [post EXCEPT ![t].step = s]
      \/ \E r : /\ r.id = post[t].id /\ r.says = Says[t]
                /\ post' = [post EXCEPT ![t] = [step |-> "queued", id |-> post[t].id,
                                                row |-> r]]
  BY DEF Enqueue, Refuses, Moves, Existing, Clash, Queued, Event
<1>3. CASE \E s \in {"refused", "mistaken"} : post' = [post EXCEPT ![t].step = s]
  <2>1. PICK s \in {"refused", "mistaken"} : post' = [post EXCEPT ![t].step = s] BY <1>3
  <2>2. PostIsCall' BY <2>1 DEF PostIsCall, Steps
  <2>3. RowIsCalls' BY <2>1 DEF PostIsCall, RowIsCalls
  <2>4. IdsAreTaken' BY <2>1, <1>1 DEF PostIsCall, IdsAreTaken
  <2> QED BY <1>1, <2>2, <2>3, <2>4
<1>4. CASE \E r : /\ r.id = post[t].id /\ r.says = Says[t]
                  /\ post' = [post EXCEPT ![t] = [step |-> "queued", id |-> post[t].id,
                                                  row |-> r]]
  <2>1. PICK r : /\ r.id = post[t].id /\ r.says = Says[t]
                 /\ post' = [post EXCEPT ![t] = [step |-> "queued", id |-> post[t].id,
                                                 row |-> r]]
    BY <1>4
  <2>2. PostIsCall' BY <2>1 DEF PostIsCall, Steps
  <2>3. RowIsCalls' BY <2>1 DEF PostIsCall, RowIsCalls
  <2>4. IdsAreTaken' BY <2>1, <1>1 DEF PostIsCall, IdsAreTaken
  <2> QED BY <1>1, <2>2, <2>3, <2>4
<1> QED BY <1>2, <1>3, <1>4

\* The note in the sidecar changes neither ids nor rows.
LEMMA RegisterCalls ==
  ASSUME CallsInv, NEW t \in Turns, NEW o \in WriteOutcomes, Register(t, o) PROVE CallsInv'
<1> USE DEF CallsInv, Named, WithRow
<1>1. /\ seq' = seq /\ setBack' = setBack /\ post[t].step = "queued"
      /\ post' = [post EXCEPT ![t].step = "accepted"]
  BY DEF Register, Moves, history
<1>2. PostIsCall' BY <1>1 DEF PostIsCall, Steps
<1>3. RowIsCalls' BY <1>1 DEF PostIsCall, RowIsCalls
<1>4. IdsAreTaken' BY <1>1 DEF PostIsCall, IdsAreTaken
<1> QED BY <1>1, <1>2, <1>3, <1>4

\* A start ends the calls under way; ids count from a clock that is not behind,
\* or nothing more is said of them.
LEMMA RestartCalls ==
  ASSUME CallsInv, NEW back \in 0..MaxRollback, Restart(back) PROVE CallsInv'
<1> USE DEF CallsInv, Named, WithRow, InFlight
<1>1. /\ back <= seq /\ seq' = seq - back /\ setBack' = (setBack \/ back > 0)
      /\ back \in Nat
  BY RequestsAssumption DEF Restart
<1>2. \A t \in Turns :
        /\ post'[t] = [step |-> post'[t].step, id |-> post[t].id, row |-> post[t].row]
        /\ post'[t].step \in {post[t].step, "gone"} \ {"loaded", "named", "queued"}
  <2> SUFFICES ASSUME NEW t \in Turns
               PROVE  /\ post'[t] = [step |-> post'[t].step, id |-> post[t].id,
                                     row |-> post[t].row]
                      /\ post'[t].step \in {post[t].step, "gone"}
                                            \ {"loaded", "named", "queued"}
    OBVIOUS
  <2>1. post[t] = [step |-> post[t].step, id |-> post[t].id, row |-> post[t].row]
    BY DEF PostIsCall
  <2>2. post'[t] = IF post[t].step \in {"loaded", "named", "queued"}
                   THEN [post[t] EXCEPT !.step = "gone"] ELSE post[t]
    BY DEF Restart
  <2>3. [post[t] EXCEPT !.step = "gone"]
          = [step |-> "gone", id |-> post[t].id, row |-> post[t].row]
    BY <2>1
  <2> QED BY <2>1, <2>2, <2>3
<1>3. PostIsCall'
  <2>1. post' = [t \in Turns |-> post'[t]] BY DEF Restart
  <2>2. ASSUME NEW t \in Turns
        PROVE  /\ post'[t] = [step |-> post'[t].step, id |-> post'[t].id,
                              row |-> post'[t].row]
               /\ post'[t].step \in Steps /\ post'[t].id \in Nat
    <3>1. post'[t] = [step |-> post'[t].step, id |-> post[t].id, row |-> post[t].row]
      BY <1>2
    <3>2. post'[t].id = post[t].id /\ post'[t].row = post[t].row BY <3>1
    <3>3. post'[t].step \in Steps BY <1>2 DEF PostIsCall, Steps
    <3> QED BY <3>1, <3>2, <3>3 DEF PostIsCall
  <2> QED BY <2>1, <2>2 DEF PostIsCall
<1>4. ASSUME NEW t \in Turns
      PROVE  post'[t].id = post[t].id /\ post'[t].row = post[t].row
  <2>1. post'[t] = [step |-> post'[t].step, id |-> post[t].id, row |-> post[t].row]
    BY <1>2
  <2> QED BY <2>1
<1>5. \A t \in Turns : /\ post'[t].step \in Named => post'[t].step = post[t].step
                       /\ post'[t].step # "named" /\ post'[t].step # "queued"
  BY <1>2
<1>6. RowIsCalls' BY <1>4, <1>5 DEF RowIsCalls
<1>7. IdsAreTaken'
  <2>1. ~setBack' => ~setBack /\ ~(back > 0) BY <1>1, Zenon
  <2>2. ~(back > 0) => seq' = seq BY <1>1
  <2> QED BY <2>1, <2>2, <1>4, <1>5 DEF IdsAreTaken
<1> QED BY <1>1, <1>3, <1>6, <1>7

\* Every step keeps the invariant.
LEMMA NextCalls == CallsInv /\ [Next]_vars => CallsInv'
<1> SUFFICES ASSUME CallsInv, [Next]_vars PROVE CallsInv' OBVIOUS
<1>1. CASE \E t \in Turns : Called(t)
  BY <1>1, LoadCalls, AllocateCalls, EnqueueCalls, RegisterCalls DEF Called
<1>2. CASE \E back \in 0..MaxRollback : Restart(back) BY <1>2, RestartCalls
<1>3. CASE UNCHANGED <<seq, post, setBack>>
  BY <1>3 DEF CallsInv, PostIsCall, RowIsCalls, IdsAreTaken
<1>4. CASE \E r \in ToSet(rows) : Acknowledge(r) BY <1>4, <1>3 DEF Acknowledge, history
<1>5. CASE \E r \in owed, outcome \in WriteOutcomes : Reply(r, outcome)
  BY <1>5, <1>3 DEF Reply
<1>6. CASE UNCHANGED vars BY <1>6, <1>3 DEF vars
<1> QED BY <1>1, <1>2, <1>4, <1>5, <1>6 DEF Next

\* Rows of two calls have two ids.
LEMMA CallsOwnRows == CallsInv => SuccessIsItsOwn
<1> SUFFICES ASSUME CallsInv PROVE SuccessIsItsOwn OBVIOUS
<1>1. WordsAreKept BY DEF CallsInv, RowIsCalls, WithRow, WordsAreKept
<1>2. RowOfItsOwn
  BY DEF CallsInv, RowIsCalls, IdsAreTaken, Named, WithRow, RowOfItsOwn
<1> QED BY <1>1, <1>2 DEF SuccessIsItsOwn

\* post_message (main.rs:1289-1370): whoever is told of success has a row of its
\* own with its own words, whatever calls race, writes fail and restarts happen;
\* the row is shared with nobody unless a start found the clock set back.
THEOREM CallersOwnTheirSuccess == FairSpec => []SuccessIsItsOwn
<1>1. Init => CallsInv BY InitCalls
<1>2. CallsInv /\ [Next]_vars => CallsInv' BY NextCalls
<1>3. CallsInv => SuccessIsItsOwn BY CallsOwnRows
<1> QED BY <1>1, <1>2, <1>3, PTL DEF FairSpec

-----------------------------------------------------------------------------
(***************************************************************************)
(* The files load again, and an accepted turn stays in the sidecar until   *)
(* its reply comes.  The second rests, so long as nothing failed, on where *)
(* the ids of the sidecar come from: each is that of one accepted call, so *)
(* when the oldest has to make room, more than MaxRequests were accepted;  *)
(* and a reply takes out the id of its own row, which no other call has.   *)
(***************************************************************************)

Accepted == {t \in Turns : post[t].step = "accepted"}

\* The sidecar holds ids of accepted calls, each once; rows that are owed a
\* reply are those of calls.
SidecarIsTheirs ==
  /\ ~setBack
  /\ \A i \in DOMAIN requests : \E t \in Accepted : post[t].id = requests[i]
  /\ IsInjective(requests)
  /\ \A r \in owed : \E t \in Turns : post[t].step \in WithRow /\ post[t].row = r
  /\ \A t \in Accepted : post[t].row \in owed =>
       post[t].id \in ToSet(requests) \/ Cardinality(Accepted) > MaxRequests

SidecarInv ==
  /\ CallsInv /\ RequestsTypeOK /\ FilesLoad
  /\ IsFiniteSet(Accepted)
  /\ faults = 0 => SidecarIsTheirs

-----------------------------------------------------------------------------
(* The sidecar *)

\* How a write of the sidecar ends, fenced or not.
LEMMA SidecarEnds ==
  ASSUME NEW list, NEW outcome \in WriteOutcomes, PersistRequests(list, outcome),
         fenced \in BOOLEAN
  PROVE  /\ requests' = list /\ saved' \in {list, saved} /\ fenced' \in BOOLEAN
         /\ faults' = faults \/ Faulty
<1>1. requests' = list
  BY DEF PersistRequests
<1>2. CASE fenced
  <2>1. UNCHANGED <<saved, fenced, faults>>
    BY <1>2, Zenon DEF PersistRequests
  <2> QED
    BY <1>1, <2>1
<1>3. CASE ~fenced
  <2>1. CASE outcome = "ok"
    <3>1. saved' = list /\ UNCHANGED <<fenced, faults>>
      BY <1>3, <2>1, Zenon DEF PersistRequests
    <3> QED
      BY <1>1, <3>1
  <2>2. CASE outcome = "pre"
    <3>1. Faulty /\ UNCHANGED <<saved, fenced>>
      BY <1>3, <2>2, Zenon DEF PersistRequests
    <3> QED
      BY <1>1, <3>1
  <2>3. CASE outcome = "post"
    <3>1. Faulty /\ fenced' = TRUE /\ saved' \in {list, saved}
      BY <1>3, <2>3, Zenon DEF PersistRequests
    <3> QED
      BY <1>1, <3>1
  <2> QED
    BY <2>1, <2>2, <2>3, RequestsAssumption
<1> QED
  BY <1>2, <1>3

\* A request joins the sidecar; one goes only when the sidecar is full.
LEMMA WithRequestFits ==
  ASSUME requests \in Seq(Nat), Len(requests) <= MaxRequests, NEW id \in Nat
  PROVE  /\ WithRequest(id) \in Seq(Nat) /\ Len(WithRequest(id)) <= MaxRequests
         /\ ToSet(WithRequest(id)) \subseteq ToSet(requests) \cup {id}
         /\ id \in ToSet(WithRequest(id))
         /\ ToSet(requests) \subseteq ToSet(WithRequest(id)) \/ Len(requests) = MaxRequests
         /\ IsInjective(requests) /\ id \notin ToSet(requests) =>
              IsInjective(WithRequest(id))
<1> DEFINE all == Append(requests, id)
<1>1. /\ all \in Seq(Nat) /\ Len(all) = Len(requests) + 1 /\ all[Len(all)] = id
      /\ ToSet(all) = ToSet(requests) \cup {id} /\ Len(requests) \in Nat
      /\ IsInjective(requests) /\ id \notin ToSet(requests) => IsInjective(all)
  BY ToSetAppend, AppendProperties
<1>2. WithRequest(id) = IF Len(all) > MaxRequests THEN Tail(all) ELSE all
  BY DEF WithRequest
<1>3. MaxRequests \in Nat /\ MaxRequests # 0
  BY RequestsAssumption
<1> HIDE DEF all
<1>4. CASE Len(all) > MaxRequests
  <2>1. /\ all # <<>> /\ Len(requests) = MaxRequests
        /\ Len(all) \in Nat /\ Len(all) - 1 \in 1..(Len(all) - 1)
    BY <1>1, <1>3, <1>4
  <2>2. /\ Tail(all) \in Seq(Nat) /\ Len(Tail(all)) = Len(all) - 1
        /\ \A i \in 1..Len(Tail(all)) : Tail(all)[i] = all[i + 1]
    BY <1>1, <2>1, HeadTailProperties
  <2>3. /\ ToSet(Tail(all)) \subseteq ToSet(all)
        /\ IsInjective(all) => IsInjective(Tail(all))
    BY <1>1, <2>1, ToSetTail
  <2>4. id \in ToSet(Tail(all))
    <3>1. Len(all) - 1 \in 1..Len(Tail(all)) /\ (Len(all) - 1) + 1 = Len(all)
      BY <2>1, <2>2
    <3>2. Tail(all)[Len(all) - 1] = id /\ Len(all) - 1 \in DOMAIN Tail(all)
      BY <1>1, <2>2, <3>1
    <3> QED
      BY <3>2 DEF ToSet
  <2> QED
    BY <1>1, <1>2, <1>3, <1>4, <2>1, <2>2, <2>3, <2>4
<1>5. CASE ~(Len(all) > MaxRequests)
  BY <1>1, <1>2, <1>3, <1>5
<1> QED
  BY <1>4, <1>5

\* The first request of an id leaves the sidecar.
LEMMA WithoutRequestFits ==
  ASSUME requests \in Seq(Nat), Len(requests) <= MaxRequests, NEW id
  PROVE  /\ WithoutRequest(id) \in Seq(Nat) /\ Len(WithoutRequest(id)) <= MaxRequests
         /\ ToSet(WithoutRequest(id)) \subseteq ToSet(requests)
         /\ ToSet(requests) \subseteq ToSet(WithoutRequest(id)) \cup {id}
         /\ IsInjective(requests) => IsInjective(WithoutRequest(id))
<1> DEFINE S == {i \in DOMAIN requests : requests[i] = id}
           place == CHOOSE i \in S : \A j \in S : i <= j
<1>1. WithoutRequest(id) = IF S = {} THEN requests ELSE RemoveAt(requests, place)
  BY DEF WithoutRequest
<1>2. CASE S = {}
  BY <1>1, <1>2
<1>3. CASE S # {}
  <2>1. S \in SUBSET Nat
    OBVIOUS
  <2>2. \E i \in S : \A j \in S : i <= j
    BY <1>3, <2>1, FirstPlace
  <2>3. place \in S
    BY <2>2
  <2>4. place \in DOMAIN requests /\ requests[place] = id
    BY <2>3
  <2> HIDE DEF place, S
  <2>5. /\ RemoveAt(requests, place) \in Seq(Nat)
        /\ Len(RemoveAt(requests, place)) = Len(requests) - 1
        /\ ToSet(RemoveAt(requests, place)) \subseteq ToSet(requests)
        /\ ToSet(requests) \subseteq ToSet(RemoveAt(requests, place)) \cup {id}
        /\ IsInjective(requests) => IsInjective(RemoveAt(requests, place))
    BY <2>4, RemoveAtElements
  <2>6. Len(requests) - 1 <= MaxRequests
    BY RequestsAssumption
  <2> QED
    BY <1>1, <1>3, <2>5, <2>6
<1> QED
  BY <1>2, <1>3

\* Calls read on, find a row or write one: the sidecar is as it was.  A row that
\* is new is owed to a call that had no row, so its id is not an accepted one's.
LEMMA TheirsStay ==
  ASSUME CallsInv, CallsInv', SidecarIsTheirs, setBack' = setBack, requests' = requests,
         Accepted' = Accepted,
         \A t \in Turns : post[t].step \in WithRow => post'[t] = post[t],
         \A r \in owed' : r \in owed \/ \E t \in Turns :
           post[t].step = "named" /\ post'[t].step \in WithRow /\ post'[t].row = r
  PROVE  SidecarIsTheirs'
<1>1. \A r \in owed' : \E t \in Turns : post'[t].step \in WithRow /\ post'[t].row = r
  BY DEF SidecarIsTheirs
<1>2. \A t \in Accepted : t \in Turns /\ post'[t] = post[t] /\ post[t].step = "accepted"
  BY DEF Accepted, WithRow
<1>3. \A i \in DOMAIN requests : \E t \in Accepted : post'[t].id = requests[i]
  BY <1>2 DEF SidecarIsTheirs
<1>4. ASSUME NEW t \in Accepted, post'[t].row \in owed' PROVE post[t].row \in owed
  <2> SUFFICES ASSUME post[t].row \notin owed PROVE FALSE
    OBVIOUS
  <2>1. PICK u \in Turns :
          post[u].step = "named" /\ post'[u].step \in WithRow /\ post'[u].row = post[t].row
    BY <1>2, <1>4
  <2>2. /\ post'[u].row.id = post'[u].id
        /\ post[t].row.id = post[t].id
    BY <1>2, <2>1 DEF CallsInv, RowIsCalls, WithRow
  <2>3. u # t /\ post'[u].step \in Named /\ post'[t].step \in Named
    BY <1>2, <2>1 DEF Named, WithRow
  <2>4. post'[u].id # post'[t].id
    BY <1>2, <2>3 DEF CallsInv, IdsAreTaken, SidecarIsTheirs
  <2> QED
    BY <1>2, <2>1, <2>2, <2>4
<1>5. \A t \in Accepted' : post'[t].row \in owed' =>
        post'[t].id \in ToSet(requests') \/ Cardinality(Accepted') > MaxRequests
  BY <1>2, <1>4 DEF SidecarIsTheirs
<1> QED
  BY <1>1, <1>3, <1>5 DEF SidecarIsTheirs

\* More than MaxRequests calls were accepted when a full sidecar takes one more.
LEMMA FullMeansMany ==
  ASSUME requests \in Seq(Nat), Len(requests) = MaxRequests, IsInjective(requests),
         IsFiniteSet(Accepted), NEW t, t \notin Accepted,
         \A i \in DOMAIN requests : \E u \in Accepted : post[u].id = requests[i]
  PROVE  Cardinality(Accepted \cup {t}) > MaxRequests
<1> DEFINE Owner(i) == CHOOSE u \in Accepted : post[u].id = requests[i]
           f == [i \in 1..MaxRequests |-> Owner(i)]
<1>1. DOMAIN requests = 1..MaxRequests
  OBVIOUS
<1>2. \A i \in 1..MaxRequests : Owner(i) \in Accepted /\ post[Owner(i)].id = requests[i]
  BY <1>1
<1> HIDE DEF Owner
<1>3. f \in Injection(1..MaxRequests, Accepted)
  <2>1. f \in [1..MaxRequests -> Accepted]
    BY <1>2
  <2>2. ASSUME NEW i \in 1..MaxRequests, NEW j \in 1..MaxRequests, f[i] = f[j] PROVE i = j
    <3>1. requests[i] = requests[j]
      BY <1>2, <2>2
    <3> QED
      BY <1>1, <3>1 DEF IsInjective
  <2> QED
    BY <2>1, <2>2 DEF Injection, IsInjective
<1>4. IsFiniteSet(1..MaxRequests) /\ Cardinality(1..MaxRequests) = MaxRequests
  <2>1. MaxRequests \in Int /\ ~(1 > MaxRequests) /\ MaxRequests - 1 + 1 = MaxRequests
    BY RequestsAssumption
  <2>2. /\ IsFiniteSet(1..MaxRequests)
        /\ Cardinality(1..MaxRequests) =
             IF 1 > MaxRequests THEN 0 ELSE MaxRequests - 1 + 1
    BY <2>1, FS_Interval
  <2> QED
    BY <2>1, <2>2
<1>5. Cardinality(1..MaxRequests) <= Cardinality(Accepted)
  BY <1>3, <1>4, FS_Injection DEF ExistsInjection
<1>6. Cardinality(Accepted \cup {t}) = Cardinality(Accepted) + 1
  BY FS_AddElement
<1> QED
  BY <1>4, <1>5, <1>6, FS_CardinalityType, RequestsAssumption

\* A call is accepted: its id is noted.
LEMMA RegisterTheirs ==
  ASSUME SidecarInv, CallsInv', NEW t \in Turns, NEW outcome \in WriteOutcomes,
         Register(t, outcome), SidecarIsTheirs
  PROVE  SidecarIsTheirs'
<1>1. /\ post[t].step = "queued" /\ post' = [post EXCEPT ![t].step = "accepted"]
      /\ setBack' = setBack /\ owed' = owed
      /\ requests' = WithRequest(post[t].id)
  BY DEF Register, Moves, history, PersistRequests
<1>2. /\ CallsInv /\ requests \in Seq(Nat) /\ Len(requests) <= MaxRequests
      /\ IsFiniteSet(Accepted) /\ Accepted \subseteq Turns
  BY DEF SidecarInv, RequestsTypeOK, Accepted
<1> PICK id \in Nat : id = post[t].id
  BY <1>2 DEF CallsInv, PostIsCall
<1>3. ASSUME NEW u \in Turns
      PROVE  /\ post'[u].id = post[u].id /\ post'[u].row = post[u].row
             /\ post'[u].step = IF u = t THEN "accepted" ELSE post[u].step
  BY <1>1, <1>2 DEF CallsInv, PostIsCall
<1>4. Accepted' = Accepted \cup {t} /\ t \notin Accepted
  BY <1>1, <1>3 DEF Accepted
<1>5. id \notin ToSet(requests)
  <2> SUFFICES ASSUME NEW i \in DOMAIN requests, requests[i] = id PROVE FALSE
    BY DEF ToSet
  <2>1. PICK u \in Accepted : post[u].id = id
    BY DEF SidecarIsTheirs
  <2>2. u \in Turns /\ u # t /\ post[u].step \in Named /\ post[t].step \in Named
    BY <1>1, <1>4, <2>1 DEF Accepted, Named
  <2> QED
    BY <1>2, <2>1, <2>2 DEF CallsInv, IdsAreTaken, SidecarIsTheirs
<1>6. /\ requests' = WithRequest(id) /\ WithRequest(id) \in Seq(Nat)
      /\ ToSet(WithRequest(id)) \subseteq ToSet(requests) \cup {id}
      /\ id \in ToSet(WithRequest(id)) /\ IsInjective(WithRequest(id))
      /\ ToSet(requests) \subseteq ToSet(WithRequest(id)) \/ Len(requests) = MaxRequests
  BY <1>1, <1>2, <1>5, WithRequestFits DEF SidecarIsTheirs
<1>7. \A i \in DOMAIN requests' : \E u \in Accepted' : post'[u].id = requests'[i]
  <2> SUFFICES ASSUME NEW x \in ToSet(requests')
               PROVE  \E u \in Accepted' : post'[u].id = x
    BY DEF ToSet
  <2>1. CASE x = id
    BY <1>3, <1>4, <2>1
  <2>2. CASE x \in ToSet(requests)
    <3>1. PICK u \in Accepted : post[u].id = x
      BY <2>2 DEF SidecarIsTheirs, ToSet
    <3> QED
      BY <1>2, <1>3, <1>4, <3>1
  <2> QED
    BY <1>6, <2>1, <2>2
<1>8. \A r \in owed' : \E u \in Turns : post'[u].step \in WithRow /\ post'[u].row = r
  <2> SUFFICES ASSUME NEW r \in owed
               PROVE  \E u \in Turns : post'[u].step \in WithRow /\ post'[u].row = r
    BY <1>1
  <2>1. PICK u \in Turns : post[u].step \in WithRow /\ post[u].row = r
    BY DEF SidecarIsTheirs
  <2> QED
    BY <1>3, <2>1 DEF WithRow
<1>9. ASSUME NEW u \in Accepted', post'[u].row \in owed'
      PROVE  post'[u].id \in ToSet(requests') \/ Cardinality(Accepted') > MaxRequests
  <2>1. CASE Len(requests) = MaxRequests
    BY <1>2, <1>4, <2>1, FullMeansMany DEF SidecarIsTheirs
  <2>2. CASE u = t
    BY <1>3, <1>6, <2>2
  <2>3. CASE u # t /\ Len(requests) # MaxRequests
    <3>1. u \in Accepted /\ u \in Turns
      BY <1>2, <1>4, <2>3
    <3>2. post[u].id \in ToSet(requests) \/ Cardinality(Accepted) > MaxRequests
      BY <1>1, <1>3, <1>9, <3>1 DEF SidecarIsTheirs
    <3>3. Cardinality(Accepted') = Cardinality(Accepted) + 1 /\ Cardinality(Accepted) \in Nat
      BY <1>2, <1>4, FS_AddElement, FS_CardinalityType
    <3>4. CASE post[u].id \in ToSet(requests)
      BY <1>3, <1>6, <2>3, <3>1, <3>4
    <3>5. CASE Cardinality(Accepted) > MaxRequests
      <4> PICK n \in Nat : n = Cardinality(Accepted)
        BY <3>3
      <4> QED
        BY <3>3, <3>5, RequestsAssumption
    <3> QED
      BY <3>2, <3>4, <3>5
  <2> QED
    BY <2>1, <2>2, <2>3
<1>10. ~setBack'
  BY <1>1 DEF SidecarIsTheirs
<1> QED
  BY <1>6, <1>7, <1>8, <1>9, <1>10 DEF SidecarIsTheirs

\* A reply takes out the request of its own row.
LEMMA ReplyTheirs ==
  ASSUME SidecarInv, NEW r \in owed, NEW outcome \in WriteOutcomes, Reply(r, outcome),
         SidecarIsTheirs
  PROVE  SidecarIsTheirs'
<1>1. /\ owed' = owed \ {r} /\ post' = post /\ setBack' = setBack
      /\ requests' = WithoutRequest(r.id)
  BY DEF Reply, PersistRequests, sidecar
<1>2. /\ CallsInv /\ requests \in Seq(Nat) /\ Len(requests) <= MaxRequests
      /\ Accepted' = Accepted /\ Accepted \subseteq Turns
  BY <1>1 DEF SidecarInv, RequestsTypeOK, Accepted
<1>3. /\ ToSet(requests') \subseteq ToSet(requests) /\ IsInjective(requests')
      /\ ToSet(requests) \subseteq ToSet(requests') \cup {r.id}
  BY <1>1, <1>2, WithoutRequestFits DEF SidecarIsTheirs
<1>4. \A i \in DOMAIN requests' : \E u \in Accepted' : post'[u].id = requests'[i]
  <2> SUFFICES ASSUME NEW x \in ToSet(requests')
               PROVE  \E u \in Accepted : post[u].id = x
    BY <1>1, <1>2 DEF ToSet
  <2>1. x \in ToSet(requests)
    BY <1>3
  <2> QED
    BY <2>1 DEF SidecarIsTheirs, ToSet
<1>5. ASSUME NEW u \in Accepted, post[u].row \in owed \ {r}
      PROVE  post[u].id \in ToSet(requests') \/ Cardinality(Accepted) > MaxRequests
  <2> SUFFICES ASSUME post[u].id = r.id PROVE FALSE
    BY <1>3, <1>5 DEF SidecarIsTheirs
  <2>1. PICK t \in Turns : post[t].step \in WithRow /\ post[t].row = r
    BY DEF SidecarIsTheirs
  <2>2. post[t].id = r.id
    BY <1>2, <2>1 DEF CallsInv, RowIsCalls
  <2>3. t # u /\ post[t].step \in Named /\ post[u].step \in Named /\ u \in Turns
    BY <1>2, <1>5, <2>1 DEF Accepted, WithRow, Named
  <2> QED
    BY <1>2, <2>2, <2>3 DEF CallsInv, IdsAreTaken, SidecarIsTheirs
<1> QED
  BY <1>1, <1>2, <1>3, <1>4, <1>5 DEF SidecarIsTheirs

\* The calls are typed; what a call says is one of the words.
PostType == [Turns -> [step : Steps, id : Nat, row : Row \cup {NoRow}]]

\* The event of a call is one of the messages.
LEMMA EventIsSaid == ASSUME NEW t \in Turns PROVE Says[t] \in Range(Says)
  BY RequestsAssumption DEF Range

\* A step of a call up to its row: the sidecar is left alone.
LEMMA CallFits ==
  ASSUME SidecarInv, CallsInv', NEW t \in Turns, Load(t) \/ Allocate(t) \/ Enqueue(t)
  PROVE  SidecarInv'
<1>1. /\ CallsInv /\ RequestsTypeOK /\ FilesLoad /\ IsFiniteSet(Accepted)
      /\ post \in PostType /\ post[t] \in [step : Steps, id : Nat, row : Row \cup {NoRow}]
      /\ seq \in Nat
  BY DEF SidecarInv, RequestsTypeOK, PostType
<1>2. /\ UNCHANGED <<requests, saved, fenced, setBack>>
      /\ post[t].step \in {"new", "loaded", "named"}
  BY DEF Load, Allocate, Enqueue, sidecar, history
<1>3. /\ post' \in PostType /\ \A u \in Turns : u # t => post'[u] = post[u]
      /\ post'[t].step # "accepted"
      /\ \/ owed' = owed /\ rows' = rows
         \/ \E row \in Row : /\ post[t].step = "named"
                             /\ post'[t].step = "queued" /\ post'[t].row = row
                             /\ owed' = owed \cup {row} /\ rows' = Append(rows, row)
                             /\ \A r \in ToSet(rows) : r.id # row.id
      /\ faults' \in 0..MaxFaults /\ (faults' = 0 => faults = 0)
  <2>1. CASE Load(t)
    <3>1. /\ post' = [post EXCEPT ![t] = [step |-> "loaded", id |-> seq, row |-> post[t].row]]
          /\ owed' = owed /\ rows' = rows /\ faults' = faults
      BY <2>1 DEF Load, history
    <3> QED
      BY <1>1, <3>1 DEF PostType, Steps, RequestsTypeOK
  <2>2. CASE Allocate(t)
    <3>1. PICK s \in {"mistaken", "new", "named"} : post' = [post EXCEPT ![t].step = s]
      BY <2>2 DEF Allocate, Moves
    <3>2. owed' = owed /\ rows' = rows /\ faults' = faults
      BY <2>2 DEF Allocate, history
    <3> QED
      BY <1>1, <3>1, <3>2 DEF PostType, Steps, RequestsTypeOK
  <2>3. CASE Enqueue(t)
    <3> PICK row : row = [id |-> post[t].id, says |-> Says[t]]
      OBVIOUS
    <3>1. /\ post[t].step = "named"
          /\ \/ /\ \E s \in {"refused", "mistaken"} : post' = [post EXCEPT ![t].step = s]
                /\ UNCHANGED <<rows, owed, faults>>
             \/ /\ post' = [post EXCEPT ![t].step = "refused"]
                /\ Faulty /\ UNCHANGED <<rows, owed>>
             \/ /\ post' = [post EXCEPT ![t] = [step |-> "queued", id |-> post[t].id,
                                                row |-> row]]
                /\ rows' = Append(rows, row) /\ owed' = owed \cup {row}
                /\ faults' = faults /\ Existing(t) = {}
             \/ \E r \in Existing(t) :
                  /\ post' = [post EXCEPT ![t] = [step |-> "queued", id |-> post[t].id,
                                                  row |-> r]]
                  /\ UNCHANGED <<rows, owed, faults>>
      BY <2>3 DEF Enqueue, Refuses, Moves, Event
    <3>2. row \in Row
      BY <1>1, EventIsSaid DEF Row
    <3>3. \A r \in Existing(t) : r \in Row
      BY <1>1 DEF Existing, Queued, RequestsTypeOK, ToSet
    <3>4. Faulty => faults' \in 0..MaxFaults /\ faults' # 0
      BY <1>1, RequestsAssumption DEF Faulty, RequestsTypeOK
    <3>5. Existing(t) = {} => \A r \in ToSet(rows) : r.id # row.id
      BY DEF Existing, Queued
    <3>6. faults \in 0..MaxFaults
      BY <1>1 DEF RequestsTypeOK
    <3>7. CASE /\ \E s \in {"refused", "mistaken"} : post' = [post EXCEPT ![t].step = s]
               /\ UNCHANGED <<rows, owed, faults>>
      <4> PICK s \in {"refused", "mistaken"} : post' = [post EXCEPT ![t].step = s]
        BY <3>7
      <4> QED
        BY <1>1, <3>6, <3>7 DEF PostType, Steps
    <3>8. CASE /\ post' = [post EXCEPT ![t].step = "refused"]
               /\ Faulty /\ UNCHANGED <<rows, owed>>
      BY <1>1, <3>4, <3>8 DEF PostType, Steps
    <3>9. CASE /\ post' = [post EXCEPT ![t] = [step |-> "queued", id |-> post[t].id,
                                               row |-> row]]
               /\ rows' = Append(rows, row) /\ owed' = owed \cup {row}
               /\ faults' = faults /\ Existing(t) = {}
      BY <1>1, <3>1, <3>2, <3>5, <3>6, <3>9 DEF PostType, Steps
    <3>10. CASE \E r \in Existing(t) :
                  /\ post' = [post EXCEPT ![t] = [step |-> "queued", id |-> post[t].id,
                                                  row |-> r]]
                  /\ UNCHANGED <<rows, owed, faults>>
      <4> PICK r \in Existing(t) :
                  /\ post' = [post EXCEPT ![t] = [step |-> "queued", id |-> post[t].id,
                                                  row |-> r]]
                  /\ UNCHANGED <<rows, owed, faults>>
        BY <3>10
      <4> QED
        BY <1>1, <3>3, <3>6 DEF PostType, Steps
    <3> QED
      BY <3>1, <3>7, <3>8, <3>9, <3>10
  <2> QED
    BY <2>1, <2>2, <2>3
<1>4. Accepted' = Accepted
  BY <1>2, <1>3 DEF Accepted
<1>5. rows' \in Seq(Row) /\ owed' \subseteq Row
      /\ \A i, j \in DOMAIN rows' : i # j => rows'[i].id # rows'[j].id
  <2>1. CASE owed' = owed /\ rows' = rows
    BY <1>1, <2>1 DEF RequestsTypeOK, FilesLoad
  <2>2. CASE owed' # owed \/ rows' # rows
    <3>1. PICK row \in Row : /\ owed' = owed \cup {row} /\ rows' = Append(rows, row)
                             /\ \A r \in ToSet(rows) : r.id # row.id
      BY <1>3, <2>2
    <3>2. rows \in Seq(Row) /\ owed \subseteq Row
      BY <1>1 DEF RequestsTypeOK
    <3>3. /\ rows' \in Seq(Row) /\ Len(rows') = Len(rows) + 1 /\ Len(rows) \in Nat
          /\ \A i \in 1..Len(rows) : rows'[i] = rows[i]
          /\ rows'[Len(rows) + 1] = row
          /\ DOMAIN rows' = 1..(Len(rows) + 1) /\ DOMAIN rows = 1..Len(rows)
      BY <3>1, <3>2, AppendProperties
    <3>4. \A i \in 1..Len(rows) : rows[i].id # row.id
      BY <3>1, <3>3 DEF ToSet
    <3>5. \A i, j \in 1..Len(rows) : i # j => rows[i].id # rows[j].id
      BY <1>1, <3>3 DEF FilesLoad
    <3> QED
      BY <3>1, <3>2, <3>3, <3>4, <3>5
  <2> QED
    BY <2>1, <2>2
<1>6. RequestsTypeOK' /\ FilesLoad'
  <2>1. CallsInv' => seq' \in Nat
    BY DEF CallsInv
  <2> QED
    BY <1>1, <1>2, <1>3, <1>5, <2>1 DEF RequestsTypeOK, FilesLoad, SidecarLoads, PostType
<1>7. ASSUME faults' = 0 PROVE SidecarIsTheirs'
  <2>1. SidecarIsTheirs
    BY <1>3, <1>7 DEF SidecarInv
  <2>2. \A u \in Turns : post[u].step \in WithRow => post'[u] = post[u]
    BY <1>2, <1>3 DEF WithRow
  <2>3. \A r \in owed' : r \in owed \/ \E u \in Turns :
          post[u].step = "named" /\ post'[u].step \in WithRow /\ post'[u].row = r
    BY <1>3 DEF WithRow
  <2> QED
    BY <1>1, <1>2, <1>4, <2>1, <2>2, <2>3, TheirsStay
<1> QED
  BY <1>1, <1>4, <1>6, <1>7 DEF SidecarInv

\* A fault is counted.
LEMMA FaultCounts ==
  ASSUME RequestsTypeOK, faults' = faults \/ Faulty
  PROVE  faults' \in 0..MaxFaults /\ (faults' = 0 => faults = 0)
  BY RequestsAssumption DEF RequestsTypeOK, Faulty

\* The call is answered.
LEMMA RegisterFits ==
  ASSUME SidecarInv, CallsInv', NEW t \in Turns, NEW outcome \in WriteOutcomes,
         Register(t, outcome)
  PROVE  SidecarInv'
<1>1. /\ RequestsTypeOK /\ FilesLoad /\ IsFiniteSet(Accepted) /\ CallsInv
      /\ post[t] \in [step : Steps, id : Nat, row : Row \cup {NoRow}]
  BY DEF SidecarInv, RequestsTypeOK
<1>2. /\ post' = [post EXCEPT ![t].step = "accepted"]
      /\ PersistRequests(WithRequest(post[t].id), outcome)
      /\ UNCHANGED <<seq, rows, owed, setBack>>
  BY DEF Register, Moves, history
<1>3. /\ requests' \in Seq(Nat) /\ Len(requests') <= MaxRequests
      /\ saved' \in {requests', saved} /\ fenced' \in BOOLEAN
      /\ faults' = faults \/ Faulty
  BY <1>1, <1>2, SidecarEnds, WithRequestFits DEF RequestsTypeOK
<1>4. faults' \in 0..MaxFaults /\ (faults' = 0 => faults = 0)
  BY <1>1, <1>3, FaultCounts
<1>5. /\ post' \in [Turns -> [step : Steps, id : Nat, row : Row \cup {NoRow}]]
      /\ \A u \in Turns : u # t => post'[u] = post[u]
      /\ post'[t].step = "accepted"
  BY <1>1, <1>2 DEF RequestsTypeOK, Steps
<1>6. RequestsTypeOK' /\ FilesLoad'
  BY <1>1, <1>2, <1>3, <1>4, <1>5 DEF RequestsTypeOK, FilesLoad, SidecarLoads
<1>7. IsFiniteSet(Accepted')
  <2>1. Accepted' = Accepted \cup {t}
    BY <1>5 DEF Accepted
  <2> QED
    BY <1>1, <2>1, FS_AddElement
<1>8. faults' = 0 => SidecarIsTheirs'
  BY <1>4, RegisterTheirs DEF SidecarInv
<1> QED
  BY <1>6, <1>7, <1>8 DEF SidecarInv

\* A row that is acknowledged leaves the queue, and ids stay apart.
LEMMA AcknowledgeFits ==
  ASSUME SidecarInv, CallsInv', NEW r \in ToSet(rows), Acknowledge(r) PROVE SidecarInv'
<1> DEFINE place == CHOOSE i \in DOMAIN rows : rows[i] = r
<1>1. /\ rows' = RemoveAt(rows, place)
      /\ UNCHANGED <<seq, post, requests, saved, fenced, owed, setBack, faults>>
  BY DEF Acknowledge, sidecar, history
<1>2. place \in DOMAIN rows
  BY DEF ToSet
<1> HIDE DEF place
<1>3. rows \in Seq(Row) /\ RequestsTypeOK /\ FilesLoad
  BY DEF SidecarInv, RequestsTypeOK
<1>4. /\ rows' \in Seq(Row) /\ Len(rows') = Len(rows) - 1 /\ Len(rows) \in Nat
      /\ DOMAIN rows = 1..Len(rows)
      /\ \A j \in 1..(Len(rows) - 1) : rows'[j] = IF j < place THEN rows[j] ELSE rows[j + 1]
  BY <1>1, <1>2, <1>3, RemoveAtPlaces
<1>5. \A i, j \in DOMAIN rows' : i # j => rows'[i].id # rows'[j].id
  <2> DEFINE At(x) == IF x < place THEN x ELSE x + 1
  <2>1. DOMAIN rows' = 1..(Len(rows) - 1)
    BY <1>4
  <2>2. /\ \A x \in 1..(Len(rows) - 1) : At(x) \in 1..Len(rows) /\ rows'[x] = rows[At(x)]
        /\ \A x, y \in 1..(Len(rows) - 1) : x # y => At(x) # At(y)
    BY <1>2, <1>4
  <2>3. \A i, j \in 1..Len(rows) : i # j => rows[i].id # rows[j].id
    BY <1>3, <1>4 DEF FilesLoad
  <2> HIDE DEF At
  <2>4. ASSUME NEW x \in 1..(Len(rows) - 1), NEW y \in 1..(Len(rows) - 1), x # y
        PROVE  rows'[x].id # rows'[y].id
    BY <2>2, <2>3, <2>4
  <2> QED
    BY <2>1, <2>4
<1>6. RequestsTypeOK' /\ FilesLoad'
  BY <1>1, <1>3, <1>4, <1>5 DEF RequestsTypeOK, FilesLoad, SidecarLoads
<1>7. SidecarIsTheirs => SidecarIsTheirs'
  BY <1>1 DEF SidecarIsTheirs, Accepted
<1>8. IsFiniteSet(Accepted') /\ (faults' = 0 => SidecarIsTheirs')
  BY <1>1, <1>7 DEF SidecarInv, Accepted
<1> QED
  BY <1>6, <1>8 DEF SidecarInv

\* A reply, whether its call was accepted yet or not.
LEMMA ReplyFits ==
  ASSUME SidecarInv, CallsInv', NEW r \in owed, NEW outcome \in WriteOutcomes,
         Reply(r, outcome)
  PROVE  SidecarInv'
<1>1. /\ RequestsTypeOK /\ FilesLoad /\ IsFiniteSet(Accepted)
      /\ UNCHANGED <<seq, post, rows, setBack>> /\ owed' = owed \ {r}
  BY DEF SidecarInv, Reply
<1>2. /\ WithoutRequest(r.id) \in Seq(Nat) /\ Len(WithoutRequest(r.id)) <= MaxRequests
  BY <1>1, WithoutRequestFits DEF RequestsTypeOK
<1>3. /\ requests' \in Seq(Nat) /\ Len(requests') <= MaxRequests
      /\ saved' \in {requests', saved} /\ fenced' \in BOOLEAN
      /\ faults' = faults \/ Faulty
  <2>1. CASE UNCHANGED <<sidecar, faults>>
    BY <1>1, <2>1 DEF sidecar, RequestsTypeOK
  <2>2. CASE PersistRequests(WithoutRequest(r.id), outcome)
    BY <1>1, <1>2, <2>2, SidecarEnds DEF RequestsTypeOK
  <2> QED
    BY <2>1, <2>2 DEF Reply
<1>4. faults' \in 0..MaxFaults /\ (faults' = 0 => faults = 0)
  BY <1>1, <1>3, FaultCounts
<1>5. RequestsTypeOK' /\ FilesLoad'
  BY <1>1, <1>3, <1>4 DEF RequestsTypeOK, FilesLoad, SidecarLoads
<1>6. IsFiniteSet(Accepted')
  BY <1>1 DEF Accepted
<1>7. faults' = 0 => SidecarIsTheirs'
  BY <1>4, ReplyTheirs DEF SidecarInv
<1> QED
  BY <1>5, <1>6, <1>7 DEF SidecarInv

\* A start reads the file, and what was accepted stays so.
LEMMA RestartFits ==
  ASSUME SidecarInv, CallsInv', NEW back \in 0..MaxRollback, Restart(back)
  PROVE  SidecarInv'
<1>1. /\ RequestsTypeOK /\ FilesLoad /\ IsFiniteSet(Accepted)
      /\ Faulty /\ SidecarLoads(saved) /\ requests' = saved /\ fenced' = FALSE
      /\ UNCHANGED <<rows, saved, owed>>
      /\ setBack' \in BOOLEAN /\ seq' \in Nat
  BY DEF SidecarInv, Restart, CallsInv
<1>2. post' = [t \in Turns |-> IF post[t].step \in InFlight \ {"new"}
                               THEN [post[t] EXCEPT !.step = "gone"] ELSE post[t]]
  BY DEF Restart
<1>3. ASSUME NEW t \in Turns
      PROVE  /\ post'[t] \in [step : Steps, id : Nat, row : Row \cup {NoRow}]
             /\ post'[t].step = "accepted" <=> post[t].step = "accepted"
  <2>1. post[t] \in [step : Steps, id : Nat, row : Row \cup {NoRow}]
    BY <1>1 DEF RequestsTypeOK
  <2>2. CASE post[t].step \in InFlight \ {"new"}
    <3>1. post'[t] = [post[t] EXCEPT !.step = "gone"]
      BY <1>2, <2>2
    <3> QED
      BY <2>1, <2>2, <3>1 DEF Steps, InFlight
  <2>3. CASE post[t].step \notin InFlight \ {"new"}
    BY <1>2, <2>1, <2>3
  <2> QED
    BY <2>2, <2>3
<1>4. faults' \in 0..MaxFaults /\ faults' # 0
  BY <1>1, RequestsAssumption DEF Faulty, RequestsTypeOK
<1>5. RequestsTypeOK' /\ FilesLoad'
  BY <1>1, <1>2, <1>3, <1>4 DEF RequestsTypeOK, FilesLoad, SidecarLoads
<1>6. Accepted' = Accepted
  BY <1>3 DEF Accepted
<1> QED
  BY <1>1, <1>4, <1>5, <1>6 DEF SidecarInv

\* Nothing is queued and nothing awaited at first.
LEMMA InitSidecar == Init => SidecarInv
<1> SUFFICES ASSUME Init PROVE SidecarInv
  OBVIOUS
<1>1. /\ seq = 0 /\ post = [t \in Turns |-> NoPost] /\ rows = <<>> /\ requests = <<>>
      /\ saved = <<>> /\ fenced = FALSE /\ owed = {} /\ setBack = FALSE /\ faults = 0
  BY DEF Init
<1>2. NoPost \in [step : Steps, id : Nat, row : Row \cup {NoRow}] /\ NoPost.step = "new"
  BY DEF NoPost, Steps
<1>3. RequestsTypeOK
  <2>1. rows \in Seq(Row) /\ requests \in Seq(Nat) /\ saved \in Seq(Nat)
    BY <1>1
  <2>2. post \in [Turns -> [step : Steps, id : Nat, row : Row \cup {NoRow}]]
    BY <1>1, <1>2
  <2>3. Len(requests) <= MaxRequests /\ faults \in 0..MaxFaults
    BY <1>1, RequestsAssumption
  <2>4. seq \in Nat /\ owed \subseteq Row /\ setBack \in BOOLEAN /\ fenced \in BOOLEAN
    BY <1>1
  <2> QED
    BY <2>1, <2>2, <2>3, <2>4 DEF RequestsTypeOK
<1>4. FilesLoad
  BY <1>1, RequestsAssumption DEF FilesLoad, SidecarLoads
<1>5. Accepted = {}
  BY <1>1, <1>2 DEF Accepted
<1>6. IsFiniteSet(Accepted)
  BY <1>5, FS_EmptySet
<1>7. SidecarIsTheirs
  BY <1>1, <1>5 DEF SidecarIsTheirs, IsInjective
<1> QED
  BY <1>3, <1>4, <1>6, <1>7, InitCalls DEF SidecarInv

\* Every step keeps the sidecar in order.
LEMMA NextSidecar == SidecarInv /\ [Next]_vars => SidecarInv'
<1> SUFFICES ASSUME SidecarInv, [Next]_vars PROVE SidecarInv'
  OBVIOUS
<1>1. CallsInv'
  BY NextCalls DEF SidecarInv
<1>2. CASE \E t \in Turns : Called(t)
  BY <1>1, <1>2, CallFits, RegisterFits DEF Called
<1>3. CASE \E r \in ToSet(rows) : Acknowledge(r)
  BY <1>1, <1>3, AcknowledgeFits
<1>4. CASE \E r \in owed, outcome \in WriteOutcomes : Reply(r, outcome)
  BY <1>1, <1>4, ReplyFits
<1>5. CASE \E back \in 0..MaxRollback : Restart(back)
  BY <1>1, <1>5, RestartFits
<1>6. CASE UNCHANGED vars
  BY <1>1, <1>6 DEF vars, SidecarInv, RequestsTypeOK, FilesLoad, SidecarLoads,
                    SidecarIsTheirs, Accepted
<1> QED
  BY <1>2, <1>3, <1>4, <1>5, <1>6 DEF Next

\* validate_inbound_snapshot and validate_pending_requests (relay.rs:1018,
\* 1315): no order of calls, failed writes, replies and restarts, the clock set
\* back or not, queues an id twice or lets the sidecar grow over its limit.
THEOREM RequestsAlwaysLoad == FairSpec => []RequestsAreSound
<1>1. SidecarInv => RequestsAreSound
  BY DEF SidecarInv, RequestsAreSound
<1> QED
  BY <1>1, InitSidecar, NextSidecar, PTL DEF FairSpec

\* take_specific_request (relay.rs): whoever was told of success is awaited in
\* the sidecar until its own reply, if nothing failed; or more calls than the
\* sidecar holds were accepted.
THEOREM AwaitedUntilReply == FairSpec => []AwaitedIsKnown
<1>1. SidecarInv => AwaitedIsKnown
  BY DEF SidecarInv, SidecarIsTheirs, AwaitedIsKnown, Accepted
<1> QED
  BY <1>1, InitSidecar, NextSidecar, PTL DEF FairSpec
=============================================================================
