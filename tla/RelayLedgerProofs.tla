-------------------------- MODULE RelayLedgerProofs --------------------------
(***************************************************************************)
(* Theorems about RelayLedger, for any gateways, requests, lanes, messages *)
(* and limits.                                                             *)
(***************************************************************************)
EXTENDS RelayLedger, QueueLemmas

-----------------------------------------------------------------------------
(* What retain leaves *)

\* The elements that are kept are those of q in S, in the order of q.
LEMMA KeptPlaces ==
  ASSUME NEW T, NEW q \in Seq(T), NEW S
  PROVE  /\ Kept(q, S) \in Seq(T) /\ Len(Kept(q, S)) <= Len(q)
         /\ ToSet(Kept(q, S)) = ToSet(q) \cap S
         /\ \E at \in [DOMAIN Kept(q, S) -> DOMAIN q] :
              /\ \A n \in DOMAIN Kept(q, S) : Kept(q, S)[n] = q[at[n]]
              /\ \A m, n \in DOMAIN Kept(q, S) : m < n => at[m] < at[n]
<1> DEFINE Places == {i \in DOMAIN q : q[i] \in S}
           Nth(i) == Cardinality({j \in Places : j <= i})
           size == Cardinality(Places)
           at == [n \in 1..size |-> CHOOSE i \in Places : Nth(i) = n]
           kept == [n \in 1..size |-> q[CHOOSE i \in Places : Nth(i) = n]]
<1>1. Kept(q, S) = kept
  BY Zenon DEF Kept
<1>2. Len(q) \in Nat /\ DOMAIN q = 1..Len(q) /\ \A i \in DOMAIN q : q[i] \in T
  OBVIOUS
<1>3. Places \in SUBSET Nat /\ IsFiniteSet(Places)
  <2>1. Places \in SUBSET Nat /\ \A i \in Places : i <= Len(q)
    BY <1>2, SMT
  <2> QED
    BY <1>2, <2>1, FS_BoundedSetOfNaturals
<1>4. /\ size \in Nat
      /\ \A n \in 1..size : \E i \in Places : Nth(i) = n
      /\ \A i \in Places : Nth(i) \in 1..size
      /\ \A x, y \in Places : Nth(x) = Nth(y) => x = y
      /\ \A x, y \in Places : x < y => Nth(x) < Nth(y)
  <2> HIDE DEF Places
  <2> QED
    BY <1>3, EveryPlaceTaken
<1>5. size <= Len(q)
  <2>1. IsFiniteSet(1..Len(q)) /\ Cardinality(1..Len(q)) = Len(q)
    <3>1. /\ IsFiniteSet(1..Len(q))
          /\ Cardinality(1..Len(q)) = IF 1 > Len(q) THEN 0 ELSE Len(q) - 1 + 1
      BY <1>2, FS_Interval, 1 \in Int, Len(q) \in Int
    <3> QED
      BY <3>1, <1>2, SMT
  <2>2. Places \subseteq 1..Len(q)
    BY <1>2
  <2> HIDE DEF Places
  <2> QED
    BY <2>1, <2>2, FS_Subset
<1>6. \A i \in Places : i \in DOMAIN q /\ q[i] \in S
  OBVIOUS
<1>7. \A i \in DOMAIN q : q[i] \in S => i \in Places
  OBVIOUS
<1> HIDE DEF Places, Nth, size
<1>8. \A n \in 1..size : at[n] \in Places /\ Nth(at[n]) = n /\ kept[n] = q[at[n]]
  BY <1>4, Zenon
<1>9. DOMAIN kept = 1..size /\ DOMAIN at = 1..size
  OBVIOUS
<1>10. at \in [1..size -> DOMAIN q]
  BY <1>6, <1>8, <1>9, at = [n \in 1..size |-> at[n]], Zenon
<1> HIDE DEF at
<1>11. \A m, n \in 1..size : m < n => at[m] < at[n]
  <2> SUFFICES ASSUME NEW m \in 1..size, NEW n \in 1..size, m < n PROVE at[m] < at[n]
    OBVIOUS
  <2>1. at[m] \in Places /\ at[n] \in Places /\ Nth(at[m]) = m /\ Nth(at[n]) = n
    BY <1>8
  <2>2. at[m] \in Nat /\ at[n] \in Nat
    BY <1>3, <2>1
  <2>3. at[n] < at[m] => n < m
    BY <1>4, <2>1
  <2>4. at[m] # at[n]
    BY <2>1, SMT
  <2> QED
    BY <2>2, <2>3, <2>4, <1>4, SMT
<1>12. kept \in Seq(T) /\ Len(kept) = size
  <2>1. \A n \in 1..size : kept[n] \in T
    BY <1>2, <1>6, <1>8, Zenon
  <2> QED
    BY <1>4, <1>9, <2>1, SMT
<1>13. ToSet(kept) = ToSet(q) \cap S
  <2>1. ASSUME NEW n \in 1..size PROVE kept[n] \in ToSet(q) /\ kept[n] \in S
    BY <1>6, <1>8, Zenon DEF ToSet
  <2>2. ASSUME NEW i \in DOMAIN q, q[i] \in S PROVE q[i] \in ToSet(kept)
    <3>1. i \in Places /\ Nth(i) \in 1..size
      BY <1>4, <1>7, <2>2
    <3>2. at[Nth(i)] = i
      BY <1>4, <1>8, <3>1, Zenon
    <3>3. kept[Nth(i)] = q[i]
      BY <1>8, <3>1, <3>2
    <3> QED
      BY <1>9, <3>1, <3>3, Zenon DEF ToSet
  <2>3. \A x \in ToSet(kept) : \E n \in 1..size : x = kept[n]
    BY <1>9, Zenon DEF ToSet
  <2>4. \A x \in ToSet(q) : \E i \in DOMAIN q : x = q[i]
    BY Zenon DEF ToSet
  <2> HIDE DEF kept
  <2> QED
    BY <2>1, <2>2, <2>3, <2>4
<1>14. \A n \in 1..size : kept[n] = q[at[n]]
  BY <1>8
<1>15. DOMAIN kept = 1..size
  BY <1>9
<1> HIDE DEF kept
<1>16. \E f \in [DOMAIN kept -> DOMAIN q] :
         /\ \A n \in DOMAIN kept : kept[n] = q[f[n]]
         /\ \A m, n \in DOMAIN kept : m < n => f[m] < f[n]
  BY <1>10, <1>11, <1>14, <1>15, Zenon
<1> QED
  BY <1>1, <1>5, <1>12, <1>13, <1>16, Zenon

-----------------------------------------------------------------------------
(***************************************************************************)
(* The inductive invariant.  Every snapshot that the process answers from, *)
(* that a restart may find, or that a failed write puts back, fits what    *)
(* gateways, phone and bridge know: it loads; its results are those of the *)
(* gateways' actions at hand; an action whose delivery was committed has   *)
(* a result in it until the gateway has seen it; a result's delivery is    *)
(* queued in it or was consumed; what a gateway may acknowledge names no   *)
(* other action in it; and up to what the bridge read, it holds no row the *)
(* bridge did not read.                                                    *)
(***************************************************************************)

Busy == op # Idle

Snapshots == {ledger, disk} \cup prior \cup (IF Busy THEN {op.undo} ELSE {})

\* The clock alone may run ahead of the file.
Alike(l, m) ==
  /\ l.deliveries = m.deliveries /\ l.nextSeq = m.nextSeq
  /\ l.results = m.results /\ l.nextResult = m.nextResult /\ l.retired = m.retired

FilesAgree ==
  /\ ~fenced => prior = {}
  /\ ~fenced /\ ~Busy => Alike(disk, ledger) /\ Rows(ledger) \subseteq made
  /\ Busy => ~fenced /\ Alike(disk, op.undo) /\ Rows(op.undo) \subseteq made

\* A snapshot that loads; every result id is in use once.
Valid(l) ==
  /\ l \in Ledger /\ Loads(l)
  /\ \A t \in ToSet(l.retired), x \in Results(l) : t.id # x.id

Owned(l) == \A x \in Results(l) : x.of = Current(x.gw, x.req)

Lost == abandoned \cup Reclaimed

\* Action a is over, or it is at hand: its result was lost in the gateway's
\* absence, or the gateway has seen it, or it is on record.
Accounted(a, l) ==
  \/ a.n <= use[<<a.gw, a.req>>]
  \/ /\ a = Current(a.gw, a.req)
     /\ a \in Lost \/ (\E p \in got : p.of = a) \/ (\E x \in Results(l) : x.of = a)
Accounts(l) == \A d \in made \cup Rows(l) : Accounted(d.of, l)

\* The delivery a result speaks of is queued, or was consumed.
Queued(x, l) == x.seq # 0 => \E d \in Rows(l) \cup taken : d.of = x.of
Backed(l) == \A x \in Results(l) \cup firm : Queued(x, l)

\* The id of a finished action is used up; one at hand names its own result.
Names(p, l) ==
  /\ p.of.n <= use[<<p.gw, p.req>>] => p.id <= l.nextResult
  /\ \A x \in Results(l) : Tombstone(x) = Tombstone(p) => x.of = p.of
Receipts(l) == \A p \in got : Names(p, l)

Reads(l) ==
  \A s \in read :
    /\ s.seq <= l.nextSeq
    /\ \A d \in Rows(l) : d.lane = s.lane /\ d.to = s.to /\ d.seq <= s.seq => d \in read

Single(l) ==
  \A d, e \in made \cup Rows(l) : d.of = e.of => d = e \/ d.of \in abandoned

Fits(l) ==
  /\ Valid(l) /\ Owned(l) /\ Accounts(l) /\ Backed(l) /\ Receipts(l) /\ Reads(l) /\ Single(l)

GotFits ==
  /\ \A p \in got : /\ p.of.gw = p.gw /\ p.of.req = p.req
                    /\ p.of.n <= use[<<p.gw, p.req>>] + 1
  /\ \A p, q \in got : p.of = q.of => p = q
  /\ \A p, q \in got : Tombstone(p) = Tombstone(q) => p.of = q.of

\* What the second half of an operation answers from.
OpFits ==
  /\ op.kind = "idle" => op = Idle
  /\ op.kind = "send" =>
       /\ ledger.results # <<>>
       /\ \A p \in got : p.of # Last(ledger.results).of
  /\ op.kind = "retire" =>
       /\ ledger.retired # <<>>
       /\ OnRecord(ledger, Last(ledger.retired).gw, Last(ledger.retired).req) = {}

LedgerInv ==
  RelayTypeOK /\ FilesAgree /\ GotFits /\ OpFits /\ \A l \in Snapshots : Fits(l)

-----------------------------------------------------------------------------
(* Snapshots that an operation makes *)

\* The parts of a snapshot have their types.
LEMMA LedgerParts ==
  ASSUME NEW l \in Ledger
  PROVE  /\ l.deliveries \in Seq(Delivery) /\ l.nextSeq \in 0..MaxSequence
         /\ l.results \in Seq(OutboundResult) /\ l.nextResult \in 0..MaxSequence
         /\ l.retired \in Seq(Retired) /\ l.high \in 0..MaxClock
         /\ Rows(l) \subseteq Delivery /\ Results(l) \subseteq OutboundResult
         /\ ToSet(l.retired) \subseteq Retired
<1>1. /\ l.deliveries \in Seq(Delivery) /\ l.nextSeq \in 0..MaxSequence
      /\ l.results \in Seq(OutboundResult) /\ l.nextResult \in 0..MaxSequence
      /\ l.retired \in Seq(Retired) /\ l.high \in 0..MaxClock
  BY DEF Ledger
<1>2. ASSUME NEW T, NEW q \in Seq(T) PROVE ToSet(q) \subseteq T
  BY DEF ToSet
<1> QED
  BY <1>1, <1>2 DEF Rows, Results

\* The oldest tombstones make room for new ones, which come last.
LEMMA EntombedPlaces ==
  ASSUME NEW t \in Seq(Retired), NEW u \in Seq(Retired)
  PROVE  \E k \in Nat :
           /\ Entombed(t, u) \in Seq(Retired) /\ Len(Entombed(t, u)) = Len(t \o u) - k
           /\ \A i \in 1..Len(Entombed(t, u)) :
                i + k \in 1..Len(t \o u) /\ Entombed(t, u)[i] = (t \o u)[i + k]
           /\ Len(Entombed(t, u)) <= MaxRetired
           /\ Len(Entombed(t, u)) = 0 => Len(t \o u) = 0
<1> DEFINE all == t \o u
           surplus == IF Len(all) > MaxRetired THEN Len(all) - MaxRetired ELSE 0
<1>1. all \in Seq(Retired) /\ Len(all) \in Nat
  OBVIOUS
<1>2. MaxRetired \in Nat /\ MaxRetired # 0
  BY RelayAssumption
<1> HIDE DEF all
<1>3. surplus \in Nat /\ surplus <= Len(all) /\ Len(all) - surplus <= MaxRetired
      /\ (Len(all) - surplus = 0 => Len(all) = 0)
  BY <1>1, <1>2
<1> HIDE DEF surplus
<1>4. /\ SubSeq(all, surplus + 1, Len(all)) \in Seq(Retired)
      /\ Len(SubSeq(all, surplus + 1, Len(all))) = Len(all) - surplus
      /\ \A i \in 1..(Len(all) - surplus) :
           SubSeq(all, surplus + 1, Len(all))[i] = all[i + surplus]
  BY <1>1, <1>3, SubSeqProperties
<1>5. Entombed(t, u) = SubSeq(all, surplus + 1, Len(all))
  BY Zenon DEF Entombed, all, surplus
<1>6. \A i \in 1..(Len(all) - surplus) : i + surplus \in 1..Len(all)
  BY <1>1, <1>3
<1> QED
  BY <1>3, <1>4, <1>5, <1>6 DEF all

DistinctIds(q) == \A i, j \in DOMAIN q : i # j => q[i].id # q[j].id

\* Tombstones with ids of their own stay so, and the last new one is kept.
LEMMA EntombedLoads ==
  ASSUME NEW t \in Seq(Retired), NEW u \in Seq(Retired),
         DistinctIds(t), DistinctIds(u),
         \A x \in ToSet(t), y \in ToSet(u) : x.id # y.id
  PROVE  LET e == Entombed(t, u)
         IN  /\ e \in Seq(Retired) /\ Len(e) <= MaxRetired /\ DistinctIds(e)
             /\ ToSet(e) \subseteq ToSet(t) \cup ToSet(u)
             /\ u # <<>> => e # <<>> /\ Last(e) = Last(u)
<1> DEFINE all == t \o u
           e == Entombed(t, u)
<1>1. /\ all \in Seq(Retired) /\ Len(all) = Len(t) + Len(u)
      /\ Len(t) \in Nat /\ Len(u) \in Nat
      /\ \A i \in 1..Len(all) :
           all[i] = IF i <= Len(t) THEN t[i] ELSE u[i - Len(t)]
  BY ConcatProperties
<1>2. DOMAIN t = 1..Len(t) /\ DOMAIN u = 1..Len(u)
  OBVIOUS
<1>3. PICK k \in Nat : /\ e \in Seq(Retired) /\ Len(e) = Len(all) - k
                       /\ \A i \in 1..Len(e) : i + k \in 1..Len(all) /\ e[i] = all[i + k]
                       /\ Len(e) <= MaxRetired /\ (Len(e) = 0 => Len(all) = 0)
  BY EntombedPlaces
<1> HIDE DEF all, e
<1>4. \A i \in 1..Len(all) : /\ i <= Len(t) => i \in DOMAIN t /\ all[i] = t[i]
                             /\ i > Len(t) => i - Len(t) \in DOMAIN u /\ all[i] = u[i - Len(t)]
  BY <1>1, <1>2
<1>5. \A i, j \in 1..Len(all) : i < j => all[i].id # all[j].id
  <2> SUFFICES ASSUME NEW i \in 1..Len(all), NEW j \in 1..Len(all), i < j
               PROVE  all[i].id # all[j].id
    OBVIOUS
  <2>1. CASE j <= Len(t)
    BY <1>1, <1>4, <2>1 DEF DistinctIds
  <2>2. CASE i > Len(t)
    <3>1. /\ i - Len(t) \in DOMAIN u /\ all[i] = u[i - Len(t)]
          /\ j - Len(t) \in DOMAIN u /\ all[j] = u[j - Len(t)]
          /\ i - Len(t) # j - Len(t)
      BY <1>1, <1>4, <2>2
    <3> QED
      BY <3>1, Zenon DEF DistinctIds
  <2>3. CASE i <= Len(t) /\ j > Len(t)
    BY <1>4, <2>3 DEF ToSet
  <2> QED
    BY <1>1, <2>1, <2>2, <2>3
<1>6. DOMAIN e = 1..Len(e) /\ Len(e) \in Nat
  BY <1>3
<1>7. DistinctIds(e)
  <2> SUFFICES ASSUME NEW i \in 1..Len(e), NEW j \in 1..Len(e), i # j
               PROVE  e[i].id # e[j].id
    BY <1>6 DEF DistinctIds
  <2>1. i + k \in 1..Len(all) /\ j + k \in 1..Len(all) /\ e[i] = all[i + k] /\ e[j] = all[j + k]
    BY <1>3
  <2>2. i + k < j + k \/ j + k < i + k
    BY <1>6
  <2> QED
    BY <1>5, <2>1, <2>2
<1>8. ToSet(e) \subseteq ToSet(t) \cup ToSet(u)
  <2> SUFFICES ASSUME NEW i \in 1..Len(e) PROVE e[i] \in ToSet(t) \cup ToSet(u)
    BY <1>6 DEF ToSet
  <2>1. i + k \in 1..Len(all) /\ e[i] = all[i + k]
    BY <1>3
  <2>2. i + k <= Len(t) \/ i + k > Len(t)
    BY <1>1, <1>6
  <2> QED
    BY <1>4, <2>1, <2>2 DEF ToSet
<1>9. ASSUME u # <<>> PROVE e # <<>> /\ Last(e) = Last(u)
  <2>1. Len(u) # 0
    BY <1>9
  <2>2. Len(e) # 0
    BY <1>1, <1>3, <2>1
  <2>3. Len(e) + k = Len(all)
    BY <1>1, <1>3, <1>6
  <2>4. Len(e) \in 1..Len(e) /\ Len(all) \in 1..Len(all) /\ Len(all) > Len(t)
    BY <1>1, <1>6, <2>1, <2>2
  <2>5. Len(all) - Len(t) = Len(u)
    BY <1>1
  <2>6. e[Len(e)] = all[Len(all)] /\ all[Len(all)] = u[Len(u)]
    BY <1>3, <1>4, <2>3, <2>4, <2>5
  <2> QED
    BY <2>2, <2>6 DEF Last
<1> QED
  BY <1>3, <1>7, <1>8, <1>9 DEF e

\* The high-water mark only rises, and what is on record goes on loading.
LEMMA ClockedValid ==
  ASSUME RelayTypeOK, Valid(ledger)
  PROVE  /\ Valid(Clocked) /\ Alike(Clocked, ledger)
         /\ HighWater \in 0..MaxClock /\ Clocked.high = HighWater
<1>1. ledger \in Ledger /\ clock \in 0..MaxClock /\ ledger.high \in 0..MaxClock
  BY DEF RelayTypeOK, Ledger
<1>2. HighWater \in 0..MaxClock /\ ledger.high <= HighWater
  BY <1>1, RelayAssumption DEF HighWater
<1>3. /\ Clocked \in Ledger /\ Clocked.high = HighWater /\ Alike(Clocked, ledger)
  BY <1>1, <1>2 DEF Clocked, Ledger, Alike
<1>4. \A x \in Results(ledger) : x.at <= HighWater
  <2>1. ASSUME NEW x \in Results(ledger) PROVE x.at <= ledger.high /\ x.at \in 0..MaxClock
    <3>1. x \in OutboundResult
      BY <1>1, LedgerParts
    <3> QED
      BY <3>1 DEF OutboundResult, Valid, Loads, ResultsLoad
  <2> QED
    BY <1>1, <1>2, <2>1, SMT
<1>5. Valid(Clocked)
  BY <1>3, <1>4 DEF Valid, Alike, Loads, DeliveriesLoad, ResultsLoad, Rows, Results
<1> QED
  BY <1>2, <1>3, <1>5

\* A row that goes leaves the others where they were.
LEMMA RemainingValid ==
  ASSUME RelayTypeOK, Valid(ledger), NEW rows
  PROVE  LET m == Remaining(rows)
         IN  /\ Valid(m) /\ Rows(m) = Rows(ledger) \ rows /\ Results(m) = Results(ledger)
             /\ m.nextSeq = ledger.nextSeq /\ m.nextResult = ledger.nextResult
<1> DEFINE q == ledger.deliveries
           kept == Kept(q, Rows(ledger) \ rows)
           m == Remaining(rows)
<1>1. ledger \in Ledger /\ q \in Seq(Delivery)
  BY LedgerParts DEF RelayTypeOK
<1>2. /\ kept \in Seq(Delivery) /\ Len(kept) <= Len(q) /\ Len(kept) \in Nat /\ Len(q) \in Nat
      /\ ToSet(kept) = ToSet(q) \cap (Rows(ledger) \ rows)
  BY <1>1, KeptPlaces
<1>3. PICK at \in [DOMAIN kept -> DOMAIN q] :
        /\ \A n \in DOMAIN kept : kept[n] = q[at[n]]
        /\ \A i, j \in DOMAIN kept : i < j => at[i] < at[j]
  BY <1>1, KeptPlaces
<1>4. Remaining(rows) = [ledger EXCEPT !.deliveries = kept]
  BY Zenon DEF Remaining
<1>5. /\ Len(q) <= MaxDeliveries /\ \A d \in ToSet(q) : d.seq <= ledger.nextSeq
      /\ \A i, j \in DOMAIN q : i < j => q[i].seq < q[j].seq
  BY DEF Valid, Loads, DeliveriesLoad, Rows
<1> HIDE DEF kept, q
<1>6. /\ m \in Ledger /\ m.deliveries = kept /\ m.nextSeq = ledger.nextSeq
      /\ m.results = ledger.results /\ m.nextResult = ledger.nextResult
      /\ m.retired = ledger.retired /\ m.high = ledger.high
  BY <1>1, <1>2, <1>4 DEF Ledger
<1> HIDE DEF m
<1>7. \A i, j \in DOMAIN kept : i < j => kept[i].seq < kept[j].seq
  BY <1>3, <1>5
<1>8. Len(kept) <= MaxDeliveries
  BY <1>2, <1>5, RelayAssumption
<1>9. DeliveriesLoad(m)
  BY <1>2, <1>5, <1>6, <1>7, <1>8 DEF DeliveriesLoad, Rows
<1>10. ResultsLoad(m) /\ \A t \in ToSet(m.retired), x \in Results(m) : t.id # x.id
  BY <1>6 DEF Valid, Loads, ResultsLoad, Results
<1>11. Rows(m) = Rows(ledger) \ rows /\ Results(m) = Results(ledger)
  BY <1>2, <1>6 DEF Rows, Results, q
<1> QED
  BY <1>6, <1>9, <1>10, <1>11 DEF Valid, Loads, m

\* Results name what they stand for: by their id, and by gateway and request.
LEMMA ResultsDiffer ==
  ASSUME Valid(ledger)
  PROVE  \A x, y \in Results(ledger) :
           /\ x.id = y.id => x = y
           /\ x.gw = y.gw /\ x.req = y.req => x = y
<1> SUFFICES ASSUME NEW x \in Results(ledger), NEW y \in Results(ledger), x # y
             PROVE  x.id # y.id /\ ~(x.gw = y.gw /\ x.req = y.req)
  OBVIOUS
<1>1. PICK i \in DOMAIN ledger.results : x = ledger.results[i]
  BY Zenon DEF Results, ToSet
<1>2. PICK j \in DOMAIN ledger.results : y = ledger.results[j]
  BY Zenon DEF Results, ToSet
<1>3. i # j
  BY <1>1, <1>2
<1>4. /\ x.id # y.id
      /\ <<x.gw, x.req>> # <<y.gw, y.req>>
  BY <1>1, <1>2, <1>3, Zenon DEF Valid, Loads, ResultsLoad
<1> QED
  BY <1>4

\* Results that go leave tombstones, and those that stay load as before.
LEMMA RetiredValid ==
  ASSUME RelayTypeOK, Valid(ledger), NEW gone \in SUBSET Results(ledger),
         NEW u \in Seq(Retired), DistinctIds(u),
         \A t \in ToSet(u) : \E x \in gone : t = Tombstone(x),
         NEW m \in Ledger,
         m.deliveries = ledger.deliveries, m.nextSeq = ledger.nextSeq,
         m.nextResult = ledger.nextResult, ledger.high <= m.high,
         m.results = Kept(ledger.results, Results(ledger) \ gone),
         m.retired = Entombed(ledger.retired, u)
  PROVE  /\ Valid(m) /\ Rows(m) = Rows(ledger) /\ Results(m) = Results(ledger) \ gone
         /\ u # <<>> => m.retired # <<>> /\ Last(m.retired) = Last(u)
<1> DEFINE q == ledger.results
           kept == Kept(q, Results(ledger) \ gone)
<1>1. /\ ledger \in Ledger /\ q \in Seq(OutboundResult) /\ ledger.retired \in Seq(Retired)
      /\ Results(ledger) \subseteq OutboundResult /\ ledger.high \in 0..MaxClock
      /\ m.high \in 0..MaxClock
  BY LedgerParts DEF RelayTypeOK
<1>2. /\ kept \in Seq(OutboundResult) /\ Len(kept) <= Len(q) /\ Len(kept) \in Nat /\ Len(q) \in Nat
      /\ ToSet(kept) = ToSet(q) \cap (Results(ledger) \ gone)
  BY <1>1, KeptPlaces
<1>3. PICK at \in [DOMAIN kept -> DOMAIN q] :
        /\ \A n \in DOMAIN kept : kept[n] = q[at[n]]
        /\ \A i, j \in DOMAIN kept : i < j => at[i] < at[j]
  BY <1>1, KeptPlaces
<1>4. /\ Len(q) <= MaxResults
      /\ \A x \in ToSet(q) : x.id <= ledger.nextResult /\ x.seq <= ledger.nextSeq
                             /\ x.at <= ledger.high
      /\ \A i, j \in DOMAIN q : i # j => /\ q[i].id # q[j].id
                                         /\ <<q[i].gw, q[i].req>> # <<q[j].gw, q[j].req>>
      /\ \A t \in ToSet(ledger.retired) : t.id <= ledger.nextResult
      /\ DistinctIds(ledger.retired)
      /\ \A t \in ToSet(ledger.retired), x \in Results(ledger) : t.id # x.id
  BY DEF Valid, Loads, ResultsLoad, Results, DistinctIds
<1>5. ToSet(q) = Results(ledger)
  BY DEF Results
<1>6. Results(m) = ToSet(kept) /\ m.results = kept
  BY DEF Results
<1> HIDE DEF kept, q
<1>7. ToSet(kept) = Results(ledger) \ gone
  BY <1>2, <1>5
<1>8. \A i, j \in DOMAIN kept : i # j =>
        kept[i].id # kept[j].id /\ <<kept[i].gw, kept[i].req>> # <<kept[j].gw, kept[j].req>>
  <2> SUFFICES ASSUME NEW i \in DOMAIN kept, NEW j \in DOMAIN kept, i # j
               PROVE  /\ kept[i].id # kept[j].id
                      /\ <<kept[i].gw, kept[i].req>> # <<kept[j].gw, kept[j].req>>
    OBVIOUS
  <2>1. at[i] \in DOMAIN q /\ at[j] \in DOMAIN q /\ kept[i] = q[at[i]] /\ kept[j] = q[at[j]]
    BY <1>3
  <2>2. at[i] # at[j]
    <3>1. i \in Nat /\ j \in Nat /\ at[i] \in Nat /\ at[j] \in Nat
      BY <1>1, <1>2, <2>1 DEF q
    <3>2. CASE i < j
      BY <3>1, <3>2, <1>3
    <3>3. CASE j < i
      BY <3>1, <3>3, <1>3
    <3> QED
      BY <3>1, <3>2, <3>3
  <2> QED
    BY <2>1, <2>2, <1>4, Zenon
<1>9. \A x \in gone : x \in Results(ledger) /\ x \in OutboundResult
  BY <1>1
<1>10. \A t \in ToSet(u) : \E x \in gone : t.id = x.id /\ t.gw = x.gw
  BY DEF Tombstone
<1>11. \A s \in ToSet(ledger.retired), t \in ToSet(u) : s.id # t.id
  <2> SUFFICES ASSUME NEW s \in ToSet(ledger.retired), NEW t \in ToSet(u) PROVE s.id # t.id
    OBVIOUS
  <2>1. PICK x \in gone : t.id = x.id
    BY <1>10
  <2> QED
    BY <1>4, <1>9, <2>1
<1>12. /\ m.retired \in Seq(Retired) /\ Len(m.retired) <= MaxRetired /\ DistinctIds(m.retired)
       /\ ToSet(m.retired) \subseteq ToSet(ledger.retired) \cup ToSet(u)
       /\ u # <<>> => m.retired # <<>> /\ Last(m.retired) = Last(u)
  <2>1. \A s \in ToSet(ledger.retired), t \in ToSet(u) : s.id # t.id
    BY <1>11
  <2>2. DistinctIds(ledger.retired) /\ ledger.retired \in Seq(Retired)
    BY <1>1, <1>4
  <2>3. LET e == Entombed(ledger.retired, u)
        IN  /\ e \in Seq(Retired) /\ Len(e) <= MaxRetired /\ DistinctIds(e)
            /\ ToSet(e) \subseteq ToSet(ledger.retired) \cup ToSet(u)
            /\ u # <<>> => e # <<>> /\ Last(e) = Last(u)
    BY <2>1, <2>2, EntombedLoads, Zenon
  <2> QED
    BY <2>3, Zenon
<1>13. \A t \in ToSet(u), x \in Results(ledger) \ gone : t.id # x.id
  <2> SUFFICES ASSUME NEW t \in ToSet(u), NEW x \in Results(ledger) \ gone, t.id = x.id
               PROVE  FALSE
    OBVIOUS
  <2>1. PICK y \in gone : t.id = y.id
    BY <1>10
  <2>2. x = y
    BY <1>9, <2>1, ResultsDiffer
  <2> QED
    BY <2>2
<1>14. \A t \in ToSet(m.retired), x \in Results(m) : t.id # x.id
  BY <1>4, <1>6, <1>7, <1>12, <1>13, Zenon
<1>15. \A t \in ToSet(m.retired) : t.id <= ledger.nextResult
  <2>1. ASSUME NEW t \in ToSet(u) PROVE t.id <= ledger.nextResult
    <3>1. PICK x \in gone : t.id = x.id
      BY <1>10
    <3> QED
      BY <1>4, <1>5, <1>9, <3>1
  <2> QED
    BY <1>4, <1>12, <2>1
<1>16. \A x \in Results(m) : x.id <= m.nextResult /\ x.seq <= m.nextSeq /\ x.at <= m.high
  <2> SUFFICES ASSUME NEW x \in Results(m)
               PROVE  x.id <= m.nextResult /\ x.seq <= m.nextSeq /\ x.at <= m.high
    OBVIOUS
  <2>1. x \in ToSet(q) /\ x \in OutboundResult
    BY <1>1, <1>5, <1>6, <1>7
  <2>2. x.at \in 0..MaxClock
    BY <2>1 DEF OutboundResult
  <2> QED
    BY <1>1, <1>4, <2>1, <2>2, RelayAssumption
<1>17. Len(kept) <= MaxResults
  BY <1>2, <1>4, RelayAssumption
<1>18. \A t \in ToSet(m.retired), x \in Results(m) : <<t.gw, t.id>> # <<x.gw, x.id>>
  BY <1>14
<1>19. ResultsLoad(m)
  BY <1>6, <1>8, <1>12, <1>15, <1>16, <1>17, <1>18, Zenon DEF ResultsLoad, DistinctIds
<1>20. DeliveriesLoad(m)
  BY Zenon DEF Valid, Loads, DeliveriesLoad, Rows
<1>21. Rows(m) = Rows(ledger)
  BY DEF Rows
<1> QED
  BY <1>6, <1>7, <1>12, <1>14, <1>19, <1>20, <1>21, Zenon DEF Valid, Loads

\* What is reclaimed leaves tombstones.
LEMMA ReclaimValid ==
  ASSUME RelayTypeOK, Valid(ledger), NEW g
  PROVE  LET m == Reclaim(g)
         IN  /\ Valid(m) /\ Rows(m) = Rows(ledger) /\ Results(m) \subseteq Results(ledger)
             /\ m.nextSeq = ledger.nextSeq /\ m.nextResult = ledger.nextResult
<1> DEFINE q == ledger.results
           gone == {x \in Results(ledger) : Expired(x, g)}
           reclaimed == Kept(q, gone)
           u == Tombstones(reclaimed)
           kept == Kept(q, Results(ledger) \ gone)
           tombs == Entombed(ledger.retired, u)
           m == Reclaim(g)
<1>1. /\ ledger \in Ledger /\ q \in Seq(OutboundResult) /\ ledger.retired \in Seq(Retired)
      /\ Results(ledger) \subseteq OutboundResult /\ ledger.high \in 0..MaxClock
  BY LedgerParts DEF RelayTypeOK
<1>2. ToSet(q) = Results(ledger) /\ gone \in SUBSET Results(ledger)
  BY DEF Results
<1> HIDE DEF gone, q
<1>3. /\ reclaimed \in Seq(OutboundResult) /\ ToSet(reclaimed) = ToSet(q) \cap gone
      /\ \E at \in [DOMAIN reclaimed -> DOMAIN q] :
           /\ \A n \in DOMAIN reclaimed : reclaimed[n] = q[at[n]]
           /\ \A i, j \in DOMAIN reclaimed : i < j => at[i] < at[j]
  BY <1>1, KeptPlaces
<1>4. PICK at \in [DOMAIN reclaimed -> DOMAIN q] :
        /\ \A n \in DOMAIN reclaimed : reclaimed[n] = q[at[n]]
        /\ \A i, j \in DOMAIN reclaimed : i < j => at[i] < at[j]
  BY <1>3, Zenon
<1>5. kept \in Seq(OutboundResult)
  BY <1>1, KeptPlaces
<1>6. \A i, j \in DOMAIN q : i # j => q[i].id # q[j].id
  BY DEF Valid, Loads, ResultsLoad, q
<1>7. DOMAIN reclaimed = 1..Len(reclaimed) /\ Len(reclaimed) \in Nat
      /\ DOMAIN q = 1..Len(q) /\ Len(q) \in Nat
  BY <1>1, <1>3
<1> HIDE DEF reclaimed, kept
<1>8. /\ DOMAIN u = 1..Len(reclaimed)
      /\ \A n \in 1..Len(reclaimed) : u[n] = Tombstone(reclaimed[n])
  BY <1>7 DEF Tombstones
<1>9. \A n \in 1..Len(reclaimed) : reclaimed[n] \in OutboundResult /\ reclaimed[n] \in gone
  <2>1. ASSUME NEW n \in 1..Len(reclaimed) PROVE reclaimed[n] \in ToSet(reclaimed)
    BY <1>7, Zenon DEF ToSet
  <2> QED
    BY <2>1, <1>1, <1>2, <1>3
<1>10. \A x \in OutboundResult : Tombstone(x) \in Retired
  BY DEF OutboundResult, Retired, Tombstone
<1>11. u \in Seq(Retired)
  <2>1. \A n \in 1..Len(reclaimed) : u[n] \in Retired
    BY <1>8, <1>9, <1>10
  <2>2. u = [n \in 1..Len(reclaimed) |-> u[n]]
    BY <1>7 DEF Tombstones
  <2> HIDE DEF u
  <2> QED
    BY <1>7, <2>1, <2>2
<1>12. DistinctIds(u)
  <2> SUFFICES ASSUME NEW i \in 1..Len(reclaimed), NEW j \in 1..Len(reclaimed), i # j
               PROVE  u[i].id # u[j].id
    BY <1>8 DEF DistinctIds
  <2>1. at[i] \in DOMAIN q /\ at[j] \in DOMAIN q /\ at[i] # at[j]
    <3>1. i < j \/ j < i
      OBVIOUS
    <3>2. at[i] \in DOMAIN q /\ at[j] \in DOMAIN q
      BY <1>4, <1>7
    <3>3. at[i] < at[j] \/ at[j] < at[i]
      BY <3>1, <1>4, <1>7
    <3> QED
      BY <3>2, <3>3, <1>7
  <2>2. u[i].id = q[at[i]].id /\ u[j].id = q[at[j]].id
    BY <1>4, <1>7, <1>8 DEF Tombstone
  <2> QED
    BY <1>6, <2>1, <2>2
<1>13. \A t \in ToSet(u) : \E x \in gone : t = Tombstone(x)
  BY <1>8, <1>9 DEF ToSet
<1> HIDE DEF u
<1>14. tombs \in Seq(Retired)
  BY <1>1, <1>11, EntombedPlaces
<1>15. m = [Clocked EXCEPT !.results = kept, !.retired = tombs]
  BY Zenon DEF Reclaim, kept, tombs, u, reclaimed, q, gone
<1>16. Clocked \in Ledger /\ Alike(Clocked, ledger) /\ HighWater \in 0..MaxClock
       /\ Clocked.high = HighWater
  BY ClockedValid DEF Valid
<1>17. ledger.high <= HighWater
  BY <1>1, RelayAssumption DEF HighWater, RelayTypeOK
<1> HIDE DEF tombs, m
<1>18. /\ m \in Ledger /\ m.results = kept /\ m.retired = tombs
       /\ m.deliveries = ledger.deliveries /\ m.nextSeq = ledger.nextSeq
       /\ m.nextResult = ledger.nextResult /\ m.high = HighWater
  BY <1>5, <1>14, <1>15, <1>16 DEF Ledger, Alike
<1>19. /\ m.results = Kept(ledger.results, Results(ledger) \ gone)
       /\ m.retired = Entombed(ledger.retired, u) /\ ledger.high <= m.high
  BY <1>17, <1>18 DEF kept, tombs, q
<1>20. Valid(m) /\ Rows(m) = Rows(ledger) /\ Results(m) = Results(ledger) \ gone
  BY <1>2, <1>11, <1>12, <1>13, <1>18, <1>19, RetiredValid
<1> QED
  BY <1>18, <1>20 DEF m

\* An acknowledged result leaves its tombstone, which is the last.
LEMMA WithoutValid ==
  ASSUME RelayTypeOK, Valid(ledger), NEW p \in Received,
         NEW x \in OnRecord(ledger, p.gw, p.req), x.id = p.id
  PROVE  LET m == Without(p)
         IN  /\ Valid(m) /\ Rows(m) = Rows(ledger)
             /\ Results(m) = Results(ledger) \ OnRecord(ledger, p.gw, p.req)
             /\ m.nextSeq = ledger.nextSeq /\ m.nextResult = ledger.nextResult
             /\ m.retired # <<>> /\ Last(m.retired) = Tombstone(p)
<1> DEFINE gone == OnRecord(ledger, p.gw, p.req)
           u == <<Tombstone(p)>>
           kept == Kept(ledger.results, Results(ledger) \ gone)
           tombs == Entombed(ledger.retired, u)
           m == Without(p)
<1>1. /\ ledger \in Ledger /\ ledger.results \in Seq(OutboundResult)
      /\ ledger.retired \in Seq(Retired) /\ ledger.high \in 0..MaxClock
  BY LedgerParts DEF RelayTypeOK
<1>2. gone \in SUBSET Results(ledger) /\ x \in gone /\ x.gw = p.gw /\ x.req = p.req
  BY DEF OnRecord
<1>3. Tombstone(p) \in Retired /\ Tombstone(p) = Tombstone(x)
  BY <1>2 DEF Received, Retired, Tombstone
<1>4. /\ u \in Seq(Retired) /\ DOMAIN u = {1} /\ u[1] = Tombstone(p)
      /\ u # <<>> /\ Last(u) = Tombstone(p)
  BY <1>3 DEF Last
<1>5. DistinctIds(u) /\ \A t \in ToSet(u) : \E y \in gone : t = Tombstone(y)
  BY <1>2, <1>3, <1>4 DEF DistinctIds, ToSet
<1> HIDE DEF u, gone
<1>6. kept \in Seq(OutboundResult) /\ tombs \in Seq(Retired)
  BY <1>1, <1>4, KeptPlaces, EntombedPlaces
<1>7. m = [ledger EXCEPT !.results = kept, !.retired = tombs]
  BY Zenon DEF Without, kept, tombs, u, gone
<1> HIDE DEF kept, tombs, m
<1>8. /\ m \in Ledger /\ m.results = kept /\ m.retired = tombs
      /\ m.deliveries = ledger.deliveries /\ m.nextSeq = ledger.nextSeq
      /\ m.nextResult = ledger.nextResult /\ m.high = ledger.high
  BY <1>1, <1>6, <1>7 DEF Ledger
<1>9. /\ m.results = Kept(ledger.results, Results(ledger) \ gone)
      /\ m.retired = Entombed(ledger.retired, u) /\ ledger.high <= m.high
  BY <1>1, <1>8 DEF kept, tombs
<1>10. /\ Valid(m) /\ Rows(m) = Rows(ledger) /\ Results(m) = Results(ledger) \ gone
       /\ m.retired # <<>> /\ Last(m.retired) = Last(u)
  <2>1. /\ u \in Seq(Retired) /\ u # <<>> /\ DistinctIds(u) /\ gone \in SUBSET Results(ledger)
        /\ \A t \in ToSet(u) : \E y \in gone : t = Tombstone(y)
    BY <1>2, <1>4, <1>5, Zenon
  <2>2. /\ Valid(m) /\ Rows(m) = Rows(ledger) /\ Results(m) = Results(ledger) \ gone
        /\ u # <<>> => m.retired # <<>> /\ Last(m.retired) = Last(u)
    BY <2>1, <1>8, <1>9, RetiredValid
  <2> QED
    BY <2>1, <2>2, Zenon
<1>11. Without(p) = m
  BY Zenon DEF m
<1>12. Last(m.retired) = Tombstone(p)
  BY <1>4, <1>10
<1> QED
  BY <1>8, <1>10, <1>11, <1>12, Zenon DEF gone

\* A result takes an id nobody had.
LEMMA AddedValid ==
  ASSUME RelayTypeOK, Valid(ledger), RoomForResult,
         NEW x \in OutboundResult, x.id = ledger.nextResult + 1,
         OnRecord(ledger, x.gw, x.req) = {},
         NEW m \in Ledger, DeliveriesLoad(m), ledger.nextSeq <= m.nextSeq,
         x.seq <= m.nextSeq, ledger.high <= m.high, x.at <= m.high,
         m.results = Append(ledger.results, x), m.nextResult = x.id,
         m.retired = ledger.retired
  PROVE  /\ Valid(m) /\ Results(m) = Results(ledger) \cup {x}
         /\ m.results # <<>> /\ Last(m.results) = x
<1> DEFINE q == ledger.results
<1>1. /\ q \in Seq(OutboundResult) /\ Results(ledger) \subseteq OutboundResult
      /\ ledger.nextResult \in Nat /\ ledger.nextSeq \in Nat /\ ledger.high \in Nat
      /\ m.nextSeq \in Nat /\ m.high \in Nat
      /\ ToSet(ledger.retired) \subseteq Retired
  <2>1. ledger \in Ledger /\ m \in Ledger
    BY DEF RelayTypeOK
  <2> QED
    BY <2>1, LedgerParts
<1>2. /\ m.results \in Seq(OutboundResult) /\ Len(m.results) = Len(q) + 1 /\ Len(q) \in Nat
      /\ m.results[Len(q) + 1] = x /\ \A i \in 1..Len(q) : m.results[i] = q[i]
  BY <1>1, AppendProperties
<1>3. Results(m) = Results(ledger) \cup {x}
  BY <1>1, ToSetAppend DEF Results
<1>4. /\ \A y \in Results(ledger) : y.id <= ledger.nextResult /\ y.seq <= ledger.nextSeq
                                    /\ y.at <= ledger.high
      /\ \A i, j \in DOMAIN q : i # j => /\ q[i].id # q[j].id
                                         /\ <<q[i].gw, q[i].req>> # <<q[j].gw, q[j].req>>
      /\ Len(ledger.retired) <= MaxRetired
      /\ \A t \in ToSet(ledger.retired) : t.id <= ledger.nextResult
      /\ \A i, j \in DOMAIN ledger.retired : i # j => ledger.retired[i].id # ledger.retired[j].id
      /\ \A t \in ToSet(ledger.retired), y \in Results(ledger) : t.id # y.id
  BY DEF Valid, Loads, ResultsLoad
<1>5. \A i \in 1..Len(q) : q[i] \in Results(ledger)
  BY <1>1 DEF Results, ToSet
<1> HIDE DEF q
<1>6. \A y \in Results(ledger) : y.id # x.id /\ <<y.gw, y.req>> # <<x.gw, x.req>>
  <2> SUFFICES ASSUME NEW y \in Results(ledger)
               PROVE  y.id # x.id /\ <<y.gw, y.req>> # <<x.gw, x.req>>
    OBVIOUS
  <2>1. y.id \in Nat
    <3>1. y \in OutboundResult
      BY <1>1
    <3> QED
      BY <3>1 DEF OutboundResult
  <2>2. y.id # x.id
    <3>1. y.id <= ledger.nextResult
      BY <1>4
    <3> QED
      BY <1>1, <2>1, <3>1
  <2>3. ~(y.gw = x.gw /\ y.req = x.req)
    BY Zenon DEF OnRecord
  <2> QED
    BY <2>2, <2>3
<1>7. DOMAIN m.results = 1..(Len(q) + 1) /\ DOMAIN q = 1..Len(q)
  BY <1>1, <1>2 DEF q
<1>8. \A i, j \in DOMAIN m.results : i # j =>
        /\ m.results[i].id # m.results[j].id
        /\ <<m.results[i].gw, m.results[i].req>> # <<m.results[j].gw, m.results[j].req>>
  <2> SUFFICES ASSUME NEW i \in 1..(Len(q) + 1), NEW j \in 1..(Len(q) + 1), i # j
               PROVE  /\ m.results[i].id # m.results[j].id
                      /\ <<m.results[i].gw, m.results[i].req>>
                           # <<m.results[j].gw, m.results[j].req>>
    BY <1>7, Zenon
  <2>1. CASE i \in 1..Len(q) /\ j \in 1..Len(q)
    <3>1. m.results[i] = q[i] /\ m.results[j] = q[j] /\ i \in DOMAIN q /\ j \in DOMAIN q
      BY <1>2, <1>7, <2>1
    <3> QED
      BY <3>1, <1>4, Zenon
  <2>2. CASE i = Len(q) + 1
    <3>1. j \in 1..Len(q) /\ m.results[i] = x /\ m.results[j] = q[j]
      BY <1>2, <2>2
    <3> QED
      BY <3>1, <1>5, <1>6
  <2>3. CASE j = Len(q) + 1
    <3>1. i \in 1..Len(q) /\ m.results[j] = x /\ m.results[i] = q[i]
      BY <1>2, <2>3
    <3> QED
      BY <3>1, <1>5, <1>6
  <2> QED
    BY <1>2, <2>1, <2>2, <2>3
<1>9. \A y \in Results(m) : y.id <= m.nextResult /\ y.seq <= m.nextSeq /\ y.at <= m.high
  <2>1. ASSUME NEW y \in Results(ledger)
        PROVE  y.id <= m.nextResult /\ y.seq <= m.nextSeq /\ y.at <= m.high
    <3>1. y.id \in Nat /\ y.seq \in Nat /\ y.at \in Nat
      <4>1. y \in OutboundResult
        BY <1>1
      <4> QED
        BY <4>1, RelayAssumption DEF OutboundResult
    <3>2. y.id <= ledger.nextResult /\ y.seq <= ledger.nextSeq /\ y.at <= ledger.high
      BY <1>4
    <3>3. y.id <= m.nextResult
      BY <1>1, <3>1, <3>2
    <3>4. y.seq <= m.nextSeq
      BY <1>1, <3>1, <3>2
    <3>5. y.at <= m.high
      BY <1>1, <3>1, <3>2
    <3> QED
      BY <3>3, <3>4, <3>5
  <2>2. x.id <= m.nextResult
    BY <1>1
  <2> QED
    BY <1>3, <2>1, <2>2
<1>10. \A t \in ToSet(m.retired) : t.id <= m.nextResult /\ t.id # x.id
  <2> SUFFICES ASSUME NEW t \in ToSet(ledger.retired) PROVE t.id <= x.id /\ t.id # x.id
    OBVIOUS
  <2>1. t.id \in Nat /\ t.id <= ledger.nextResult
    BY <1>1, <1>4 DEF Retired
  <2> QED
    BY <1>1, <2>1
<1>11. \A t \in ToSet(m.retired), y \in Results(m) : t.id # y.id
  BY <1>3, <1>4, <1>10
<1>12. Len(m.results) <= MaxResults
  <2>1. Len(q) < MaxResults /\ MaxResults \in Nat
    BY RelayAssumption DEF RoomForResult, q
  <2> QED
    BY <1>2, <2>1
<1>13. \A t \in ToSet(m.retired), y \in Results(m) : <<t.gw, t.id>> # <<y.gw, y.id>>
  BY <1>11
<1>14. ResultsLoad(m)
  BY <1>4, <1>8, <1>9, <1>10, <1>12, <1>13, Zenon DEF ResultsLoad
<1>15. m.results # <<>> /\ Last(m.results) = x
  BY <1>2 DEF Last
<1> QED
  BY <1>3, <1>11, <1>14, <1>15, Zenon DEF Valid, Loads

\* A record that queues nothing.
LEMMA RecordValid ==
  ASSUME RelayTypeOK, Valid(ledger), RoomForResult, NEW g \in Gateways, NEW r \in Requests,
         Unanswered(g, r), OnRecord(ledger, g, r) = {}
  PROVE  LET m == WithResult(g, r, 0)
             x == Last(m.results)
         IN  /\ Valid(m) /\ Rows(m) = Rows(ledger) /\ Results(m) = Results(ledger) \cup {x}
             /\ m.results # <<>> /\ x.gw = g /\ x.req = r /\ x.of = Current(g, r)
             /\ x.id = ledger.nextResult + 1 /\ x.seq = 0
             /\ m.nextSeq = ledger.nextSeq /\ m.nextResult = ledger.nextResult + 1
<1> DEFINE x == [gw |-> g, req |-> r, id |-> ledger.nextResult + 1, seq |-> 0,
                 at |-> HighWater, of |-> Current(g, r)]
           list == Append(ledger.results, x)
           next == ledger.nextResult + 1
           m == WithResult(g, r, 0)
<1>1. /\ ledger \in Ledger /\ ledger.results \in Seq(OutboundResult)
      /\ ledger.nextResult \in 0..MaxSequence /\ ledger.nextSeq \in Nat /\ ledger.high \in Nat
      /\ MaxSequence \in Nat /\ MaxActions \in Nat
  <2>1. ledger \in Ledger
    BY DEF RelayTypeOK
  <2> QED
    BY <2>1, LedgerParts, RelayAssumption
<1>2. Clocked \in Ledger /\ Alike(Clocked, ledger) /\ HighWater \in 0..MaxClock
      /\ Clocked.high = HighWater
  BY ClockedValid DEF Valid
<1>3. ledger.high <= HighWater
  <2>1. clock \in Nat
    BY RelayAssumption DEF RelayTypeOK
  <2> QED
    BY <1>1, <2>1 DEF HighWater
<1>4. Current(g, r) \in Action
  <2>1. use[<<g, r>>] \in 0..MaxActions /\ use[<<g, r>>] < MaxActions
    BY DEF RelayTypeOK, Unanswered
  <2> QED
    BY <1>1, <2>1 DEF Current, Action
<1>5. next \in 1..MaxSequence /\ next \in 0..MaxSequence
  BY <1>1 DEF RoomForResult
<1>6. x \in OutboundResult
  BY <1>1, <1>2, <1>4, <1>5 DEF OutboundResult
<1>7. m = [Clocked EXCEPT !.results = list, !.nextResult = next]
  BY DEF WithResult
<1>8. x.gw = g /\ x.req = r /\ x.id = ledger.nextResult + 1 /\ x.seq = 0 /\ x.at = HighWater
      /\ x.of = Current(g, r)
  OBVIOUS
<1> HIDE DEF x
<1>9. list \in Seq(OutboundResult)
  BY <1>1, <1>6
<1> HIDE DEF m, list, next
<1>10. /\ m \in Ledger /\ m.results = list /\ m.nextResult = next
       /\ m.deliveries = ledger.deliveries /\ m.nextSeq = ledger.nextSeq
       /\ m.retired = ledger.retired /\ m.high = HighWater
  BY <1>2, <1>5, <1>7, <1>9 DEF Ledger, Alike
<1>11. DeliveriesLoad(m) /\ Rows(m) = Rows(ledger)
  BY <1>10 DEF Valid, Loads, DeliveriesLoad, Rows
<1>12. ledger.nextSeq <= m.nextSeq /\ x.seq <= m.nextSeq /\ x.at <= m.high
       /\ ledger.high <= m.high
  BY <1>1, <1>2, <1>3, <1>8, <1>10
<1>13. /\ Valid(m) /\ Results(m) = Results(ledger) \cup {x}
       /\ m.results # <<>> /\ Last(m.results) = x
  BY <1>6, <1>8, <1>10, <1>11, <1>12, AddedValid DEF list, next
<1> QED
  BY <1>8, <1>10, <1>11, <1>13 DEF m, next

\* A delivery takes the next sequence number, and its result says so.
LEMMA SendValid ==
  ASSUME RelayTypeOK, Valid(ledger), RoomForResult, RoomForDelivery,
         NEW g \in Gateways, NEW r \in Requests,
         NEW lane \in Lanes, NEW to \in Messages \cup {NoMessage},
         Unanswered(g, r), OnRecord(ledger, g, r) = {}
  PROVE  LET m == WithDelivery(g, r, lane, to)
             x == Last(m.results)
             d == Last(m.deliveries)
         IN  /\ Valid(m) /\ Rows(m) = Rows(ledger) \cup {d}
             /\ Results(m) = Results(ledger) \cup {x}
             /\ m.results # <<>> /\ x.gw = g /\ x.req = r /\ x.of = Current(g, r)
             /\ x.id = ledger.nextResult + 1 /\ d.of = Current(g, r)
             /\ d.seq = ledger.nextSeq + 1
             /\ m.nextSeq = ledger.nextSeq + 1 /\ m.nextResult = ledger.nextResult + 1
<1> DEFINE seq == ledger.nextSeq + 1
           x == [gw |-> g, req |-> r, id |-> ledger.nextResult + 1, seq |-> seq,
                 at |-> HighWater, of |-> Current(g, r)]
           d == [seq |-> seq, lane |-> lane, to |-> to, of |-> Current(g, r)]
           list == Append(ledger.results, x)
           queue == Append(ledger.deliveries, d)
           next == ledger.nextResult + 1
           half == WithResult(g, r, seq)
           m == WithDelivery(g, r, lane, to)
<1>1. /\ ledger \in Ledger /\ ledger.results \in Seq(OutboundResult)
      /\ ledger.deliveries \in Seq(Delivery) /\ Rows(ledger) \subseteq Delivery
      /\ ledger.nextResult \in 0..MaxSequence /\ ledger.nextSeq \in 0..MaxSequence
      /\ ledger.high \in Nat /\ MaxSequence \in Nat /\ MaxActions \in Nat
  <2>1. ledger \in Ledger
    BY DEF RelayTypeOK
  <2> QED
    BY <2>1, LedgerParts, RelayAssumption
<1>2. Clocked \in Ledger /\ Alike(Clocked, ledger) /\ HighWater \in 0..MaxClock
      /\ Clocked.high = HighWater
  BY ClockedValid DEF Valid
<1>3. ledger.high <= HighWater
  <2>1. clock \in Nat
    BY RelayAssumption DEF RelayTypeOK
  <2> QED
    BY <1>1, <2>1 DEF HighWater
<1>4. Current(g, r) \in Action
  <2>1. use[<<g, r>>] \in 0..MaxActions /\ use[<<g, r>>] < MaxActions
    BY DEF RelayTypeOK, Unanswered
  <2> QED
    BY <1>1, <2>1 DEF Current, Action
<1>5. next \in 1..MaxSequence /\ next \in 0..MaxSequence
  BY <1>1 DEF RoomForResult
<1>6. seq \in 1..MaxSequence /\ seq \in 0..MaxSequence
  BY <1>1 DEF RoomForDelivery
<1>7. x \in OutboundResult
  BY <1>1, <1>2, <1>4, <1>5, <1>6 DEF OutboundResult
<1>8. d \in Delivery
  BY <1>4, <1>6 DEF Delivery
<1>9. half = [Clocked EXCEPT !.results = list, !.nextResult = next]
  BY DEF WithResult
<1>10. m = [half EXCEPT !.deliveries = queue, !.nextSeq = seq]
  BY Zenon DEF WithDelivery, half, queue, seq, d
<1>11. x.gw = g /\ x.req = r /\ x.id = next /\ x.seq = seq /\ x.at = HighWater
       /\ x.of = Current(g, r) /\ d.seq = seq /\ d.of = Current(g, r)
  OBVIOUS
<1> HIDE DEF x, d, half
<1>12. list \in Seq(OutboundResult) /\ queue \in Seq(Delivery)
  BY <1>1, <1>7, <1>8
<1> HIDE DEF m, list, queue, next, seq
<1>13. /\ half \in Ledger /\ half.results = list /\ half.nextResult = next
       /\ half.retired = ledger.retired /\ half.high = HighWater
  BY <1>2, <1>5, <1>9, <1>12 DEF Ledger, Alike
<1>14. /\ m \in Ledger /\ m.results = list /\ m.nextResult = next
       /\ m.deliveries = queue /\ m.nextSeq = seq
       /\ m.retired = ledger.retired /\ m.high = HighWater
  BY <1>6, <1>10, <1>12, <1>13 DEF Ledger
<1>15. /\ Len(queue) = Len(ledger.deliveries) + 1 /\ Len(ledger.deliveries) \in Nat
       /\ queue[Len(ledger.deliveries) + 1] = d
       /\ \A i \in 1..Len(ledger.deliveries) : queue[i] = ledger.deliveries[i]
  BY <1>1, <1>8, AppendProperties DEF queue
<1>16. /\ Rows(m) = Rows(ledger) \cup {d}
       /\ Last(m.deliveries) = d
  <2>1. Rows(m) = Rows(ledger) \cup {d}
    BY <1>1, <1>8, <1>14, ToSetAppend DEF Rows, queue
  <2> QED
    BY <2>1, <1>14, <1>15 DEF Last
<1>17. /\ \A i, j \in DOMAIN ledger.deliveries :
            i < j => ledger.deliveries[i].seq < ledger.deliveries[j].seq
       /\ \A e \in Rows(ledger) : e.seq <= ledger.nextSeq
  BY DEF Valid, Loads, DeliveriesLoad
<1>18. \A e \in Rows(ledger) : e.seq < seq
  <2> SUFFICES ASSUME NEW e \in Rows(ledger) PROVE e.seq < seq
    OBVIOUS
  <2>1. e.seq \in Nat /\ e.seq <= ledger.nextSeq
    BY <1>1, <1>17 DEF Delivery
  <2> QED
    BY <1>1, <2>1 DEF seq
<1>19. DeliveriesLoad(m)
  <2>1. Len(queue) <= MaxDeliveries
    BY <1>15, RelayAssumption DEF RoomForDelivery
  <2>2. DOMAIN queue = 1..(Len(ledger.deliveries) + 1)
        /\ DOMAIN ledger.deliveries = 1..Len(ledger.deliveries)
    BY <1>1, <1>12, <1>15
  <2>3. \A i \in 1..Len(ledger.deliveries) : ledger.deliveries[i] \in Rows(ledger)
    BY <2>2 DEF Rows, ToSet
  <2>4. \A i, j \in DOMAIN queue : i < j => queue[i].seq < queue[j].seq
    <3> SUFFICES ASSUME NEW i \in 1..(Len(ledger.deliveries) + 1),
                        NEW j \in 1..(Len(ledger.deliveries) + 1), i < j
                 PROVE  queue[i].seq < queue[j].seq
      BY <2>2
    <3>1. i \in 1..Len(ledger.deliveries)
      BY <1>15
    <3>2. CASE j \in 1..Len(ledger.deliveries)
      BY <1>15, <1>17, <2>2, <3>1, <3>2
    <3>3. CASE j = Len(ledger.deliveries) + 1
      BY <1>11, <1>15, <1>18, <2>3, <3>1, <3>3
    <3> QED
      BY <1>15, <3>2, <3>3
  <2>5. \A e \in Rows(m) : e.seq <= seq
    <3>1. ASSUME NEW e \in Rows(ledger) PROVE e.seq <= seq
      <4>1. e.seq \in Nat /\ e.seq < seq /\ seq \in Nat
        BY <1>1, <1>6, <1>18 DEF Delivery
      <4> QED
        BY <4>1
    <3>2. d.seq <= seq
      BY <1>6, <1>11
    <3> QED
      BY <1>16, <3>1, <3>2
  <2> QED
    BY <1>14, <2>1, <2>4, <2>5, Zenon DEF DeliveriesLoad
<1>20. ledger.nextSeq <= m.nextSeq /\ x.seq <= m.nextSeq /\ x.at <= m.high
       /\ ledger.high <= m.high
  <2>1. seq \in Nat /\ ledger.nextSeq <= seq
    BY <1>1 DEF seq
  <2>2. HighWater \in Nat
    BY <1>2, RelayAssumption
  <2> QED
    BY <2>1, <2>2, <1>3, <1>11, <1>14
<1>21. x.id = ledger.nextResult + 1 /\ m.nextResult = x.id
       /\ m.results = Append(ledger.results, x) /\ OnRecord(ledger, x.gw, x.req) = {}
  BY <1>11, <1>14 DEF next, list
<1>22. /\ Valid(m) /\ Results(m) = Results(ledger) \cup {x}
       /\ m.results # <<>> /\ Last(m.results) = x
  BY <1>7, <1>14, <1>19, <1>20, <1>21, AddedValid
<1> QED
  BY <1>11, <1>14, <1>16, <1>22 DEF m, next, seq

-----------------------------------------------------------------------------
(* Snapshots that stay while the world around them changes *)

\* A snapshot goes on fitting while deliveries are consumed or become durable in
\* it, losses are noted, and a gateway is told of results that it has, too.
LEMMA FitsStays ==
  ASSUME NEW m, Fits(m), UNCHANGED <<use, read>>,
         made' \subseteq made \cup Rows(m), taken \subseteq taken', abandoned \subseteq abandoned',
         \A a \in Lost : a \in Lost' \/ \E x \in Results(m) : x.of = a,
         got \subseteq got', \A p \in got' \ got : Names(p, m),
         \A p \in firm' \ firm : Queued(p, m)
  PROVE  Fits(m)'
<1>1. Valid(m)'
  BY DEF Fits
<1>2. Owned(m)'
  BY DEF Fits, Owned, Current
<1>3. Accounts(m)'
  <2> SUFFICES ASSUME NEW d \in made' \cup Rows(m) PROVE Accounted(d.of, m)'
    BY DEF Accounts
  <2>1. Accounted(d.of, m)
    BY DEF Fits, Accounts
  <2> QED
    BY <2>1 DEF Accounted, Current
<1>4. Backed(m)'
  BY DEF Fits, Backed, Queued
<1>5. Receipts(m)'
  <2> SUFFICES ASSUME NEW p \in got' PROVE Names(p, m)'
    BY DEF Receipts
  <2>1. Names(p, m)
    BY DEF Fits, Receipts
  <2> QED
    BY <2>1 DEF Names
<1>6. Reads(m)'
  BY DEF Fits, Reads
<1>7. Single(m)'
  BY DEF Fits, Single
<1> QED
  BY <1>1, <1>2, <1>3, <1>4, <1>5, <1>6, <1>7 DEF Fits

\* So does one that has no more result of an action which is over.
LEMMA FitsUsed ==
  ASSUME NEW m, Fits(m), RelayTypeOK, GotFits, NEW p \in got,
         p.of = Current(p.gw, p.req), OnRecord(m, p.gw, p.req) = {}, p.id <= m.nextResult,
         use' = [use EXCEPT ![<<p.gw, p.req>>] = @ + 1],
         UNCHANGED <<read, got, firm>>, made' \subseteq made \cup Rows(m),
         taken \subseteq taken', abandoned \subseteq abandoned', Lost \subseteq Lost'
  PROVE  Fits(m)'
<1>1. /\ use \in [Gateways \X Requests -> 0..MaxActions] /\ MaxActions \in Nat
      /\ got \subseteq Received /\ made \subseteq Delivery
      /\ Results(m) \subseteq OutboundResult /\ Rows(m) \subseteq Delivery
  BY LedgerParts, RelayAssumption DEF RelayTypeOK, Fits, Valid
<1>2. p.gw \in Gateways /\ p.req \in Requests
  BY <1>1 DEF Received
<1>3. \A g \in Gateways, r \in Requests :
        /\ use[<<g, r>>] \in Nat
        /\ use'[<<g, r>>] = IF g = p.gw /\ r = p.req THEN use[<<g, r>>] + 1 ELSE use[<<g, r>>]
  BY <1>1, <1>2
<1>4. \A g \in Gateways, r \in Requests :
        ~(g = p.gw /\ r = p.req) => Current(g, r)' = Current(g, r)
  BY <1>3 DEF Current
<1>5. Valid(m)'
  BY DEF Fits
<1>6. Owned(m)'
  <2> SUFFICES ASSUME NEW x \in Results(m) PROVE x.of = Current(x.gw, x.req)'
    BY DEF Owned
  <2>1. x.gw \in Gateways /\ x.req \in Requests
    BY <1>1 DEF OutboundResult
  <2>2. ~(x.gw = p.gw /\ x.req = p.req)
    BY DEF OnRecord
  <2>3. x.of = Current(x.gw, x.req)
    BY DEF Fits, Owned
  <2> QED
    BY <1>4, <2>1, <2>2, <2>3
<1>7. Accounts(m)'
  <2> SUFFICES ASSUME NEW d \in made' \cup Rows(m) PROVE Accounted(d.of, m)'
    BY DEF Accounts
  <2>1. d.of \in Action
    BY <1>1 DEF Delivery
  <2> DEFINE a == d.of
  <2>2. a.gw \in Gateways /\ a.req \in Requests /\ a.n \in Nat
    BY <2>1, <1>1 DEF Action
  <2>3. Accounted(a, m)
    BY DEF Fits, Accounts
  <2> HIDE DEF a
  <2>4. CASE a.n <= use[<<a.gw, a.req>>]
    <3>1. a.n <= use'[<<a.gw, a.req>>]
      BY <1>3, <2>2, <2>4
    <3> QED
      BY <3>1 DEF Accounted, a
  <2>5. CASE a = Current(a.gw, a.req) /\ a.gw = p.gw /\ a.req = p.req
    <3>1. a.n <= use'[<<a.gw, a.req>>]
      BY <1>3, <2>2, <2>5 DEF Current
    <3> QED
      BY <3>1 DEF Accounted, a
  <2>6. CASE /\ a = Current(a.gw, a.req) /\ ~(a.gw = p.gw /\ a.req = p.req)
             /\ a \in Lost \/ (\E q \in got : q.of = a) \/ (\E x \in Results(m) : x.of = a)
    <3>1. a = Current(a.gw, a.req)'
      BY <1>4, <2>2, <2>6
    <3> QED
      BY <2>6, <3>1 DEF Accounted, a
  <2> QED
    BY <2>3, <2>4, <2>5, <2>6 DEF Accounted
<1>8. Receipts(m)'
  <2> SUFFICES ASSUME NEW q \in got PROVE Names(q, m)'
    BY DEF Receipts
  <2>1. /\ q.gw \in Gateways /\ q.req \in Requests /\ q.of \in Action
        /\ q.of.gw = q.gw /\ q.of.req = q.req /\ q.of.n <= use[<<q.gw, q.req>>] + 1
    BY <1>1 DEF Received, GotFits
  <2>2. Names(q, m)
    BY DEF Fits, Receipts
  <2>3. q.of.n \in Nat
    BY <1>1, <2>1 DEF Action
  <2>4. ASSUME q.of.n <= use'[<<q.gw, q.req>>] PROVE q.id <= m.nextResult
    <3>1. CASE q.of.n <= use[<<q.gw, q.req>>]
      BY <2>2, <3>1 DEF Names
    <3>2. CASE ~(q.of.n <= use[<<q.gw, q.req>>])
      <4>1. q.gw = p.gw /\ q.req = p.req /\ q.of.n = use[<<p.gw, p.req>>] + 1
        BY <1>3, <2>1, <2>3, <2>4, <3>2
      <4>2. q.of = Current(p.gw, p.req)
        BY <2>1, <4>1 DEF Action, Current
      <4>3. q = p
        BY <4>2 DEF GotFits
      <4> QED
        BY <4>3
    <3> QED
      BY <3>1, <3>2
  <2> QED
    BY <2>2, <2>4 DEF Names
<1>9. Backed(m)' /\ Reads(m)' /\ Single(m)'
  BY DEF Fits, Backed, Queued, Reads, Single
<1> QED
  BY <1>5, <1>6, <1>7, <1>8, <1>9 DEF Fits

\* The bridge reads all there is, and remembers it.
LEMMA FitsRead ==
  ASSUME NEW m, Fits(m), Valid(m), NEW lane, NEW to,
         Rows(m) = Rows(ledger), m.nextSeq = ledger.nextSeq,
         read' = read \cup {d \in Rows(ledger) : d.lane = lane /\ d.to = to},
         UNCHANGED <<use, got, firm, made, taken, abandoned, op, ledger>>
  PROVE  Fits(m)'
<1>1. \A d \in Rows(m) : d.seq <= m.nextSeq
  BY DEF Valid, Loads, DeliveriesLoad
<1>2. Reads(m)'
  BY <1>1 DEF Fits, Reads
<1>3. Valid(m)' /\ Owned(m)' /\ Accounts(m)' /\ Backed(m)' /\ Receipts(m)' /\ Single(m)'
  BY DEF Fits, Owned, Current, Accounts, Accounted, Lost, Reclaimed, Backed, Queued,
         Receipts, Names, Single
<1> QED
  BY <1>2, <1>3 DEF Fits

\* The clock is no part of what fits.
LEMMA FitsAlike ==
  ASSUME NEW l, NEW m, Fits(l), Alike(m, l), Valid(m) PROVE Fits(m)
<1>1. Rows(m) = Rows(l) /\ Results(m) = Results(l)
      /\ m.nextSeq = l.nextSeq /\ m.nextResult = l.nextResult
  BY DEF Alike, Rows, Results
<1> QED
  BY <1>1 DEF Fits, Owned, Accounts, Accounted, Backed, Queued, Receipts, Names, Reads, Single

-----------------------------------------------------------------------------
(* Snapshots that an operation makes fit, too *)

\* Deliveries that go are consumed, results that go are lost or were seen.
LEMMA FitsShrunk ==
  ASSUME NEW o, NEW m, Fits(o), Valid(m),
         Rows(m) \subseteq Rows(o), Results(m) \subseteq Results(o),
         m.nextSeq = o.nextSeq, m.nextResult = o.nextResult,
         UNCHANGED <<use, read, got, firm, made, abandoned>>,
         taken \subseteq taken', Rows(o) \ Rows(m) \subseteq taken', Lost \subseteq Lost',
         \A x \in Results(o) \ Results(m) : x.of \in Lost' \/ \E p \in got : p.of = x.of
  PROVE  Fits(m)'
<1>1. Valid(m)' /\ Owned(m)' /\ Receipts(m)' /\ Reads(m)' /\ Single(m)'
  BY DEF Fits, Owned, Current, Receipts, Names, Reads, Single
<1>2. Accounts(m)'
  <2> SUFFICES ASSUME NEW d \in made \cup Rows(m) PROVE Accounted(d.of, m)'
    BY DEF Accounts
  <2>1. Accounted(d.of, o)
    BY DEF Fits, Accounts
  <2> QED
    BY <2>1 DEF Accounted, Current
<1>3. Backed(m)'
  <2> SUFFICES ASSUME NEW x \in Results(m) \cup firm PROVE Queued(x, m)'
    BY DEF Backed
  <2>1. Queued(x, o)
    BY DEF Fits, Backed
  <2> QED
    BY <2>1 DEF Queued
<1> QED
  BY <1>1, <1>2, <1>3 DEF Fits

\* A new action adds its result x and what it queues, D.  No delivery of it was
\* committed before, unless its result was lost since.
LEMMA FitsGrown ==
  ASSUME RelayTypeOK, GotFits, Fits(ledger), Reclaimed = {},
         NEW g \in Gateways, NEW r \in Requests, Unanswered(g, r),
         OnRecord(ledger, g, r) = {},
         NEW m, NEW x, NEW D, Valid(m),
         Results(m) = Results(ledger) \cup {x}, Rows(m) = Rows(ledger) \cup D,
         x.gw = g, x.req = r, x.of = Current(g, r), x.id = ledger.nextResult + 1,
         \A d \in D : d.of = Current(g, r) /\ d.seq = ledger.nextSeq + 1,
         \A d, e \in D : d = e, x.seq # 0 => D # {},
         ledger.nextSeq <= m.nextSeq, m.nextResult = ledger.nextResult + 1
  PROVE  Fits(m)
<1>1. /\ use[<<g, r>>] \in Nat
      /\ ledger.nextSeq \in Nat /\ ledger.nextResult \in Nat /\ m.nextSeq \in Nat
      /\ got \subseteq Received /\ read \subseteq Delivery
  <2>1. use[<<g, r>>] \in 0..MaxActions /\ got \subseteq Received /\ read \subseteq Delivery
    BY DEF RelayTypeOK
  <2>2. ledger \in Ledger /\ m \in Ledger
    BY DEF RelayTypeOK, Valid
  <2>3. /\ ledger.nextSeq \in 0..MaxSequence /\ ledger.nextResult \in 0..MaxSequence
        /\ m.nextSeq \in 0..MaxSequence
    BY <2>2, LedgerParts
  <2> QED
    BY <2>1, <2>3, RelayAssumption
<1>2. Current(g, r).gw = g /\ Current(g, r).req = r /\ Current(g, r).n = use[<<g, r>>] + 1
  BY DEF Current
<1>3. Owned(m)
  BY DEF Fits, Owned
<1>4. Accounts(m)
  <2> SUFFICES ASSUME NEW d \in made \cup Rows(m) PROVE Accounted(d.of, m)
    BY DEF Accounts
  <2>1. CASE d \in made \cup Rows(ledger)
    BY <2>1 DEF Fits, Accounts, Accounted
  <2>2. CASE d \in D
    <3>1. d.of = Current(g, r) /\ x.of = d.of
      BY <2>2
    <3>2. d.of = Current(d.of.gw, d.of.req)
      BY <3>1, <1>2
    <3> QED
      BY <3>1, <3>2 DEF Accounted
  <2> QED
    BY <2>1, <2>2
<1>5. Backed(m)
  <2> SUFFICES ASSUME NEW y \in Results(m) \cup firm PROVE Queued(y, m)
    BY DEF Backed
  <2>1. CASE y \in Results(ledger) \cup firm
    BY <2>1 DEF Fits, Backed, Queued
  <2>2. CASE y = x
    BY <2>2 DEF Queued
  <2> QED
    BY <2>1, <2>2
<1>6. Receipts(m)
  <2> SUFFICES ASSUME NEW p \in got PROVE Names(p, m)
    BY DEF Receipts
  <2>1. /\ p.of \in Action /\ p.of.gw = p.gw /\ p.of.req = p.req
        /\ p.of.n <= use[<<p.gw, p.req>>] + 1 /\ p.id \in Nat /\ p.of.n \in Nat
    BY <1>1 DEF Received, Action, GotFits
  <2>2. Names(p, ledger)
    BY DEF Fits, Receipts
  <2>3. p.of.n <= use[<<p.gw, p.req>>] => p.id <= m.nextResult
    BY <1>1, <2>1, <2>2 DEF Names
  <2>4. Tombstone(x) # Tombstone(p)
    <3> SUFFICES ASSUME Tombstone(x) = Tombstone(p) PROVE FALSE
      OBVIOUS
    <3>1. p.gw = g /\ p.req = r /\ p.id = ledger.nextResult + 1
      BY DEF Tombstone
    <3>2. CASE p.of.n <= use[<<g, r>>]
      BY <1>1, <2>1, <2>2, <3>1, <3>2 DEF Names
    <3>3. CASE ~(p.of.n <= use[<<g, r>>])
      <4>1. p.of.n = use[<<g, r>>] + 1
        BY <1>1, <2>1, <3>1, <3>3
      <4>2. p.of = Current(g, r)
        BY <2>1, <3>1, <4>1 DEF Action, Current
      <4> QED
        BY <4>2 DEF Unanswered
    <3> QED
      BY <3>2, <3>3
  <2> QED
    BY <2>2, <2>3, <2>4 DEF Names
<1>7. Reads(m)
  <2> SUFFICES ASSUME NEW s \in read
               PROVE  /\ s.seq <= m.nextSeq
                      /\ \A d \in Rows(m) :
                           d.lane = s.lane /\ d.to = s.to /\ d.seq <= s.seq => d \in read
    BY DEF Reads
  <2>1. s.seq \in Nat /\ s.seq <= ledger.nextSeq
    BY <1>1 DEF Fits, Reads, Delivery
  <2>2. s.seq <= m.nextSeq
    BY <1>1, <2>1
  <2>3. \A d \in D : ~(d.seq <= s.seq)
    BY <1>1, <2>1
  <2> QED
    BY <2>2, <2>3 DEF Fits, Reads
<1>8. \A e \in made \cup Rows(ledger) : e.of = Current(g, r) => e.of \in abandoned
  <2> SUFFICES ASSUME NEW e \in made \cup Rows(ledger), e.of = Current(g, r)
               PROVE  e.of \in abandoned
    OBVIOUS
  <2>1. Accounted(e.of, ledger)
    BY DEF Fits, Accounts
  <2>2. ~(e.of.n <= use[<<e.of.gw, e.of.req>>])
    BY <1>1, <1>2
  <2>3. ~(\E p \in got : p.of = e.of)
    BY DEF Unanswered
  <2>4. ASSUME NEW y \in Results(ledger), y.of = e.of PROVE FALSE
    <3>1. y.of = Current(y.gw, y.req)
      BY DEF Fits, Owned
    <3>2. y.gw = g /\ y.req = r
      BY <2>4, <3>1, <1>2 DEF Current
    <3> QED
      BY <3>2 DEF OnRecord
  <2> QED
    BY <2>1, <2>2, <2>3, <2>4 DEF Accounted, Lost
<1>9. Single(m)
  <2> SUFFICES ASSUME NEW d \in made \cup Rows(m), NEW e \in made \cup Rows(m), d.of = e.of
               PROVE  d = e \/ d.of \in abandoned
    BY DEF Single
  <2>1. CASE d \in made \cup Rows(ledger) /\ e \in made \cup Rows(ledger)
    BY <2>1 DEF Fits, Single
  <2>2. CASE d \in D /\ e \in D
    BY <2>2
  <2>3. CASE d \in D /\ e \in made \cup Rows(ledger)
    BY <2>3, <1>8
  <2>4. CASE e \in D /\ d \in made \cup Rows(ledger)
    BY <2>4, <1>8
  <2> QED
    BY <2>1, <2>2, <2>3, <2>4
<1> QED
  BY <1>3, <1>4, <1>5, <1>6, <1>7, <1>9 DEF Fits

-----------------------------------------------------------------------------
(* Steps *)

\* Between two operations nothing is being reclaimed.
LEMMA IdleReclaims == op = Idle => Reclaimed = {}
  BY DEF Idle, Reclaimed

\* A fault is counted within its bound.
LEMMA FaultCounted ==
  ASSUME faults \in 0..MaxFaults, Faulty \/ Faultless PROVE faults' \in 0..MaxFaults
  BY RelayAssumption DEF Faulty, Faultless

\* What was not touched goes on fitting.
LEMMA FitsUntouched ==
  ASSUME NEW m, Fits(m), UNCHANGED <<use, read, made, taken, abandoned, got, firm>>,
         Lost \subseteq Lost'
  PROVE  Fits(m)'
  BY FitsStays

\* At first every snapshot is the empty one.
LEMMA FirstFits == RelayInit => LedgerInv
<1> SUFFICES ASSUME RelayInit PROVE LedgerInv
  OBVIOUS
<1> DEFINE e == EmptyLedger
<1>1. /\ ledger = e /\ disk = e /\ prior = {} /\ op = Idle /\ fenced = FALSE
      /\ got = {} /\ firm = {} /\ read = {} /\ made = {}
  BY DEF RelayInit
<1>2. /\ e.deliveries = <<>> /\ e.nextSeq = 0 /\ e.results = <<>> /\ e.nextResult = 0
      /\ e.retired = <<>> /\ e.high = 0
  BY DEF EmptyLedger
<1>3. MaxSequence \in Nat /\ MaxClock \in Nat /\ MaxDeliveries \in Nat /\ MaxResults \in Nat
      /\ MaxRetired \in Nat /\ MaxActions \in Nat /\ MaxFaults \in Nat
  BY RelayAssumption
<1>4. e \in Ledger
  BY <1>3 DEF EmptyLedger, Ledger
<1>5. Rows(e) = {} /\ Results(e) = {} /\ ToSet(e.retired) = {}
  BY <1>2 DEF Rows, Results, ToSet
<1> HIDE DEF e
<1>6. Loads(e)
  BY <1>2, <1>3, <1>5 DEF Loads, DeliveriesLoad, ResultsLoad
<1>7. Fits(e)
  <2>1. Valid(e)
    BY <1>4, <1>5, <1>6 DEF Valid
  <2> QED
    BY <1>1, <1>5, <2>1 DEF Fits, Owned, Accounts, Backed, Receipts, Reads, Single
<1>8. Snapshots = {e}
  BY <1>1 DEF Snapshots, Busy
<1>9. op \in Operations
  BY <1>1, <1>4 DEF Operations, Idle, e
<1>10. RelayTypeOK
  <2>1. use \in [Gateways \X Requests -> 0..MaxActions]
    BY <1>3 DEF RelayInit
  <2>2. clock \in 0..MaxClock /\ faults \in 0..MaxFaults /\ active \in Gateways \cup {NoGateway}
    BY <1>3 DEF RelayInit
  <2>3. {shown, read, made, taken} \subseteq SUBSET Delivery /\ abandoned \subseteq Action
    BY DEF RelayInit
  <2>4. ledger \in Ledger /\ disk \in Ledger /\ prior \subseteq Ledger /\ fenced \in BOOLEAN
    BY <1>1, <1>4
  <2>5. got \subseteq Received /\ firm \subseteq got
    BY <1>1
  <2> QED
    BY <1>9, <2>1, <2>2, <2>3, <2>4, <2>5 DEF RelayTypeOK
<1>11. FilesAgree /\ GotFits /\ OpFits
  BY <1>1, <1>5 DEF FilesAgree, GotFits, OpFits, Busy, Alike, Idle
<1> QED
  BY <1>7, <1>8, <1>10, <1>11 DEF LedgerInv

\* A step that leaves one snapshot, and that one durable.
LEMMA OneIsLeft ==
  ASSUME RelayTypeOK', GotFits', NEW m, Fits(m)', ledger' = m, disk' = m, prior' = {},
         op' = Idle, Rows(m) \subseteq made'
  PROVE  LedgerInv'
<1>1. Snapshots' = {m}
  BY DEF Snapshots, Busy
<1>2. FilesAgree' /\ OpFits'
  BY DEF FilesAgree, OpFits, Busy, Alike, Idle
<1>3. \A l \in Snapshots' : Fits(l)'
  BY <1>1
<1> QED
  BY <1>2, <1>3 DEF LedgerInv

\* A step that touches neither snapshots nor what they have to fit.
LEMMA NothingMoved ==
  ASSUME LedgerInv, RelayTypeOK',
         UNCHANGED <<ledger, disk, prior, fenced, op, use, got, firm, read, made, taken, abandoned>>
  PROVE  LedgerInv'
<1>1. FilesAgree' /\ GotFits' /\ OpFits' /\ Snapshots' = Snapshots /\ Lost' = Lost
  BY DEF LedgerInv, FilesAgree, GotFits, OpFits, Snapshots, Busy, Lost, Reclaimed
<1>2. ASSUME NEW l \in Snapshots PROVE Fits(l)'
  BY FitsUntouched, <1>1 DEF LedgerInv
<1> QED
  BY <1>1, <1>2 DEF LedgerInv

\* The first half of an operation: the new ledger, and the old one to go back to,
\* but for its clock.
LEMMA BeginKeeps ==
  ASSUME LedgerInv, op = Idle, Healthy, NEW m, NEW kind \in {"reclaim", "send", "retire", "consume"},
         NEW u, Valid(u), Alike(u, ledger),
         Begin(kind, u, m), Fits(m)', taken \subseteq taken', taken' \subseteq Delivery,
         UNCHANGED <<active, clock, disk, prior, fenced, use, got, firm, shown, read, made, abandoned>>,
         kind = "send" => m.results # <<>> /\ \A p \in got : p.of # Last(m.results).of,
         kind = "retire" => /\ m.retired # <<>>
                            /\ OnRecord(m, Last(m.retired).gw, Last(m.retired).req) = {}
  PROVE  LedgerInv'
<1>1. /\ ledger' = m /\ op' = [kind |-> kind, undo |-> u] /\ faults' = faults
      /\ ~fenced /\ prior = {}
  BY DEF Begin, Faultless, Healthy, LedgerInv, FilesAgree
<1>2. op'.kind = kind /\ op'.undo = u /\ op'.kind # "idle" /\ op' # Idle
  BY <1>1 DEF Idle
<1>3. m \in Ledger
  BY DEF Fits, Valid
<1>4. RelayTypeOK'
  <2>1. op' \in Operations
    BY <1>1 DEF Operations, Valid
  <2> QED
    BY <1>1, <1>3, <2>1 DEF LedgerInv, RelayTypeOK
<1>5. FilesAgree' /\ GotFits' /\ OpFits'
  <2>1. Alike(disk, u) /\ Rows(u) \subseteq made
    BY <1>1 DEF LedgerInv, FilesAgree, Busy, Alike, Rows
  <2>2. FilesAgree'
    BY <1>1, <1>2, <2>1 DEF FilesAgree, Busy, Alike
  <2> QED
    BY <1>1, <1>2, <2>2 DEF LedgerInv, GotFits, OpFits, OnRecord
<1>6. Snapshots' = {m, disk, u}
  BY <1>1, <1>2 DEF Snapshots, Busy
<1>7. Lost \subseteq Lost'
  BY IdleReclaims DEF Lost
<1>8. ASSUME NEW o, Fits(o) PROVE Fits(o)'
  BY <1>7, <1>8, FitsStays
<1>9. Fits(u) /\ Fits(disk)
  <2>1. Fits(ledger) /\ Fits(disk)
    BY DEF LedgerInv, Snapshots
  <2> QED
    BY <2>1, FitsAlike
<1>10. PICK o : o = u
  OBVIOUS
<1>11. PICK d : d = disk
  OBVIOUS
<1>12. Fits(o)' /\ Fits(d)'
  BY <1>8, <1>9, <1>10, <1>11
<1>13. \A l \in {m, d, o} : Fits(l)'
  BY <1>12
<1> QED
  BY <1>4, <1>5, <1>6, <1>10, <1>11, <1>13 DEF LedgerInv

\* What is known between operations while the store is healthy.
LEMMA AtRest ==
  ASSUME LedgerInv, op = Idle
  PROVE  /\ RelayTypeOK /\ GotFits /\ Fits(ledger) /\ Valid(ledger) /\ Fits(disk)
         /\ Reclaimed = {} /\ Lost = abandoned /\ taken \subseteq Delivery
         /\ Healthy => prior = {} /\ Alike(disk, ledger) /\ Rows(ledger) \subseteq made
<1>1. RelayTypeOK /\ GotFits /\ Fits(ledger) /\ Fits(disk) /\ FilesAgree
  BY DEF LedgerInv, Snapshots
<1>2. Reclaimed = {}
  BY IdleReclaims
<1> QED
  BY <1>1, <1>2 DEF Fits, Lost, FilesAgree, Busy, Healthy, RelayTypeOK

\* Begin takes one of its kinds, and changes no history but taken.
LEMMA ReclaimKeeps ==
  ASSUME LedgerInv, NEW g \in Gateways, NEW r \in Requests, StartReclaim(g, r)
  PROVE  LedgerInv'
<1>1. op = Idle /\ Healthy /\ Begin("reclaim", Clocked, Reclaim(g))
      /\ UNCHANGED <<active, clock, disk, prior, fenced, use, got, firm, shown, read, taken,
                     made, abandoned>>
  BY DEF StartReclaim, Frame, parties, phone
<1>2. RelayTypeOK /\ Fits(ledger) /\ Valid(ledger) /\ Lost = abandoned /\ taken \subseteq Delivery
  BY <1>1, AtRest
<1>3. PICK m : m = Reclaim(g)
  OBVIOUS
<1>4. PICK o : o = ledger
  OBVIOUS
<1>5. /\ Valid(m) /\ Rows(m) = Rows(o) /\ Results(m) \subseteq Results(o)
      /\ m.nextSeq = o.nextSeq /\ m.nextResult = o.nextResult /\ Fits(o)
  BY <1>2, <1>3, <1>4, ReclaimValid
<1>6. PICK u : u = Clocked
  OBVIOUS
<1>7. Valid(u) /\ Alike(u, ledger) /\ Results(u) = Results(o)
  BY <1>2, <1>4, <1>6, ClockedValid DEF Alike, Results
<1>8. ledger' = m /\ op'.kind = "reclaim" /\ op'.undo = u /\ Begin("reclaim", u, m)
  BY <1>1, <1>3, <1>6 DEF Begin
<1>9. \A x \in Results(o) \ Results(m) : x.of \in Lost'
  BY <1>7, <1>8 DEF Lost, Reclaimed
<1>10. Lost \subseteq Lost'
  BY <1>1, <1>2 DEF Lost
<1>11. Fits(m)'
  BY <1>1, <1>5, <1>9, <1>10, FitsShrunk
<1> QED
  BY <1>1, <1>2, <1>7, <1>8, <1>11, BeginKeeps

\* A new action keeps it, whether it queues something or not.
LEMMA ActionKeeps ==
  ASSUME LedgerInv, NEW g \in Gateways, NEW r \in Requests, NEW m, StartAction(g, r, m),
         NEW x, NEW D, Valid(m), m.results # <<>>, x = Last(m.results),
         Results(m) = Results(ledger) \cup {x}, Rows(m) = Rows(ledger) \cup D,
         x.gw = g, x.req = r, x.of = Current(g, r), x.id = ledger.nextResult + 1,
         \A d \in D : d.of = Current(g, r) /\ d.seq = ledger.nextSeq + 1,
         \A d, e \in D : d = e, x.seq # 0 => D # {},
         ledger.nextSeq <= m.nextSeq, m.nextResult = ledger.nextResult + 1
  PROVE  LedgerInv'
<1>1. op = Idle /\ Healthy /\ Begin("send", Clocked, m) /\ Unanswered(g, r)
      /\ OnRecord(ledger, g, r) = {}
      /\ UNCHANGED <<active, clock, disk, prior, fenced, use, got, firm, shown, read, taken,
                     made, abandoned>>
  BY DEF StartAction, Frame, parties, phone
<1>2. /\ RelayTypeOK /\ GotFits /\ Fits(ledger) /\ Reclaimed = {} /\ Lost = abandoned
      /\ taken \subseteq Delivery
  BY <1>1, AtRest
<1>3. Fits(m)
  BY <1>1, <1>2, FitsGrown
<1>4. Lost \subseteq Lost'
  BY <1>1, <1>2 DEF Lost
<1>5. Fits(m)'
  BY <1>1, <1>3, <1>4, FitsUntouched
<1>6. \A p \in got : p.of # Last(m.results).of
  BY <1>1 DEF Unanswered
<1>7. PICK u : u = Clocked
  OBVIOUS
<1>8. Valid(u) /\ Alike(u, ledger) /\ Begin("send", u, m)
  BY <1>1, <1>2, <1>7, ClockedValid DEF Fits
<1> QED
  BY <1>1, <1>2, <1>5, <1>6, <1>8, BeginKeeps

\* An operation that queues nothing has a result of its own.
LEMMA RecordKeeps ==
  ASSUME LedgerInv, NEW g \in Gateways, NEW r \in Requests, StartRecord(g, r)
  PROVE  LedgerInv'
<1>1. RoomForResult /\ StartAction(g, r, WithResult(g, r, 0))
  BY DEF StartRecord
<1>2. op = Idle /\ Unanswered(g, r) /\ OnRecord(ledger, g, r) = {}
  BY <1>1 DEF StartAction, Frame
<1>3. RelayTypeOK /\ Valid(ledger)
  BY <1>2, AtRest
<1>4. PICK m : m = WithResult(g, r, 0)
  OBVIOUS
<1>5. PICK x : x = Last(m.results)
  OBVIOUS
<1>6. /\ Valid(m) /\ Rows(m) = Rows(ledger) /\ Results(m) = Results(ledger) \cup {x}
      /\ m.results # <<>> /\ x.gw = g /\ x.req = r /\ x.of = Current(g, r)
      /\ x.id = ledger.nextResult + 1 /\ x.seq = 0
      /\ m.nextSeq = ledger.nextSeq /\ m.nextResult = ledger.nextResult + 1
  BY <1>1, <1>2, <1>3, <1>4, <1>5, RecordValid
<1>7. ledger.nextSeq <= m.nextSeq
  <2>1. ledger.nextSeq \in Nat
    BY <1>3, LedgerParts, RelayAssumption DEF Valid
  <2> QED
    BY <2>1, <1>6
<1>8. StartAction(g, r, m)
  BY <1>1, <1>4
<1> QED
  BY <1>5, <1>6, <1>7, <1>8, ActionKeeps

\* A send has a result and a delivery, in one snapshot.
LEMMA SendKeeps ==
  ASSUME LedgerInv, NEW g \in Gateways, NEW r \in Requests,
         NEW lane \in Lanes, NEW to \in Messages \cup {NoMessage}, StartSend(g, r, lane, to)
  PROVE  LedgerInv'
<1>1. RoomForDelivery /\ RoomForResult /\ StartAction(g, r, WithDelivery(g, r, lane, to))
  BY DEF StartSend
<1>2. op = Idle /\ Unanswered(g, r) /\ OnRecord(ledger, g, r) = {}
  BY <1>1 DEF StartAction, Frame
<1>3. RelayTypeOK /\ Valid(ledger)
  BY <1>2, AtRest
<1>4. PICK m : m = WithDelivery(g, r, lane, to)
  OBVIOUS
<1>5. PICK x : x = Last(m.results)
  OBVIOUS
<1>6. PICK d : d = Last(m.deliveries)
  OBVIOUS
<1>7. /\ Valid(m) /\ Rows(m) = Rows(ledger) \cup {d}
      /\ Results(m) = Results(ledger) \cup {x}
      /\ m.results # <<>> /\ x.gw = g /\ x.req = r /\ x.of = Current(g, r)
      /\ x.id = ledger.nextResult + 1 /\ d.of = Current(g, r)
      /\ d.seq = ledger.nextSeq + 1
      /\ m.nextSeq = ledger.nextSeq + 1 /\ m.nextResult = ledger.nextResult + 1
  BY <1>1, <1>2, <1>3, <1>4, <1>5, <1>6, SendValid
<1>8. ledger.nextSeq <= m.nextSeq
  <2>1. ledger.nextSeq \in Nat
    BY <1>3, LedgerParts, RelayAssumption DEF Valid
  <2> QED
    BY <2>1, <1>7
<1>9. StartAction(g, r, m)
  BY <1>1, <1>4
<1> DEFINE D == {d}
<1>10. /\ Rows(m) = Rows(ledger) \cup D /\ \A e, f \in D : e = f
       /\ \A e \in D : e.of = Current(g, r) /\ e.seq = ledger.nextSeq + 1
       /\ D # {}
  BY <1>7
<1> HIDE DEF D
<1> QED
  BY <1>5, <1>7, <1>8, <1>9, <1>10, ActionKeeps

\* The result that is acknowledged is one the gateway has seen.
LEMMA RetireKeeps ==
  ASSUME LedgerInv, NEW p \in got, StartRetire(p)
  PROVE  LedgerInv'
<1>1. op = Idle /\ Healthy /\ Begin("retire", ledger, Without(p))
      /\ UNCHANGED <<active, clock, disk, prior, fenced, use, got, firm, shown, read, taken,
                     made, abandoned>>
  BY DEF StartRetire, Frame, parties, phone
<1>2. RelayTypeOK /\ Fits(ledger) /\ Valid(ledger) /\ Lost = abandoned /\ taken \subseteq Delivery
  BY <1>1, AtRest
<1>3. PICK x \in OnRecord(ledger, p.gw, p.req) : x.id = p.id
  BY DEF StartRetire, Matches
<1>4. p \in Received
  BY <1>2 DEF RelayTypeOK
<1>5. PICK m : m = Without(p)
  OBVIOUS
<1>6. PICK o : o = ledger
  OBVIOUS
<1>7. /\ Valid(m) /\ Rows(m) = Rows(o)
      /\ Results(m) = Results(o) \ OnRecord(o, p.gw, p.req)
      /\ m.nextSeq = o.nextSeq /\ m.nextResult = o.nextResult
      /\ m.retired # <<>> /\ Last(m.retired) = Tombstone(p) /\ Fits(o)
  BY <1>2, <1>3, <1>4, <1>5, <1>6, WithoutValid
<1>8. \A y \in Results(o) \ Results(m) : y.of = p.of
  <2> SUFFICES ASSUME NEW y \in OnRecord(o, p.gw, p.req) PROVE y.of = p.of
    BY <1>7
  <2>1. y \in Results(o) /\ x \in Results(o) /\ y.gw = x.gw /\ y.req = x.req
        /\ y.gw = p.gw /\ y.req = p.req
    BY <1>3, <1>6 DEF OnRecord
  <2>2. y = x
    BY <2>1, <1>2, <1>6, ResultsDiffer
  <2>3. Tombstone(y) = Tombstone(p)
    BY <2>1, <2>2, <1>3 DEF Tombstone
  <2> QED
    BY <1>7, <2>1, <2>3 DEF Fits, Receipts, Names
<1>9. Lost \subseteq Lost'
  BY <1>1, <1>2 DEF Lost
<1>10. Fits(m)'
  BY <1>1, <1>7, <1>8, <1>9, FitsShrunk
<1>11. OnRecord(m, Last(m.retired).gw, Last(m.retired).req) = {}
  BY <1>7 DEF OnRecord, Tombstone
<1> QED
  BY <1>1, <1>2, <1>5, <1>7, <1>10, <1>11, BeginKeeps DEF Alike

\* The rows that go are counted as taken.
LEMMA ConsumeKeeps ==
  ASSUME LedgerInv, NEW rows \in SUBSET Rows(ledger), StartConsume(rows)
  PROVE  LedgerInv'
<1>1. op = Idle /\ Healthy /\ Begin("consume", ledger, Remaining(rows)) /\ taken' = taken \cup rows
      /\ UNCHANGED <<active, clock, disk, prior, fenced, use, got, firm, shown, read,
                     made, abandoned>>
  BY DEF StartConsume, parties
<1>2. RelayTypeOK /\ Fits(ledger) /\ Valid(ledger) /\ Lost = abandoned /\ taken \subseteq Delivery
  BY <1>1, AtRest
<1>3. PICK m : m = Remaining(rows)
  OBVIOUS
<1>4. PICK o : o = ledger
  OBVIOUS
<1>5. /\ Valid(m) /\ Rows(m) = Rows(o) \ rows /\ Results(m) = Results(o)
      /\ m.nextSeq = o.nextSeq /\ m.nextResult = o.nextResult /\ Fits(o)
      /\ rows \subseteq Rows(o)
  BY <1>2, <1>3, <1>4, RemainingValid
<1>6. taken' \subseteq Delivery
  <2>1. Rows(ledger) \subseteq Delivery
    BY <1>2, LedgerParts DEF Valid
  <2> QED
    BY <2>1, <1>1, <1>2
<1>7. Lost \subseteq Lost'
  BY <1>1, <1>2 DEF Lost
<1>8. Fits(m)'
  BY <1>1, <1>5, <1>7, FitsShrunk
<1> QED
  BY <1>1, <1>2, <1>3, <1>6, <1>8, BeginKeeps DEF Alike

-----------------------------------------------------------------------------
(* The end of a write *)

\* The types of what Persist assigns.
LEMMA WriteTyped ==
  ASSUME RelayTypeOK, NEW outcome, Persist(outcome)
  PROVE  /\ ledger' \in Ledger /\ disk' \in Ledger /\ prior' \subseteq Ledger
         /\ fenced' \in BOOLEAN /\ op' \in Operations
         /\ made' \subseteq Delivery /\ abandoned' \subseteq Action
<1>1. ledger \in Ledger /\ disk \in Ledger /\ prior \subseteq Ledger /\ op.undo \in Ledger
  BY DEF RelayTypeOK, Operations
<1>2. ledger' \in Ledger
  BY <1>1, Zenon DEF Persist, Undone
<1>3. disk' \in Ledger /\ prior' \subseteq Ledger
  BY <1>1 DEF Persist, WriteFile
<1>4. fenced' \in BOOLEAN
  BY DEF Persist
<1>5. op' \in Operations
  <2>1. EmptyLedger \in Ledger
    BY RelayAssumption DEF EmptyLedger, Ledger
  <2> QED
    BY <2>1 DEF Persist, Idle, Operations
<1>6. made' \subseteq Delivery
  BY <1>1, LedgerParts DEF Persist, RelayTypeOK
<1>7. abandoned' \subseteq Action
  <2>1. \A x \in Results(op.undo) : x.of \in Action
    BY <1>1, LedgerParts DEF OutboundResult
  <2>2. Reclaimed \subseteq Action
    BY <2>1 DEF Reclaimed
  <2> QED
    BY <2>2 DEF Persist, RelayTypeOK
<1> QED
  BY <1>2, <1>3, <1>4, <1>5, <1>6, <1>7

\* What is known while an operation is under way.
LEMMA UnderWay ==
  ASSUME LedgerInv, op # Idle
  PROVE  /\ RelayTypeOK /\ GotFits /\ ~fenced /\ prior = {}
         /\ Fits(ledger) /\ Fits(disk) /\ Fits(op.undo)
         /\ Alike(disk, op.undo) /\ Rows(op.undo) \subseteq made
BY DEF LedgerInv, FilesAgree, Busy, Snapshots

\* A write that failed before the rename is undone.
LEMMA UndoneKeeps ==
  ASSUME LedgerInv, op # Idle, Persist("pre"), RelayTypeOK',
         UNCHANGED <<use, got, firm, read, taken>>
  PROVE  LedgerInv'
<1>1. /\ op' = Idle /\ ledger' = op.undo /\ disk' = disk /\ prior' = prior
      /\ fenced' = fenced /\ made' = made /\ abandoned' = abandoned
  BY DEF Persist, WriteFile, RollsBack, Undone, LedgerInv, RelayTypeOK
<1>2. PICK o : o = op.undo
  OBVIOUS
<1>3. PICK d : d = disk
  OBVIOUS
<1>4. /\ GotFits /\ ~fenced /\ prior = {} /\ Fits(o) /\ Fits(d)
      /\ Alike(d, o) /\ Rows(o) \subseteq made
  BY <1>2, <1>3, UnderWay
<1>5. Snapshots' = {o, d}
  BY <1>1, <1>2, <1>3, <1>4 DEF Snapshots, Busy
<1>6. abandoned \subseteq Lost'
  BY <1>1 DEF Lost
<1>7. \A a \in Lost : a \in Lost' \/ \E x \in Results(o) : x.of = a
  BY <1>2, <1>6 DEF Lost, Reclaimed
<1>8. Results(d) = Results(o)
  BY <1>4 DEF Alike, Results
<1>9. \A a \in Lost : a \in Lost' \/ \E x \in Results(d) : x.of = a
  BY <1>7, <1>8
<1>10. Fits(o)'
  BY <1>1, <1>4, <1>7, FitsStays
<1>11. Fits(d)'
  BY <1>1, <1>4, <1>9, FitsStays
<1>12. \A l \in Snapshots' : Fits(l)'
  BY <1>5, <1>10, <1>11
<1>13. FilesAgree' /\ GotFits' /\ OpFits'
  BY <1>1, <1>2, <1>3, <1>4 DEF FilesAgree, GotFits, OpFits, Busy, Idle
<1> QED
  BY <1>12, <1>13 DEF LedgerInv

\* A write that failed after it may be in the file, and closes the store.
LEMMA LeftOpenKeeps ==
  ASSUME LedgerInv, op # Idle, Persist("post"), RelayTypeOK',
         UNCHANGED <<use, got, firm, read, taken>>
  PROVE  LedgerInv'
<1>1. /\ op' = Idle /\ ledger' = ledger /\ disk' = ledger /\ prior' = prior \cup {disk}
      /\ fenced' = TRUE /\ made' = made /\ abandoned' = abandoned \cup Reclaimed
  BY DEF Persist, WriteFile, RollsBack
<1>2. PICK m : m = ledger
  OBVIOUS
<1>3. PICK d : d = disk
  OBVIOUS
<1>4. GotFits /\ prior = {} /\ Fits(m) /\ Fits(d)
  BY <1>2, <1>3, UnderWay
<1>5. Snapshots' = {m, d}
  BY <1>1, <1>2, <1>3, <1>4 DEF Snapshots, Busy
<1>6. Lost \subseteq Lost'
  BY <1>1 DEF Lost
<1>7. Fits(m)' /\ Fits(d)'
  BY <1>1, <1>4, <1>6, FitsStays
<1>8. \A l \in Snapshots' : Fits(l)'
  BY <1>5, <1>7
<1>9. FilesAgree' /\ GotFits' /\ OpFits'
  BY <1>1, <1>4 DEF FilesAgree, GotFits, OpFits, Busy, Idle
<1> QED
  BY <1>8, <1>9 DEF LedgerInv

\* What a write that succeeded leaves.
LEMMA WrittenParts ==
  ASSUME LedgerInv, op # Idle, Persist("ok")
  PROVE  /\ op' = Idle /\ ledger' = ledger /\ disk' = ledger /\ prior' = {} /\ ~fenced'
         /\ made' = made \cup Rows(ledger) /\ abandoned' = abandoned \cup Reclaimed
         /\ Lost \subseteq Lost'
<1>1. /\ op' = Idle /\ ledger' = ledger /\ disk' = ledger /\ prior' = prior
      /\ (fenced' <=> fenced) /\ made' = made \cup Rows(ledger)
      /\ abandoned' = abandoned \cup Reclaimed
  BY DEF Persist, WriteFile, RollsBack
<1>2. prior = {} /\ ~fenced
  BY UnderWay
<1> QED
  BY <1>1, <1>2 DEF Lost

\* A write that failed keeps it, and nothing is answered.
LEMMA FailedKeeps ==
  ASSUME LedgerInv, op # Idle, NEW outcome \in WriteOutcomes, outcome # "ok",
         Persist(outcome), Faulty,
         UNCHANGED <<active, clock, use, got, firm, shown, read, taken>>
  PROVE  LedgerInv'
<1>1. outcome = "pre" \/ outcome = "post"
  BY RelayAssumption
<1>2. RelayTypeOK
  BY UnderWay
<1>3. faults' \in 0..MaxFaults
  BY <1>2, FaultCounted DEF RelayTypeOK
<1>4. RelayTypeOK'
  <2>1. /\ ledger' \in Ledger /\ disk' \in Ledger /\ prior' \subseteq Ledger
        /\ fenced' \in BOOLEAN /\ op' \in Operations
        /\ made' \subseteq Delivery /\ abandoned' \subseteq Action
    BY <1>2, WriteTyped
  <2> QED
    BY <2>1, <1>2, <1>3 DEF RelayTypeOK
<1> QED
  BY <1>1, <1>4, UndoneKeeps, LeftOpenKeeps

\* A write that nothing but the operation's own change depends on.
LEMMA PersistedKeeps ==
  ASSUME LedgerInv, op # Idle, NEW outcome \in WriteOutcomes, Persisted(outcome),
         UNCHANGED <<active, clock, use, got, firm, shown, read, taken>>
  PROVE  LedgerInv'
<1>1. CASE outcome # "ok"
  BY <1>1, FailedKeeps DEF Persisted
<1>2. CASE outcome = "ok"
  <2>1. Persist("ok") /\ faults' = faults
    BY <1>2 DEF Persisted, Faultless
  <2>2. /\ op' = Idle /\ ledger' = ledger /\ disk' = ledger /\ prior' = {}
        /\ made' = made \cup Rows(ledger) /\ abandoned' = abandoned \cup Reclaimed
        /\ Lost \subseteq Lost'
    BY <2>1, WrittenParts
  <2>3. RelayTypeOK /\ GotFits
    BY UnderWay
  <2>4. /\ ledger' \in Ledger /\ disk' \in Ledger /\ prior' \subseteq Ledger
        /\ fenced' \in BOOLEAN /\ op' \in Operations
        /\ made' \subseteq Delivery /\ abandoned' \subseteq Action
    BY <2>1, <2>3, WriteTyped
  <2>5. RelayTypeOK' /\ GotFits'
    BY <2>1, <2>3, <2>4 DEF RelayTypeOK, GotFits
  <2>6. PICK m : m = ledger
    OBVIOUS
  <2>7. Fits(m)
    BY <2>6, UnderWay
  <2>8. Fits(m)'
    BY <2>2, <2>6, <2>7, FitsStays
  <2> QED
    BY <2>2, <2>5, <2>6, <2>8, OneIsLeft
<1> QED
  BY <1>1, <1>2

\* A gateway that sees the result of its action at hand for the first time.
LEMMA Answered ==
  ASSUME RelayTypeOK, GotFits, Fits(ledger), NEW x \in Results(ledger),
         \A p \in got : p.of # x.of, Answer(x), use' = use
  PROVE  /\ got \subseteq got' /\ got' \subseteq Received /\ firm' \subseteq got' /\ GotFits'
         /\ active' \in Gateways \cup {NoGateway} /\ faults' \in 0..MaxFaults
         /\ \A p \in got' \ got : p \in Received /\ p.of = Current(p.gw, p.req)
         /\ \A p \in firm' \ firm : ~fenced' /\ p.seq = x.seq /\ p.of = x.of
<1> DEFINE p == [gw |-> x.gw, req |-> x.req, id |-> x.id, seq |-> x.seq, of |-> x.of]
<1>1. x \in OutboundResult /\ x.of = Current(x.gw, x.req)
  BY LedgerParts DEF Fits, Valid, Owned
<1>2. /\ x.gw \in Gateways /\ x.req \in Requests /\ x.id \in 1..MaxSequence
      /\ x.seq \in 0..MaxSequence /\ x.of \in Action
  BY <1>1 DEF OutboundResult
<1>3. p \in Received
  BY <1>2 DEF Received
<1>4. p.gw = x.gw /\ p.req = x.req /\ p.id = x.id /\ p.seq = x.seq /\ p.of = x.of
  OBVIOUS
<1>5. \/ /\ got' = got \cup {p} /\ UNCHANGED active /\ Faultless
         /\ firm' = IF fenced' THEN firm ELSE firm \cup {p}
      \/ active' = NoGateway /\ UNCHANGED <<got, firm>> /\ Faulty
  BY DEF Answer
<1> HIDE DEF p
<1>6. p.of = Current(p.gw, p.req)
  BY <1>1, <1>4
<1>7. \A q \in got : Tombstone(q) = Tombstone(p) => q.of = p.of
  <2> SUFFICES ASSUME NEW q \in got, Tombstone(q) = Tombstone(p) PROVE q.of = p.of
    OBVIOUS
  <2>1. Tombstone(x) = Tombstone(p)
    BY <1>4 DEF Tombstone
  <2> QED
    BY <2>1, <1>4 DEF Fits, Receipts, Names
<1>8. p.of.gw = p.gw /\ p.of.req = p.req /\ p.of.n = use[<<p.gw, p.req>>] + 1
  BY <1>6 DEF Current
<1>9. use[<<p.gw, p.req>>] \in Nat
  BY <1>2, <1>4, RelayAssumption DEF RelayTypeOK
<1>10. got' \subseteq got \cup {p} /\ got \subseteq got'
  BY <1>5
<1>11. GotFits'
  <2>1. ASSUME NEW q \in got'
        PROVE  /\ q.of.gw = q.gw /\ q.of.req = q.req
               /\ q.of.n <= use'[<<q.gw, q.req>>] + 1
    <3>1. CASE q = p
      BY <1>8, <1>9, <3>1
    <3>2. CASE q \in got
      BY <3>2 DEF GotFits
    <3> QED
      BY <1>10, <3>1, <3>2
  <2>2. \A q, s \in got' : q.of = s.of => q = s
    BY <1>4, <1>10 DEF GotFits
  <2>3. \A q, s \in got' : Tombstone(q) = Tombstone(s) => q.of = s.of
    BY <1>7, <1>10 DEF GotFits
  <2> QED
    BY <2>1, <2>2, <2>3 DEF GotFits
<1>12. got' \subseteq Received /\ firm' \subseteq got'
  BY <1>3, <1>5 DEF RelayTypeOK
<1>13. active' \in Gateways \cup {NoGateway} /\ faults' \in 0..MaxFaults
  BY <1>5, FaultCounted DEF RelayTypeOK
<1>14. \A q \in firm' \ firm : ~fenced' /\ q = p
  BY <1>5
<1> QED
  BY <1>3, <1>4, <1>6, <1>10, <1>11, <1>12, <1>13, <1>14

\* Every snapshot has one action at hand behind a gateway's request id.
LEMMA AtHandNames ==
  ASSUME RelayTypeOK, NEW m, Fits(m), NEW p \in Received, p.of = Current(p.gw, p.req)
  PROVE  Names(p, m)
<1>1. use[<<p.gw, p.req>>] \in Nat
  BY RelayAssumption DEF RelayTypeOK, Received
<1>2. p.of.n = use[<<p.gw, p.req>>] + 1
  BY DEF Current
<1>3. ASSUME NEW x \in Results(m), Tombstone(x) = Tombstone(p) PROVE x.of = p.of
  <2>1. x.gw = p.gw /\ x.req = p.req
    BY <1>3 DEF Tombstone
  <2> QED
    BY <2>1 DEF Fits, Owned
<1> QED
  BY <1>1, <1>2, <1>3 DEF Names

\* The result of a committed action is answered, and its delivery is queued.
LEMMA FinishActionKeeps ==
  ASSUME LedgerInv, NEW outcome \in WriteOutcomes, FinishAction(outcome)
  PROVE  LedgerInv'
<1>1. /\ op # Idle /\ op.kind = "send" /\ Persist(outcome)
      /\ UNCHANGED <<clock, use, shown, read, taken>>
  BY DEF FinishAction, Idle, phone
<1>2. CASE outcome # "ok"
  BY <1>1, <1>2, FailedKeeps DEF FinishAction
<1>3. CASE outcome = "ok"
  <2>1. Persist("ok") /\ Answer(Last(ledger.results))
    BY <1>1, <1>3 DEF FinishAction
  <2>2. /\ op' = Idle /\ ledger' = ledger /\ disk' = ledger /\ prior' = {}
        /\ made' = made \cup Rows(ledger) /\ abandoned' = abandoned \cup Reclaimed
        /\ Lost \subseteq Lost'
    BY <1>1, <2>1, WrittenParts
  <2>3. RelayTypeOK /\ GotFits /\ Fits(ledger)
    BY <1>1, UnderWay
  <2>4. ledger.results # <<>> /\ \A p \in got : p.of # Last(ledger.results).of
    BY <1>1 DEF LedgerInv, OpFits
  <2>5. PICK x : x = Last(ledger.results)
    OBVIOUS
  <2>6. x \in Results(ledger)
    <3>1. ledger.results \in Seq(OutboundResult)
      BY <2>3, LedgerParts DEF Fits, Valid
    <3>2. Len(ledger.results) \in DOMAIN ledger.results
      BY <3>1, <2>4
    <3> QED
      BY <2>5, <3>2, Zenon DEF Last, Results, ToSet
  <2>7. /\ got \subseteq got' /\ got' \subseteq Received /\ firm' \subseteq got' /\ GotFits'
        /\ active' \in Gateways \cup {NoGateway} /\ faults' \in 0..MaxFaults
        /\ \A p \in got' \ got : p \in Received /\ p.of = Current(p.gw, p.req)
        /\ \A p \in firm' \ firm : ~fenced' /\ p.seq = x.seq /\ p.of = x.of
    BY <1>1, <2>1, <2>3, <2>4, <2>5, <2>6, Answered
  <2>8. /\ ledger' \in Ledger /\ disk' \in Ledger /\ prior' \subseteq Ledger
        /\ fenced' \in BOOLEAN /\ op' \in Operations
        /\ made' \subseteq Delivery /\ abandoned' \subseteq Action
    BY <2>1, <2>3, WriteTyped
  <2>9. RelayTypeOK'
    BY <1>1, <2>3, <2>7, <2>8 DEF RelayTypeOK
  <2>10. PICK m : m = ledger
    OBVIOUS
  <2>11. Fits(m) /\ x \in Results(m)
    BY <2>3, <2>6, <2>10
  <2>12. \A p \in got' \ got : Names(p, m)
    BY <2>3, <2>7, <2>11, AtHandNames
  <2>13. \A p \in firm' \ firm : Queued(p, m)
    <3>1. Queued(x, m)
      BY <2>11 DEF Fits, Backed
    <3> QED
      BY <3>1, <2>7 DEF Queued
  <2>14. Fits(m)'
    BY <1>1, <2>2, <2>7, <2>10, <2>11, <2>12, <2>13, FitsStays
  <2> QED
    BY <2>2, <2>7, <2>9, <2>10, <2>14, OneIsLeft
<1> QED
  BY <1>2, <1>3

\* A gateway told that its action is retired goes on to the next one, if that
\* was the action at hand.
LEMMA ToldMoves ==
  ASSUME RelayTypeOK, GotFits, NEW p \in got, Told(p), got' = got
  PROVE  /\ \/ use' = use
            \/ /\ p.of = Current(p.gw, p.req)
               /\ use' = [use EXCEPT ![<<p.gw, p.req>>] = @ + 1]
         /\ use' \in [Gateways \X Requests -> 0..MaxActions] /\ GotFits'
         /\ active' \in Gateways \cup {NoGateway} /\ faults' \in 0..MaxFaults
<1>1. p \in Received /\ use \in [Gateways \X Requests -> 0..MaxActions]
  BY DEF RelayTypeOK
<1>2. p.gw \in Gateways /\ p.req \in Requests /\ p.of.n \in 1..MaxActions
  BY <1>1 DEF Received, Action
<1>3. \/ Done(p) /\ UNCHANGED active /\ Faultless
      \/ active' = NoGateway /\ UNCHANGED use /\ Faulty
  BY DEF Told
<1>4. active' \in Gateways \cup {NoGateway} /\ faults' \in 0..MaxFaults
  BY <1>3, FaultCounted DEF RelayTypeOK
<1>5. \A k \in Gateways \X Requests : use[k] \in Nat
  BY <1>1, RelayAssumption
<1>6. CASE use' = use
  BY <1>1, <1>4, <1>6 DEF GotFits
<1>7. CASE p.of = Current(p.gw, p.req) /\ use' = [use EXCEPT ![<<p.gw, p.req>>] = @ + 1]
  <2> DEFINE key == <<p.gw, p.req>>
             next == use[key] + 1
  <2>1. key \in Gateways \X Requests
    BY <1>2
  <2>2. next = p.of.n
    BY <1>7 DEF Current
  <2>3. next \in 0..MaxActions
    BY <1>2, <2>2
  <2>4. next >= use[key]
    BY <1>5, <2>1
  <2>5. use' = [use EXCEPT ![key] = next]
    BY <1>7
  <2> HIDE DEF key, next
  <2>6. use' \in [Gateways \X Requests -> 0..MaxActions]
    BY <1>1, <2>3, <2>5
  <2>7. \A k \in Gateways \X Requests : use'[k] \in Nat /\ use'[k] >= use[k]
    <3> SUFFICES ASSUME NEW k \in Gateways \X Requests PROVE use'[k] \in Nat /\ use'[k] >= use[k]
      OBVIOUS
    <3>1. use'[k] \in Nat
      BY <2>6, RelayAssumption
    <3>2. use'[k] = IF k = key THEN next ELSE use[k]
      BY <1>1, <2>5
    <3> QED
      BY <1>5, <2>4, <3>1, <3>2
  <2>8. GotFits'
    <3>1. ASSUME NEW q \in got
          PROVE  /\ q.of.gw = q.gw /\ q.of.req = q.req
                 /\ q.of.n <= use'[<<q.gw, q.req>>] + 1
      <4>1. q \in Received
        BY DEF RelayTypeOK
      <4>2. <<q.gw, q.req>> \in Gateways \X Requests /\ q.of.n \in Nat
        BY <4>1, RelayAssumption DEF Received, Action
      <4>3. PICK k : k = <<q.gw, q.req>>
        OBVIOUS
      <4>4. use[k] \in Nat /\ use'[k] \in Nat /\ use'[k] >= use[k]
        BY <1>5, <2>7, <4>2, <4>3
      <4>5. q.of.gw = q.gw /\ q.of.req = q.req /\ q.of.n <= use[k] + 1
        BY <4>3 DEF GotFits
      <4>6. q.of.n <= use'[k] + 1
        BY <4>2, <4>4, <4>5
      <4> QED
        BY <4>3, <4>5, <4>6
    <3> QED
      BY <3>1 DEF GotFits
  <2> QED
    BY <1>4, <1>7, <2>6, <2>8
<1> QED
  BY <1>3, <1>6, <1>7 DEF Done

\* Snapshots go on fitting when a gateway is told, if its result is gone.
LEMMA ToldFits ==
  ASSUME RelayTypeOK, GotFits, NEW p \in got, Told(p), NEW m, Fits(m),
         OnRecord(m, p.gw, p.req) = {}, p.id <= m.nextResult,
         UNCHANGED <<read, got, firm>>, made' \subseteq made \cup Rows(m),
         taken \subseteq taken', abandoned \subseteq abandoned', Lost \subseteq Lost'
  PROVE  Fits(m)'
<1>1. \/ use' = use
      \/ /\ p.of = Current(p.gw, p.req)
         /\ use' = [use EXCEPT ![<<p.gw, p.req>>] = @ + 1]
  BY ToldMoves
<1>2. CASE use' = use
  BY <1>2, FitsStays
<1> QED
  BY <1>1, <1>2, FitsUsed

\* An acknowledgement that is durable, and answered.
LEMMA FinishRetireKeeps ==
  ASSUME LedgerInv, NEW outcome \in WriteOutcomes, FinishRetire(outcome)
  PROVE  LedgerInv'
<1>1. /\ op # Idle /\ op.kind = "retire" /\ Persist(outcome)
      /\ UNCHANGED <<clock, got, firm, shown, read, taken>>
  BY DEF FinishRetire, Idle, phone
<1>2. CASE outcome # "ok"
  BY <1>1, <1>2, FailedKeeps DEF FinishRetire
<1>3. CASE outcome = "ok"
  <2>1. PICK p \in got : Tombstone(p) = Last(ledger.retired) /\ Told(p)
    BY <1>3 DEF FinishRetire
  <2>2. Persist("ok")
    BY <1>1, <1>3
  <2>3. /\ op' = Idle /\ ledger' = ledger /\ disk' = ledger /\ prior' = {}
        /\ made' = made \cup Rows(ledger) /\ abandoned' = abandoned \cup Reclaimed
        /\ Lost \subseteq Lost'
    BY <1>1, <2>2, WrittenParts
  <2>4. RelayTypeOK /\ GotFits /\ Fits(ledger)
    BY <1>1, UnderWay
  <2>5. /\ ledger.retired # <<>>
        /\ OnRecord(ledger, Last(ledger.retired).gw, Last(ledger.retired).req) = {}
    BY <1>1 DEF LedgerInv, OpFits
  <2>6. Last(ledger.retired) \in ToSet(ledger.retired)
    <3>1. ledger.retired \in Seq(Retired)
      BY <2>4, LedgerParts DEF Fits, Valid
    <3>2. Len(ledger.retired) \in DOMAIN ledger.retired
      BY <3>1, <2>5
    <3> QED
      BY <3>2, Zenon DEF Last, ToSet
  <2>7. PICK m : m = ledger
    OBVIOUS
  <2>8. OnRecord(m, p.gw, p.req) = {}
    BY <2>1, <2>5, <2>7 DEF Tombstone
  <2>9. p.id <= m.nextResult
    <3>1. Tombstone(p) \in ToSet(m.retired)
      BY <2>1, <2>6, <2>7
    <3> QED
      BY <2>4, <2>7, <3>1 DEF Fits, Valid, Loads, ResultsLoad, Tombstone
  <2>10. Fits(m)'
    BY <1>1, <2>1, <2>3, <2>4, <2>7, <2>8, <2>9, ToldFits
  <2>11. /\ ledger' \in Ledger /\ disk' \in Ledger /\ prior' \subseteq Ledger
         /\ fenced' \in BOOLEAN /\ op' \in Operations
         /\ made' \subseteq Delivery /\ abandoned' \subseteq Action
    BY <2>2, <2>4, WriteTyped
  <2>12. /\ use' \in [Gateways \X Requests -> 0..MaxActions] /\ GotFits'
         /\ active' \in Gateways \cup {NoGateway} /\ faults' \in 0..MaxFaults
    BY <1>1, <2>1, <2>4, ToldMoves
  <2>13. RelayTypeOK'
    BY <1>1, <2>4, <2>11, <2>12 DEF RelayTypeOK
  <2> QED
    BY <2>3, <2>7, <2>10, <2>12, <2>13, OneIsLeft
<1> QED
  BY <1>2, <1>3

\* A tombstone answers again, and nothing is written.
LEMMA AnswerRetiredKeeps ==
  ASSUME LedgerInv, NEW p \in got, AnswerRetired(p)
  PROVE  LedgerInv'
<1>1. /\ op = Idle /\ Healthy /\ Told(p)
      /\ OnRecord(ledger, p.gw, p.req) = {} /\ Tombstone(p) \in ToSet(ledger.retired)
      /\ UNCHANGED <<clock, ledger, disk, prior, fenced, op, got, firm, shown, read, taken,
                     made, abandoned>>
  BY DEF AnswerRetired, Frame, phone
<1>2. /\ RelayTypeOK /\ GotFits /\ Fits(ledger) /\ Fits(disk)
      /\ prior = {} /\ Alike(disk, ledger)
  BY <1>1, AtRest
<1>3. PICK m : m = ledger
  OBVIOUS
<1>4. PICK d : d = disk
  OBVIOUS
<1>5. Fits(m) /\ Fits(d) /\ Alike(d, m)
  BY <1>2, <1>3, <1>4
<1>6. p.id <= m.nextResult
  BY <1>1, <1>3, <1>5 DEF Fits, Valid, Loads, ResultsLoad, Tombstone
<1>7. p.id <= d.nextResult /\ OnRecord(m, p.gw, p.req) = {} /\ OnRecord(d, p.gw, p.req) = {}
  BY <1>1, <1>3, <1>5, <1>6 DEF Alike, OnRecord, Results
<1>8. Lost' = Lost
  BY <1>1 DEF Lost, Reclaimed
<1>9. Fits(m)'
  BY <1>1, <1>2, <1>5, <1>6, <1>7, <1>8, ToldFits
<1>10. Fits(d)'
  BY <1>1, <1>2, <1>5, <1>7, <1>8, ToldFits
<1>11. Snapshots' = {m, d}
  BY <1>1, <1>2, <1>3, <1>4 DEF Snapshots, Busy
<1>12. \A l \in Snapshots' : Fits(l)'
  BY <1>9, <1>10, <1>11
<1>13. /\ use' \in [Gateways \X Requests -> 0..MaxActions] /\ GotFits'
       /\ active' \in Gateways \cup {NoGateway} /\ faults' \in 0..MaxFaults
  BY <1>1, <1>2, ToldMoves
<1>14. RelayTypeOK'
  BY <1>1, <1>2, <1>13 DEF RelayTypeOK
<1>15. FilesAgree' /\ OpFits'
  BY <1>1 DEF LedgerInv, FilesAgree, OpFits, Busy, Idle
<1> QED
  BY <1>12, <1>13, <1>14, <1>15 DEF LedgerInv

-----------------------------------------------------------------------------
(* The other steps *)

\* An answer from the record: the ledger's clock moves on, in memory alone.
LEMMA AnswerRecordedKeeps ==
  ASSUME LedgerInv, NEW g \in Gateways, NEW r \in Requests, AnswerRecorded(g, r)
  PROVE  LedgerInv'
<1>1. /\ op = Idle /\ Unanswered(g, r) /\ ledger' = Clocked
      /\ UNCHANGED <<clock, disk, prior, fenced, op, use, shown, read, taken, made, abandoned>>
  BY DEF AnswerRecorded, Frame, phone
<1>2. PICK x \in OnRecord(ledger, g, r) : Answer(x)
  BY DEF AnswerRecorded
<1>3. RelayTypeOK /\ GotFits /\ Fits(ledger) /\ Valid(ledger) /\ Reclaimed = {}
  BY <1>1, AtRest
<1>4. x \in Results(ledger) /\ x.of = Current(g, r)
  BY <1>2, <1>3 DEF OnRecord, Fits, Owned
<1>5. \A p \in got : p.of # x.of
  BY <1>1, <1>4 DEF Unanswered
<1>6. /\ got \subseteq got' /\ got' \subseteq Received /\ firm' \subseteq got' /\ GotFits'
      /\ active' \in Gateways \cup {NoGateway} /\ faults' \in 0..MaxFaults
      /\ \A p \in got' \ got : p \in Received /\ p.of = Current(p.gw, p.req)
      /\ \A p \in firm' \ firm : ~fenced' /\ p.seq = x.seq /\ p.of = x.of
  BY <1>1, <1>2, <1>3, <1>4, <1>5, Answered
<1>7. PICK m : m = Clocked
  OBVIOUS
<1>8. Valid(m) /\ Alike(m, ledger) /\ Fits(m)
  BY <1>3, <1>7, ClockedValid, FitsAlike
<1>9. Snapshots' = {m} \cup ({disk} \cup prior) /\ {disk} \cup prior \subseteq Snapshots
  BY <1>1, <1>7 DEF Snapshots, Busy
<1>10. \A l \in Snapshots' : Fits(l)
  BY <1>8, <1>9 DEF LedgerInv
<1>11. ~fenced => /\ prior = {} /\ Alike(disk, ledger) /\ Rows(ledger) \subseteq made
  BY <1>1, AtRest DEF Healthy
<1>12. ~fenced => \A l \in Snapshots' : Rows(l) = Rows(ledger)
  BY <1>8, <1>9, <1>11 DEF Alike, Rows
<1>13. Queued(x, ledger)
  BY <1>3, <1>4 DEF Fits, Backed
<1>14. Lost' = Lost
  BY <1>1, IdleReclaims DEF Lost, Reclaimed, Idle
<1>15. ASSUME NEW l \in Snapshots' PROVE Fits(l)'
  <2>1. PICK n : n = l
    OBVIOUS
  <2>2. Fits(n)
    BY <1>10, <2>1
  <2>3. \A p \in got' \ got : Names(p, n)
    BY <1>3, <1>6, <2>2, AtHandNames
  <2>4. \A p \in firm' \ firm : Queued(p, n)
    <3> SUFFICES ASSUME NEW p \in firm' \ firm PROVE Queued(p, n)
      OBVIOUS
    <3>1. ~fenced /\ p.seq = x.seq /\ p.of = x.of
      BY <1>1, <1>6
    <3>2. Rows(n) = Rows(ledger)
      BY <1>12, <2>1, <3>1
    <3> QED
      BY <1>13, <3>1, <3>2 DEF Queued
  <2>5. Fits(n)'
    BY <1>1, <1>6, <1>14, <2>2, <2>3, <2>4, FitsStays
  <2> QED
    BY <2>1, <2>5
<1>16. RelayTypeOK'
  <2>1. ledger' \in Ledger
    BY <1>1, <1>7, <1>8 DEF Valid
  <2> QED
    BY <1>1, <1>3, <1>6, <2>1 DEF RelayTypeOK
<1>17. FilesAgree' /\ OpFits'
  <2>1. ~fenced => Alike(disk, m) /\ Rows(m) \subseteq made
    BY <1>8, <1>11 DEF Alike, Rows
  <2> QED
    BY <1>1, <1>7, <1>11, <2>1 DEF FilesAgree, OpFits, Busy, Idle
<1> QED
  BY <1>6, <1>15, <1>16, <1>17 DEF LedgerInv

\* A refusal moves on the clock alone.
LEMMA RefuseKeeps ==
  ASSUME LedgerInv, NEW g \in Gateways, NEW r \in Requests, Refuse(g, r)
  PROVE  LedgerInv'
<1>1. /\ op = Idle /\ ledger' = Clocked
      /\ UNCHANGED <<active, clock, disk, prior, fenced, op, use, got, firm, shown, read,
                     taken, made, abandoned, faults>>
  BY DEF Refuse, Frame, Faultless, parties, phone
<1>2. /\ RelayTypeOK /\ GotFits /\ Fits(ledger) /\ Valid(ledger)
      /\ ~fenced => prior = {} /\ Alike(disk, ledger) /\ Rows(ledger) \subseteq made
  BY <1>1, AtRest DEF Healthy
<1>3. PICK m : m = Clocked
  OBVIOUS
<1>4. Valid(m) /\ Alike(m, ledger) /\ Fits(m)
  BY <1>2, <1>3, ClockedValid, FitsAlike
<1>5. Snapshots' = {m} \cup ({disk} \cup prior) /\ {disk} \cup prior \subseteq Snapshots
  BY <1>1, <1>3 DEF Snapshots, Busy
<1>6. \A l \in Snapshots' : Fits(l)
  BY <1>4, <1>5 DEF LedgerInv
<1>7. Lost' = Lost
  BY <1>1, IdleReclaims DEF Lost, Reclaimed, Idle
<1>8. ASSUME NEW l \in Snapshots' PROVE Fits(l)'
  <2>1. PICK n : n = l
    OBVIOUS
  <2>2. Fits(n)'
    BY <1>1, <1>6, <1>7, <2>1, FitsStays
  <2> QED
    BY <2>1, <2>2
<1>9. RelayTypeOK'
  <2>1. ledger' \in Ledger
    BY <1>1, <1>3, <1>4 DEF Valid
  <2> QED
    BY <1>1, <1>2, <2>1 DEF RelayTypeOK
<1>10. FilesAgree' /\ GotFits' /\ OpFits'
  <2>1. ~fenced => Alike(disk, m) /\ Rows(m) \subseteq made
    BY <1>2, <1>4 DEF Alike, Rows
  <2> QED
    BY <1>1, <1>2, <1>3, <2>1 DEF FilesAgree, GotFits, OpFits, Busy, Idle
<1> QED
  BY <1>8, <1>9, <1>10 DEF LedgerInv

\* What the bridge reads is in the ledger, and so in the file.
LEMMA ReadKeeps ==
  ASSUME LedgerInv, NEW lane, NEW to, Read(lane, to)
  PROVE  LedgerInv'
<1>1. /\ op = Idle /\ Healthy
      /\ read' = read \cup {d \in Rows(ledger) : d.lane = lane /\ d.to = to}
      /\ UNCHANGED <<active, clock, ledger, disk, prior, fenced, op, use, got, firm, shown,
                     taken, made, abandoned>>
      /\ faults' = faults
  BY DEF Read, parties, Faultless
<1>2. /\ RelayTypeOK /\ GotFits /\ Fits(ledger) /\ Fits(disk)
      /\ prior = {} /\ Alike(disk, ledger)
  BY <1>1, AtRest
<1>3. PICK m : m = ledger
  OBVIOUS
<1>4. PICK d : d = disk
  OBVIOUS
<1>5. Fits(m) /\ Valid(m) /\ Rows(m) = Rows(ledger) /\ m.nextSeq = ledger.nextSeq
  BY <1>2, <1>3 DEF Fits
<1>6. Fits(d) /\ Valid(d) /\ Rows(d) = Rows(ledger) /\ d.nextSeq = ledger.nextSeq
  BY <1>2, <1>4 DEF Fits, Alike, Rows
<1>7. Fits(m)' /\ Fits(d)'
  BY <1>1, <1>5, <1>6, FitsRead
<1>8. Snapshots' = {m, d}
  BY <1>1, <1>2, <1>3, <1>4 DEF Snapshots, Busy
<1>9. \A l \in Snapshots' : Fits(l)'
  BY <1>7, <1>8
<1>10. RelayTypeOK'
  <2>1. Rows(ledger) \subseteq Delivery
    BY <1>2, LedgerParts DEF Fits, Valid
  <2>2. read' \subseteq Delivery
    BY <1>1, <1>2, <2>1 DEF RelayTypeOK
  <2> QED
    BY <1>1, <1>2, <2>2 DEF RelayTypeOK
<1>11. FilesAgree' /\ GotFits' /\ OpFits'
  BY <1>1, <1>2 DEF LedgerInv, FilesAgree, GotFits, OpFits, Busy, Idle
<1> QED
  BY <1>9, <1>10, <1>11 DEF LedgerInv

\* Lists for the phone, connections and the wall clock are no part of it.
LEMMA ShowKeeps ==
  ASSUME LedgerInv, NEW lane, Show(lane)
  PROVE  LedgerInv'
<1>1. RelayTypeOK /\ Rows(ledger) \subseteq Delivery
  BY LedgerParts DEF LedgerInv, RelayTypeOK
<1>2. shown' \subseteq Delivery
  BY <1>1 DEF Show, PendingFor
<1>3. RelayTypeOK'
  BY <1>1, <1>2 DEF RelayTypeOK, Show, parties, Faultless
<1> QED
  BY <1>3, NothingMoved DEF Show, parties

\* A connection that is installed.
LEMMA ConnectKeeps ==
  ASSUME LedgerInv, NEW g \in Gateways \cup {NoGateway}, Connect(g)
  PROVE  LedgerInv'
<1>1. RelayTypeOK'
  BY DEF LedgerInv, RelayTypeOK, Connect, parties, phone, Faultless
<1> QED
  BY <1>1, NothingMoved DEF Connect, parties, phone

\* A clock that moves on or is set back.
LEMMA ClockKeeps ==
  ASSUME LedgerInv, Clock
  PROVE  LedgerInv'
<1>1. RelayTypeOK
  BY DEF LedgerInv
<1>2. clock' \in 0..MaxClock
  BY <1>1, RelayAssumption DEF RelayTypeOK, Clock
<1>3. faults' \in 0..MaxFaults
  BY <1>1, FaultCounted DEF RelayTypeOK, Clock
<1>4. RelayTypeOK'
  BY <1>1, <1>2, <1>3 DEF RelayTypeOK, Clock, parties, phone
<1> QED
  BY <1>4, NothingMoved DEF Clock, parties, phone

\* A restart takes one of the snapshots, and makes it the file.
LEMMA RestartKeeps ==
  ASSUME LedgerInv, Restart
  PROVE  LedgerInv'
<1>1. PICK m \in {disk} \cup prior \cup (IF op = Idle THEN {} ELSE {ledger}) :
        ledger' = m /\ disk' = m /\ made' = made \cup Rows(m)
  BY DEF Restart, Loaded
<1>2. /\ abandoned' = abandoned \cup Reclaimed /\ prior' = {} /\ fenced' = FALSE
      /\ op' = Idle /\ active' = NoGateway /\ Faulty
      /\ UNCHANGED <<clock, use, got, firm, shown, read, taken>>
  BY DEF Restart, parties, phone
<1>3. RelayTypeOK /\ GotFits /\ Fits(m)
  BY <1>1 DEF LedgerInv, Snapshots
<1>4. Lost \subseteq Lost'
  BY <1>2 DEF Lost
<1>5. Fits(m)'
  BY <1>1, <1>2, <1>3, <1>4, FitsStays
<1>6. GotFits'
  BY <1>2, <1>3 DEF GotFits
<1>7. RelayTypeOK'
  <2>1. m \in Ledger /\ Rows(m) \subseteq Delivery
    BY <1>3, LedgerParts DEF Fits, Valid
  <2>2. \A x \in Results(op.undo) : x.of \in Action
    BY <1>3, LedgerParts DEF RelayTypeOK, Operations, OutboundResult
  <2>3. abandoned' \subseteq Action
    BY <1>2, <1>3, <2>2 DEF Reclaimed, RelayTypeOK
  <2>4. op' \in Operations
    <3>1. EmptyLedger \in Ledger
      BY RelayAssumption DEF EmptyLedger, Ledger
    <3> QED
      BY <1>2, <3>1 DEF Idle, Operations
  <2>5. faults' \in 0..MaxFaults
    BY <1>2, <1>3, FaultCounted DEF RelayTypeOK
  <2>6. made' \subseteq Delivery
    BY <1>1, <1>3, <2>1 DEF RelayTypeOK
  <2> QED
    BY <1>1, <1>2, <1>3, <2>1, <2>3, <2>4, <2>5, <2>6 DEF RelayTypeOK
<1> QED
  BY <1>1, <1>2, <1>5, <1>6, <1>7, OneIsLeft

\* A step that changes nothing.
LEMMA StutterKeeps ==
  ASSUME LedgerInv, UNCHANGED relayVars PROVE LedgerInv'
<1>1. RelayTypeOK'
  BY DEF LedgerInv, RelayTypeOK, relayVars, parties, phone
<1> QED
  BY <1>1, NothingMoved DEF relayVars, parties, phone

\* Every action keeps it.
LEMMA NextKeeps ==
  ASSUME LedgerInv, [Next]_relayVars
  PROVE  LedgerInv'
<1>1. ASSUME NEW g \in Gateways, NEW r \in Requests,
             \/ AnswerRecorded(g, r) \/ Refuse(g, r)
             \/ StartReclaim(g, r) \/ StartRecord(g, r)
             \/ \E lane \in Lanes, to \in Messages \cup {NoMessage} : StartSend(g, r, lane, to)
      PROVE  LedgerInv'
  <2>1. CASE AnswerRecorded(g, r) \/ Refuse(g, r)
    BY <2>1, AnswerRecordedKeeps, RefuseKeeps
  <2>2. CASE StartReclaim(g, r)
    BY <2>2, ReclaimKeeps
  <2>3. CASE StartRecord(g, r)
    BY <2>3, RecordKeeps
  <2>4. ASSUME NEW lane \in Lanes, NEW to \in Messages \cup {NoMessage},
               StartSend(g, r, lane, to)
        PROVE  LedgerInv'
    BY <2>4, SendKeeps
  <2> QED
    BY <1>1, <2>1, <2>2, <2>3, <2>4
<1>2. ASSUME NEW p \in got, StartRetire(p) \/ AnswerRetired(p) PROVE LedgerInv'
  BY <1>2, RetireKeeps, AnswerRetiredKeeps
<1>3. ASSUME NEW outcome \in WriteOutcomes,
             \/ FinishReclaim(outcome) \/ FinishAction(outcome)
             \/ FinishRetire(outcome) \/ FinishConsume(outcome)
      PROVE  LedgerInv'
  <2>1. CASE FinishReclaim(outcome)
    <3>1. op # Idle
      BY <2>1 DEF FinishReclaim, Idle
    <3> QED
      BY <2>1, <3>1, PersistedKeeps DEF FinishReclaim, parties, phone
  <2>2. CASE FinishConsume(outcome)
    <3>1. op # Idle
      BY <2>2 DEF FinishConsume, Idle
    <3> QED
      BY <2>2, <3>1, PersistedKeeps DEF FinishConsume, parties, phone
  <2> QED
    BY <1>3, <2>1, <2>2, FinishActionKeeps, FinishRetireKeeps
<1>4. ASSUME NEW lane \in Lanes, Show(lane) \/ \E to \in Messages : Read(lane, to)
      PROVE  LedgerInv'
  BY <1>4, ShowKeeps, ReadKeeps
<1>5. ASSUME NEW s \in shown, ConsumeShown(s) PROVE LedgerInv'
  <2>1. LaneRows(s.lane, {s.seq}) \in SUBSET Rows(ledger)
    BY DEF LaneRows
  <2> QED
    BY <1>5, <2>1, ConsumeKeeps DEF ConsumeShown
<1>6. ASSUME NEW s \in read, ConsumeRead(s) PROVE LedgerInv'
  <2>1. ReplyRows(s) \in SUBSET Rows(ledger)
    BY DEF ReplyRows
  <2> QED
    BY <1>6, <2>1, ConsumeKeeps DEF ConsumeRead
<1>7. ASSUME NEW g \in Gateways \cup {NoGateway}, Connect(g) PROVE LedgerInv'
  BY <1>7, ConnectKeeps
<1>8. CASE Clock
  BY <1>8, ClockKeeps
<1>9. CASE Restart
  BY <1>9, RestartKeeps
<1>10. CASE UNCHANGED relayVars
  BY <1>10, StutterKeeps
<1> QED
  BY <1>1, <1>2, <1>3, <1>4, <1>5, <1>6, <1>7, <1>8, <1>9, <1>10 DEF Next

\* The invariant holds in every reachable state.
THEOREM LedgerCorrect == Spec => []LedgerInv
<1>1. RelayInit => LedgerInv
  BY FirstFits
<1>2. LedgerInv /\ [Next]_relayVars => LedgerInv'
  BY NextKeeps
<1> QED
  BY <1>1, <1>2, PTL DEF Spec

-----------------------------------------------------------------------------
(* The properties *)

\* What is in memory, in the file or may come back into it is within the
\* limits, and set_persist_path accepts it.
THEOREM LedgerSound == Spec => []LedgerIsSound
<1>1. LedgerInv => LedgerIsSound
  BY DEF LedgerInv, LedgerIsSound, SnapshotLoads, Snapshots, Fits, Valid
<1> QED
  BY <1>1, LedgerCorrect, PTL

\* A request that is repeated, over lost answers, failed writes and restarts,
\* gives the phone one delivery, unless its record was reclaimed.
THEOREM DeliveredOnce == Spec => []OneDeliveryPerAction
<1>1. LedgerInv => OneDeliveryPerAction
  BY DEF LedgerInv, Snapshots, Fits, Single, OneDeliveryPerAction
<1> QED
  BY <1>1, LedgerCorrect, PTL

\* The delivery behind a firm answer is in the ledger and in every file a
\* restart may read, until it is consumed.
THEOREM AnswersDurable == Spec => []AnsweredIsDurable
<1>1. ASSUME LedgerInv PROVE AnsweredIsDurable
  <2> SUFFICES ASSUME NEW p \in firm, p.seq # 0, NEW l \in {ledger, disk} \cup prior
               PROVE  \E d \in Rows(l) \cup taken : d.of = p.of
    BY DEF AnsweredIsDurable, Durable
  <2>1. Fits(l)
    BY <1>1 DEF LedgerInv, Snapshots
  <2> QED
    BY <2>1 DEF Fits, Backed, Queued
<1> QED
  BY <1>1, LedgerCorrect, PTL

\* An acknowledgement names one action, and the result of an action whose
\* delivery exists stays on record until its gateway has seen it.
THEOREM RetirementExact == Spec => []RetirementIsExact
<1>1. ASSUME LedgerInv PROVE RetirementIsExact
  <2>1. Fits(ledger) /\ GotFits /\ RelayTypeOK
    BY <1>1 DEF LedgerInv, Snapshots
  <2>2. ReceiptNamesOneAction
    BY <2>1 DEF ReceiptNamesOneAction, GotFits, Fits, Receipts, Names
  <2>3. UnansweredIsRemembered
    <3> SUFFICES ASSUME NEW d \in made, d.of = Current(d.of.gw, d.of.req),
                        Unanswered(d.of.gw, d.of.req), d.of \notin abandoned \cup Reclaimed
                 PROVE  \E x \in Results(ledger) : x.of = d.of
      BY DEF UnansweredIsRemembered
    <3>1. d.of \in Action
      BY <2>1 DEF RelayTypeOK, Delivery
    <3>2. use[<<d.of.gw, d.of.req>>] \in Nat
      BY <2>1, <3>1, RelayAssumption DEF RelayTypeOK, Action
    <3>3. d.of.n = use[<<d.of.gw, d.of.req>>] + 1
      BY DEF Current
    <3>4. Accounted(d.of, ledger)
      BY <2>1 DEF Fits, Accounts
    <3>5. \A p \in got : p.of # d.of
      BY DEF Unanswered
    <3> QED
      BY <3>2, <3>3, <3>4, <3>5 DEF Accounted, Lost
  <2> QED
    BY <2>2, <2>3 DEF RetirementIsExact
<1> QED
  BY <1>1, LedgerCorrect, PTL

\* The rows an acknowledgement of the bridge removes are rows it had read.
THEOREM ReceiptExact == Spec => ReceiptTakesWhatWasRead
<1>1. ASSUME LedgerInv PROVE \A s \in read : ConsumeRead(s) => ReplyRows(s) \subseteq read
  <2>1. Reads(ledger)
    BY <1>1 DEF LedgerInv, Snapshots, Fits
  <2> QED
    BY <2>1 DEF Reads, ReplyRows
<1>2. LedgerInv /\ [Next]_relayVars
        => [\A s \in read : ConsumeRead(s) => ReplyRows(s) \subseteq read]_relayVars
  BY <1>1
<1> QED
  BY <1>2, LedgerCorrect, PTL DEF Spec, ReceiptTakesWhatWasRead

-----------------------------------------------------------------------------
(* The head of the deliveries *)

\* What a restart may read, and what the process answers from.
Files == {ledger, disk} \cup prior

\* No file, and no ledger, falls behind all those there were.
Ahead == \A l \in Files' : \E k \in Files : l.nextSeq >= k.nextSeq

\* The counters are numbers.
LEMMA CountersTyped ==
  ASSUME RelayTypeOK PROVE \A l \in Files : l.nextSeq \in 0..MaxSequence /\ l.nextSeq \in Nat
<1>1. \A l \in Files : l \in Ledger
  BY DEF RelayTypeOK, Files
<1> QED
  BY <1>1, LedgerParts, RelayAssumption

\* Where nothing new is on file.
LEMMA SameAhead ==
  ASSUME RelayTypeOK, Files' \subseteq Files PROVE Ahead
<1>1. \A l \in Files : l.nextSeq >= l.nextSeq
  BY CountersTyped
<1> QED
  BY <1>1 DEF Ahead

\* The first half of an operation counts on.
LEMMA BeginAhead ==
  ASSUME RelayTypeOK, NEW m, NEW u, NEW kind, Begin(kind, u, m), UNCHANGED <<disk, prior>>,
         m.nextSeq >= ledger.nextSeq
  PROVE  Ahead
<1>1. ledger' = m
  BY DEF Begin
<1>2. \A l \in Files : l.nextSeq >= l.nextSeq
  BY CountersTyped
<1> QED
  BY <1>1, <1>2 DEF Ahead, Files

\* The second half goes on, or back to what is on file.
LEMMA PersistAhead ==
  ASSUME LedgerInv, op # Idle, NEW outcome, Persist(outcome)
  PROVE  Ahead
<1>1. RelayTypeOK /\ Alike(disk, op.undo)
  BY UnderWay
<1>2. ledger' \in {ledger, op.undo} /\ disk' \in {ledger, disk} /\ prior' \subseteq prior \cup {disk}
  BY DEF Persist, WriteFile, Undone
<1>3. \A l \in Files : l.nextSeq >= l.nextSeq
  BY <1>1, CountersTyped
<1>4. op.undo.nextSeq >= disk.nextSeq
  BY <1>1, <1>3 DEF Alike, Files
<1>5. \A l \in Files' : l \in Files \/ l = op.undo
  BY <1>2 DEF Files
<1> QED
  BY <1>3, <1>4, <1>5 DEF Ahead, Files

\* Every first half counts on.
LEMMA StartAhead ==
  ASSUME LedgerInv,
         \/ \E g \in Gateways, r \in Requests :
              \/ StartReclaim(g, r) \/ StartRecord(g, r)
              \/ \E lane \in Lanes, to \in Messages \cup {NoMessage} : StartSend(g, r, lane, to)
         \/ \E p \in got : StartRetire(p)
         \/ \E rows : StartConsume(rows)
  PROVE  Ahead
<1>1. RelayTypeOK /\ Valid(ledger)
  BY DEF LedgerInv, Snapshots, Fits
<1>2. ledger.nextSeq \in Nat /\ ledger.nextSeq >= ledger.nextSeq
      /\ ledger.nextSeq + 1 >= ledger.nextSeq
  BY <1>1, CountersTyped DEF Files
<1>3. ASSUME NEW g \in Gateways, NEW r \in Requests, StartReclaim(g, r) PROVE Ahead
  <2>1. Begin("reclaim", Clocked, Reclaim(g)) /\ UNCHANGED <<disk, prior>>
    BY <1>3 DEF StartReclaim
  <2>2. Reclaim(g).nextSeq = ledger.nextSeq
    BY <1>1, ReclaimValid
  <2> QED
    BY <1>1, <1>2, <2>1, <2>2, BeginAhead
<1>4. ASSUME NEW g \in Gateways, NEW r \in Requests, StartRecord(g, r) PROVE Ahead
  <2>1. /\ Begin("send", Clocked, WithResult(g, r, 0)) /\ UNCHANGED <<disk, prior>>
        /\ RoomForResult /\ Unanswered(g, r) /\ OnRecord(ledger, g, r) = {}
    BY <1>4 DEF StartRecord, StartAction
  <2>2. WithResult(g, r, 0).nextSeq = ledger.nextSeq
    BY <1>1, <2>1, RecordValid
  <2> QED
    BY <1>1, <1>2, <2>1, <2>2, BeginAhead
<1>5. ASSUME NEW g \in Gateways, NEW r \in Requests,
             NEW lane \in Lanes, NEW to \in Messages \cup {NoMessage}, StartSend(g, r, lane, to)
      PROVE  Ahead
  <2>1. /\ Begin("send", Clocked, WithDelivery(g, r, lane, to)) /\ UNCHANGED <<disk, prior>>
        /\ RoomForDelivery /\ RoomForResult /\ Unanswered(g, r) /\ OnRecord(ledger, g, r) = {}
    BY <1>5 DEF StartSend, StartAction
  <2>2. WithDelivery(g, r, lane, to).nextSeq = ledger.nextSeq + 1
    BY <1>1, <2>1, SendValid
  <2> QED
    BY <1>1, <1>2, <2>1, <2>2, BeginAhead
<1>6. ASSUME NEW p \in got, StartRetire(p) PROVE Ahead
  <2>1. Begin("retire", ledger, Without(p)) /\ UNCHANGED <<disk, prior>>
    BY <1>6 DEF StartRetire
  <2>2. PICK x \in OnRecord(ledger, p.gw, p.req) : x.id = p.id
    BY <1>6 DEF StartRetire, Matches
  <2>3. p \in Received
    BY <1>1 DEF RelayTypeOK
  <2>4. Without(p).nextSeq = ledger.nextSeq
    BY <1>1, <2>2, <2>3, WithoutValid
  <2> QED
    BY <1>1, <1>2, <2>1, <2>4, BeginAhead
<1>7. ASSUME NEW rows, StartConsume(rows) PROVE Ahead
  <2>1. Begin("consume", ledger, Remaining(rows)) /\ UNCHANGED <<disk, prior>>
    BY <1>7 DEF StartConsume
  <2>2. Remaining(rows).nextSeq = ledger.nextSeq
    BY <1>1, RemainingValid
  <2> QED
    BY <1>1, <1>2, <2>1, <2>2, BeginAhead
<1> QED
  BY <1>3, <1>4, <1>5, <1>6, <1>7

\* No step lets the counters fall behind.
LEMMA StepAhead ==
  ASSUME LedgerInv, Next
  PROVE  Ahead
<1>1. RelayTypeOK /\ Valid(ledger)
  BY DEF LedgerInv, Snapshots, Fits
<1>2. ASSUME NEW g \in Gateways, NEW r \in Requests, AnswerRecorded(g, r) \/ Refuse(g, r)
      PROVE  Ahead
  <2>1. ledger' = Clocked /\ UNCHANGED <<disk, prior>>
    BY <1>2 DEF AnswerRecorded, Refuse
  <2>2. Clocked.nextSeq = ledger.nextSeq
    BY <1>1, ClockedValid DEF Alike
  <2>3. \A l \in Files : l.nextSeq >= l.nextSeq
    BY <1>1, CountersTyped
  <2> QED
    BY <2>1, <2>2, <2>3 DEF Ahead, Files
<1>3. ASSUME NEW outcome \in WriteOutcomes,
             \/ FinishReclaim(outcome) \/ FinishAction(outcome)
             \/ FinishRetire(outcome) \/ FinishConsume(outcome)
      PROVE  Ahead
  <2>1. op # Idle /\ Persist(outcome)
    BY <1>3 DEF FinishReclaim, FinishAction, FinishRetire, FinishConsume, Persisted, Idle
  <2> QED
    BY <2>1, PersistAhead
<1>4. ASSUME UNCHANGED <<ledger, disk, prior>> PROVE Ahead
  <2>1. Files' \subseteq Files
    BY <1>4 DEF Files
  <2> QED
    BY <1>1, <2>1, SameAhead
<1>5. CASE Restart
  <2>1. PICK m \in Files : ledger' = m /\ disk' = m /\ prior' = {}
    BY <1>5 DEF Restart, Loaded, Files
  <2>2. Files' \subseteq Files
    BY <2>1 DEF Files
  <2> QED
    BY <1>1, <2>2, SameAhead
<1>6. ASSUME NEW p \in got, StartRetire(p) \/ AnswerRetired(p) PROVE Ahead
  <2>1. CASE StartRetire(p)
    BY <2>1, StartAhead
  <2>2. CASE AnswerRetired(p)
    BY <2>2, <1>4 DEF AnswerRetired
  <2> QED
    BY <1>6, <2>1, <2>2
<1>7. ASSUME NEW lane, Show(lane) \/ \E to : Read(lane, to) PROVE Ahead
  BY <1>7, <1>4 DEF Show, Read
<1>8. ASSUME NEW s, ConsumeShown(s) \/ ConsumeRead(s) PROVE Ahead
  <2>1. \E rows : StartConsume(rows)
    BY <1>8 DEF ConsumeShown, ConsumeRead
  <2> QED
    BY <2>1, StartAhead
<1>9. ASSUME NEW g, Connect(g) PROVE Ahead
  BY <1>9, <1>4 DEF Connect
<1>10. CASE Clock
  BY <1>10, <1>4 DEF Clock
<1> QED
  BY <1>2, <1>3, <1>5, <1>6, <1>7, <1>8, <1>9, <1>10, StartAhead DEF Next

\* A cursor that delivery_head gave out stays below every later reply, through
\* rollbacks, uncertain commits and restarts.
THEOREM HeadNeverPassed == Spec => HeadIsNeverPassed
<1>1. ASSUME LedgerInv
      PROVE  /\ \E l \in Files : l.nextSeq = Low
             /\ \A l \in Files : Low <= l.nextSeq
  <2> DEFINE Counts == {n \in 0..MaxSequence : \E l \in Files : l.nextSeq = n}
  <2>1. \A l \in Files : l.nextSeq \in Counts
    BY <1>1, CountersTyped DEF LedgerInv
  <2>2. Counts \in SUBSET Nat /\ Counts # {}
    BY <2>1, RelayAssumption DEF Files
  <2>3. PICK n \in Counts : \A k \in Counts : n <= k
    <3> HIDE DEF Counts
    <3> QED
      BY <2>2, FirstPlace
  <2>4. /\ n \in 0..MaxSequence /\ \E l \in Files : l.nextSeq = n
        /\ \A l \in Files : n <= l.nextSeq
    BY <2>1, <2>3
  <2> QED
    BY <2>4, Zenon DEF Low, Files
<1>2. ASSUME LedgerInv, NEW n \in 0..MaxSequence, HeadIs(n) PROVE n = Low
  <2>1. op = Idle /\ Healthy /\ n = ledger.nextSeq
    BY <1>2 DEF HeadIs
  <2>2. prior = {} /\ Alike(disk, ledger)
    BY <1>2, <2>1, AtRest
  <2>3. \A l \in Files : l.nextSeq = n
    BY <2>1, <2>2 DEF Files, Alike
  <2> QED
    BY <1>1, <1>2, <2>3
<1>3. ASSUME LedgerInv, Next PROVE \A l \in Files' : l.nextSeq >= Low
  <2> SUFFICES ASSUME NEW l \in Files' PROVE l.nextSeq >= Low
    OBVIOUS
  <2>1. PICK k \in Files : l.nextSeq >= k.nextSeq
    BY <1>3, StepAhead DEF Ahead
  <2>2. Low <= k.nextSeq /\ Low \in Nat /\ k.nextSeq \in Nat
    BY <1>1, <1>3, CountersTyped DEF LedgerInv
  <2>3. l.nextSeq \in Nat
    <3>1. LedgerInv'
      BY <1>3, NextKeeps
    <3>2. l \in Ledger
      BY <3>1 DEF LedgerInv, RelayTypeOK, Files
    <3> QED
      BY <3>2, LedgerParts, RelayAssumption
  <2> QED
    BY <2>1, <2>2, <2>3
<1>4. LedgerInv /\ [Next]_relayVars
        => [/\ \A l \in {ledger', disk'} \cup prior' : l.nextSeq >= Low
            /\ \A n \in 0..MaxSequence : HeadIs(n) => n = Low]_relayVars
  BY <1>2, <1>3 DEF Files
<1> QED
  BY <1>4, LedgerCorrect, PTL DEF Spec, HeadIsNeverPassed
=============================================================================
