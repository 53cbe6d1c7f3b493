--------------------------- MODULE InteractionLedger ---------------------------
(***************************************************************************)
(* The interaction ledger of telepathosd (telepathosd/src/main.rs,         *)
(* record_interaction): an idempotent counter of remote turns per lane.    *)
(* A turn is first appended to a journal with the count it brings its lane *)
(* to, then the lane registry is saved with that count, then it is         *)
(* answered.  Entries older than the dedupe window are dropped by a        *)
(* compaction: the snapshot is replaced, then the journal is cleared.      *)
(*                                                                         *)
(* One request is handled at a time, under the registry and ledger locks;  *)
(* a crash may fall between any two of its writes.  The clock does not     *)
(* advance while a request is handled.                                     *)
(***************************************************************************)
EXTENDS RemoteTurns, FiniteSetsExt

CONSTANTS
  Lanes, LaneOf,  \* the lane of each turn
  NoRequest,
  Window,         \* INTERACTION_DEDUPE_WINDOW_MS, in clock units
  Skew,           \* MAX_INTERACTION_FUTURE_SKEW_MS
  MaxEntries,     \* MAX_INTERACTION_DEDUPE_ENTRIES
  MaxLines,       \* MAX_INTERACTION_JOURNAL_ENTRIES
  AppendOutcomes, \* how a journal append may end
  WriteOutcomes   \* how the replacement of a file may end

ASSUME LedgerAssumption ==
  /\ NoRequest \notin Interactions
  /\ LaneOf \in [Interactions -> Lanes]
  /\ Window \in Nat /\ Skew \in Nat
  /\ MaxEntries \in Nat \ {0} /\ MaxLines \in Nat \ {0}
ASSUME LedgerOutcomes ==
  /\ "ok" \in AppendOutcomes
  /\ AppendOutcomes \subseteq {"ok", "definite", "lost", "torn", "open", "whole"}
  /\ "ok" \in WriteOutcomes /\ WriteOutcomes \subseteq {"ok", "pre", "post"}

VARIABLES
  clock,          \* unix_time_millis(), in coarse units
  created,        \* interaction_created_at_ms of each turn
  daemonUp,
  registry,       \* the live lane registry: interactions per lane
  ledger,         \* the live ledger
  disk, settled,  \* the files as seen, and as a power failure may leave them
  laneUncertain,  \* lane_persistence_uncertain
  uncertain,      \* interaction_persistence_uncertain
  handling,       \* the request that holds the locks
  written,        \* history: turns whose append was tried
  answered        \* history: turns answered as recorded

ledgerVars == <<clock, created, daemonUp, registry, ledger, disk, settled,
                laneUncertain, uncertain, handling, written, answered>>

-----------------------------------------------------------------------------
(* Types.  An entry is the count of its lane, never zero; zero is no entry. *)

Entries == [Interactions -> Nat]
NoEntries == [i \in Interactions |-> 0]
Line == Interactions \X Nat

\* stale is needs_durable_compaction.
Ledger == [entries : Entries, lines : Nat, stale : BOOLEAN]

\* tail: the journal ends with a newline, with a whole record that lacks it,
\* or holds a line that is not one record.
Files == [snap : Entries, lines : SUBSET Line, tail : {"clean", "open", "bad"},
          reg : [Lanes -> Nat]]

Handling == [id : Interactions \cup {NoRequest},
             step : {"idle", "compact", "clear", "append", "save", "reply"},
             result : {"recorded", "expired", "failed"}]
Idle == [id |-> NoRequest, step |-> "idle", result |-> "failed"]

LedgerTypeOK ==
  /\ clock \in Nat /\ created \in Entries
  /\ daemonUp \in BOOLEAN /\ laneUncertain \in BOOLEAN /\ uncertain \in BOOLEAN
  /\ registry \in [Lanes -> Nat]
  /\ ledger \in Ledger
  /\ disk \in Files /\ settled \in Files
  /\ handling \in Handling
  /\ written \subseteq Interactions /\ answered \subseteq Interactions

-----------------------------------------------------------------------------
(* Counts and expiry *)

\* The turn is within the dedupe window.
Live(i) == created[i] + Window >= clock

EntryCount(e) == Cardinality({i \in Interactions : e[i] # 0})
Pruned(e) == [i \in Interactions |-> IF Live(i) THEN e[i] ELSE 0]

\* max_journaled_interaction_count
LaneMax(e, l) == Max({0} \cup {e[i] : i \in {j \in Interactions : LaneOf[j] = l}})

\* next_interaction_count
NextCount(l) == Max({registry[l], LaneMax(ledger.entries, l)}) + 1

\* The registry raised to the counts of entries e.
Reconciled(reg, e) == [l \in Lanes |-> Max({reg[l], LaneMax(e, l)})]

-----------------------------------------------------------------------------
(* record_interaction *)

Step(step) == handling' = [handling EXCEPT !.step = step]
Reply(result) == handling' = [handling EXCEPT !.step = "reply", !.result = result]

\* A fresh turn appends only behind a compaction that dropped what expired,
\* and never beyond the journal's bound.
NeedsCompaction ==
  \/ Pruned(ledger.entries) # ledger.entries
  \/ ledger.stale
  \/ ledger.lines >= MaxLines

\* The turn already has a live entry.
Known(i) == ledger.entries[i] # 0 /\ Live(i)

\* A request for turn i takes the locks and passes or fails admission.
Handle(i) ==
  LET Answers(result) == handling' = [id |-> i, step |-> "reply", result |-> result]
      Goes(step) == handling' = [id |-> i, step |-> step, result |-> "failed"]
  IN  /\ daemonUp /\ handling = Idle
      /\ CASE uncertain \/ laneUncertain -> Answers("failed")
           [] ~uncertain /\ ~laneUncertain /\ ~Live(i) -> Answers("expired")
           [] ~uncertain /\ ~laneUncertain /\ created[i] > clock + Skew ->
                Answers("failed")
           [] OTHER ->
                IF Known(i)
                THEN IF registry[LaneOf[i]] < ledger.entries[i]
                     THEN Goes("save") ELSE Answers("recorded")
                ELSE Goes(IF NeedsCompaction THEN "compact" ELSE "append")
      /\ UNCHANGED <<clock, created, daemonUp, registry, ledger, disk, settled,
                     laneUncertain, uncertain, written, answered>>

\* A file is replaced: not at all, durably, or visibly but not yet durably.
\* A durable replacement syncs the directory that holds them all.
Replace(files, outcome) ==
  /\ disk' = IF outcome = "pre" THEN disk ELSE files
  /\ settled' = IF outcome = "ok" THEN files ELSE settled

\* What a compaction writes, and keeps in the process once it succeeds.
Compacted == Pruned(ledger.entries)

\* The compaction's snapshot.  A failed one only fails the request.
CompactSnapshot(outcome) ==
  /\ daemonUp /\ handling.step = "compact"
  /\ Replace([disk EXCEPT !.snap = Compacted], outcome)
  /\ IF outcome = "ok" THEN Step("clear") ELSE Reply("failed")
  /\ UNCHANGED <<clock, created, daemonUp, registry, ledger, laneUncertain,
                 uncertain, written, answered>>

\* The compaction's cleared journal; then the process drops what expired.
ClearJournal(outcome) ==
  /\ daemonUp /\ handling.step = "clear"
  /\ Replace([disk EXCEPT !.lines = {}, !.tail = "clean"], outcome)
  /\ ledger' = IF outcome = "ok"
               THEN [entries |-> Compacted, lines |-> 0, stale |-> FALSE]
               ELSE ledger
  /\ IF outcome = "ok" THEN Step("append") ELSE Reply("failed")
  /\ UNCHANGED <<clock, created, daemonUp, registry, laneUncertain, uncertain,
                 written, answered>>

\* The journal with line x written after what it ends with.
Appended(files, x) ==
  IF files.tail = "clean" THEN [files EXCEPT !.lines = @ \cup {x}]
  ELSE [files EXCEPT !.tail = "bad"]
Unterminated(files, x) ==
  IF files.tail = "clean"
  THEN [files EXCEPT !.lines = @ \cup {x}, !.tail = "open"]
  ELSE [files EXCEPT !.tail = "bad"]

\* The journal after an append that ended in outcome.
AppendedAs(files, x, outcome) ==
  CASE outcome \in {"ok", "whole"} -> Appended(files, x)
    [] outcome = "open" -> Unterminated(files, x)
    [] outcome = "torn" -> [files EXCEPT !.tail = "bad"]
    [] OTHER -> files

\* The append failed with the file open: it may have written anything.
InDoubt(outcome) == outcome \notin {"ok", "definite"}

\* The dedupe map is at its bound.
LedgerFull == EntryCount(ledger.entries) >= MaxEntries

\* append_interaction_journal, refused while the ledger is full.  One that
\* failed with the file open fences the ledger until a restart.
AppendLine(outcome) ==
  LET i == handling.id
      n == NextCount(LaneOf[i])
      files == AppendedAs(disk, <<i, n>>, outcome)
  IN  /\ daemonUp /\ handling.step = "append"
      /\ IF LedgerFull
         THEN /\ outcome = "definite"
              /\ UNCHANGED <<ledger, disk, settled, uncertain, written>>
         ELSE /\ disk' = files
              /\ settled' = IF outcome = "ok" THEN files ELSE settled
              /\ written' = written \cup {i}
              /\ uncertain' = InDoubt(outcome)
              /\ ledger' = IF outcome = "ok"
                           THEN [ledger EXCEPT !.entries[i] = n, !.lines = @ + 1]
                           ELSE ledger
      /\ IF outcome = "ok" THEN Step("save") ELSE Reply("failed")
      /\ UNCHANGED <<clock, created, daemonUp, registry, laneUncertain, answered>>

\* Wrong on purpose: the raised count stays when its save failed.
UnsavedKept(reg, outcome) == reg

\* The live registry after a save of reg: put back when nothing was replaced.
Saved(reg, outcome) == IF outcome = "pre" THEN registry ELSE reg

\* commit_lane_mutation: the registry with the count of the turn's entry.
SaveRegistry(outcome) ==
  LET i == handling.id
      raised == [registry EXCEPT ![LaneOf[i]] = ledger.entries[i]]
  IN  /\ daemonUp /\ handling.step = "save"
      /\ Replace([disk EXCEPT !.reg = raised], outcome)
      /\ registry' = Saved(raised, outcome)
      /\ laneUncertain' = (outcome = "post")
      /\ Reply(IF outcome = "ok" THEN "recorded" ELSE "failed")
      /\ UNCHANGED <<clock, created, daemonUp, ledger, uncertain, written, answered>>

\* The response is written and the locks are released.
Respond ==
  /\ daemonUp /\ handling.step = "reply"
  /\ handling' = Idle
  /\ answered' = IF handling.result = "recorded" THEN answered \cup {handling.id}
                 ELSE answered
  /\ UNCHANGED <<clock, created, daemonUp, registry, ledger, disk, settled,
                 laneUncertain, uncertain, written>>

-----------------------------------------------------------------------------
(* Crash and restart *)

\* The process dies; with it, perhaps, what no directory sync had settled.
DaemonCrash ==
  /\ daemonUp /\ daemonUp' = FALSE
  /\ registry' = [l \in Lanes |-> 0]
  /\ ledger' = [entries |-> NoEntries, lines |-> 0, stale |-> FALSE]
  /\ \E snap \in {disk.snap, settled.snap}, reg \in {disk.reg, settled.reg},
        journal \in {disk, settled} :
       disk' = [snap |-> snap, lines |-> journal.lines, tail |-> journal.tail,
                reg |-> reg]
  /\ settled' = disk'
  /\ laneUncertain' = FALSE /\ uncertain' = FALSE
  /\ handling' = Idle
  /\ UNCHANGED <<clock, created, written, answered>>

\* The records a start finds, with their counts.
Records(files) ==
  files.lines \cup {<<i, files.snap[i]>> : i \in {j \in Interactions : files.snap[j] # 0}}

\* The entries they amount to, while no two of one turn differ.
Folded(files) ==
  [i \in Interactions |-> Max({0} \cup {x[2] : x \in {r \in Records(files) : r[1] = i}})]

\* load_interaction_ledger accepts the files.
Loads(files) ==
  /\ files.tail # "bad"
  /\ \A x, y \in Records(files) : x[1] = y[1] => x[2] = y[2]
  /\ Cardinality(files.lines) <= MaxLines
  /\ EntryCount(Pruned(Folded(files))) <= MaxEntries

\* A start folds the journal over the snapshot, prunes, and saves the registry
\* first if the entries are ahead of it.
DaemonStart(outcome) ==
  LET found == Folded(disk)
      live == Pruned(found)
      repaired == Reconciled(disk.reg, live)
      saves == repaired # disk.reg
      starts == ~saves \/ outcome # "pre"
  IN  /\ ~daemonUp /\ Loads(disk)
      /\ saves \/ outcome = "ok"
      /\ daemonUp' = starts
      /\ IF saves THEN Replace([disk EXCEPT !.reg = repaired], outcome)
         ELSE UNCHANGED <<disk, settled>>
      /\ IF starts
         THEN /\ registry' = repaired
              /\ ledger' = [entries |-> live, lines |-> Cardinality(disk.lines),
                            stale |-> live # found]
         ELSE UNCHANGED <<registry, ledger>>
      /\ laneUncertain' = (starts /\ outcome = "post")
      /\ UNCHANGED <<clock, created, uncertain, handling, written, answered>>

LedgerInit ==
  /\ clock = 0 /\ created = NoEntries /\ daemonUp = TRUE
  /\ registry = [l \in Lanes |-> 0]
  /\ ledger = [entries |-> NoEntries, lines |-> 0, stale |-> FALSE]
  /\ disk = [snap |-> NoEntries, lines |-> {}, tail |-> "clean",
             reg |-> [l \in Lanes |-> 0]]
  /\ settled = disk
  /\ laneUncertain = FALSE /\ uncertain = FALSE
  /\ handling = Idle /\ written = {} /\ answered = {}

-----------------------------------------------------------------------------
(* What the ledger guarantees *)

Of(l, turns) == {i \in turns : LaneOf[i] = l}

\* A restart always finds a ledger it can load, unless an append is in doubt
\* or was when the process died.
LedgerLoads ==
  daemonUp /\ ~uncertain =>
    \A snap \in {disk.snap, settled.snap}, journal \in {disk, settled} :
      Loads([journal EXCEPT !.snap = snap])

\* A turn answered as recorded is counted in its lane for ever: whichever
\* registry a restart finds holds a count at least as high.
CountCoversAnswers ==
  \A l \in Lanes, files \in {disk, settled} :
    files.reg[l] >= Cardinality(Of(l, answered))

\* No turn is counted twice, however often it is reported.
CountNeverExceeds ==
  \A l \in Lanes, files \in {disk, settled} :
    /\ files.reg[l] <= Cardinality(Of(l, written))
    /\ LaneMax(Folded(files), l) <= Cardinality(Of(l, written))

\* The count of a lane is exact between what was answered and what was written,
\* over every compaction, and can be loaded again.
LedgerIsExact == LedgerLoads /\ CountCoversAnswers /\ CountNeverExceeds
=============================================================================
