------------------------------ MODULE LaneRegistry ------------------------------
(***************************************************************************)
(* The lanes of telepathosd: the registry behind /api/lanes and /api/meta  *)
(* (telepathosd/src/main.rs, lanes/src/lib.rs), its file, the revision its *)
(* clients watch, and the steering model that works on a private copy and  *)
(* merges it back (steering/src/lib.rs).                                   *)
(*                                                                         *)
(* A mutation holds the registry mutex from its checks to the end of its   *)
(* save, so it is one step whose save may end in three ways.  What         *)
(* /api/meta hears is parsed under one lock and executed under another;    *)
(* the steering model works for several steps without any.  When a lane    *)
(* was last active is left out: nothing reads it but the merge, for which  *)
(* a touched lane keeps what it had either way.                            *)
(***************************************************************************)
EXTENDS LaneGrammar, FiniteSets

CONSTANTS
  Word,           \* the words of names and of what is heard
  Found,          \* registry files the first process may find
  Names,          \* names a client may create a lane under
  Overlong,       \* those of them too long for a lane id
  Utterances,     \* what /api/meta may hear
  Calls,          \* requests to /api/meta that may be under way at once
  ModelNames,     \* names the steering model passes to its tools
  MaxLanes,       \* MAX_LANE_COUNT
  MaxCount,       \* bound: interactions counted on one lane
  MaxMutations,   \* REGISTRY_REVISION_MUTATION_MASK
  MaxGeneration,  \* MAX_REGISTRY_REVISION_GENERATION
  MaxTools,       \* bound: tool calls of one steering request
  OneDirectory,   \* the delivery file lies in the registry's directory
  MaxFaults       \* bound: failed saves, crashes, power failures

ASSUME RegistryAssumption ==
  /\ {MaxLanes, MaxGeneration} \subseteq Nat \ {0}
  /\ {MaxCount, MaxMutations, MaxTools, MaxFaults} \subseteq Nat
  /\ Names \cup ModelNames \subseteq Seq(Word) \ {<<>>}
  /\ Utterances \cup Overlong \subseteq Seq(Word)
  /\ {"repo", "direct"} \subseteq Word
  /\ OneDirectory \in BOOLEAN

VARIABLES
  running,
  registry,    \* the live registry, kept in view when the process is gone
  revision,    \* its revision: process generation and mutation count
  fenced,      \* lane_persistence_uncertain
  disk,        \* lanes.json
  prior,       \* what a power failure may put in its place
  generation,  \* the revision-generation file
  calls,       \* requests to /api/meta under way
  queued,      \* lanes with durable deliveries, kept by the relay
  saved,       \* history: the lanes of the last save that succeeded
  faults

vars == <<running, registry, revision, fenced, disk, prior, generation, calls,
          queued, saved, faults>>
file == <<disk, prior, saved, faults>>

-----------------------------------------------------------------------------
(* Registries *)

Direct == [id |-> <<"direct">>, name |-> <<"direct">>, count |-> 0]

\* What load makes of a missing file.
DefaultRegistry == [lanes |-> <<Direct>>, active |-> Direct.id, previous |-> Direct.id]

IdOf(name) == <<"repo">> \o name
Ids(reg) == {lane.id : lane \in ToSet(reg.lanes)}
IndexOf(reg, id) == CHOOSE i \in DOMAIN reg.lanes : reg.lanes[i].id = id
LaneOf(reg, id) == reg.lanes[IndexOf(reg, id)]

\* validate
Valid(reg) ==
  /\ Len(reg.lanes) \in 1..MaxLanes
  /\ \A i, j \in DOMAIN reg.lanes : reg.lanes[i].id = reg.lanes[j].id => i = j
  /\ {reg.active, reg.previous} \subseteq Ids(reg)

Switched(reg, id) ==
  IF reg.active = id THEN reg
  ELSE [lanes |-> reg.lanes, active |-> id, previous |-> reg.active]

\* validate_create
Creatable(reg, name) ==
  /\ name # <<>> /\ name \notin Overlong
  /\ IdOf(name) \in Ids(reg) \/ Len(reg.lanes) < MaxLanes

Created(reg, name) ==
  IF IdOf(name) \in Ids(reg) THEN reg
  ELSE [reg EXCEPT !.lanes = Append(@, [id |-> IdOf(name), name |-> name, count |-> 0])]

\* What revisions tell apart: the active and the previous lane, and the ids.
Selection(reg) == [active |-> reg.active, previous |-> reg.previous,
                   ids |-> [i \in DOMAIN reg.lanes |-> reg.lanes[i].id]]

\* Wrong on purpose: lanes that appear leave the revision alone.
SelectionMoved(before, after) ==
  before.active # after.active \/ before.previous # after.previous

\* lane_selection_changed
SelectionChanged(before, after) == Selection(before) # Selection(after)

-----------------------------------------------------------------------------
(* Types *)

IdleCall == [stage |-> "idle"]
Thinking(c) == calls[c].stage = "thinking"

Lane == [id : Seq(Word), name : Seq(Word), count : 0..MaxCount]

IsRegistry(reg) ==
  /\ reg \in [lanes : Seq(Lane), active : Seq(Word), previous : Seq(Word)]
  /\ Valid(reg)
  /\ \A i \in DOMAIN reg.lanes : i > 1 => reg.lanes[i].id = IdOf(reg.lanes[i].name)

\* What the first process finds was written by one like it.
ASSUME FoundAssumption == \A reg \in Found : IsRegistry(reg)

IsRevision(r) == r.gen \in 0..MaxGeneration /\ r.n \in 0..MaxMutations

RegistryTypeOK ==
  /\ running \in BOOLEAN /\ fenced \in BOOLEAN /\ faults \in 0..MaxFaults
  /\ IsRegistry(registry) /\ IsRegistry(disk) /\ \A s \in prior : IsRegistry(s)
  /\ IsRevision(revision) /\ generation \in revision.gen..MaxGeneration
  /\ \A c \in Calls :
       Thinking(c) => /\ IsRegistry(calls[c].base) /\ IsRegistry(calls[c].proposed)
                      /\ IsRevision(calls[c].revision)
                      /\ calls[c].tools \in 0..MaxTools

-----------------------------------------------------------------------------
(* Revisions and saves *)

Later(r, s) == r.gen > s.gen \/ (r.gen = s.gen /\ r.n > s.n)

\* advance_registry_revision succeeds.
Advances(changed) == changed => revision.n < MaxMutations

Faulty == faults < MaxFaults /\ faults' = faults + 1

\* Wrong on purpose: a refused write leaves the change in memory.
UndoneNever(new) == registry' = new /\ UNCHANGED revision

\* A failure before the rename: registry and revision as before.
Undone(new) == UNCHANGED <<registry, revision>>

\* atomic_write may be refused before its rename or be unsure after it.
Write(new, outcome) ==
  CASE outcome = "ok" -> disk' = new /\ prior' = {} /\ UNCHANGED faults
    [] outcome = "refused" -> Faulty /\ UNCHANGED <<disk, prior>>
    [] outcome = "unsure" -> Faulty /\ disk' = new /\ prior' = {disk} \cup prior

\* commit_lane_mutation: what is refused is undone, what is unsure is kept and
\* fenced.  The validation of a save never refuses: RegistryTypeOK.
Commit(new, next) ==
  \/ /\ Write(new, "ok") /\ registry' = new /\ revision' = next
     /\ saved' = new.lanes /\ UNCHANGED fenced
  \/ Write(new, "refused") /\ Undone(new) /\ UNCHANGED <<saved, fenced>>
  \/ /\ Write(new, "unsure") /\ registry' = new /\ revision' = next
     /\ fenced' = TRUE /\ UNCHANGED saved

\* require_lane_persistence_available
Available == ~fenced

\* What every mutation does under the mutex with the registry it computed.  A
\* revision that is used up refuses the change.
Mutate(new) ==
  LET changed == SelectionChanged(registry, new)
      next == IF changed THEN [revision EXCEPT !.n = @ + 1] ELSE revision
  IN  /\ running /\ Available /\ Advances(changed)
      /\ Commit(new, next)

\* history: the steering requests under way when the selection moved.
Overtaken ==
  IF Selection(registry) = Selection(registry') THEN calls
  ELSE [c \in Calls |->
          IF Thinking(c) THEN [calls[c] EXCEPT !.overtaken = TRUE] ELSE calls[c]]

Api(new) ==
  Mutate(new) /\ calls' = Overtaken /\ UNCHANGED <<running, generation, queued>>

-----------------------------------------------------------------------------
(* /api/lanes *)

CreateLane(name) ==
  Creatable(registry, name) /\ Api(Switched(Created(registry, name), IdOf(name)))

SetActive(id) == id \in Ids(registry) /\ Api(Switched(registry, id))

\* touch: only the time of the last activity, which is saved all the same.
Touch(id) == id \in Ids(registry) /\ Api(registry)

\* The registry's part of record_interaction.
RecordInteraction(id) ==
  LET lanes == [registry.lanes EXCEPT ![IndexOf(registry, id)].count = @ + 1]
  IN  /\ id \in Ids(registry) /\ LaneOf(registry, id).count < MaxCount
      /\ Api([registry EXCEPT !.lanes = lanes])

-----------------------------------------------------------------------------
(* /api/meta: the grammar, and the steering model for what it does not know *)

Becomes(c, call) ==
  /\ running /\ calls' = [calls EXCEPT ![c] = call]
  /\ UNCHANGED <<running, registry, revision, fenced, generation, queued, file>>

\* The first lock: meta parses the utterance.
Hear(c, text) ==
  /\ calls[c].stage = "idle"
  /\ Becomes(c, [stage |-> "heard", action |-> Parse(text, registry.lanes)])

\* execute: what lists, briefs or takes a note changes no lane.
Executed(reg, action) ==
  CASE action.op = "switch" -> Switched(reg, action.lane.id)
    [] action.op = "new" -> Switched(Created(reg, action.name), IdOf(action.name))
    [] OTHER -> reg

Answered(c, new) ==
  /\ Mutate(new)
  /\ calls' = [Overtaken EXCEPT ![c] = IdleCall]
  /\ UNCHANGED <<running, generation, queued>>

\* The second lock: meta executes what it parsed.
Meta(c) ==
  /\ calls[c].stage = "heard"
  /\ calls[c].action.op \in {"switch", "new"}
  /\ calls[c].action.op = "new" => Creatable(registry, calls[c].action.name)
  /\ Answered(c, Executed(registry, calls[c].action))

\* Or it copies the registry for the model.
SteerStart(c) ==
  /\ calls[c].stage = "heard" /\ calls[c].action.op = "unknown"
  /\ Becomes(c, [stage |-> "thinking", base |-> registry, revision |-> revision,
                 proposed |-> registry, tools |-> 0, overtaken |-> FALSE])

\* The tools of SteeringTool that change the private copy; the others read it, and
\* a name from_name does not know is answered as unknown.
ChangingTools == {"switch_lane", "create_lane"}

\* execute_tool on the private copy.
Tool(reg, tool, name) ==
  LET lane == Match(name, reg.lanes)
  IN  CASE tool = "switch_lane" -> IF lane = NoLane THEN reg ELSE Switched(reg, lane.id)
        [] tool = "create_lane" ->
             IF Creatable(reg, name) THEN Switched(Created(reg, name), IdOf(name)) ELSE reg

SteerTool(c, tool, name) ==
  /\ Thinking(c) /\ calls[c].tools < MaxTools
  /\ Becomes(c, [calls[c] EXCEPT !.proposed = Tool(@, tool, name), !.tools = @ + 1])

\* Wrong on purpose: a lane that changed meanwhile is replaced as well.
MergedLaneBlindly(base, proposed, lane) ==
  IF lane.id \in Ids(base) THEN LaneOf(proposed, lane.id) ELSE lane

\* A lane the call knew becomes what it made of it, unless it changed meanwhile.
MergedLane(base, proposed, lane) ==
  IF lane.id \in Ids(base) /\ lane = LaneOf(base, lane.id)
    THEN LaneOf(proposed, lane.id) ELSE lane

\* The lanes the call added, in its order; those an earlier call or a client added
\* meanwhile are not added again.
Additions(base, proposed) ==
  LET New == {i \in DOMAIN proposed.lanes :
                proposed.lanes[i].id \notin Ids(base) \cup Ids(registry)}
      Place(i) == Cardinality({j \in New : j <= i})
  IN  [k \in 1..Cardinality(New) |-> proposed.lanes[CHOOSE i \in New : Place(i) = k]]

\* Wrong on purpose: the same selection again counts as no change.
UntouchedSince(c) ==
  /\ registry.active = calls[c].base.active
  /\ registry.previous = calls[c].base.previous

\* The selection follows the call only if no revision passed since its base.
Untouched(c) == revision = calls[c].revision

\* merge_model_registry
Merged(c) ==
  LET base == calls[c].base
      proposed == calls[c].proposed
      chosen == IF Untouched(c) THEN proposed ELSE registry
  IN  [lanes |-> [i \in DOMAIN registry.lanes |->
                    MergedLane(base, proposed, registry.lanes[i])]
                 \o Additions(base, proposed),
       active |-> chosen.active, previous |-> chosen.previous]

\* The model answered; without a tool call its copy has nothing new to save.
SteerMerge(c) ==
  /\ Thinking(c) /\ calls[c].tools > 0
  /\ Len(registry.lanes) + Len(Additions(calls[c].base, calls[c].proposed)) <= MaxLanes
  /\ Answered(c, Merged(c))

\* A request that changes nothing or is refused: no tool was called, the provider
\* fails, the fence is up, the lanes are full or the revision is used up.
MetaEnds(c) == calls[c].stage # "idle" /\ Becomes(c, IdleCall)

-----------------------------------------------------------------------------
(* The relay's delivery file and the process *)

\* Wrong on purpose: any lane a client might name is taken for known.
KnownByName(id) == \E name \in Names : id = IdOf(name)

\* The relay takes a delivery only for a lane of the live registry; the direct
\* lane is in every registry and its deliveries are left out.
Known(id) == id \in Ids(registry)

\* Its durable write syncs the directory of the delivery file.
Settled == IF OneDirectory THEN prior' = {} ELSE UNCHANGED prior

QueueDelivery(id) ==
  /\ running /\ Known(id) /\ queued' = queued \cup {id} /\ Settled
  /\ UNCHANGED <<running, registry, revision, fenced, disk, generation, calls, saved, faults>>

TakeDelivery(id) ==
  /\ running /\ id \in queued /\ queued' = queued \ {id} /\ Settled
  /\ UNCHANGED <<running, registry, revision, fenced, disk, generation, calls, saved, faults>>

Gone == running' = FALSE /\ calls' = [c \in Calls |-> IdleCall]

Crash ==
  /\ running /\ Faulty /\ Gone
  /\ UNCHANGED <<registry, revision, fenced, disk, prior, generation, queued, saved>>

\* Renames no sync confirmed may be lost.
PowerFailure ==
  /\ Faulty /\ Gone
  /\ disk' \in {disk} \cup prior /\ prior' = {}
  /\ UNCHANGED <<registry, revision, fenced, generation, queued, saved>>

\* LaneRegistry::load accepts the file, and the relay every delivery's lane.
Loads(reg) == Valid(reg) /\ queued \subseteq Ids(reg)

\* next_registry_revision
NextRevision == [gen |-> generation + 1, n |-> 0]

\* main up to serving.  The generation file is written and its directory, which
\* is the registry's, synced before the registry is read.
Start ==
  /\ ~running /\ generation < MaxGeneration /\ Loads(disk)
  /\ running' = TRUE /\ fenced' = FALSE
  /\ generation' = generation + 1 /\ revision' = NextRevision
  /\ registry' = disk /\ prior' = {}
  /\ UNCHANGED <<disk, calls, queued, saved, faults>>

\* The generation may be on disk when its write fails, but is never served.
StartFails ==
  /\ ~running /\ generation < MaxGeneration /\ Faulty
  /\ generation' \in {generation, generation + 1}
  /\ UNCHANGED <<running, registry, revision, fenced, disk, prior, calls, queued, saved>>

-----------------------------------------------------------------------------
Init ==
  /\ running = FALSE /\ fenced = FALSE /\ faults = 0
  /\ disk \in Found /\ registry = disk /\ prior = {}
  /\ revision = [gen |-> 0, n |-> 0] /\ generation = 0
  /\ calls = [c \in Calls |-> IdleCall]
  /\ queued = {} /\ saved = disk.lanes

Next ==
  \/ \E name \in Names : CreateLane(name)
  \/ \E id \in Ids(registry) : SetActive(id) \/ Touch(id) \/ RecordInteraction(id)
  \/ \E c \in Calls :
       \/ \E text \in Utterances : Hear(c, text)
       \/ Meta(c)
       \/ SteerStart(c)
       \/ \E tool \in ChangingTools, name \in ModelNames :
            SteerTool(c, tool, name)
       \/ SteerMerge(c)
       \/ MetaEnds(c)
  \/ \E name \in Names : QueueDelivery(IdOf(name)) \/ TakeDelivery(IdOf(name))
  \/ Crash \/ PowerFailure \/ Start \/ StartFails

Spec == Init /\ [][Next]_vars

-----------------------------------------------------------------------------
(* Safety *)

\* get_state: what a client is shown, both read under one lock.
Shown == [selection |-> Selection(registry), revision |-> revision]

\* The registry a serving process answers from is the one a restart would read:
\* an undone change left nothing behind, one in doubt is kept.
LiveIsVisible == running => registry = disk

\* The registry stays valid in memory, on file and in every private copy, and the
\* file follows what is served.
RegistryIsSound == RegistryTypeOK /\ LiveIsVisible

\* The process can always be started again: whatever a power failure leaves of
\* the registry file is valid and knows the lane of every queued delivery.
RestartsStart ==
  \A reg \in {disk} \cup (IF OneDirectory THEN prior ELSE {}) : Loads(reg)

\* A lane and a count that were saved without an error are never lost, neither
\* to a failed save, a restart or a power failure nor to a steering request
\* that read them before.
Covers(reg, lanes) ==
  \A l \in ToSet(lanes) :
    \E m \in ToSet(reg.lanes) : m.id = l.id /\ m.count >= l.count
SavedSurvives == \A reg \in {registry, disk} \cup prior : Covers(reg, saved)

\* Whoever speaks a lane's full name alone gets a lane of that name, even if the
\* name of an older lane occurs in it.
NameFindsItsLane ==
  \A text \in Utterances :
    (\E lane \in ToSet(registry.lanes) : lane.name = text)
      => Match(text, registry.lanes).name = text

\* A revision names one selection for ever, also across restarts: it only moves
\* on, and the lanes and the selection change only when it does.
RevisionNamesSelection ==
  [][\/ Later(Shown.revision', Shown.revision)
     \/ revision' = revision /\ (running' => Shown' = Shown)]_vars

\* A steering request never undoes a selection made while the model was thinking,
\* not even one that ended where it began.
UserSelectionWins ==
  [][\A c \in Calls :
       running' /\ Thinking(c) /\ calls[c].overtaken /\ calls'[c].stage = "idle"
         => registry'.active = registry.active /\ registry'.previous = registry.previous]_vars

\* What the help of the meta commands offers, "switch to name" (meta.rs), with the
\* order of match_lane, exact before contained: it selects the lane of that name.
\* It does not hold: README, known weaknesses.
SwitchFindsNamedLane ==
  \A lane \in ToSet(registry.lanes) :
    Parse(<<"switch", "to">> \o lane.name, registry.lanes).lane.name = lane.name
=============================================================================
