# Verification of Simulanka

TLA+ modules for the parts of Simulanka whose correctness depends on the order
things happen in: how a patch becomes a change of the project graph, how that
change reaches the disk and the canvas, how the turns of an agent session start,
stop and end, how a run is opened, watched and closed, who may write a
verdict, how files and plans get their nodes, how the packages become one
profile registry, and how a model's forward pass becomes the edges of its
graph. TLC checks the modules on small instances; TLAPS proves the core
invariants for every instance. `PROJECT.json` ties every definition to the
lines it models, and every property to the hazards it is for.

Run, in this directory:

    tlc -workers 2 -config Kernel_structure.cfg MCKernel
    tlapm KernelProofs.tla

## 1. The system

A project is a directory with a `.simulanka/` store: one JSON file per node,
port and edge, an append-only event log, a manifest (graph version, content
hash, registry version), a checkpoint git repository, run directories, and
the JSONL logs of agent sessions. The FastAPI server, the CLI and
detached runners all write it directly; there is no lock between them.

| component | code (`src/src/simulanka/`) | state | operations |
|---|---|---|---|
| kernel: patches | `kernel/apply.py`, `validator.py`, `intent.py` | entity files, `_Pending` | eight patch operations, commit or reject of the whole patch |
| kernel: commit sequence | `kernel/apply.py`, `manifest.py`, `events.py`, `storage/` | files, event log, manifest, checkpoint repository | save, remove, append event, hash, write manifest, checkpoint, migrate |
| event stream | `server/app.py` `_event_stream` | high water mark per connection | connect, poll, disconnect |
| agent sessions | `server/sessions.py`, `server/app.py`, `agent/session.py`, `agent/context.py` | JSONL log, `_ActiveTurnRegistry`, provider process, sent-contexts ledger | message, stop, archive, fork, recovery at startup |
| write gate | `server/agent_ops.py`, edge endpoints of `server/app.py` | verdict and status attributes of edges | agent: set verdict, propose, withdraw; human: verdict, accept, discuss, delete |
| detached runs | `runner/detached.py` | wrapper markers, pid, `status` of the run node | start, reconcile, wait, kill |
| brackets and evidence | `runner/bracket.py`, `runner/exec.py`, `contract.py`, `evidence.py` | snapshot and contract files, run node, evidence nodes | begin, end, check contract, extract |
| agent runs | `agent/detached.py`, `agent/wrapper.py` | run node, workspace snapshot | start, finalize |
| context compilation | `agent/context.py` | none (pure), ledger files | compile, store, decide, mark |
| files | `layout/`, `cli/graph.py` | files under managed directories, their nodes | create a file, register one, make the managed directory |
| plans | `plan.py`, `propose.py` | the archived plan, its file node and atoms, stop signals (escalate notes) | ingest, in place or from elsewhere, resolve escalate |
| doctor, index, bundles | `kernel/doctor.py`, `storage/index.py`, `kernel/bundle.py` | derived | check, rebuild, export, import |
| profile registry | `registry/` | declarations, aliases, resolved profiles; immutable once built | build, lookups |
| model importer | `importer/torch_export.py` | producers of live tensors, observed edges and exits, while it runs | trace a forward pass, roll up, commit node by node, edge by edge |
| other importers and exporters, brief, CLI, frontend | the rest | none of their own | translations that end in one patch |

How they interact: every change of the graph is a `PatchIntent` given to
`apply_patch`, from a request thread of the server, a CLI process or a runner.
The canvas reads the graph once and then follows `/events`, which polls the
log. A session turn runs in a streaming response: a thread drives the
generator, a registry under a lock serialises send, stop and completion, and
a provider CLI runs behind a pipe. The write gate turns op blocks of agent
replies into patches.

What is hard here: writers race on files without a lock; a process can die
between any two file operations; the client of a streaming response can leave
at every yield; checks (version, verdict, archived, run status, whether a plan is
new) are made before and apart from the write they guard; a file and its node
are written apart; an import is many patches, and knows its tensors by addresses
that are used again; ledgers and statuses are written after
the effect they record. The list, line by line, is under "hazards" in
`PROJECT.json`.

What makes each component correct:

- kernel: references resolve, containment is a forest mirrored by `contains`
  edges, a data-flow edge stays legal, names are unambiguous, the event
  accounts for the change;
- commit: the manifest never runs ahead of the log, one writer at a time gives
  one event per version, the checkpoint is coherent, the stream misses nothing;
- sessions: one turn at a time, one terminal status per turn, an accepted stop
  is honoured and reaches the provider, no turn is left running by a restart, one native session per
  session, context is not sent twice;
- gate: an agent never overrides a human verdict nor takes back an accepted edge;
- runs: a sealed run is never rewritten, a finished run is recorded as it ended,
  evidence is extracted once;
- files and plans: file and node disagree only for a known cause, a plan lands
  once, a stop signal is resolved once, nodes under a plan have different names;
- registry: the program starts exactly with coherent packages, a resolved profile
  is its ancestry flattened, no lookup leads nowhere, no cycle keeps the build;
- model importer: an edge marked as observed was observed, what data did flow is
  drawn, and no patch of an import is one the kernel refuses.

## 2. The modules

| module | what it is |
|---|---|
| `Kernel` | one patch at a time, operation by operation (`apply.py`, `validator.py`) |
| `MCKernel`, `Kernel_structure.cfg`, `Kernel_naming.cfg` | its instances |
| `KernelProofs` | proof of its types, of what event and canvas are told, and of the integrity of the graph |
| `GraphLog` | what the store promises: versions made by one logged event each |
| `Commit` | the file operations of a commit, racing writers, crashes, migration, event stream; implements `GraphLog` while writers take turns |
| `MCCommit`, `Commit.cfg`, `Commit_race.cfg` | its instances |
| `CommitProofs` | proof of its invariants and that it implements `GraphLog` |
| `Session` | turns of one session: message, stop, archive, disconnect, crash, restart |
| `MCSession`, `Session.cfg`, `Session_archived.cfg` | its instances |
| `SessionProofs` | proof of its invariants: one turn, one terminal status, one native session, context sent once |
| `Run`, `Run.cfg` | one run node: the command that opens it, its process and markers, the readers that close it |
| `RunProofs` | proof of what the record of a run may say, and that it is not rewritten |
| `WriteMatrix` | what the write gate promises: who may do what to an edge |
| `Gate`, `Gate.cfg`, `Gate_override.cfg` | the edge endpoints and the agent's op blocks; implements `WriteMatrix` up to a stale check |
| `GateProofs` | proof of its invariants and of that implementation |
| `Plan` | files and their nodes: create, register, ingest a plan, resolve its stop signal; what the doctor says of them |
| `MCPlan`, `Plan.cfg` | its instance |
| `PlanProofs` | proof of what disk and graph may disagree on, that plans land once and that their atoms have names of their own |
| `Registry` | `Registry.build`: from packages to resolved profiles, or a refusal to start |
| `MCRegistry`, `Registry.cfg` | its instance |
| `RegistryProofs` | proof that a resolved profile is its ancestry, flattened, that a build refuses exactly what is incoherent, and that its recursion ends |
| `Trace` | `import_model`: the forward pass under hooks, the roll-up of what it showed, the patches |
| `MCTrace`, `Trace.cfg` | its instance |
| `TraceProofs` | proof that what is drawn happened, and that what happened is drawn |

### Kernel

`nodes`, `ports`, `edges` are the entity files. `pend` is `_Pending` and the
list of canonical operations of the event. Each handler of `apply.py` is one
action (`CreateNode` ... `DeleteNode`) that reads what the handler reads: the
files alone, or the files overlaid with the patch, exactly where the code
does one or the other. `Commit` writes all of it, `Reject` nothing. Attribute
merges are unions of keys. Selectors are the entity they resolve to. The
registry is the constants `RootTypes`, `AcceptsParent` and `Endpoints`.
`minted` is a history variable: `new_id` draws ULIDs, which no entity ever had.
`AffectedNodes` is what `_affected` of the server computes from the event.

Two assumptions come from the callers. `EdgeTypes` leaves `contains` out:
`create_node` is the only caller that makes one, except the CLI command `graph
connect -t contains`, which can give a node a second parent. `MixedPatches =
FALSE`: every caller sends a delete as a patch of one operation.

### Commit

A patch is here the set of files it writes. `ReadBase` is `apply_patch_now`
(or a client) reading the version, `Accept` and `Refuse` are the checks,
`WriteFile` one save or removal, then `AppendEvent`, `HashFiles`,
`WriteManifest`, `Checkpoint`. `Kill` is the death of a writer between any
two of them, and `Migrate` is `run_migrations`, which has no version check. A
content hash is the file map itself. The subscriber reads the manifest when it
connects and polls the log. `overlap` and `deaths` are history variables: most
of what one wants holds only while writers take turns (`Alone`) or also none
dies (`Calm`), and the module says so instead of assuming it away.

Event segments are read as one sequence; a torn last line of the log, and two
writers meeting on one `.tmp` file, are left out. `compute_content_hash` is
one read, which matters only when writers overlap, where nothing is claimed
of the hash.

### Session

`rq` holds each message handler: what it read of the session, and its
`_ActiveTurn` (`stop`, `claim`, `bound`) with the state of the provider
stream. `active` is the registry. The JSONL log is append-only and is read
through `load_session`, which folds it; the model keeps the fold (`status`,
`natives`). `Load` and `Reserve` are separate, as in the code; a request that
loses is `Conflict`, and one whose session was running when it was loaded takes
the reservation and gives it back (`Refuse`). The response then has its
generator, which need not ever start: if the client leaves first, nothing
releases the turn (`Leak`, section 5). From there `Ask`, `Announce`, `Spawn`, `Accepted`/`Says`, `Eof`, `Mark`, `Close`, `Release`
follow `stream_session_turn`, cut at its yields; `Raise`/`Err` are its
exceptions and `Gone` a GeneratorExit. `Archive*` is the archive handler in its
three steps. `Crash` and `Restart` are the server's; `Recovered` is
`recover_orphaned_sessions`. `provider` selects Codex (interruptible, must
confirm completion) or OpenCode (not interruptible, a clean end of its output
is completion). The two registered providers resume natively, so branches for
providers that do not are left out. Cancelling the handle is part of `Stop` or,
when the stop came first, of `Spawn`. A resumed provider that answers with
another native id is a `Raise`. The legacy `/discussion` turns are the same
actions without disconnect. Left out: the line `POST /session`
yields before the turn, the created event; a client that leaves at this line
releases a turn that never began. `stream_work_session_turn` is used by tests only
and is not modelled.

### Run

`kind` is the command that opens the run: `exec` (`exec_run`), `agent`
(`run_agent`), `detached` (`start_run`), `detached_agent` (`start_agent_run`) or
`bracket` (`begin_run`); each follows its own path through the `Launch` actions,
and `LaunchDies` is a refused patch or a killed CLI between any two of them.
`proc` is the leader of the process group: the shell wrapper of
`_WRAPPER_TEMPLATE` with its `marks` in order, then a zombie until reaped.
`busy` is the command, which may outlive a wrapper that got a SIGTERM.

`rd[r]` is one call of `run status`, `run wait`, `run reconcile`, `run end` or
`evidence extract`, in the steps of the code: `Look`, `ProbeMarker`, `ProbePid`,
`Seal` are `reconcile_run`; `Finalize`, `Measure`, `Judge`, `MirrorCheck` are
`finalize_agent_diff`, and `Measure`, `Judge` and `EndSeal` also `end_run`;
`ReadMetrics`, `Reject`, `ReadSiblings`, `Mint` are `extract_evidence`. What a
call keeps in local variables is in `rd[r]`, so a reader acts on what it
saw. A `Look` at a bracket runs into the error of `_finalize` at `Seal`, as a
`run reconcile` on one does.

Abstractions: a workspace is the number of edits it has seen, a contract or a
metrics file a model value, a patch one step (`Commit` looks inside), `RunnerError`
and a version conflict are `Fails`. A pid is never reused, a log file never
half-written, and a bundle of attributes that is only displayed is left out.
`overlap` and `gap` are history variables: what is promised of readers that do
not overlap says so, and `gap` marks the one race that falsifies a status. There
is no MC module: the constants are sets of model values.

### Gate

`edges` are the attributes of data-flow edges that the gate decides on. `rq`
holds each request of the user (`CreateEdge`, `DeleteEdge`, `PostVerdict`,
`AcceptGhost`, `SetDiscuss`) and the op an agent's turn is at (`SetVerdict`,
`ProposeEdge`, `WithdrawEdge`). All eight have the same three steps, because the
code has: the handler reads the edge and checks, `ReadBase` is
`apply_patch_now` reading the version, `Apply` or `Refuse` is the patch. A
commit between the last two is a conflict; one between the first two is not,
and the patch merges into what is there by then. `Elsewhere` is any other
commit. A refused request changes nothing, so only those that pass are actions.
`Locked` are the edges the resolver refuses; the agent's ops and `DELETE /edge`
do not ask the resolver. `WriteMatrix` is the table of `docs/frontend.md` as
actions of two actors, and `ImplementsMatrix` says that a write is one its
actor is granted in the state it writes to. `stale`, `said` and `raced` are
history variables: `stale` marks a handler whose edge was written after its check,
`raced` the writes made all the same.

Left out: notes and citations (required, then stored), the removal of an edge
with its node, other attributes, and the discussion turn around the op blocks.

### Plan

`disk` holds the files of one managed directory, `files` the file nodes, `dirs` the
nodes of the directory itself (two writers may make two), `notes` the
stop signals. `rq` is one call of `create_file`, `register_file`, `ingest_plan`
or `resolve_escalate`: its checks (`FreeOnDisk`, `NotIngested`, `CheckDest`,
`PreResolve`), the directory (`FindDir`, and `ReadDirBase`, `MakeDir`: a patch
of its own), then the base and the patch (`ReadBase`, `CommitFile`). The file is
written before the patch by `create_file` (`WriteFile`) and after it by an
ingest (`CopyArchive`), which is what makes their failures differ. `Refused` is a
check or a patch that fails, `Kill` a process that dies between two steps.
`Elsewhere` is any other commit; it also changes what selectors resolve to.

A plan is its block: `Explicit`, `TaskLids` and `References` are the pure
functions of `plan.py` on it (explicit lids, the names derived for tasks, what
may refer to what); `tasks` holds the lids of the tasks of all experiments in
document order, which is all `_assign_lids` looks at. So an ingest is refused for the reasons the code has. One
patch makes all atoms, so they are not a variable: those of a plan are there when
its file node is, and `NamesUnder` are their names. `left`, `raced` and
`resolved` are history variables: paths a call left with one side written, what two callers
worked on at once, and how often a note was resolved.
`file_missing_on_disk`, `file_hash_drift` and `untracked_managed_file` are the
doctor's checks.

Left out: reference files, which are never hashed; the text of
plan and proposal; the parents of atoms.

### Registry

One behaviour is one call of `Registry.build` on one sequence of declarations
(`input`); there is no concurrency, the difficulty is the recursion. `visit()`,
three times in the code, is one step per call and per return, with its call
stack in `stack`: `StartAlias`/`VisitAlias`, `StartProfile`/`VisitBase`,
`FinishNode`/`FinishEdge`. Loops in sorted order take the least name, so names are
numbers. Templates and actions are loops without calls, one step each. A
field that unites along the lineage (capabilities, for tags and attribute names
too) and one that overrides (presentation, for `closed_attrs` too) stand
for all of their kind; validators add up in the order of the lineage.
`RegistryBuildError` ends the build, as it ends the start of the program. The checks a
declaration makes of itself (`Accepted`: a trimmed key, a capability something
consumes) are made as it is registered; the descriptor, which refuses template data
that is not JSON, is made last (`Finish`). The check of the version (below 1) is left out: it is
always 2.

`WellFormed` is the specification of coherent packages: stated of the
declarations alone, without an order or a memo (no set of aliases or profiles
without a way out of it, for instance, instead of a search for cycles).
`BuildDecides` says that the code accepts exactly these. `Work` is what is left to
do: phases, declarations, and names to resolve, each counted twice until its `visit()`
begins. A recursion without the check for a cycle would call for ever with a
growing stack, which is no loop of states; it is found because each step has to
lower `Work` (`EveryStepCounts`), and `BuildEnds` adds that the build gets to its end.

### Trace

What `forward()` does is nondeterministic: it calls a module inside the one that
runs (`Call`, the pre-hook), computes a tensor, new or in place (`Op`, the dispatch
mode), forgets one (`Forget`) and returns some (`Return`, the post-hook). A tensor
is its address, as `id()` is, and an address nobody holds may be that of the
next tensor. `producer`, `edges` and `exits` are the variables of
`_run_forward_trace`, with `Drop` for the finalizers. `PeerEdges`, `TunnelIn` and
`TunnelOut` are steps 6 and 7 of `import_model`; `CommitNode`, `CommitPorts` and
`CommitEdge` are its patches, in its order, and `Fails` ends it between any
two of them. `LegalFlow` is the port rule of `validate_edge`.

`data` and `flows` are history variables that know a tensor by itself and not by
its address: every module its data came out of, and every module such data
reached. `DrawnIsReal` and `FlowsAreDrawn` compare the graph with them, in both
directions. `Silent` names what the graph does not show by design or by
omission: a module fed its own output, edges between a container and its own
inside, and data that left a container without being returned (section 5).

Left out: shapes, labels and secondary ports; a module registered under two
names, which `named_modules()` lists once; aliases of one storage, which are
different tensors to the tracer too. `Call` calls only modules inside the one that
runs, and takes tensors this one holds: a submodule that another container keeps
too and calls, and tensors kept on attributes of a module between calls, are
outside the model, and so of what `FlowsAreDrawn` promises.

## 3. The runs

| run | expects | shows |
|---|---|---|
| `kernel_structure` | pass | sequences of patches over 3 nodes, 2 ports, 4 edges leave no dangling reference, keep the forest and its mirror in `contains` edges, and flow legality; the canvas is told of every node that changed |
| `kernel_naming` | pass | two operations of one patch on the same or sibling nodes see each other; the event names all that changed |
| `commit` | pass | the invariants of the store, the stream, and the refinement of `GraphLog` |
| `commit_race` | violation of `AlwaysPublishedOnBase` | the version check is not atomic with the write: two writers publish the same version, against `docs/kernel.md:73` |
| `session` | pass | the turn invariants under races of messages, stops, disconnects before and during a turn, an archive and a restart, for both providers; a stop gets to the turn |
| `session_archived` | violation of `ArchivedReadOnly` | a message loaded before an archive runs a turn on the archived session, against `app.py:1356` |
| `run` | pass | every way to open a run, kills, two overlapping or failing readers: statuses tell the truth outside one race, the contract and the diff stay those of the launch, evidence is recorded once, a dead process is noticed |
| `gate` | pass | requests of the user and ops of an agent interleaved step by step on two edges: a verdict has an author who may give it, the human has the last word, every write is granted, as far as the check was not overtaken |
| `gate_override` | violation of `AgentNeverOverrides` | the human's verdict lands between the agent's check and the base of its patch, and is overwritten, against `docs/frontend.md:63` |
| `plan` | pass | two callers create, register, ingest and resolve around one path, refused or dying anywhere: what the doctor can find has a known cause, plans land once and stop signals are resolved once unless calls overlapped, siblings have different names |
| `registry` | pass | some 38500 sets of packages: the build ends, accepts exactly the coherent ones, and flattens lineages correctly |
| `trace` | pass | every forward pass of three calls and two operations, with addresses used again: what is drawn happened, what happened is drawn, and the kernel refuses no edge of an import |

Bounds, and why they are enough.

- `MaxOps = 2`: the handlers look at the staged part of a patch as a whole, so
  a wrong lookup shows with one earlier operation. Three nodes allow a chain, a
  node with two children and a move of a name between siblings; four edges
  allow two `contains` edges and two others; two ports the two ends of a flow.
  Two types (container, leaf) give each rule an admitted and a refused pair.
- `kernel_naming` trades ports and types for two names and two attribute keys.
- Two writers, one of which may die, and two commits: a race is between two,
  and the second commit is the one that meets what the first left. The two
  patches create both files, and update one while removing the other.
- Two handlers, two turns, one restart, one bundle, two native ids: each session
  hazard is a race of two, or what a first turn leaves to the second.
  `turns` counts reservations, so handlers repeat without bound until then.
- Two readers, one failure, one edit, two contracts of which one has checks, one
  valid metrics file: a race is between two readers, a failure leaves one thing
  half done, and what a second edit or contract shows the first does.
  `Measured = {"bracket"}` lets the metrics file change in brackets only, where
  `run end` extracts by itself; `MaxFailures` also bounds repeated retries.
- `gate`: one request of the user and one agent at a time, which is the race that
  matters; two edges, one of them locked, each new, traced or proposed at the
  start; four commits, so that an edge can be proposed, judged, accepted
  and removed with another commit in between. More requests and
  agents are left to the proof.
- `plan`: two callers, since every race is between two calls at one path or note;
  one path, because calls at different paths share only the directory and the version;
  two contents, of which one is a plan, with one of five blocks that between
  them have each way lids, references and updates can be right or wrong; one
  selector; three commits and one death, so that a plan can be ingested and its stop
  signal resolved with another commit in between.
- `registry`: three families, because a build resolves nodes, edges and the rest
  one after the other: 3 node profiles with two aliases (12800 sets), 2 edge profiles with one
  (23328), and a template and an action on fixed profiles with one more
  declaration, which may clash or be refused by itself (2376). Chains and cycles of up to three
  profiles and two aliases occur; `RegistryProofs` has no such bound.
- `trace`: a container of two modules beside a third, so that an edge joins siblings,
  two levels, or a container and the root; three calls let the container call one inside
  and its output reach another; two operations are what it takes to use the
  address of a collected tensor again; three addresses, two tensors at a time.
- Symmetry is used in the two Kernel runs, in `plan` and in `trace`, which check no liveness.
- `CHECK_DEADLOCK FALSE` throughout: with the ids, versions or turns of the
  bound used up the model stops; the program itself idles.

Fairness. `Commit` is weakly fair in each writer's steps (a thread that runs
goes on unless it is killed) and in `Poll` (the stream wakes up every
`SSE_POLL_INTERVAL`); not in connects, kills or new patches. `Session` is
weakly fair in what the generator does by itself once it is asked, up to the
release (`TurnStep`): a response that runs asks for line after line. It may
never run (`Leak`), and no provider is assumed to finish, nor to close its
pipe once `_cancel_process` has terminated it, whose children may hold it open. So
a stop is promised to end the turn or to reach the provider's process, no more.
`Run` is weakly fair in `Continue(r)` (a command line that started runs on
unless it fails) and in `Look(Waiter)`: `wait_run` polls, and a user who asks for the status asks again. No process is assumed to end, no
launch to get further. `Registry` is weakly fair in `Next`: a build runs to its
end. `Gate`, `Plan` and `Trace` assume none: they only promise what never happens.

## 4. The proofs

All for arbitrary constants under the named assumptions of the modules.

- `KernelProofs!TypeCorrect`: `Spec => []TypeOK`. `TypeOK` includes that the
  ids a patch creates were never on disk, which keeps updates and creations
  apart.
- `KernelProofs`, what a commit tells: `RenameNeverCollides`, `EventIsTheRecord` and
  `AffectedCoversNodes` compare the files before and after, and only `Commit`
  changes them. So the invariant, `Accounted`, says what the staged patch owes
  its event while it grows: whatever is staged is named by an operation
  (`Named`), what an operation tells is still staged as told (`Effective`), and a
  renamed node differs from all its siblings as they will be (`Apart`). Each
  operation is then a lemma, and the commit turns the invariant into the
  property. No discipline of the callers is needed: this holds of patches
  that mix creation, renaming and deletion as they like.
- `KernelProofs`, integrity: `Disciplined /\ Spec => []` each of `NoDangling`,
  `Containment`, `PortNamesUnique`, `FlowLegal`, where `Disciplined`
  is the discipline of the callers above. The properties speak of the
  disk and only `Commit` changes the disk, so they are not inductive: the
  inductive invariant `IInv` asks the same of the graph the patch would leave
  (`Good(StagedNodes, StagedPorts, StagedEdges)`). Every operation then is a
  lemma about graphs (`GoodAddChild`, `GoodDropNode`, ...) and a lemma that
  its staging is that edit of the staged graph. Deleting alone is what
  lets `DeleteNode` look at the disk only (section 5 has what happens without).

- `CommitProofs!TypeCorrect` and `LogBacksManifest`: any number of writers,
  overlapping and dying anywhere, never leave a manifest that names a version
  without an event. The invariant adds that the version each writer has
  seen is logged (`SeenLogged`), and its own after `AppendEvent`.
- `CommitProofs!HeadIsFollowed`, `CommitsAreSeenWhole` and `Implementation`: what
  holds while writers take turns. `TakingTurns` says of the one writer
  under way how far manifest, log and files have come, step by step of its commit;
  `NothingLost` adds, while nobody died, that the log up to the manifest has
  one event per version and that the stream has sent what it passed. From both, the step
  `WriteManifest` is the one step of `GraphLog` that publishes a version, and every
  other step stutters: the refinement, for any number of writers and versions.

- `SessionProofs`: any number of handlers, turns and restarts. `IInv` ties the
  registry to the generator that runs (`OneTurn`), the turn number to the
  entry of `ended` only that turn writes, and the terminal claim to the place
  of the generator.
- `SessionProofs!RunningIsRun`, `OneNativeSession`, `ContextsDeliveredOnce`: three
  more layers on `IInv`. `RunsIfRunning`: the status `running` belongs to the reserved
  turn. `OneNative`: unless a handler read the session before the last native
  id was logged, what it will say is the id the log has. `Knowledge`: what is
  marked was injected, by a turn that is over, and what a handler is about
  to inject was unmarked for its native session when it was chosen.

- `RunProofs`: any number of readers, failures, edits, contracts and metrics.
  `IInv` adds to the type invariant what the process allows (`ProcessOK`: no
  marker without an exit code), where the launcher is (`LaunchOK`), what the node
  may say (`NodeOK`) and, the heart of it, what each reader may still believe
  (`ReaderOK`): a reader about to seal holds a status that is true now, and stays
  true because what a process exited with never changes. A reader between its
  probes that has missed the marker has set `gap`. The properties follow from
  `NodeOK`, so overlapping readers cannot break them.
- `RunProofs!ChecksMatchDiffs` and `NothingRewritten`: what holds while readers do not
  overlap. `Solo` says what the one reader under way knows of the node
  and of `changes.json` (its look is not stale, the diff it judges is the one
  stored), and that nobody else is between two steps.

- `GateProofs`: any edges, users, agents and commits. `IInv` says what is left of a
  check when its handler comes to write (`Holds`): if the edge was not written
  since, what was checked still holds; in any case an edge once checked is
  not a new one, and a ghost to accept still has its source, since no id
  is used twice. `Sound` relates the file to `said`. From `IInv`,
  `Implementation` shows for each op that its write is an action of `WriteMatrix`.

- `PlanProofs`: any callers, paths, plans, blocks, commits and deaths. `IInv` says
  that two callers at one path or note are known to have met (`Overlaps`), and that a
  caller that met nobody, at a path where no ingest died, finds disk and
  graph as its checks left them (`AsChecked`, `NotYet`, `Signals`). What it
  writes then agrees with both; what disagrees is blamed on a meeting or a
  death. The steps fall into kinds (a call goes on, ends, writes the disk, writes
  the graph), each a lemma.

  `NamedApart` is of two parts. `Taken`: what is ingested, or in the graph as a
  plan, has passed `take()`. And of every block that has, all names differ
  (`Apart`): after each task the names in use are those of the atoms and of the
  tasks so far, all below the counter are in use, and no derived name is an
  explicit one (`RowOk`). There is a free name left because there are more names than
  atoms and tasks (`OneIsFree`, the pigeonhole principle), which is assumed of
  `T` and true of the code, whose counter is unbounded. `TaskLids` is a
  recursive function, of which the prover knows nothing but its definition; that it has rows, and
  that they are as said, is shown of the least row that would not be.

- `RegistryProofs`: any names and packages, inheritance of any depth. `Staged` says
  what each phase leaves for later ones: declarations and aliases are
  fixed by the time profiles are resolved. `NodeItemInherits` and `EdgeItemInherits`
  show that one return of `visit()` is one more link of the lineage: unions grow by
  the profile's own, an overridden field becomes its own or stays, a validator is
  appended (`Accumulates`). The depth
  needs no induction, since a memoised base already satisfies `ResolvedIsInherited`.
- `RegistryProofs!Decides`: a build ends in a registry exactly if the packages are
  coherent. `Booked`, `AliasesLed`, `NodesMade` and `EdgesMade` say what each phase has
  made of the declarations, `Reached` how far it has come. Chains of names have any
  length, and again there is no induction: names are resolved after those they lead to,
  so every set of resolved names has a way out (`Grounded`, kept by `GroundedGrows`),
  which is what the rules ask of the packages; a name met again on the stack of `visit()`
  closes a cycle, a set without one (`Trail`, `CycleHasNoWayOut`). The rules speak of values
  along such chains (what an alias means, whether an edge needs ports): one exists, as the
  union of all partial ones (`AlongExists`), and only one (`AlongIsUnique`), so it is the one
  `visit()` computed.

- `RegistryProofs!Terminates`: no build recurses for ever, whatever cycles its packages
  hold. `Work` is a natural number that every step lowers: a call begins a name not yet begun,
  since `visit()` looks for it on the stack, and a return resolves one. With `Spec` alone
  this bounds the number of steps; that the last one leaves a registry or an error is
  `BuildEnds`, where fairness comes in.

- `TraceProofs!NothingInvented`: module trees of any depth, forward passes of any
  length, any reuse of addresses. `Followed` ties what the hooks keep to what is true:
  a tracked address is that of a live tensor, and the producer it is tracked for
  is among the modules its data came out of. `Evidence` says the same of every edge
  observed, while the pass runs and after. `Sound` says of each edge still to be drawn
  that it is witnessed by a flow and that the kernel accepts it. Chains of containers have any
  length: where an argument climbs one, it takes the least counterexample
  (`Least`, from the well-foundedness of the natural numbers), since an
  induction over the chain is out of reach.
- `TraceProofs!NothingLost`: the other direction, for the same models. A path is
  stated without recursion: `y` is in every set that has `x` and follows the
  links (`Joins`). `Traced` is the invariant: calls are nested; what a
  call holds was made inside it or was seen to enter it (`Known`); where the data
  of a tensor is from leads, over what was seen so far, to what the tracer
  believes of it (`Believed`), since a stamp forgets the sources but an exit, an edge or
  the call itself stands for them; and so every flow is joined (`Told`). Then each
  link seen is drawn (`LeafsAreDrawn`): up from the source to beside an ancestor of
  the target, across, and down, one level at a time. That the recursive `Reach` finds all
  that is joined (`ReachFollows`) needs that modules are finitely many: each of
  its rows is closed or has one port more than the last.

Model-checked only: liveness (`StreamCatchesUp`, `StopTakesEffect`, `EventuallySealed`,
the second half of `BuildEnds`), which the prover does not do. Every invariant and every action property of
the passing runs is stated by a theorem.

## 5. Where code and documents disagree

Three, each a run (section 3) and an entry under "findings". Met, and not a run
of its own:

- the marker is written and the wrapper exits between the two probes of
  `reconcile_run`: a success is sealed as failed, though `detached.py:247` says that
  the process disappeared without writing the marker (`gap` in `OutcomeIsTrue`, which
  `RunProofs` shows to be the only way);
- a tensor that leaves a container without being returned by it has no edge to
  the container's output bracket, against `docs/frontend.md:39`: the modules of a
  `ModuleList`, which is never called itself, or one called from outside its container;
- an import that failed half way cannot be repeated: the second makes another root of
  the same name, after which the paths the importer itself uses are ambiguous;
- `delete_node` counts the children on disk only, so a patch that creates a child
  under a node and then deletes the node is accepted and leaves an orphan, against
  `docs/kernel.md:69`; no caller sends such a patch;
- an interrupted turn leaves its context bundle unmarked, so the next sends it
  again, against the supplemental-context spec;
- an ingest that fails after its checks can leave the managed directory it
  made by a patch of its own, though `plan.py:387` wants no trace of a failed one;
- an ingest that dies between patch and copy leaves a file node without a file, which
  refuses the same plan from then on;
- two ingests of one plan at the same time land it twice, against
  `docs/assembly.md:54`, and two resolves of one stop signal both succeed,
  against `docs/frontend.md:33`;
- two first writers under one managed directory make two nodes for it;
- `register_file` does not ask whether the file is registered already;
- plans with the same file stem give two directories of one name to siblings;
- the registry checks the endpoint profiles of an edge by their exact keys, so
  a profile that extends an admitted one is not admitted by itself;
- a client that leaves before the streaming response asks its generator for the
  first line leaks the reservation made at `app.py:948`, as only the generator's
  `finally` (979) gives it back: until the next start of the server the session
  refuses every message and is not archived, and a stop is answered "stopping" and
  never ends;
- a stop names a session and not a turn, so one sent for a turn that has just
  ended stops the next;
- `_affected` leaves out the far ends of edges a `delete_node` takes along;
- a canvas that reconnects misses what was committed while it was away, because
  the stream starts at the current version;
- `metrics_error` is not cleared when the metrics are already extracted
  (`evidence.py` returns at 82-89, before 113), though `docs/assembly.md` says
  that a later successful extraction clears it;
- two extractions at once record the same metrics twice, since `create_node` does
  not check sibling names;
- a launch that dies before its second patch leaves a run nothing can close, and one
  that dies between `agent_meta.json` and `contract.json` a run whose every
  finalization raises;
- `withdraw_edge` looks at `status` only, so an agent may take back a ghost the human
  has judged wrong and wants to discuss; and `set_verdict` protects only the verdict
  of the user, so an agent may replace the machine's on a traced edge;
- a version conflict in one op ends the agent's whole batch with an error of the
  request, though `agent_ops.py:15` says that a bad op is not fatal to the batch;
- an accepted edge the human later judges wrong is in no disagreement set;
- `kill_run` sends SIGTERM to a wrapper without a trap, so a killed run never has
  its markers; a command that survives it can change the workspace after the diff
  was frozen; the timeout of `exec_run` kills the shell only.

## 6. Plan

Next, in this order:

1. Algorithms: `compile_context`, `check_contract` and the diff of snapshots,
   against reference definitions.
2. Sessions: fork and the tree bindings of scopes.
3. Index, bundles and the doctor's version checks as readers of `Commit`'s files.
4. Proofs: the safety half of the liveness properties (what is left to do never grows
   back), and what holds of the order of commits without `Calm`.

Not planned: text parsing of bridges and harness, pseudo-terminals, the exporter
and the manifest importer (sequential translations whose result goes through one
patch), the CLI's arguments and the frontend.
