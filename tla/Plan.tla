-------------------------------- MODULE Plan --------------------------------
(***************************************************************************)
(* Files on disk and their nodes in the graph: create_file and             *)
(* register_file (file_registry.py), ingest_plan and resolve_escalate      *)
(* (plan.py), and what the doctor says of the two (doctor.py).  Callers    *)
(* are CLI processes and request threads.  Each makes its checks, touches  *)
(* the disk and commits one or two patches, at different times; a caller   *)
(* may be refused by the kernel or die in between.                         *)
(***************************************************************************)
EXTENDS Naturals, FiniteSets, SequencesExt, TLC

CONSTANTS
    Callers,
    Paths,        \* names under the one managed directory, research/
    Contents,
    Plans,        \* contents that hold a well-formed plan block
    Blocks,       \* the blocks they may hold
    Selectors,    \* references to what is already in the graph
    Types,        \* types of node they may resolve to
    NoLid, T,     \* a task without a lid; T[n] is "t<n>"
    Nothing,
    MaxVersion, MaxDeaths    \* bounds: commits, callers that die

VARIABLES
    block,    \* plan content -> its block
    disk,     \* the files under research/
    version,  \* graph_version; also the id of what that commit created
    dirs,     \* directory nodes for research/
    files,    \* file nodes
    notes,    \* escalate notes by the plan that made them: open or resolved
    resolves, \* selector -> type of the node it resolves to
    rq,       \* the callers
    deaths,   \* callers that died
    left,     \* (history) paths a call had written one side of when it broke off
    raced,    \* (history) paths and notes two callers worked on at once
    resolved  \* (history) note -> how often it was resolved

vars == <<block, disk, version, dirs, files, notes, resolves, rq,
          deaths, left, raced, resolved>>

OpKinds == {"create", "register", "ingest", "ingest_in_place", "resolve"}
Ingests == {"ingest", "ingest_in_place"}

FileNode == [id : 1..MaxVersion, path : Paths, content : Contents, plan : BOOLEAN]
Steps == {"idle", "write", "dest", "refs", "dir", "newdir", "mkdir", "base", "apply", "copy"}
Request ==
    [pc : Steps, op : OpKinds, path : Paths, content : Contents, note : 0..MaxVersion, base : 0..MaxVersion]

ASSUME PlanAssumption ==
    /\ Plans \subseteq Contents
    /\ Nothing \notin Contents \cup Types
    /\ MaxVersion \in Nat /\ MaxDeaths \in Nat
    /\ Paths # {} /\ Contents # {}

-----------------------------------------------------------------------------
(* The block: lids and references (pure functions of plan.py).             *)

\* tasks: the lids of the tasks of all experiments, in document order.
PlanBlock == {"new_claims", "edges", "claims", "verdicts", "questions",
              "hypotheses", "experiments", "tasks", "escalate"}
Sections == PlanBlock \ {"escalate"}
Lids(s) == [i \in DOMAIN s |-> s[i].lid]
AtomLids(b) == b.new_claims \o b.questions \o Lids(b.hypotheses) \o Lids(b.experiments)
\* There are more names "t<n>" than any block can use; none is reserved.
ASSUME BlockAssumption ==
    /\ T \in Seq(Range(T)) /\ IsInjective(T) /\ Range(T) \cap {NoLid, "escalate"} = {}
    /\ \A b \in Blocks :
        /\ DOMAIN b = PlanBlock /\ b.escalate \in BOOLEAN
        /\ \A section \in Sections : b[section] \in Seq(Range(b[section]))
        /\ b.tasks # <<>> => b.experiments # <<>>
        /\ Len(T) > Len(AtomLids(b)) + Len(b.tasks)
NotEmpty(b) == b.escalate \/ \E section \in Sections : b[section] # <<>>

\* take(): no lid twice, in whatever order they come, and none that is reserved.
Given(b) == {i \in DOMAIN b.tasks : b.tasks[i] # NoLid}
Explicit(b) == Range(AtomLids(b)) \cup {b.tasks[i] : i \in Given(b)}
LidsTaken(b) ==
    /\ IsInjective(AtomLids(b)) /\ "escalate" \notin Explicit(b)
    /\ \A i \in Given(b) : b.tasks[i] \notin Range(AtomLids(b))
    /\ \A i, j \in Given(b) : b.tasks[i] = b.tasks[j] => i = j

\* (mutant FromCounter) The derived lid is not compared with explicit ones.
FromCounter(n, used) == n
FreeFrom(n, used) == CHOOSE k \in DOMAIN T :
    k >= n /\ T[k] \notin used /\ \A j \in DOMAIN T : j >= n /\ T[j] \notin used => k <= j
\* The names of all tasks in document order.
TaskLids(b) ==
    LET row[i \in 0..Len(b.tasks)] ==
            IF i = 0 THEN [counter |-> 1, used |-> Explicit(b), name |-> NoLid]
            ELSE LET before == row[i - 1]
                     k == FreeFrom(before.counter, before.used)
                 IN  IF b.tasks[i] # NoLid THEN [before EXCEPT !.name = b.tasks[i]]
                     ELSE [counter |-> k, used |-> before.used \cup {T[k]}, name |-> T[k]]
    IN  [i \in DOMAIN b.tasks |-> row[i].name]
AllLids(b) == Explicit(b) \cup Range(TaskLids(b))

\* What the block refers to, by lid or selector, and the types that will do.
References(b) ==
    {[to |-> h.addresses, lids |-> Range(b.questions), want |-> {"question"}] :
        h \in Range(b.hypotheses)}
    \cup {[to |-> e.tests, lids |-> Range(Lids(b.hypotheses)), want |-> {"hypothesis"}] :
        e \in Range(b.experiments)}
    \cup {[to |-> e.target, lids |-> Range(b.new_claims), want |-> {"claim", "hypothesis"}] :
        e \in Range(b.edges)}
LidsOfRightKind(b) == \A r \in References(b) : r.to \in r.lids \/ r.to \notin AllLids(b)
ResolvedTyped(to, want) == to \in Selectors /\ resolves[to] \in want
SelectorsTyped(b) ==
    /\ \A r \in References(b) : r.to \notin AllLids(b) => ResolvedTyped(r.to, r.want)
    /\ \A e \in Range(b.edges) : ResolvedTyped(e.source, {"evidence"})
\* What is rewritten is resolved once, and then known by its id.
UpdatesTyped(b) ==
    /\ \A s \in Range(b.claims) : ResolvedTyped(s, {"claim"})
    /\ \A s \in Range(b.verdicts) : ResolvedTyped(s, {"hypothesis"})
Updates(b) == b.claims # <<>> \/ b.verdicts # <<>>

\* The names of the nodes under the plan's directory, and of its tasks.
NamesUnder(b) == AtomLids(b) \o (IF b.escalate THEN <<"escalate">> ELSE <<>>)

-----------------------------------------------------------------------------
(* Callers                                                                 *)

Registered(path) == {f \in files : f.path = path}
Works(c, path) == rq[c].pc # "idle" /\ rq[c].op # "resolve" /\ rq[c].path = path
Resolves(c, n) == rq[c].pc # "idle" /\ rq[c].op = "resolve" /\ rq[c].note = n

Call(pc, op, path, content, note) ==
    [pc |-> pc, op |-> op, path |-> path, content |-> content, note |-> note, base |-> 0]
Idle == Call("idle", "create", CHOOSE p \in Paths : TRUE, CHOOSE x \in Contents : TRUE, 0)
Begins(c, pc, op, path, content) ==
    /\ rq[c].pc = "idle"
    /\ rq' = [rq EXCEPT ![c] = Call(pc, op, path, content, 0)]
    /\ raced' = raced \cup {<<"path", path>> : d \in {x \in Callers : Works(x, path)}}
    /\ UNCHANGED <<block, disk, version, dirs, files, notes, resolves, deaths, left, resolved>>
Goes(c, pc) == rq' = [rq EXCEPT ![c].pc = pc]

\* create_file: the path must be free on disk.
\* (mutant Overwritable) It writes over what is there.
Overwritable(path) == TRUE
FreeOnDisk(path) == disk[path] = Nothing
CreateFile(c, path, content) ==
    FreeOnDisk(path) /\ Begins(c, "write", "create", path, content)
WriteFile(c) ==
    /\ rq[c].pc = "write"
    /\ disk' = [disk EXCEPT ![rq[c].path] = rq[c].content]
    /\ Goes(c, "dir")
    /\ UNCHANGED <<block, version, dirs, files, notes, resolves, deaths, left, raced, resolved>>

\* register_file: an existing file; whether it is registered is not asked.
RegisterFile(c, path) ==
    disk[path] # Nothing /\ Begins(c, "dir", "register", path, disk[path])

\* ingest_plan: the file node must be new.  A file from elsewhere is archived.
\* (mutant AnyPath) The path may be ingested already.
AnyPath(path) == TRUE
NotIngested(path) == Registered(path) = {}
Ingest(c, path, plan) ==
    /\ NotEmpty(block[plan]) /\ LidsTaken(block[plan]) /\ NotIngested(path)
    /\ Begins(c, "dest", "ingest", path, plan)
IngestInPlace(c, path) ==
    /\ disk[path] \in Plans
    /\ LET b == block[disk[path]] IN NotEmpty(b) /\ LidsTaken(b) /\ NotIngested(path)
    /\ Begins(c, "refs", "ingest_in_place", path, disk[path])

\* A create_file past its write, an ingest before its copy.
HalfDone(c) ==
    \/ rq[c].op = "create" /\ rq[c].pc # "write"
    \/ rq[c].op = "ingest" /\ rq[c].pc = "copy"
BrokenOff(c) == IF HalfDone(c) THEN {<<rq[c].op, rq[c].path>>} ELSE {}
Refused(c) ==
    /\ rq' = [rq EXCEPT ![c] = Idle]
    /\ left' = left \cup BrokenOff(c)
    /\ UNCHANGED <<block, disk, version, dirs, files, notes, resolves, deaths, raced, resolved>>

CheckDest(c) ==
    /\ rq[c].pc = "dest"
    /\ \/ /\ disk[rq[c].path] = Nothing
          /\ Goes(c, "refs")
          /\ UNCHANGED <<block, disk, version, dirs, files, notes, resolves, deaths, left, raced, resolved>>
       \/ disk[rq[c].path] # Nothing /\ Refused(c)
PreResolve(c) ==
    /\ rq[c].pc = "refs"
    /\ \/ /\ SelectorsTyped(block[rq[c].content]) /\ UpdatesTyped(block[rq[c].content])
          /\ Goes(c, "dir")
          /\ UNCHANGED <<block, disk, version, dirs, files, notes, resolves, deaths, left, raced, resolved>>
       \/ /\ ~SelectorsTyped(block[rq[c].content]) \/ ~UpdatesTyped(block[rq[c].content])
          /\ Refused(c)

\* resolve_escalate.
Open(n) == notes[n] = "open"
ResolveEscalate(c, n) ==
    /\ rq[c].pc = "idle" /\ n \in DOMAIN notes /\ Open(n)
    /\ rq' = [rq EXCEPT ![c] = Call("base", "resolve", Idle.path, Idle.content, n)]
    /\ raced' = raced \cup {<<"note", n>> : d \in {x \in Callers : Resolves(x, n)}}
    /\ UNCHANGED <<block, disk, version, dirs, files, notes, resolves, deaths, left, resolved>>

-----------------------------------------------------------------------------
(* Their patches                                                           *)

\* _find_managed_dir_node: found, or made by a patch of its own.
FindDir(c) ==
    /\ rq[c].pc = "dir"
    /\ \/ dirs # {} /\ Goes(c, "base")
       \/ dirs = {} /\ Goes(c, "newdir")
    /\ UNCHANGED <<block, disk, version, dirs, files, notes, resolves, deaths, left, raced, resolved>>
ReadDirBase(c) ==
    /\ rq[c].pc = "newdir"
    /\ rq' = [rq EXCEPT ![c].pc = "mkdir", ![c].base = version]
    /\ UNCHANGED <<block, disk, version, dirs, files, notes, resolves, deaths, left, raced, resolved>>
MakeDir(c) ==
    /\ rq[c].pc = "mkdir"
    /\ \/ /\ version = rq[c].base /\ version < MaxVersion
          /\ version' = version + 1
          /\ dirs' = dirs \cup {version + 1}
          /\ rq' = [rq EXCEPT ![c].pc = "base", ![c].base = 0]
          /\ UNCHANGED <<block, disk, files, notes, resolves, deaths, left, raced, resolved>>
       \/ version # rq[c].base /\ Refused(c)
ReadBase(c) ==
    /\ rq[c].pc = "base"
    /\ rq' = [rq EXCEPT ![c].pc = "apply", ![c].base = version]
    /\ UNCHANGED <<block, disk, version, dirs, files, notes, resolves, deaths, left, raced, resolved>>

\* An ingest is refused by the lids of its block, by the kernel or by a conflict.
Accepted(c) ==
    /\ version = rq[c].base
    /\ rq[c].op \in Ingests =>
        LidsOfRightKind(block[rq[c].content]) /\ SelectorsTyped(block[rq[c].content])
\* (mutant AnyIngest) Every plan raises a stop signal.
AnyIngest(c) == rq[c].op \in Ingests
Escalates(c) == rq[c].op \in Ingests /\ block[rq[c].content].escalate
Put(f, k, v) == [x \in DOMAIN f \cup {k} |-> IF x = k THEN v ELSE f[x]]
Landed(c) ==
    [id |-> version + 1, path |-> rq[c].path, content |-> rq[c].content,
     plan |-> rq[c].op \in Ingests]
\* _commit_file_node, and the patch of an ingest with all its atoms.
CommitFile(c) ==
    /\ rq[c].pc = "apply" /\ rq[c].op # "resolve"
    /\ \/ /\ Accepted(c) /\ version < MaxVersion
          /\ version' = version + 1
          /\ files' = files \cup {Landed(c)}
          /\ notes' = IF Escalates(c) THEN Put(notes, version + 1, "open") ELSE notes
          /\ resolved' = IF Escalates(c) THEN Put(resolved, version + 1, 0) ELSE resolved
          /\ rq' = IF rq[c].op = "ingest" THEN [rq EXCEPT ![c].pc = "copy", ![c].base = 0]
                   ELSE [rq EXCEPT ![c] = Idle]
          /\ UNCHANGED <<block, disk, dirs, resolves, deaths, left, raced>>
       \/ ~Accepted(c) /\ Refused(c)
       \* What it rewrites was deleted meanwhile.
       \/ rq[c].op \in Ingests /\ Updates(block[rq[c].content]) /\ Refused(c)
CopyArchive(c) ==
    /\ rq[c].pc = "copy"
    /\ disk' = [disk EXCEPT ![rq[c].path] = rq[c].content]
    /\ rq' = [rq EXCEPT ![c] = Idle]
    /\ UNCHANGED <<block, version, dirs, files, notes, resolves, deaths, left, raced, resolved>>
CommitResolve(c) ==
    /\ rq[c].pc = "apply" /\ rq[c].op = "resolve"
    /\ \/ /\ version = rq[c].base /\ version < MaxVersion
          /\ version' = version + 1
          /\ notes' = [notes EXCEPT ![rq[c].note] = "resolved"]
          /\ resolved' = [resolved EXCEPT ![rq[c].note] = @ + 1]
          /\ rq' = [rq EXCEPT ![c] = Idle]
          /\ UNCHANGED <<block, disk, dirs, files, resolves, deaths, left, raced>>
       \/ /\ version # rq[c].base
          /\ rq' = [rq EXCEPT ![c] = Idle]
          /\ UNCHANGED <<block, disk, version, dirs, files, notes, resolves, deaths, left, raced, resolved>>

\* Another commit; it may rename, delete or create what a selector resolves to.
Elsewhere ==
    /\ version < MaxVersion /\ version' = version + 1
    /\ \E r \in [Selectors -> Types \cup {Nothing}] : resolves' = r
    /\ UNCHANGED <<block, disk, dirs, files, notes, rq, deaths, left, raced, resolved>>
Kill(c) ==
    /\ rq[c].pc # "idle" /\ deaths < MaxDeaths
    /\ deaths' = deaths + 1
    /\ rq' = [rq EXCEPT ![c] = Idle]
    /\ left' = left \cup BrokenOff(c)
    /\ UNCHANGED <<block, disk, version, dirs, files, notes, resolves, raced, resolved>>

-----------------------------------------------------------------------------
\* A file that is there at the start was put there by the user.  A scaffolded
\* project has a node for research/, an older one does not.
Init ==
    /\ block \in [Plans -> Blocks]
    /\ disk \in [Paths -> Contents \cup {Nothing}]
    /\ version = 0
    /\ dirs \in {{}, {0}}
    /\ files = {} /\ notes = <<>> /\ resolved = <<>>
    /\ resolves \in [Selectors -> Types \cup {Nothing}]
    /\ rq = [c \in Callers |-> Idle]
    /\ deaths = 0
    /\ left = {"user"} \X {p \in Paths : disk[p] # Nothing}
    /\ raced = {}

Starts(c) ==
    \/ \E p \in Paths, x \in Contents : CreateFile(c, p, x)
    \/ \E p \in Paths : RegisterFile(c, p) \/ IngestInPlace(c, p)
    \/ \E p \in Paths, x \in Plans : Ingest(c, p, x)
    \/ \E n \in DOMAIN notes : ResolveEscalate(c, n)
Continues(c) ==
    \/ WriteFile(c) \/ CheckDest(c) \/ PreResolve(c) \/ FindDir(c) \/ ReadDirBase(c)
    \/ MakeDir(c) \/ ReadBase(c) \/ CommitFile(c) \/ CopyArchive(c) \/ CommitResolve(c)
Next == Elsewhere \/ \E c \in Callers : Starts(c) \/ Continues(c) \/ Kill(c)

Spec == Init /\ [][Next]_vars

-----------------------------------------------------------------------------
(* What the doctor reports of files (_check_file_nodes,                    *)
(* _check_untracked_managed_files).                                        *)

file_missing_on_disk == {f \in files : disk[f.path] = Nothing}
file_hash_drift == {f \in files : disk[f.path] \notin {Nothing, f.content}}
untracked_managed_file == {p \in Paths : disk[p] # Nothing /\ Registered(p) = {}}

(* Requests, nodes and notes are well-formed; an escalate note belongs to a *)
(* plan that was ingested with one.                                         *)
TypeOK ==
    /\ block \in [Plans -> Blocks]
    /\ disk \in [Paths -> Contents \cup {Nothing}]
    /\ version \in 0..MaxVersion /\ dirs \subseteq 0..MaxVersion
    /\ files \subseteq FileNode
    /\ DOMAIN notes = {f.id : f \in {x \in files : x.plan /\ block[x.content].escalate}}
    /\ \A n \in DOMAIN notes : notes[n] \in {"open", "resolved"}
    /\ DOMAIN resolved = DOMAIN notes /\ \A n \in DOMAIN notes : resolved[n] \in Nat
    /\ resolves \in [Selectors -> Types \cup {Nothing}]
    /\ rq \in [Callers -> Request] /\ \A c \in Callers : rq[c].op \in Ingests => rq[c].content \in Plans
    /\ deaths \in 0..MaxDeaths /\ left \subseteq (OpKinds \cup {"user"}) \X Paths
    /\ raced \subseteq ({"path"} \X Paths) \cup ({"note"} \X (1..MaxVersion))

(* Disk and graph are written apart, and what the doctor finds between them *)
(* always has one of the few causes the order of the writes leaves: a node  *)
(* without its file only from an ingest about to copy it, or dead there; a  *)
(* file without a node only from the user, or from a create_file between    *)
(* the two or broken off there; a file of other content only where two      *)
(* callers met, or where one ingest died before its copy.                   *)
EveryDriftHasACause ==
    /\ \A f \in file_missing_on_disk :
        \/ \E c \in Callers : rq[c].pc = "copy" /\ rq[c].path = f.path
        \/ <<"ingest", f.path>> \in left
    /\ \A p \in untracked_managed_file :
        \/ \E c \in Callers : Works(c, p) /\ rq[c].op = "create" /\ rq[c].pc # "write"
        \/ {<<"user", p>>, <<"create", p>>} \cap left # {}
    /\ \A f \in file_hash_drift :
        \/ <<"path", f.path>> \in raced
        \/ <<"ingest", f.path>> \in left

LandsTwice(p) == \E f, g \in Registered(p) : f # g /\ f.plan /\ g.plan
LandsOnce == \A p \in Paths : LandsTwice(p) => <<"path", p>> \in raced

(* Siblings made by one ingest have different names, which the kernel does  *)
(* not ask of create_node but path selectors need: lids, derived task lids  *)
(* and the escalate note never collide.                                     *)
AtomsNamedApart ==
    \A f \in files : f.plan =>
        LET b == block[f.content] IN
        /\ IsInjective(NamesUnder(b))
        /\ IsInjective(TaskLids(b))
        /\ Range(TaskLids(b)) \cap Range(NamesUnder(b)) = {}

StopSignalsResolvedOnce ==
    \A n \in DOMAIN notes :
        /\ notes[n] = "resolved" <=> resolved[n] > 0
        /\ resolved[n] > 1 => <<"note", n>> \in raced
(* What is checked before a patch, once, holds after it unless two callers  *)
(* overlapped: no path has two plans ("a plan file lands exactly once",     *)
(* ingest_plan), and a stop signal stays up until it is resolved, once      *)
(* (resolve_escalate).                                                      *)
OnceUnlessOverlapped == LandsOnce /\ StopSignalsResolvedOnce
=============================================================================
