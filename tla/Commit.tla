------------------------------- MODULE Commit -------------------------------
(***************************************************************************)
(* How a patch reaches the disk (kernel/apply.py apply_patch): entity       *)
(* files, event log, manifest, checkpoint, in that order, each an atomic    *)
(* file operation, none under a lock.  Writers are the request threads of   *)
(* the server and the processes of the CLI; any of them may be killed       *)
(* between two operations.  A subscriber of GET /events polls the log.      *)
(*                                                                         *)
(* What the operations of a patch are is module Kernel's subject; here a    *)
(* patch is the set of files it writes.  A content hash is the file map it  *)
(* was computed from, so equal hashes mean equal files.                     *)
(***************************************************************************)
EXTENDS Naturals, Sequences

CONSTANTS
    Writers,
    Files, Vals, Absent,  \* entity files, their contents, no such file
    Patches,              \* the patches writers send: [subset of Files -> contents]
    MaxCommits,           \* bound: events in the log
    MaxCrashes            \* bound: writers killed

Contents == [Files -> Vals \cup {Absent}]

ASSUME CommitAssumption ==
    /\ Absent \notin Vals
    /\ \A p \in Patches : DOMAIN p \subseteq Files /\ p \in [DOMAIN p -> Vals \cup {Absent}]
    /\ MaxCommits \in Nat /\ MaxCrashes \in Nat

Current == 2  \* REGISTRY_VERSION

VARIABLES
    files,     \* the entity files
    log,       \* the event log
    manifest,  \* manifest.json
    snap,      \* HEAD of the checkpoint repository: files and manifest
    wr,        \* each writer's progress through apply_patch or run_migrations
    sub,       \* the subscriber: on, start and last version, events got
    overlap,   \* (history) did two writers ever commit at the same time?
    deaths     \* (history) how many writers were killed

vars == <<files, log, manifest, snap, wr, sub, overlap, deaths>>

Manifest == [version : Nat, hash : Contents, reg : 1..Current]
Event == [version : Nat \ {0}, delta : Patches \cup {<<>>}]

\* A writer between two calls holds nothing.
Resting == [pc |-> "idle", base |-> 0, seen |-> 0, patch |-> <<>>, todo |-> {},
            hash |-> [f \in Files |-> Absent]]

Writer == [pc : {"idle", "based", "writing", "hashing", "publishing", "checkpoint"},
           base : Nat, seen : Nat, patch : Patches \cup {<<>>}, todo : SUBSET Files,
           hash : Contents]

\* Between loading the manifest and the end of the call.
InCommit(w) == wr[w].pc \in {"writing", "hashing", "publishing", "checkpoint"}

-----------------------------------------------------------------------------
(* apply_patch_now and apply_patch                                         *)

\* The caller, or apply_patch_now, reads the version the intent is based on.
ReadBase(w, p) ==
    /\ wr[w].pc = "idle" /\ Len(log) < MaxCommits
    /\ wr' = [wr EXCEPT ![w] = [Resting EXCEPT !.pc = "based", !.base = manifest.version,
                                               !.patch = p]]
    /\ UNCHANGED <<files, log, manifest, snap, sub, overlap, deaths>>

\* load_manifest, and on to the writes of patch p.
Load(w, p) ==
    /\ wr' = [wr EXCEPT ![w] = [@ EXCEPT !.pc = "writing", !.seen = manifest.version,
                                         !.patch = p, !.todo = DOMAIN p]]
    /\ overlap' = (overlap \/ \E v \in Writers \ {w} : InCommit(v))

BaseIsCurrent(w) == wr[w].base = manifest.version

\* check_versions and the version check pass; all operations are valid.
Accept(w) ==
    /\ wr[w].pc = "based"
    /\ manifest.reg = Current
    /\ BaseIsCurrent(w)
    /\ Load(w, wr[w].patch)
    /\ UNCHANGED <<files, log, manifest, snap, sub, deaths>>

\* SchemaMismatch, VersionConflict or, always possible, ValidationError:
\* nothing is written.
Refuse(w) ==
    /\ wr[w].pc = "based"
    /\ wr' = [wr EXCEPT ![w] = Resting]
    /\ UNCHANGED <<files, log, manifest, snap, sub, overlap, deaths>>

\* Entities are saved first, removed last; a save replaces the file whole.
WriteFile(w, f) ==
    /\ wr[w].pc = "writing" /\ f \in wr[w].todo
    /\ wr[w].patch[f] = Absent => \A g \in wr[w].todo : wr[w].patch[g] = Absent
    /\ files' = [files EXCEPT ![f] = wr[w].patch[f]]
    /\ wr' = [wr EXCEPT ![w].todo = @ \ {f}]
    /\ UNCHANGED <<log, manifest, snap, sub, overlap, deaths>>

\* (mutant SomeWritten) The event does not wait for the last file.
SomeWritten(w) == TRUE
AllWritten(w) == wr[w].todo = {}

\* (mutant LoadedVersion) The event takes the version it was based on.
LoadedVersion(w) == wr[w].seen
\* (mutant NextInLog) The event is numbered after the log, not the manifest.
NextInLog(w) == Len(log) + 1
NewVersion(w) == wr[w].seen + 1

AppendEvent(w) ==
    /\ wr[w].pc = "writing" /\ AllWritten(w)
    /\ log' = Append(log, [version |-> NewVersion(w), delta |-> wr[w].patch])
    /\ wr' = [wr EXCEPT ![w].pc = "hashing"]
    /\ UNCHANGED <<files, manifest, snap, sub, overlap, deaths>>

\* compute_content_hash reads the entity files.
HashFiles(w) ==
    /\ wr[w].pc = "hashing"
    /\ wr' = [wr EXCEPT ![w] = [@ EXCEPT !.pc = "publishing", !.hash = files]]
    /\ UNCHANGED <<files, log, manifest, snap, sub, overlap, deaths>>

\* (mutant OneTooFar) The version moves by two.
OneTooFar(w) == [version |-> wr[w].seen + 2, hash |-> wr[w].hash, reg |-> Current]
NewManifest(w) == [version |-> wr[w].seen + 1, hash |-> wr[w].hash, reg |-> Current]

WriteManifest(w) ==
    /\ wr[w].pc = "publishing"
    /\ manifest' = NewManifest(w)
    /\ wr' = [wr EXCEPT ![w].pc = "checkpoint"]
    /\ UNCHANGED <<files, log, snap, sub, overlap, deaths>>

\* (mutant FilesOnly) The checkpoint leaves the manifest as it was at first.
FilesOnly ==
    [files |-> files,
     manifest |-> [version |-> 0, hash |-> [f \in Files |-> Absent], reg |-> Current]]
DotDir == [files |-> files, manifest |-> manifest]

\* maybe_checkpoint commits the directory as it is now or, on a git failure,
\* without a repository and in run_migrations, nothing.  The call returns.
Checkpoint(w) ==
    /\ wr[w].pc = "checkpoint"
    /\ snap' \in {snap, DotDir}
    /\ wr' = [wr EXCEPT ![w] = Resting]
    /\ UNCHANGED <<files, log, manifest, sub, overlap, deaths>>

-----------------------------------------------------------------------------
\* run_migrations: no version check; the one migration there is (registry 1
\* to 2) rewrites no entity file.
Migrate(w) ==
    /\ wr[w].pc = "idle" /\ Len(log) < MaxCommits
    /\ manifest.reg # Current
    /\ Load(w, <<>>)
    /\ UNCHANGED <<files, log, manifest, snap, sub, deaths>>

\* The process of a writer is killed.
Kill(w) ==
    /\ InCommit(w) /\ deaths < MaxCrashes
    /\ wr' = [wr EXCEPT ![w] = Resting]
    /\ deaths' = deaths + 1
    /\ UNCHANGED <<files, log, manifest, snap, sub, overlap>>

-----------------------------------------------------------------------------
(* server/app.py _event_stream                                             *)

Offline == [on |-> FALSE, start |-> 0, last |-> 0, got |-> {}]

\* The version at connect time is the high water mark.
Connect ==
    /\ ~sub.on
    /\ sub' = [on |-> TRUE, start |-> manifest.version, last |-> manifest.version, got |-> {}]
    /\ UNCHANGED <<files, log, manifest, snap, wr, overlap, deaths>>

\* (mutant FirstOfLog) Only the first event of the log is looked at.
FirstOfLog(last) == {i \in 1..Len(log) : i = 1 /\ log[i].version > last}
\* One pass over the log: an event is sent when its version is above the mark,
\* which every event sent raises.
NewEvents(last) ==
    {i \in 1..Len(log) : log[i].version > last
                         /\ \A j \in 1..(i - 1) : log[j].version < log[i].version}

Poll ==
    /\ sub.on /\ NewEvents(sub.last) # {}
    /\ LET new == NewEvents(sub.last)
       IN  \E v \in {log[i].version : i \in new} :
              /\ \A i \in new : log[i].version <= v
              /\ sub' = [sub EXCEPT !.got = @ \cup new, !.last = v]
    /\ UNCHANGED <<files, log, manifest, snap, wr, overlap, deaths>>

Disconnect ==
    /\ sub.on
    /\ sub' = Offline
    /\ UNCHANGED <<files, log, manifest, snap, wr, overlap, deaths>>

-----------------------------------------------------------------------------
\* init_project leaves version 0 and no entities; a project of an older
\* release has its registry version behind.
Init ==
    /\ files = [f \in Files |-> Absent]
    /\ log = <<>>
    /\ manifest \in [version : {0}, hash : {files}, reg : 1..Current]
    /\ snap = DotDir
    /\ wr = [w \in Writers |-> Resting]
    /\ sub = Offline
    /\ overlap = FALSE /\ deaths = 0

WriterStep(w) ==
    \/ Accept(w) \/ Refuse(w)
    \/ \E f \in Files : WriteFile(w, f)
    \/ AppendEvent(w) \/ HashFiles(w) \/ WriteManifest(w) \/ Checkpoint(w)

Next ==
    \/ \E w \in Writers, p \in Patches : ReadBase(w, p)
    \/ \E w \in Writers : WriterStep(w) \/ Migrate(w) \/ Kill(w)
    \/ Connect \/ Poll \/ Disconnect

\* A call that started runs on, its thread being scheduled, unless it is
\* killed; an open stream wakes up every SSE_POLL_INTERVAL.
Fairness == WF_vars(Poll) /\ \A w \in Writers : WF_vars(WriterStep(w))

Spec == Init /\ [][Next]_vars /\ Fairness

-----------------------------------------------------------------------------
(* Properties                                                              *)

Alone == ~overlap
Calm == ~overlap /\ deaths = 0

\* Records are well formed, versions of events start at 1, and a writer only
\* has files of its own patch left to write.
TypeOK ==
    /\ files \in Contents
    /\ log \in Seq(Event)
    /\ manifest \in Manifest /\ snap \in [files : Contents, manifest : Manifest]
    /\ wr \in [Writers -> Writer]
    /\ \A w \in Writers : wr[w].todo \subseteq DOMAIN wr[w].patch
    /\ sub \in [on : BOOLEAN, start : Nat, last : Nat, got : SUBSET (1..Len(log))]
    /\ overlap \in BOOLEAN /\ deaths \in 0..MaxCrashes

\* The manifest never names a version the event log cannot account for: every
\* version up to it has an event, however writers race and wherever one dies.
ManifestBacked ==
    \A v \in 1..manifest.version : \E i \in 1..Len(log) : log[i].version = v

LogOneAhead ==
    Alone => /\ \A i \in 1..Len(log) : log[i].version <= manifest.version + 1
             /\ \A i, j \in 1..Len(log) : i < j => log[i].version <= log[j].version

ReceiptIsHead ==
    \A w \in Writers : Alone /\ wr[w].pc = "checkpoint" =>
        manifest.version = wr[w].seen + 1 /\ manifest.hash = files

\* While writers take turns, also when one dies: the log is at most one event
\* ahead of the manifest (that of a writer that died, or is about to publish)
\* and versions never go back in it; and what a Receipt reports is the head,
\* its version the manifest's and the hash that of the files.
HeadFollowsLog == LogOneAhead /\ ReceiptIsHead

CheckpointCoherent == Calm => snap.manifest.hash = snap.files

Streamed ==
    sub.on => \A i \in 1..Len(log) : sub.start < log[i].version /\ log[i].version <= sub.last
                                      => i \in sub.got
StreamComplete == Calm => Streamed

\* While writers take turns and none dies, readers see whole commits: a checkout
\* of the recovery point passes doctor's content hash check, and the stream has
\* sent every event since the version it started at, up to the one it reached.
ReadersSeeCommits == CheckpointCoherent /\ StreamComplete

\* Optimistic concurrency: a patch is published on the version it was based
\* on, so its author had seen everything it builds on.
OnItsBase ==
    \A w \in Writers : wr[w].pc = "publishing" /\ wr'[w].pc = "checkpoint"
                           /\ wr[w].patch # <<>> => manifest.version = wr[w].base
AlwaysPublishedOnBase == [][OnItsBase]_vars

\* While writers take turns and none dies, the store is a version sequence
\* made by exactly one logged event per version.
Promise == INSTANCE GraphLog WITH
    version <- manifest.version, content <- manifest.hash,
    log <- SubSeq(log, 1, manifest.version), calm <- Calm
ImplementsGraphLog == Promise!Spec

\* An open stream reaches every logged version.
StreamCatchesUp ==
    \A v \in 1..MaxCommits :
        (sub.on /\ \E i \in 1..Len(log) : log[i].version = v) ~> (~sub.on \/ sub.last >= v)
=============================================================================
