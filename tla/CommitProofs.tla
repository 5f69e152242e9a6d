---------------------------- MODULE CommitProofs ----------------------------
(***************************************************************************)
(* Proofs about module Commit for any number of writers, files, commits and *)
(* deaths: the bounds of the model bound nothing here.                      *)
(***************************************************************************)
EXTENDS Commit, TLAPS

\* Every version up to v has its event.
Logged(v) == \A u \in 1..v : \E i \in 1..Len(log) : log[i].version = u

\* A writer has only seen versions that were logged, and its own event is in
\* the log from AppendEvent on.
SeenLogged ==
    \A w \in Writers :
        /\ wr[w].pc \in {"writing", "hashing", "publishing"} => Logged(wr[w].seen)
        /\ wr[w].pc \in {"hashing", "publishing"} => Logged(wr[w].seen + 1)

IInv == TypeOK /\ Logged(manifest.version) /\ SeenLogged

-----------------------------------------------------------------------------
(* Types                                                                   *)

LEMMA RestingOK == Resting \in Writer /\ Resting.todo \subseteq DOMAIN Resting.patch
  BY DEF Resting, Writer, Contents

LEMMA InitTypeOK == Init => TypeOK
<1> SUFFICES ASSUME Init PROVE TypeOK
  OBVIOUS
<1>1. files \in Contents /\ manifest \in Manifest /\ snap \in [files : Contents, manifest : Manifest]
  BY DEF Init, Contents, Manifest, Current, DotDir
<1>2. log \in Seq(Event) /\ Len(log) = 0
  BY DEF Init
<1>3. sub \in [on : BOOLEAN, start : Nat, last : Nat, got : SUBSET (1..Len(log))]
  BY <1>2 DEF Init, Offline
<1>4. overlap \in BOOLEAN /\ deaths \in 0..MaxCrashes
  <2>1. overlap = FALSE /\ deaths = 0
    BY DEF Init
  <2>2. MaxCrashes \in Nat
    BY CommitAssumption
  <2>3. 0 \in 0..MaxCrashes
    BY <2>2
  <2> QED BY <2>1, <2>3
<1> QED BY <1>1, <1>2, <1>3, <1>4, RestingOK DEF Init, TypeOK

\* A step that replaces one writer's record by a well-formed one and leaves
\* the shared state well formed.
LEMMA WriterType ==
    ASSUME TypeOK, NEW w \in Writers, NEW rec \in Writer, rec.todo \subseteq DOMAIN rec.patch,
           wr' = [wr EXCEPT ![w] = rec]
    PROVE  /\ wr' \in [Writers -> Writer] /\ wr'[w] = rec
           /\ \A v \in Writers : v # w => wr'[v] = wr[v]
           /\ \A v \in Writers : wr'[v].todo \subseteq DOMAIN wr'[v].patch
  BY DEF TypeOK

LEMMA ReadBaseTypeOK ==
    ASSUME TypeOK, NEW w \in Writers, NEW p \in Patches, ReadBase(w, p)
    PROVE  TypeOK'
<1> DEFINE rec == [Resting EXCEPT !.pc = "based", !.base = manifest.version, !.patch = p]
<1>1. rec \in Writer /\ rec.todo \subseteq DOMAIN rec.patch
  BY RestingOK DEF Resting, Writer, TypeOK, Manifest
<1>2. wr' = [wr EXCEPT ![w] = rec]
  BY DEF ReadBase
<1> HIDE DEF rec
<1> QED BY <1>1, <1>2, WriterType DEF TypeOK, ReadBase

LEMMA LoadTypeOK ==
    ASSUME TypeOK, NEW w \in Writers, NEW p \in Patches \cup {<<>>}, Load(w, p),
           UNCHANGED <<files, log, manifest, snap, sub, deaths>>
    PROVE  TypeOK'
<1> DEFINE rec == [wr[w] EXCEPT !.pc = "writing", !.seen = manifest.version,
                                !.patch = p, !.todo = DOMAIN p]
<1>1. DOMAIN p \subseteq Files
  BY CommitAssumption
<1>2. wr[w] \in Writer /\ manifest.version \in Nat
  BY DEF TypeOK, Manifest
<1>3. rec \in Writer /\ rec.todo \subseteq DOMAIN rec.patch
  BY <1>1, <1>2 DEF Writer
<1>4. wr' = [wr EXCEPT ![w] = rec] /\ overlap' \in BOOLEAN
  BY DEF Load, TypeOK
<1> HIDE DEF rec
<1> QED BY <1>3, <1>4, WriterType DEF TypeOK

LEMMA RestTypeOK ==
    ASSUME TypeOK, NEW w \in Writers, wr' = [wr EXCEPT ![w] = Resting],
           snap' \in {snap, DotDir}, deaths' \in 0..MaxCrashes,
           UNCHANGED <<files, log, manifest, sub, overlap>>
    PROVE  TypeOK'
<1>1. snap' \in [files : Contents, manifest : Manifest]
  BY DEF TypeOK, DotDir
<1> QED BY <1>1, RestingOK, WriterType DEF TypeOK

LEMMA WriteFileTypeOK ==
    ASSUME TypeOK, NEW w \in Writers, NEW f \in Files, WriteFile(w, f)
    PROVE  TypeOK'
<1> DEFINE rec == [wr[w] EXCEPT !.todo = @ \ {f}]
<1>1. wr[w] \in Writer /\ wr[w].todo \subseteq DOMAIN wr[w].patch /\ f \in wr[w].todo
  BY DEF TypeOK, WriteFile
<1>2. rec \in Writer /\ rec.todo \subseteq DOMAIN rec.patch
  BY <1>1 DEF Writer
<1>3. wr' = [wr EXCEPT ![w] = rec]
  BY DEF WriteFile
<1>4. wr[w].patch[f] \in Vals \cup {Absent}
  BY <1>1, CommitAssumption DEF Writer
<1>5. files' \in Contents
  BY <1>4 DEF WriteFile, TypeOK, Contents
<1> HIDE DEF rec
<1> QED BY <1>2, <1>3, <1>5, WriterType DEF TypeOK, WriteFile

LEMMA AppendEventTypeOK ==
    ASSUME TypeOK, NEW w \in Writers, AppendEvent(w)
    PROVE  /\ TypeOK'
           /\ Len(log') = Len(log) + 1
           /\ \A i \in 1..Len(log) : log'[i] = log[i]
           /\ log'[Len(log) + 1].version = wr[w].seen + 1
<1> DEFINE rec == [wr[w] EXCEPT !.pc = "hashing"]
           ev == [version |-> NewVersion(w), delta |-> wr[w].patch]
<1>1. wr[w] \in Writer /\ wr[w].todo \subseteq DOMAIN wr[w].patch
  BY DEF TypeOK
<1>2. rec \in Writer /\ rec.todo \subseteq DOMAIN rec.patch
  BY <1>1 DEF Writer
<1>3. wr' = [wr EXCEPT ![w] = rec]
  BY DEF AppendEvent
<1>4. ev \in Event /\ ev.version = wr[w].seen + 1
  BY <1>1 DEF Event, Writer, NewVersion
<1>5. log' = Append(log, ev) /\ log \in Seq(Event)
  BY DEF AppendEvent, TypeOK
<1> HIDE DEF rec, ev
<1>6. /\ log' \in Seq(Event) /\ Len(log') = Len(log) + 1
      /\ \A i \in 1..Len(log) : log'[i] = log[i]
      /\ log'[Len(log) + 1] = ev
  BY <1>4, <1>5
<1>7. sub \in [on : BOOLEAN, start : Nat, last : Nat, got : SUBSET (1..Len(log'))]
  BY <1>5, <1>6 DEF TypeOK
<1> QED BY <1>2, <1>3, <1>4, <1>6, <1>7, WriterType DEF TypeOK, AppendEvent

LEMMA HashFilesTypeOK ==
    ASSUME TypeOK, NEW w \in Writers, HashFiles(w)
    PROVE  TypeOK'
<1> DEFINE rec == [wr[w] EXCEPT !.pc = "publishing", !.hash = files]
<1>1. rec \in Writer /\ rec.todo \subseteq DOMAIN rec.patch
  BY DEF TypeOK, Writer
<1>2. wr' = [wr EXCEPT ![w] = rec]
  BY DEF HashFiles
<1> HIDE DEF rec
<1> QED BY <1>1, <1>2, WriterType DEF TypeOK, HashFiles

LEMMA WriteManifestTypeOK ==
    ASSUME TypeOK, NEW w \in Writers, WriteManifest(w)
    PROVE  TypeOK' /\ manifest'.version = wr[w].seen + 1
<1> DEFINE rec == [wr[w] EXCEPT !.pc = "checkpoint"]
<1>1. wr[w] \in Writer
  BY DEF TypeOK
<1>2. rec \in Writer /\ rec.todo \subseteq DOMAIN rec.patch
  BY <1>1 DEF TypeOK, Writer
<1>3. wr' = [wr EXCEPT ![w] = rec]
  BY DEF WriteManifest
<1>4. manifest' \in Manifest /\ manifest'.version = wr[w].seen + 1
  BY <1>1 DEF WriteManifest, NewManifest, Manifest, Writer, Current
<1> HIDE DEF rec
<1> QED BY <1>2, <1>3, <1>4, WriterType DEF TypeOK, WriteManifest

LEMMA StreamTypeOK ==
    ASSUME TypeOK, Connect \/ Poll \/ Disconnect
    PROVE  TypeOK'
<1>1. CASE Connect
  BY <1>1 DEF Connect, TypeOK, Manifest
<1>2. CASE Poll
  <2>1. NewEvents(sub.last) \subseteq 1..Len(log)
    BY DEF NewEvents
  <2>2. \A i \in 1..Len(log) : log[i].version \in Nat
    <3>1. \A i \in 1..Len(log) : log[i] \in Event
      BY DEF TypeOK
    <3> QED BY <3>1 DEF Event
  <2>3. PICK v \in {log[i].version : i \in NewEvents(sub.last)} :
           sub' = [sub EXCEPT !.got = @ \cup NewEvents(sub.last), !.last = v]
    BY <1>2 DEF Poll
  <2>4. v \in Nat
    BY <2>1, <2>2, <2>3
  <2>5. sub' \in [on : BOOLEAN, start : Nat, last : Nat, got : SUBSET (1..Len(log))]
    BY <2>1, <2>3, <2>4 DEF TypeOK
  <2> QED BY <1>2, <2>5 DEF Poll, TypeOK
<1>3. CASE Disconnect
  BY <1>3 DEF Disconnect, Offline, TypeOK
<1> QED BY <1>1, <1>2, <1>3

-----------------------------------------------------------------------------
(* The log backs the manifest                                              *)

\* Steps that log nothing keep whatever was logged.
LEMMA SameLog ==
    ASSUME log' = log, NEW v, Logged(v)
    PROVE  Logged(v)'
  BY DEF Logged

LEMMA QuietStep ==
    ASSUME IInv, TypeOK', log' = log, manifest' = manifest, NEW w \in Writers,
           \A v \in Writers : v # w => wr'[v] = wr[v],
           wr'[w].pc \notin {"writing", "hashing", "publishing"}
    PROVE  IInv'
<1>1. Logged(manifest.version)'
  BY SameLog DEF IInv
<1>2. SeenLogged'
  BY SameLog DEF IInv, SeenLogged, Logged
<1> QED BY <1>1, <1>2 DEF IInv

LEMMA LoadLogged ==
    ASSUME IInv, NEW w \in Writers, NEW p \in Patches \cup {<<>>}, Load(w, p),
           UNCHANGED <<files, log, manifest, snap, sub, deaths>>
    PROVE  IInv'
<1>1. TypeOK'
  BY LoadTypeOK DEF IInv
<1>2. /\ wr'[w].pc = "writing" /\ wr'[w].seen = manifest.version
      /\ \A v \in Writers : v # w => wr'[v] = wr[v]
  BY DEF Load, IInv, TypeOK, Writer
<1>3. SeenLogged'
  BY <1>2 DEF IInv, SeenLogged, Logged
<1> QED BY <1>1, <1>3 DEF IInv, Logged

LEMMA StepLogged ==
    ASSUME IInv, [Next]_vars
    PROVE  IInv'
<1> USE DEF IInv
<1>1. ASSUME NEW w \in Writers, NEW p \in Patches, ReadBase(w, p) PROVE IInv'
  <2>1. /\ wr'[w].pc = "based" /\ log' = log /\ manifest' = manifest
        /\ \A v \in Writers : v # w => wr'[v] = wr[v]
    BY <1>1 DEF ReadBase, Resting, TypeOK
  <2>2. TypeOK'
    BY <1>1, ReadBaseTypeOK
  <2> QED BY <2>1, <2>2, QuietStep
<1>2. ASSUME NEW w \in Writers, Accept(w) PROVE IInv'
  <2>1. wr[w].patch \in Patches \cup {<<>>}
    BY DEF TypeOK, Writer
  <2> QED BY <1>2, <2>1, LoadLogged DEF Accept
<1>3. ASSUME NEW w \in Writers, Refuse(w) \/ Checkpoint(w) \/ Kill(w) PROVE IInv'
  <2>1. /\ wr' = [wr EXCEPT ![w] = Resting] /\ log' = log /\ manifest' = manifest
        /\ snap' \in {snap, DotDir} /\ UNCHANGED <<files, sub, overlap>>
    BY <1>3 DEF Refuse, Checkpoint, Kill
  <2>2. deaths' \in 0..MaxCrashes
    BY <1>3, CommitAssumption DEF Refuse, Checkpoint, Kill, TypeOK
  <2>3. TypeOK'
    BY <2>1, <2>2, RestTypeOK
  <2>4. wr'[w].pc = "idle" /\ \A v \in Writers : v # w => wr'[v] = wr[v]
    BY <2>1 DEF TypeOK, Resting
  <2> QED BY <2>1, <2>3, <2>4, QuietStep
<1>4. ASSUME NEW w \in Writers, NEW f \in Files, WriteFile(w, f) PROVE IInv'
  <2>1. TypeOK' /\ log' = log /\ manifest' = manifest
    BY <1>4, WriteFileTypeOK DEF WriteFile
  <2>2. \A v \in Writers : wr'[v].pc = wr[v].pc /\ wr'[v].seen = wr[v].seen
    BY <1>4 DEF WriteFile, TypeOK, Writer
  <2>3. SeenLogged'
    BY <2>1, <2>2 DEF SeenLogged, Logged
  <2> QED BY <2>1, <2>3 DEF Logged
<1>5. ASSUME NEW w \in Writers, AppendEvent(w) PROVE IInv'
  <2>1. /\ TypeOK' /\ Len(log') = Len(log) + 1
        /\ \A i \in 1..Len(log) : log'[i] = log[i]
        /\ log'[Len(log) + 1].version = wr[w].seen + 1
    BY <1>5, AppendEventTypeOK
  <2>2. /\ wr[w].pc = "writing" /\ manifest' = manifest
        /\ \A v \in Writers : wr'[v].seen = wr[v].seen
        /\ \A v \in Writers : v # w => wr'[v] = wr[v]
    BY <1>5 DEF AppendEvent, TypeOK, Writer
  <2>3. Len(log) \in Nat /\ wr[w].seen \in Nat
    BY DEF TypeOK, Writer
  <2>4. ASSUME NEW v, Logged(v) PROVE Logged(v)'
    BY <2>1, <2>3, <2>4 DEF Logged
  <2>5. \A u \in 1..wr[w].seen : \E i \in 1..Len(log) : log[i].version = u
    BY <2>2 DEF SeenLogged, Logged
  <2>6. ASSUME NEW u \in 1..(wr[w].seen + 1)
        PROVE  \E i \in 1..Len(log') : log'[i].version = u
    <3>1. CASE u \in 1..wr[w].seen
      <4>1. PICK i \in 1..Len(log) : log[i].version = u
        BY <2>5, <3>1
      <4>2. i \in 1..Len(log') /\ log'[i] = log[i]
        BY <2>1, <2>3
      <4> QED BY <4>1, <4>2
    <3>2. CASE u = wr[w].seen + 1
      BY <2>1, <2>3, <3>2
    <3> QED BY <2>3, <3>1, <3>2
  <2>7. SeenLogged'
    <3> SUFFICES ASSUME NEW v \in Writers
                 PROVE /\ wr'[v].pc \in {"writing", "hashing", "publishing"} => Logged(wr[v].seen)'
                       /\ wr'[v].pc \in {"hashing", "publishing"} => Logged(wr[v].seen + 1)'
      BY <2>2 DEF SeenLogged, Logged
    <3>1. CASE v = w
      <4>1. \A u \in 1..wr[w].seen : u \in 1..(wr[w].seen + 1)
        BY <2>3
      <4> QED BY <2>2, <2>6, <3>1, <4>1 DEF Logged
    <3>2. CASE v # w
      BY <2>2, <2>4, <3>2 DEF SeenLogged
    <3> QED BY <3>1, <3>2
  <2>8. Logged(manifest.version)'
    BY <2>2, <2>4 DEF Logged
  <2> QED BY <2>1, <2>7, <2>8
<1>6. ASSUME NEW w \in Writers, HashFiles(w) PROVE IInv'
  <2>1. TypeOK' /\ log' = log /\ manifest' = manifest
    BY <1>6, HashFilesTypeOK DEF HashFiles
  <2>2. /\ \A v \in Writers : wr'[v].seen = wr[v].seen
        /\ \A v \in Writers : v # w => wr'[v].pc = wr[v].pc
        /\ wr[w].pc = "hashing"
    BY <1>6 DEF HashFiles, TypeOK, Writer
  <2>3. SeenLogged'
    BY <2>1, <2>2 DEF SeenLogged, Logged
  <2> QED BY <2>1, <2>3 DEF Logged
<1>7. ASSUME NEW w \in Writers, WriteManifest(w) PROVE IInv'
  <2>1. TypeOK' /\ manifest'.version = wr[w].seen + 1 /\ log' = log
    BY <1>7, WriteManifestTypeOK DEF WriteManifest
  <2>2. /\ wr[w].pc = "publishing" /\ wr'[w].pc = "checkpoint"
        /\ \A v \in Writers : v # w => wr'[v] = wr[v]
    BY <1>7 DEF WriteManifest, TypeOK, Writer
  <2>3. Logged(manifest.version)'
    BY <2>1, <2>2 DEF SeenLogged, Logged
  <2>4. SeenLogged'
    BY <2>1, <2>2 DEF SeenLogged, Logged
  <2> QED BY <2>1, <2>3, <2>4
<1>8. ASSUME NEW w \in Writers, Migrate(w) PROVE IInv'
  BY <1>8, LoadLogged DEF Migrate
<1>9. ASSUME Connect \/ Poll \/ Disconnect PROVE IInv'
  <2>1. TypeOK' /\ log' = log /\ manifest' = manifest /\ wr' = wr
    BY <1>9, StreamTypeOK DEF Connect, Poll, Disconnect
  <2> QED BY <2>1 DEF SeenLogged, Logged
<1>10. CASE UNCHANGED vars
  BY <1>10 DEF vars, TypeOK, SeenLogged, Logged
<1> QED BY <1>1, <1>2, <1>3, <1>4, <1>5, <1>6, <1>7, <1>8, <1>9, <1>10 DEF Next, WriterStep

\* Types and the log's hold on the manifest are kept by every step.
LEMMA Inductive == Spec => []IInv
<1>1. Init => IInv
  <2> SUFFICES ASSUME Init PROVE IInv
    OBVIOUS
  <2>1. TypeOK
    BY InitTypeOK
  <2>2. manifest.version = 0 /\ \A w \in Writers : wr[w].pc = "idle"
    BY DEF Init, Resting
  <2> QED BY <2>1, <2>2 DEF IInv, SeenLogged, Logged
<1>2. IInv /\ [Next]_vars => IInv'
  BY StepLogged
<1> QED BY <1>1, <1>2, PTL DEF Spec

\* Whatever the writers do, records stay well formed and a writer only has
\* files of its own patch left to write (apply_patch's write loops).
THEOREM TypeCorrect == Spec => []TypeOK
<1>1. IInv => TypeOK
  BY DEF IInv
<1> QED BY <1>1, Inductive, PTL

\* However many writers race and wherever they die, every version the manifest
\* ever names is in the event log (append_event precedes write_manifest, and a
\* writer numbers its event from a manifest it loaded).
THEOREM LogBacksManifest == Spec => []ManifestBacked
<1>1. IInv => ManifestBacked
  BY DEF IInv, Logged, ManifestBacked
<1> QED BY <1>1, Inductive, PTL

-----------------------------------------------------------------------------
(* Writers that take turns                                                 *)

OneWriter == \A v, w \in Writers : InCommit(v) /\ InCommit(w) => v = w

\* The manifest is the one the writer loaded until it replaces it, and no
\* other writer changes a file after it was hashed.
HoldsHead(w) ==
    /\ wr[w].pc \in {"writing", "hashing", "publishing"} => wr[w].seen = manifest.version
    /\ wr[w].pc = "publishing" => wr[w].hash = files
    /\ wr[w].pc = "checkpoint" => manifest.version = wr[w].seen + 1 /\ manifest.hash = files

TakingTurns == Alone => OneWriter /\ (\A w \in Writers : HoldsHead(w)) /\ LogOneAhead

\* Between AppendEvent and WriteManifest the log is one event ahead.
Ahead(w) == wr[w].pc \in {"hashing", "publishing"}

\* The files as w has to have left them: its patch, as far as it was written,
\* over the files the manifest was made from.
Written(w) ==
    [f \in Files |-> IF f \in DOMAIN wr[w].patch \ wr[w].todo THEN wr[w].patch[f]
                                                             ELSE manifest.hash[f]]

HoldsPatch(w) ==
    /\ wr[w].pc \in {"writing", "hashing", "publishing"} => files = Written(w)
    /\ Ahead(w) => /\ wr[w].todo = {} /\ Len(log) = manifest.version + 1
                   /\ log[manifest.version + 1].delta = wr[w].patch

\* Nobody died either: one event for each version, files that differ from the
\* manifest by the patch of the writer at work, a subscriber that missed nothing.
NothingLost ==
    Calm => /\ \A w \in Writers : HoldsPatch(w)
            /\ (\A w \in Writers : ~Ahead(w)) => Len(log) = manifest.version
            /\ (\A w \in Writers : ~InCommit(w)) => files = manifest.hash
            /\ \A i \in 1..Len(log) : log[i].version = i
            /\ snap.manifest.hash = snap.files
            /\ sub.on => sub.last <= Len(log)
            /\ Streamed

Ordered == TypeOK /\ TakingTurns /\ NothingLost

LEMMA VersionsAreNat ==
    ASSUME TypeOK
    PROVE  manifest.version \in Nat /\ \A i \in 1..Len(log) : log[i].version \in Nat
<1>1. \A i \in 1..Len(log) : log[i] \in Event
  BY DEF TypeOK
<1> QED BY <1>1 DEF TypeOK, Manifest, Event

LEMMA CalmIsAlone == Calm => Alone
  BY DEF Calm, Alone

\* A writer that comes or goes without having loaded the manifest.
LEMMA OutsideOrdered ==
    ASSUME Ordered, NEW w \in Writers, ~InCommit(w), ~InCommit(w)',
           \A v \in Writers : v # w => wr'[v] = wr[v],
           UNCHANGED <<files, log, manifest, snap, sub, overlap, deaths>>
    PROVE  TakingTurns' /\ NothingLost'
<1>1. \A v \in Writers : (InCommit(v)' <=> InCommit(v)) /\ (Ahead(v)' <=> Ahead(v))
  BY DEF InCommit, Ahead
<1>2. \A v \in Writers : (HoldsHead(v) => HoldsHead(v)') /\ (HoldsPatch(v) => HoldsPatch(v)')
  BY DEF InCommit, Ahead, HoldsHead, HoldsPatch, Written
<1>3. TakingTurns'
  BY <1>1, <1>2 DEF Ordered, TakingTurns, Alone, OneWriter, LogOneAhead
<1>4. NothingLost'
  BY <1>1, <1>2 DEF Ordered, NothingLost, Calm, Streamed
<1> QED BY <1>3, <1>4

\* The overlap that TakingTurns excludes is seen when the manifest is loaded.
LEMMA LoadOrdered ==
    ASSUME Ordered, NEW w \in Writers, ~InCommit(w), NEW p \in Patches \cup {<<>>}, Load(w, p),
           UNCHANGED <<files, log, manifest, snap, sub, deaths>>
    PROVE  TakingTurns' /\ NothingLost'
<1>1. /\ wr'[w].pc = "writing" /\ wr'[w].seen = manifest.version
      /\ wr'[w].patch = p /\ wr'[w].todo = DOMAIN p
      /\ \A v \in Writers : v # w => wr'[v] = wr[v]
  BY DEF Load, Ordered, TypeOK, Writer
<1>2. Alone' => Alone /\ \A v \in Writers : ~InCommit(v)
  BY DEF Load, Alone
<1>3. Alone' => OneWriter' /\ \A v \in Writers : HoldsHead(v)'
  <2> SUFFICES ASSUME Alone' PROVE OneWriter' /\ \A v \in Writers : HoldsHead(v)'
    OBVIOUS
  <2>1. \A v \in Writers : v # w => ~InCommit(v)'
    BY <1>1, <1>2 DEF InCommit
  <2> QED BY <1>1, <2>1 DEF OneWriter, HoldsHead, InCommit
<1>4. TakingTurns'
  BY <1>2, <1>3 DEF Ordered, TakingTurns, LogOneAhead, Alone
<1>5. ASSUME Calm' PROVE NothingLost'
  <2>1. Calm /\ \A v \in Writers : ~InCommit(v) /\ ~Ahead(v)
    BY <1>2, <1>5 DEF Calm, Alone, InCommit, Ahead
  <2>2. files = manifest.hash /\ manifest.hash \in [Files -> Vals \cup {Absent}] /\ Len(log) = manifest.version
    BY <2>1 DEF Ordered, NothingLost, TypeOK, Manifest, Contents
  <2>3. Written(w)' = files
    BY <1>1, <2>2 DEF Written
  <2>4. \A v \in Writers : HoldsPatch(v)' /\ ~Ahead(v)'
    BY <1>1, <2>1, <2>3 DEF HoldsPatch, Ahead, InCommit
  <2>5. InCommit(w)'
    BY <1>1 DEF InCommit
  <2> QED BY <2>1, <2>2, <2>4, <2>5 DEF Ordered, NothingLost, Streamed
<1> QED BY <1>4, <1>5 DEF NothingLost

LEMMA WriteFileOrdered ==
    ASSUME Ordered, NEW w \in Writers, NEW f \in Files, WriteFile(w, f)
    PROVE  TakingTurns' /\ NothingLost'
<1>1. /\ wr[w].pc = "writing" /\ wr'[w].pc = "writing" /\ wr'[w].seen = wr[w].seen
      /\ wr'[w].patch = wr[w].patch /\ wr'[w].todo = wr[w].todo \ {f}
      /\ \A v \in Writers : v # w => wr'[v] = wr[v]
      /\ f \in wr[w].todo /\ wr[w].todo \subseteq DOMAIN wr[w].patch
  BY DEF WriteFile, Ordered, TypeOK, Writer
<1>2. \A v \in Writers : (InCommit(v)' <=> InCommit(v)) /\ (Ahead(v)' <=> Ahead(v))
  BY <1>1 DEF InCommit, Ahead
<1>3. Alone => \A v \in Writers : v # w => ~InCommit(v) /\ ~InCommit(v)'
  BY <1>1, <1>2 DEF Ordered, TakingTurns, OneWriter, InCommit
<1>4. Alone => \A v \in Writers : HoldsHead(v)'
  BY <1>1, <1>3 DEF HoldsHead, Ordered, TakingTurns, InCommit, WriteFile
<1>5. TakingTurns'
  BY <1>2, <1>4 DEF Ordered, TakingTurns, Alone, OneWriter, LogOneAhead, WriteFile
<1>6. ASSUME Calm' PROVE NothingLost'
  <2>1. Calm /\ Alone
    BY <1>6 DEF WriteFile, Calm, Alone
  <2>2. files = Written(w) /\ files \in [Files -> Vals \cup {Absent}]
    BY <1>1, <2>1 DEF Ordered, NothingLost, HoldsPatch, TypeOK, Contents
  <2>3. files' = Written(w)'
    BY <1>1, <2>2 DEF Written, WriteFile
  <2>4. \A v \in Writers : HoldsPatch(v)'
    BY <1>1, <1>3, <2>1, <2>3 DEF HoldsPatch, Ahead, InCommit
  <2>5. InCommit(w)'
    BY <1>1 DEF InCommit
  <2> QED BY <1>2, <2>1, <2>4, <2>5 DEF Ordered, NothingLost, Streamed, WriteFile
<1> QED BY <1>5, <1>6 DEF NothingLost

LEMMA AppendEventOrdered ==
    ASSUME Ordered, NEW w \in Writers, AppendEvent(w)
    PROVE  TakingTurns' /\ NothingLost'
<1>1. /\ wr[w].pc = "writing" /\ wr[w].todo = {} /\ wr'[w].pc = "hashing" /\ wr'[w].seen = wr[w].seen
      /\ wr'[w].patch = wr[w].patch /\ wr'[w].todo = wr[w].todo
      /\ \A v \in Writers : v # w => wr'[v] = wr[v]
      /\ UNCHANGED <<files, manifest, snap, sub, overlap, deaths>>
  BY DEF AppendEvent, AllWritten, Ordered, TypeOK, Writer
<1>2. /\ Len(log) \in Nat /\ Len(log') = Len(log) + 1
      /\ \A i \in 1..Len(log) : log'[i] = log[i]
      /\ log'[Len(log) + 1].version = wr[w].seen + 1
      /\ log'[Len(log) + 1].delta = wr[w].patch
  <2>1. log \in Seq(Event)
    BY DEF Ordered, TypeOK
  <2> QED BY <2>1 DEF AppendEvent, NewVersion
<1>3. \A v \in Writers : InCommit(v)' <=> InCommit(v)
  BY <1>1 DEF InCommit
<1>4. Alone => \A v \in Writers : v # w => ~InCommit(v) /\ ~InCommit(v)'
  BY <1>1, <1>3 DEF Ordered, TakingTurns, OneWriter, InCommit
<1>5. Alone => wr[w].seen = manifest.version /\ \A v \in Writers : HoldsHead(v)'
  BY <1>1, <1>4 DEF HoldsHead, Ordered, TakingTurns, InCommit
<1>6. manifest.version \in Nat /\ \A i \in 1..Len(log) : log[i].version \in Nat
  BY VersionsAreNat DEF Ordered
<1>7. Alone => LogOneAhead'
  <2> SUFFICES ASSUME Alone
               PROVE  /\ \A i \in 1..Len(log') : log'[i].version <= manifest.version + 1
                      /\ \A i, j \in 1..Len(log') : i < j => log'[i].version <= log'[j].version
    BY <1>1 DEF LogOneAhead
  <2>1. LogOneAhead
    BY DEF Ordered, TakingTurns
  <2>2. \A i \in 1..Len(log') : i \in 1..Len(log) \/ i = Len(log) + 1
    BY <1>2
  <2>3. ASSUME NEW i \in 1..Len(log') PROVE log'[i].version <= manifest.version + 1
    BY <1>2, <1>5, <1>6, <2>1, <2>2 DEF LogOneAhead
  <2>4. ASSUME NEW i \in 1..Len(log'), NEW j \in 1..Len(log'), i < j
        PROVE  log'[i].version <= log'[j].version
    <3>1. CASE j = Len(log) + 1
      BY <1>2, <1>5, <2>3, <3>1
    <3>2. CASE j \in 1..Len(log)
      <4>1. i \in 1..Len(log)
        BY <1>2, <2>4, <3>2
      <4> QED BY <1>2, <2>1, <2>4, <3>2, <4>1 DEF LogOneAhead
    <3> QED BY <2>2, <3>1, <3>2
  <2> QED BY <2>3, <2>4
<1>8. TakingTurns'
  BY <1>1, <1>3, <1>5, <1>7 DEF Ordered, TakingTurns, Alone, OneWriter
<1>9. ASSUME Calm' PROVE NothingLost'
  <2>1. Calm /\ Alone
    BY <1>1, <1>9 DEF Calm, Alone
  <2>2. Len(log) = manifest.version
    BY <1>1, <1>4, <2>1 DEF Ordered, NothingLost, Ahead, InCommit
  <2>3. \A v \in Writers : HoldsPatch(v)'
    BY <1>1, <1>2, <1>4, <2>1, <2>2 DEF Ordered, NothingLost, HoldsPatch, Written, Ahead, InCommit
  <2>4. \A i \in 1..Len(log') : log'[i].version = i
    <3>1. \A i \in 1..Len(log') : i \in 1..Len(log) \/ i = Len(log) + 1
      BY <1>2
    <3> QED BY <1>2, <1>5, <2>1, <2>2, <3>1 DEF Ordered, NothingLost
  <2>5. InCommit(w)' /\ Ahead(w)'
    BY <1>1 DEF InCommit, Ahead
  <2>6. sub'.on => sub'.last <= Len(log') /\ Streamed'
    <3> SUFFICES ASSUME sub.on PROVE sub.last <= Len(log') /\ Streamed'
      BY <1>1
    <3>1. sub.last \in Nat /\ sub.last <= Len(log) /\ Streamed
      BY <2>1 DEF Ordered, NothingLost, TypeOK
    <3>2. sub.last <= Len(log')
      BY <1>2, <3>1
    <3>3. ASSUME NEW i \in 1..Len(log'), sub.start < log'[i].version, log'[i].version <= sub.last
          PROVE  i \in sub.got
      <4>1. i <= sub.last
        BY <2>4, <3>3
      <4>2. i \in 1..Len(log) /\ log'[i] = log[i]
        BY <1>2, <3>1, <4>1
      <4> QED BY <3>1, <3>3, <4>2 DEF Streamed
    <3> QED BY <1>1, <3>2, <3>3 DEF Streamed
  <2> QED BY <1>1, <2>1, <2>3, <2>4, <2>5, <2>6 DEF Ordered, NothingLost, Streamed
<1> QED BY <1>8, <1>9 DEF NothingLost

LEMMA HashFilesOrdered ==
    ASSUME Ordered, NEW w \in Writers, HashFiles(w)
    PROVE  TakingTurns' /\ NothingLost'
<1>1. /\ wr[w].pc = "hashing" /\ wr'[w].pc = "publishing" /\ wr'[w].seen = wr[w].seen
      /\ wr'[w].patch = wr[w].patch /\ wr'[w].todo = wr[w].todo /\ wr'[w].hash = files
      /\ \A v \in Writers : v # w => wr'[v] = wr[v]
      /\ UNCHANGED <<files, log, manifest, snap, sub, overlap, deaths>>
  BY DEF HashFiles, Ordered, TypeOK, Writer
<1>2. \A v \in Writers : (InCommit(v)' <=> InCommit(v)) /\ (Ahead(v)' <=> Ahead(v))
  BY <1>1 DEF InCommit, Ahead
<1>3. \A v \in Writers : HoldsHead(v) => HoldsHead(v)'
  BY <1>1 DEF HoldsHead
<1>4. \A v \in Writers : HoldsPatch(v) => HoldsPatch(v)'
  BY <1>1 DEF HoldsPatch, Written, Ahead
<1>5. TakingTurns'
  BY <1>1, <1>2, <1>3 DEF Ordered, TakingTurns, Alone, OneWriter, LogOneAhead
<1>6. NothingLost'
  BY <1>1, <1>2, <1>4 DEF Ordered, NothingLost, Calm, Streamed
<1> QED BY <1>5, <1>6

LEMMA WriteManifestOrdered ==
    ASSUME Ordered, NEW w \in Writers, WriteManifest(w)
    PROVE  TakingTurns' /\ NothingLost'
<1>1. /\ wr[w].pc = "publishing" /\ wr'[w].pc = "checkpoint" /\ wr'[w].seen = wr[w].seen
      /\ wr'[w].patch = wr[w].patch
      /\ manifest'.version = wr[w].seen + 1 /\ manifest'.hash = wr[w].hash
      /\ \A v \in Writers : v # w => wr'[v] = wr[v]
      /\ UNCHANGED <<files, log, snap, sub, overlap, deaths>>
  BY DEF WriteManifest, NewManifest, Ordered, TypeOK, Writer
<1>2. \A v \in Writers : InCommit(v)' <=> InCommit(v)
  BY <1>1 DEF InCommit
<1>3. Alone => \A v \in Writers : v # w => ~InCommit(v) /\ ~InCommit(v)'
  BY <1>1, <1>2 DEF Ordered, TakingTurns, OneWriter, InCommit
<1>4. Alone => wr[w].seen = manifest.version /\ \A v \in Writers : HoldsHead(v)'
  BY <1>1, <1>3 DEF HoldsHead, Ordered, TakingTurns, InCommit
<1>5. manifest.version \in Nat /\ \A i \in 1..Len(log) : log[i].version \in Nat
  BY VersionsAreNat DEF Ordered
<1>6. Alone => LogOneAhead'
  BY <1>1, <1>4, <1>5 DEF Ordered, TakingTurns, LogOneAhead
<1>7. TakingTurns'
  BY <1>1, <1>2, <1>4, <1>6 DEF Ordered, TakingTurns, Alone, OneWriter
<1>8. ASSUME Calm' PROVE NothingLost'
  <2>1. Calm /\ Alone
    BY <1>1, <1>8 DEF Calm, Alone
  <2>2. Len(log) = manifest'.version /\ InCommit(w)'
    BY <1>1, <1>4, <2>1 DEF Ordered, NothingLost, HoldsPatch, Ahead, InCommit
  <2>3. \A v \in Writers : ~Ahead(v)' /\ HoldsPatch(v)'
    BY <1>1, <1>3, <2>1 DEF HoldsPatch, Ahead, InCommit
  <2> QED BY <1>1, <2>1, <2>2, <2>3 DEF Ordered, NothingLost, Streamed
<1> QED BY <1>7, <1>8 DEF NothingLost

LEMMA CheckpointOrdered ==
    ASSUME Ordered, NEW w \in Writers, Checkpoint(w)
    PROVE  TakingTurns' /\ NothingLost'
<1>1. /\ wr[w].pc = "checkpoint" /\ wr'[w].pc = "idle"
      /\ \A v \in Writers : v # w => wr'[v] = wr[v]
      /\ UNCHANGED <<files, log, manifest, sub, overlap, deaths>>
      /\ snap' = snap \/ (snap'.files = files /\ snap'.manifest = manifest)
  BY DEF Checkpoint, DotDir, Resting, Ordered, TypeOK
<1>2. \A v \in Writers : (InCommit(v)' => InCommit(v)) /\ (Ahead(v)' <=> Ahead(v))
  BY <1>1 DEF InCommit, Ahead
<1>3. \A v \in Writers : (HoldsHead(v) => HoldsHead(v)') /\ (HoldsPatch(v) => HoldsPatch(v)')
  BY <1>1 DEF HoldsHead, HoldsPatch, Ahead, Written
<1>4. Alone => manifest.hash = files
  BY <1>1 DEF Ordered, TakingTurns, HoldsHead
<1>5. TakingTurns'
  BY <1>1, <1>2, <1>3 DEF Ordered, TakingTurns, Alone, OneWriter, LogOneAhead
<1>6. NothingLost'
  BY <1>1, <1>2, <1>3, <1>4, CalmIsAlone DEF Ordered, NothingLost, Calm, Streamed
<1> QED BY <1>5, <1>6

\* A death ends the calm; the writer that is gone holds up nobody.
LEMMA KillOrdered ==
    ASSUME Ordered, NEW w \in Writers, Kill(w)
    PROVE  TakingTurns' /\ NothingLost'
<1>1. /\ wr'[w].pc = "idle" /\ \A v \in Writers : v # w => wr'[v] = wr[v]
      /\ UNCHANGED <<files, log, manifest, snap, sub, overlap>>
  BY DEF Kill, Resting, Ordered, TypeOK
<1>2. ~Calm'
  BY DEF Kill, Calm, Ordered, TypeOK
<1>3. \A v \in Writers : (InCommit(v)' => InCommit(v)) /\ (HoldsHead(v) => HoldsHead(v)')
  BY <1>1 DEF InCommit, HoldsHead
<1> QED BY <1>1, <1>2, <1>3 DEF Ordered, TakingTurns, NothingLost, Alone, OneWriter, LogOneAhead

LEMMA VersionIsLogged ==
    ASSUME Ordered, Calm
    PROVE  manifest.version \in Nat /\ manifest.version <= Len(log)
<1>1. manifest.version \in Nat /\ Len(log) \in Nat
  BY DEF Ordered, TypeOK, Manifest
<1> QED BY <1>1 DEF Ordered, NothingLost, HoldsPatch

\* One pass over a log without a gap sends all that was not sent.
LEMMA PollComplete ==
    ASSUME Ordered, Calm, Poll
    PROVE  sub'.last <= Len(log) /\ Streamed'
<1>1. Len(log) \in Nat /\ \A i \in 1..Len(log) : log[i].version = i
  BY DEF Ordered, TypeOK, NothingLost
<1>2. sub.on /\ sub.last \in Nat /\ sub.last <= Len(log) /\ Streamed /\ log' = log
  BY DEF Poll, Ordered, TypeOK, NothingLost
<1>3. NewEvents(sub.last) = {i \in 1..Len(log) : i > sub.last}
  BY <1>1 DEF NewEvents
<1>4. PICK v \in {log[i].version : i \in NewEvents(sub.last)} :
         sub' = [sub EXCEPT !.got = @ \cup NewEvents(sub.last), !.last = v]
  BY DEF Poll
<1>5. v \in 1..Len(log)
  BY <1>1, <1>3, <1>4
<1>6. /\ sub'.on = sub.on /\ sub'.start = sub.start /\ sub'.last = v
      /\ sub'.got = sub.got \cup NewEvents(sub.last)
  BY <1>4 DEF Ordered, TypeOK
<1>7. ASSUME NEW i \in 1..Len(log), sub.start < i, i <= v PROVE i \in sub'.got
  <2>1. CASE i <= sub.last
    BY <1>1, <1>2, <1>6, <1>7, <2>1 DEF Streamed
  <2>2. CASE ~(i <= sub.last)
    BY <1>2, <1>3, <1>6, <2>2
  <2> QED BY <2>1, <2>2
<1>8. Streamed'
  BY <1>1, <1>2, <1>6, <1>7 DEF Streamed
<1> QED BY <1>5, <1>6, <1>8

LEMMA StreamOrdered ==
    ASSUME Ordered, Connect \/ Poll \/ Disconnect
    PROVE  TakingTurns' /\ NothingLost'
<1>1. UNCHANGED <<files, log, manifest, snap, wr, overlap, deaths>>
  BY DEF Connect, Poll, Disconnect
<1>2. TakingTurns'
  BY <1>1 DEF Ordered, TakingTurns, Alone, OneWriter, InCommit, HoldsHead, LogOneAhead
<1>3. ASSUME Calm PROVE (sub'.on => sub'.last <= Len(log')) /\ Streamed'
  <2>1. manifest.version <= Len(log) /\ manifest.version \in Nat
    BY <1>3, VersionIsLogged
  <2>2. CASE Connect
    <3>1. sub'.start = manifest.version /\ sub'.last = manifest.version
      BY <2>2 DEF Connect
    <3> QED BY <1>1, <2>1, <3>1, VersionsAreNat DEF Streamed, Ordered
  <2>3. CASE Poll
    BY <1>1, <1>3, <2>3, PollComplete
  <2>4. CASE Disconnect
    BY <2>4 DEF Disconnect, Offline, Streamed
  <2> QED BY <2>2, <2>3, <2>4
<1>4. NothingLost'
  BY <1>1, <1>3 DEF Ordered, NothingLost, Calm, HoldsPatch, Ahead, InCommit, Written
<1> QED BY <1>2, <1>4

LEMMA StepOrdered ==
    ASSUME Ordered, [Next]_vars
    PROVE  TakingTurns' /\ NothingLost'
<1>1. ASSUME NEW w \in Writers, NEW p \in Patches, ReadBase(w, p) PROVE TakingTurns' /\ NothingLost'
  BY <1>1, OutsideOrdered DEF ReadBase, InCommit, Resting, Ordered, TypeOK
<1>2. ASSUME NEW w \in Writers, Refuse(w) PROVE TakingTurns' /\ NothingLost'
  BY <1>2, OutsideOrdered DEF Refuse, InCommit, Resting, Ordered, TypeOK
<1>3. ASSUME NEW w \in Writers, Accept(w) \/ Migrate(w) PROVE TakingTurns' /\ NothingLost'
  <2>1. ~InCommit(w) /\ wr[w].patch \in Patches \cup {<<>>}
    BY <1>3 DEF Accept, Migrate, InCommit, Ordered, TypeOK, Writer
  <2> QED BY <1>3, <2>1, LoadOrdered DEF Accept, Migrate
<1>4. ASSUME NEW w \in Writers, NEW f \in Files, WriteFile(w, f) PROVE TakingTurns' /\ NothingLost'
  BY <1>4, WriteFileOrdered
<1>5. ASSUME NEW w \in Writers, AppendEvent(w) \/ HashFiles(w) \/ WriteManifest(w)
                                \/ Checkpoint(w) \/ Kill(w)
      PROVE  TakingTurns' /\ NothingLost'
  BY <1>5, AppendEventOrdered, HashFilesOrdered, WriteManifestOrdered, CheckpointOrdered, KillOrdered
<1>6. CASE Connect \/ Poll \/ Disconnect
  BY <1>6, StreamOrdered
<1>7. CASE UNCHANGED vars
  BY <1>7 DEF vars, Ordered, TakingTurns, NothingLost, Alone, Calm, OneWriter, HoldsHead, HoldsPatch,
              Written, Ahead, InCommit, LogOneAhead, Streamed
<1> QED BY <1>1, <1>2, <1>3, <1>4, <1>5, <1>6, <1>7 DEF Next, WriterStep

LEMMA InitOrdered == Init => TakingTurns /\ NothingLost
<1> SUFFICES ASSUME Init PROVE TakingTurns /\ NothingLost
  OBVIOUS
<1>1. /\ \A w \in Writers : wr[w].pc = "idle"
      /\ Len(log) = 0 /\ manifest.version = 0 /\ manifest.hash = files
      /\ snap.files = files /\ snap.manifest = manifest /\ ~sub.on
  BY DEF Init, Resting, DotDir, Offline
<1> QED BY <1>1 DEF TakingTurns, NothingLost, OneWriter, HoldsHead, HoldsPatch, Ahead, InCommit,
                    LogOneAhead, Streamed

LEMMA AlwaysOrdered == Spec => []Ordered
<1>1. Init => TakingTurns /\ NothingLost
  BY InitOrdered
<1>2. TypeOK /\ (TakingTurns /\ NothingLost) /\ [Next]_vars => (TakingTurns /\ NothingLost)'
  BY StepOrdered DEF Ordered
<1>3. Ordered <=> TypeOK /\ (TakingTurns /\ NothingLost)
  BY DEF Ordered
<1> QED BY <1>1, <1>2, <1>3, TypeCorrect, PTL DEF Spec

\* While writers take turns, and wherever one of them dies, the log is at most
\* one event ahead of the manifest and never goes back; and the Receipt of
\* apply_patch reports the head: nobody moved it since write_manifest.
THEOREM HeadIsFollowed == Spec => []HeadFollowsLog
<1>1. Ordered => HeadFollowsLog
  BY DEF Ordered, TakingTurns, HeadFollowsLog, LogOneAhead, ReceiptIsHead, HoldsHead, Alone
<1> QED BY <1>1, AlwaysOrdered, PTL

\* While writers take turns and none dies, a checkpoint (maybe_checkpoint) is
\* one doctor accepts and the stream (_event_stream) has sent every event
\* since it was opened.
THEOREM CommitsAreSeenWhole == Spec => []ReadersSeeCommits
<1>1. Ordered => ReadersSeeCommits
  BY DEF Ordered, NothingLost, ReadersSeeCommits, CheckpointCoherent, StreamComplete
<1> QED BY <1>1, AlwaysOrdered, PTL

-----------------------------------------------------------------------------
(* Commit implements GraphLog                                              *)

LEMMA CalmLasts ==
    ASSUME Ordered, [Next]_vars, Calm'
    PROVE  Calm
<1> USE DEF Calm
<1>1. deaths \in Nat /\ overlap \in BOOLEAN
  BY CommitAssumption DEF Ordered, TypeOK
<1>2. deaths' = deaths \/ deaths' = deaths + 1
  BY DEF Next, WriterStep, vars, ReadBase, Accept, Refuse, WriteFile, AppendEvent, HashFiles,
         WriteManifest, Checkpoint, Migrate, Kill, Connect, Poll, Disconnect
<1>3. overlap => overlap'
  BY DEF Next, WriterStep, vars, ReadBase, Accept, Load, Refuse, WriteFile, AppendEvent, HashFiles,
         WriteManifest, Checkpoint, Migrate, Kill, Connect, Poll, Disconnect
<1> QED BY <1>1, <1>2, <1>3

LEMMA OnlyAppendLogs ==
    ASSUME [Next]_vars
    PROVE  log' = log \/ \E w \in Writers : AppendEvent(w)
  BY DEF Next, WriterStep, vars, ReadBase, Accept, Refuse, WriteFile, HashFiles,
         WriteManifest, Checkpoint, Migrate, Kill, Connect, Poll, Disconnect

LEMMA OnlyWriteManifest ==
    ASSUME [Next]_vars
    PROVE  manifest' = manifest \/ \E w \in Writers : WriteManifest(w)
  BY DEF Next, WriterStep, vars, ReadBase, Accept, Refuse, WriteFile, AppendEvent, HashFiles,
         Checkpoint, Migrate, Kill, Connect, Poll, Disconnect

\* The part of the log the manifest names does not change when the log grows,
\* and takes the next event when the manifest does.
LEMMA AppendKeepsPrefix ==
    ASSUME NEW S, NEW s \in Seq(S), NEW e \in S, NEW n \in Nat, n <= Len(s)
    PROVE  SubSeq(Append(s, e), 1, n) = SubSeq(s, 1, n)
  OBVIOUS

LEMMA PrefixTakesNext ==
    ASSUME NEW S, NEW s \in Seq(S), NEW n \in Nat, n + 1 <= Len(s)
    PROVE  SubSeq(s, 1, n + 1) = Append(SubSeq(s, 1, n), s[n + 1])
  OBVIOUS

\* write_manifest publishes what append_event logged: the files of the patch
\* over those of the version before.
LEMMA ManifestPublishes ==
    ASSUME Ordered, Calm, NEW w \in Writers, WriteManifest(w)
    PROVE  Promise!Publish
<1> DEFINE n == manifest.version
<1>1. /\ wr[w].pc = "publishing" /\ manifest'.version = wr[w].seen + 1
      /\ manifest'.hash = wr[w].hash /\ UNCHANGED <<log, overlap, deaths>>
  BY DEF WriteManifest, NewManifest
<1>2. wr[w].seen = n /\ wr[w].hash = files
  BY <1>1, CalmIsAlone DEF Ordered, TakingTurns, HoldsHead
<1>3. wr[w].todo = {} /\ Len(log) = n + 1 /\ log[n + 1].delta = wr[w].patch /\ files = Written(w)
  BY <1>1 DEF Ordered, NothingLost, HoldsPatch, Ahead
<1>4. n \in Nat /\ log \in Seq(Event) /\ log[n + 1] \in Event /\ log[n + 1].version = n + 1
  <2>1. n \in Nat /\ log \in Seq(Event)
    BY DEF Ordered, TypeOK, Manifest
  <2> QED BY <1>3, <2>1 DEF Ordered, NothingLost
<1>5. log[n + 1] = [version |-> n + 1, delta |-> wr[w].patch]
  BY <1>3, <1>4 DEF Event
<1>6. SubSeq(log', 1, manifest'.version) = Append(SubSeq(log, 1, n), log[n + 1])
  BY <1>1, <1>2, <1>3, <1>4, PrefixTakesNext
<1>7. wr[w].patch \in Promise!Deltas
  <2>1. wr[w].patch \in Patches \cup {<<>>}
    BY DEF Ordered, TypeOK, Writer
  <2>2. /\ DOMAIN wr[w].patch \subseteq Files
        /\ wr[w].patch \in [DOMAIN wr[w].patch -> Vals \cup {Absent}]
    <3>1. CASE wr[w].patch \in Patches
      BY <3>1, CommitAssumption
    <3>2. CASE wr[w].patch = <<>>
      <4>1. DOMAIN <<>> = {} /\ <<>> = [i \in {} |-> Absent]
        OBVIOUS
      <4> QED BY <3>2, <4>1
    <3> QED BY <2>1, <3>1, <3>2
  <2> QED BY <2>2 DEF Promise!Deltas
<1>8. manifest'.hash = Promise!Changed(manifest.hash, wr[w].patch)
  BY <1>1, <1>2, <1>3 DEF Written, Promise!Changed
<1>9. Calm /\ Calm'
  BY <1>1 DEF Calm
<1> QED BY <1>1, <1>2, <1>5, <1>6, <1>7, <1>8, <1>9 DEF Promise!Publish

\* No other step of calm writers changes what the promise is about.
LEMMA StepImplements ==
    ASSUME Ordered, [Next]_vars
    PROVE  [Promise!Next]_(Promise!vars)
<1>1. CASE ~Calm'
  BY <1>1 DEF Promise!Next, Calm
<1>2. CASE Calm'
  <2>1. Calm
    BY <1>2, CalmLasts
  <2>2. ASSUME NEW w \in Writers, WriteManifest(w) PROVE Promise!Next
    BY <2>1, <2>2, ManifestPublishes DEF Promise!Next
  <2>3. CASE manifest' = manifest
    <3>1. SubSeq(log', 1, manifest.version) = SubSeq(log, 1, manifest.version)
      <4>1. manifest.version \in Nat /\ manifest.version <= Len(log) /\ log \in Seq(Event)
        BY <2>1, VersionIsLogged DEF Ordered, TypeOK
      <4>2. CASE log' = log
        BY <4>2
      <4>3. ASSUME NEW w \in Writers, AppendEvent(w) PROVE SubSeq(log', 1, manifest.version) = SubSeq(log, 1, manifest.version)
        <5>1. [version |-> NewVersion(w), delta |-> wr[w].patch] \in Event
          BY DEF Ordered, TypeOK, Writer, Event, NewVersion
        <5> QED BY <4>1, <4>3, <5>1, AppendKeepsPrefix DEF AppendEvent
      <4> QED BY <4>2, <4>3, OnlyAppendLogs
    <3> QED BY <1>2, <2>1, <2>3, <3>1 DEF Promise!vars, Calm
  <2> QED BY <2>2, <2>3, OnlyWriteManifest
<1> QED BY <1>1, <1>2

LEMMA InitImplements == Init => Promise!Init
<1> SUFFICES ASSUME Init PROVE Promise!Init
  OBVIOUS
<1>1. manifest.version = 0 /\ manifest.hash = [f \in Files |-> Absent] /\ log = <<>> /\ Calm
  BY DEF Init, Calm
<1>2. SubSeq(log, 1, 0) = <<>>
  BY <1>1
<1> QED BY <1>1, <1>2 DEF Promise!Init

\* Commit implements GraphLog: while writers take turns and none dies, every
\* version is made from the one before it by exactly one logged event, whose
\* patch is the difference of the two.
THEOREM Implementation == Spec => ImplementsGraphLog
<1>1. Init => Promise!Init
  BY InitImplements
<1>2. Ordered /\ [Next]_vars => [Promise!Next]_(Promise!vars)
  BY StepImplements
<1> QED BY <1>1, <1>2, AlwaysOrdered, PTL DEF Spec, ImplementsGraphLog, Promise!Spec
=============================================================================
