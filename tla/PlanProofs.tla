----------------------------- MODULE PlanProofs -----------------------------
(***************************************************************************)
(* Proofs about Plan: types, what the doctor can find between disk and     *)
(* graph, that a plan lands once and a stop signal is resolved once unless *)
(* callers overlap, and that the atoms of a plan have names of their own.  *)
(*                                                                         *)
(* The argument: two callers at one path, or one note, are known to have   *)
(* met (Overlaps).  A caller that met nobody, at a path where no ingest    *)
(* died, still finds the disk and the graph as its checks left them        *)
(* (AsChecked, NotYet, Signals); so what it writes agrees with both.       *)
(* The names derived for tasks are rows of a recursive function.  That the *)
(* rows exist, and that each adds one name that no atom has, is shown of   *)
(* the least row that would not be so: the prover has no induction, but    *)
(* every set of naturals has a least member.                               *)
(***************************************************************************)
EXTENDS Plan, FiniteSetTheorems, WellFoundedInduction, TLAPS

Busy(c) == rq[c].pc # "idle"
PathRaced(p) == <<"path", p>> \in raced
Clean(p) == ~PathRaced(p) /\ <<"ingest", p>> \notin left

Ids == \A f \in files : f.id <= version

\* Two callers at one path or at one note are on record.
Meet(c, d) ==
    /\ Works(c, rq[d].path) /\ Works(d, rq[d].path) => PathRaced(rq[d].path)
    /\ Resolves(c, rq[d].note) /\ Resolves(d, rq[d].note) => <<"note", rq[d].note>> \in raced
Overlaps == \A c, d \in Callers : c # d => Meet(c, d)

\* Which steps a call takes.
Shaped(c) ==
    /\ rq[c].pc = "write" => rq[c].op = "create"
    /\ rq[c].pc \in {"dest", "copy"} => rq[c].op = "ingest"
    /\ rq[c].pc = "refs" => rq[c].op \in Ingests
    /\ rq[c].op = "resolve" => rq[c].pc \in {"base", "apply"}

\* A call finds, or has put, a file on disk or a node in the graph.
Wrote(c) ==
    \/ rq[c].op = "create" /\ rq[c].pc \notin {"idle", "write"}
    \/ rq[c].op \in {"register", "ingest_in_place"} /\ rq[c].pc # "idle"
There(c) ==
    /\ Wrote(c) => disk[rq[c].path] # Nothing
    /\ rq[c].pc = "copy" => Registered(rq[c].path) # {}

\* What a caller checked, or wrote, is still so where nobody interfered.
AsChecked(c) ==
    Clean(rq[c].path) =>
        /\ rq[c].pc = "write" => disk[rq[c].path] = Nothing
        /\ Wrote(c) => disk[rq[c].path] = rq[c].content
        /\ rq[c].op = "ingest" /\ rq[c].pc \notin {"idle", "dest"} => disk[rq[c].path] = Nothing
        /\ rq[c].pc = "copy" => \A f \in Registered(rq[c].path) : f.content = rq[c].content
NotYet(c) ==
    rq[c].op \in Ingests /\ rq[c].pc \notin {"idle", "copy"} /\ ~PathRaced(rq[c].path)
        => Registered(rq[c].path) = {}
Signals(c) ==
    rq[c].op = "resolve" /\ rq[c].pc # "idle" =>
        /\ rq[c].note \in DOMAIN notes
        /\ <<"note", rq[c].note>> \notin raced => notes[rq[c].note] = "open"

Caller(c) == Shaped(c) /\ There(c) /\ AsChecked(c) /\ NotYet(c) /\ Signals(c)
Sound == Overlaps /\ \A c \in Callers : Caller(c)
IInv == TypeOK /\ Ids /\ Sound /\ EveryDriftHasACause /\ OnceUnlessOverlapped

-----------------------------------------------------------------------------
(* Kinds of steps.                                                         *)

WorldStays == UNCHANGED <<block, disk, files, notes, resolved>>
OthersStay(c) == \A d \in Callers : d # c => rq'[d] = rq[d]
SameCall(c) ==
    /\ rq'[c].op = rq[c].op /\ rq'[c].path = rq[c].path
    /\ rq'[c].content = rq[c].content /\ rq'[c].note = rq[c].note
\* A call goes on, without touching the disk or the graph's files and notes.
Moves(c) ==
    /\ rq[c].pc \notin {"idle", "write", "copy"}
    /\ rq'[c].pc \in {"refs", "dir", "newdir", "mkdir", "base", "apply"}
    /\ rq'[c].pc = "refs" => rq[c].op \in Ingests
    /\ rq[c].op = "resolve" => rq'[c].pc \in {"base", "apply"}
    /\ rq[c].pc = "dest" => disk[rq[c].path] = Nothing
    /\ SameCall(c) /\ OthersStay(c)
    /\ WorldStays /\ UNCHANGED <<raced, left>>
\* A call ends, leaving behind what it has half done.
Leaves(c) ==
    /\ rq[c].pc # "idle" /\ rq'[c] = Idle /\ OthersStay(c)
    /\ WorldStays /\ UNCHANGED raced
    /\ left \subseteq left' /\ BrokenOff(c) \subseteq left'

\* Fields of a request that is replaced or changed.
LEMMA RqSet ==
    ASSUME rq \in [Callers -> Request], NEW c \in Callers, NEW r \in Request,
           rq' = [rq EXCEPT ![c] = r]
    PROVE  rq' \in [Callers -> Request] /\ rq'[c] = r /\ OthersStay(c)
  BY DEF OthersStay

LEMMA RqPc ==
    ASSUME rq \in [Callers -> Request], NEW c \in Callers, NEW s \in Steps,
           rq' = [rq EXCEPT ![c].pc = s]
    PROVE  rq' \in [Callers -> Request] /\ rq'[c].pc = s /\ SameCall(c) /\ OthersStay(c)
  <1>1. rq[c] \in Request
    OBVIOUS
  <1>2. [rq[c] EXCEPT !.pc = s] \in Request
    BY <1>1 DEF Request
  <1>3. rq' = [rq EXCEPT ![c] = [rq[c] EXCEPT !.pc = s]]
    OBVIOUS
  <1>4. rq' \in [Callers -> Request] /\ rq'[c] = [rq[c] EXCEPT !.pc = s] /\ OthersStay(c)
    BY <1>2, <1>3, RqSet
  <1> QED
    BY <1>1, <1>4 DEF Request, SameCall

LEMMA RqPcBase ==
    ASSUME rq \in [Callers -> Request], NEW c \in Callers, NEW s \in Steps,
           NEW b \in 0..MaxVersion, rq' = [rq EXCEPT ![c].pc = s, ![c].base = b]
    PROVE  rq' \in [Callers -> Request] /\ rq'[c].pc = s /\ SameCall(c) /\ OthersStay(c)
  <1>1. rq[c] \in Request
    OBVIOUS
  <1>2. [[rq[c] EXCEPT !.pc = s] EXCEPT !.base = b] \in Request
    BY <1>1 DEF Request
  <1>3. rq' = [rq EXCEPT ![c] = [[rq[c] EXCEPT !.pc = s] EXCEPT !.base = b]]
    OBVIOUS
  <1>4. rq' \in [Callers -> Request] /\ rq'[c] = [[rq[c] EXCEPT !.pc = s] EXCEPT !.base = b]
        /\ OthersStay(c)
    BY <1>2, <1>3, RqSet
  <1> QED
    BY <1>1, <1>4 DEF Request, SameCall

LEMMA IdleTyped ==
    Idle \in Request /\ Idle.pc = "idle" /\ Idle.op = "create" /\ Idle.op \notin Ingests
  <1>1. (CHOOSE p \in Paths : TRUE) \in Paths /\ (CHOOSE x \in Contents : TRUE) \in Contents
    BY PlanAssumption
  <1> QED
    BY <1>1, PlanAssumption DEF Idle, Call, Request, Steps, OpKinds, Ingests

-----------------------------------------------------------------------------
(* Steps that leave disk and graph alone.                                  *)

PlansOnly == \A c \in Callers : rq[c].op \in Ingests => rq[c].content \in Plans
LEMMA TypeStays ==
    ASSUME TypeOK, WorldStays, resolves' = resolves,
           version' \in 0..MaxVersion, dirs' \subseteq 0..MaxVersion,
           rq' \in [Callers -> Request], PlansOnly', deaths' \in 0..MaxDeaths,
           left' \subseteq (OpKinds \cup {"user"}) \X Paths,
           raced' \subseteq ({"path"} \X Paths) \cup ({"note"} \X (1..MaxVersion))
    PROVE  TypeOK'
  BY DEF TypeOK, WorldStays, PlansOnly

LEMMA LeavesTyped ==
    ASSUME TypeOK, NEW c \in Callers, WorldStays,
           UNCHANGED <<raced, version, dirs, resolves>>, deaths' \in 0..MaxDeaths,
           rq' = [rq EXCEPT ![c] = Idle],
           left' = left \cup BrokenOff(c)
    PROVE  TypeOK' /\ OthersStay(c) /\ rq'[c] = Idle
  <1>1. rq' \in [Callers -> Request] /\ OthersStay(c) /\ rq'[c] = Idle
    BY RqSet, IdleTyped DEF TypeOK
  <1>2. PlansOnly'
    BY <1>1, IdleTyped DEF PlansOnly, TypeOK, OthersStay
  <1>3. BrokenOff(c) \subseteq OpKinds \X Paths
    BY DEF BrokenOff, TypeOK, Request
  <1>4. left' \subseteq (OpKinds \cup {"user"}) \X Paths
    BY <1>3 DEF TypeOK
  <1> QED
    BY <1>1, <1>2, <1>4, TypeStays DEF TypeOK

LEMMA RefusedLeaves ==
    ASSUME TypeOK, NEW c \in Callers, rq[c].pc # "idle", Refused(c)
    PROVE  Leaves(c) /\ TypeOK' /\ version' = version
  <1>1. TypeOK' /\ OthersStay(c) /\ rq'[c] = Idle
    BY LeavesTyped DEF Refused, TypeOK, WorldStays
  <1> QED
    BY <1>1 DEF Refused, Leaves, WorldStays

LEMMA KillLeaves ==
    ASSUME TypeOK, NEW c \in Callers, Kill(c)
    PROVE  Leaves(c) /\ TypeOK' /\ version' = version
  <1>0. deaths' \in 0..MaxDeaths
    BY PlanAssumption DEF Kill, TypeOK
  <1>1. TypeOK' /\ OthersStay(c) /\ rq'[c] = Idle
    BY <1>0, LeavesTyped DEF Kill, TypeOK, WorldStays
  <1> QED
    BY <1>1 DEF Kill, Leaves, WorldStays

\* A call that goes on with its pc, and what it does to the counters, typed.
LEMMA MovesTyped ==
    ASSUME TypeOK, NEW c \in Callers, WorldStays, UNCHANGED <<raced, left, resolves, deaths>>,
           version' \in 0..MaxVersion, dirs' \subseteq 0..MaxVersion,
           rq' \in [Callers -> Request], SameCall(c), OthersStay(c)
    PROVE  TypeOK'
  <1>1. PlansOnly'
    BY DEF PlansOnly, TypeOK, SameCall, OthersStay
  <1> QED
    BY <1>1, TypeStays DEF TypeOK

LEMMA CheckDestStep ==
    ASSUME TypeOK, NEW c \in Callers, Shaped(c), CheckDest(c)
    PROVE  (Moves(c) \/ Leaves(c)) /\ TypeOK' /\ version' = version
  <1>1. CASE Refused(c)
    BY <1>1, RefusedLeaves DEF CheckDest
  <1>2. CASE /\ disk[rq[c].path] = Nothing
             /\ Goes(c, "refs")
             /\ UNCHANGED <<block, disk, version, dirs, files, notes, resolves, deaths, left, raced, resolved>>
    <2>1. rq' \in [Callers -> Request] /\ rq'[c].pc = "refs" /\ SameCall(c) /\ OthersStay(c)
      BY <1>2, RqPc DEF Goes, TypeOK, Steps
    <2>2. TypeOK'
      BY <1>2, <2>1, MovesTyped DEF TypeOK, WorldStays
    <2>3. Moves(c)
      BY <1>2, <2>1 DEF Moves, WorldStays, CheckDest, Shaped, Ingests
    <2> QED
      BY <1>2, <2>2, <2>3
  <1> QED
    BY <1>1, <1>2 DEF CheckDest

LEMMA PreResolveStep ==
    ASSUME TypeOK, NEW c \in Callers, Shaped(c), PreResolve(c)
    PROVE  (Moves(c) \/ Leaves(c)) /\ TypeOK' /\ version' = version
  <1>1. CASE Refused(c)
    BY <1>1, RefusedLeaves DEF PreResolve
  <1>2. CASE /\ Goes(c, "dir")
             /\ UNCHANGED <<block, disk, version, dirs, files, notes, resolves, deaths, left, raced, resolved>>
    <2>1. rq' \in [Callers -> Request] /\ rq'[c].pc = "dir" /\ SameCall(c) /\ OthersStay(c)
      BY <1>2, RqPc DEF Goes, TypeOK, Steps
    <2>2. TypeOK'
      BY <1>2, <2>1, MovesTyped DEF TypeOK, WorldStays
    <2>3. Moves(c)
      BY <1>2, <2>1 DEF Moves, WorldStays, PreResolve, Shaped, Ingests
    <2> QED
      BY <1>2, <2>2, <2>3
  <1> QED
    BY <1>1, <1>2 DEF PreResolve

LEMMA FindDirStep ==
    ASSUME TypeOK, NEW c \in Callers, Shaped(c), FindDir(c)
    PROVE  Moves(c) /\ TypeOK' /\ version' = version
  <1>1. PICK s \in {"base", "newdir"} : Goes(c, s)
    BY DEF FindDir
  <1>2. rq' \in [Callers -> Request] /\ rq'[c].pc = s /\ SameCall(c) /\ OthersStay(c)
    BY <1>1, RqPc DEF Goes, TypeOK, Steps
  <1>3. TypeOK'
    BY <1>2, MovesTyped DEF TypeOK, WorldStays, FindDir
  <1>4. Moves(c)
    BY <1>2 DEF Moves, WorldStays, FindDir, Shaped
  <1> QED
    BY <1>3, <1>4 DEF FindDir

LEMMA ReadDirBaseStep ==
    ASSUME TypeOK, NEW c \in Callers, Shaped(c), ReadDirBase(c)
    PROVE  Moves(c) /\ TypeOK' /\ version' = version
  <1>1. rq' \in [Callers -> Request] /\ rq'[c].pc = "mkdir" /\ SameCall(c) /\ OthersStay(c)
    BY RqPcBase DEF ReadDirBase, TypeOK, Steps
  <1>2. TypeOK'
    BY <1>1, MovesTyped DEF TypeOK, WorldStays, ReadDirBase
  <1>3. Moves(c)
    BY <1>1 DEF Moves, WorldStays, ReadDirBase, Shaped
  <1> QED
    BY <1>2, <1>3 DEF ReadDirBase

LEMMA ReadBaseStep ==
    ASSUME TypeOK, NEW c \in Callers, Shaped(c), ReadBase(c)
    PROVE  Moves(c) /\ TypeOK' /\ version' = version
  <1>1. rq' \in [Callers -> Request] /\ rq'[c].pc = "apply" /\ SameCall(c) /\ OthersStay(c)
    BY RqPcBase DEF ReadBase, TypeOK, Steps
  <1>2. TypeOK'
    BY <1>1, MovesTyped DEF TypeOK, WorldStays, ReadBase
  <1>3. Moves(c)
    BY <1>1 DEF Moves, WorldStays, ReadBase, Shaped
  <1> QED
    BY <1>2, <1>3 DEF ReadBase

LEMMA MakeDirStep ==
    ASSUME TypeOK, NEW c \in Callers, Shaped(c), MakeDir(c)
    PROVE  (Moves(c) \/ Leaves(c)) /\ TypeOK' /\ version' \in {version, version + 1}
  <1>1. CASE Refused(c)
    BY <1>1, RefusedLeaves DEF MakeDir
  <1>2. CASE /\ version < MaxVersion /\ version' = version + 1
             /\ dirs' = dirs \cup {version + 1}
             /\ rq' = [rq EXCEPT ![c].pc = "base", ![c].base = 0]
             /\ UNCHANGED <<block, disk, files, notes, resolves, deaths, left, raced, resolved>>
    <2>0. 0 \in 0..MaxVersion /\ version + 1 \in 0..MaxVersion
      BY <1>2, PlanAssumption DEF TypeOK
    <2>1. rq' \in [Callers -> Request] /\ rq'[c].pc = "base" /\ SameCall(c) /\ OthersStay(c)
      BY <1>2, <2>0, RqPcBase DEF TypeOK, Steps
    <2>2. TypeOK'
      BY <1>2, <2>0, <2>1, MovesTyped DEF TypeOK, WorldStays
    <2>3. Moves(c)
      BY <1>2, <2>0, <2>1 DEF Moves, WorldStays, MakeDir, Shaped, TypeOK
    <2> QED
      BY <1>2, <2>2, <2>3
  <1> QED
    BY <1>1, <1>2 DEF MakeDir

-----------------------------------------------------------------------------
(* What a step must not do to the others: one caller's part of the          *)
(* invariant depends on its request, its path and its note only.            *)

\* Another caller d keeps its part while disk and graph stay as they are.
LEMMA CallerStays ==
    ASSUME NEW d \in Callers, Caller(d), rq'[d] = rq[d], WorldStays,
           raced \subseteq raced', left \subseteq left'
    PROVE  Caller(d)'
  <1>1. Shaped(d)' /\ There(d)'
    BY DEF Caller, Shaped, There, Wrote, WorldStays, Registered
  <1>2. AsChecked(d)'
    BY DEF Caller, AsChecked, Clean, PathRaced, Wrote, WorldStays, Registered
  <1>3. NotYet(d)' /\ Signals(d)'
    BY DEF Caller, NotYet, Signals, PathRaced, WorldStays, Registered
  <1> QED
    BY <1>1, <1>2, <1>3 DEF Caller

\* Callers meet when one begins, not by going on or leaving.
LEMMA OverlapsStay ==
    ASSUME Overlaps, NEW c \in Callers, OthersStay(c), raced' = raced,
           (SameCall(c) /\ rq[c].pc # "idle") \/ rq'[c].pc = "idle"
    PROVE  Overlaps'
  <1> SUFFICES ASSUME NEW a \in Callers, NEW b \in Callers, a # b PROVE Meet(a, b)'
    BY DEF Overlaps
  <1>1. Meet(a, b)
    BY DEF Overlaps
  <1>2. \A p : Works(a, p)' => Works(a, p)
    BY DEF Works, OthersStay, SameCall
  <1>3. \A p : Works(b, p)' => Works(b, p)
    BY DEF Works, OthersStay, SameCall
  <1>4. \A n : Resolves(a, n)' => Resolves(a, n)
    BY DEF Resolves, OthersStay, SameCall
  <1>5. \A n : Resolves(b, n)' => Resolves(b, n)
    BY DEF Resolves, OthersStay, SameCall
  <1>6. (Works(a, rq[b].path) /\ Works(b, rq[b].path))' => PathRaced(rq[b].path)'
    <2> DEFINE p == rq'[b].path
    <2> SUFFICES ASSUME (Works(a, rq[b].path) /\ Works(b, rq[b].path))' PROVE PathRaced(rq[b].path)'
      OBVIOUS
    <2>1. Works(a, p) /\ Works(b, p)
      BY <1>2, <1>3 DEF Works
    <2>2. rq[b].path = p
      BY <2>1 DEF Works
    <2> QED
      BY <1>1, <2>1, <2>2 DEF Meet, PathRaced
  <1>7. (Resolves(a, rq[b].note) /\ Resolves(b, rq[b].note))' => (<<"note", rq[b].note>> \in raced)'
    <2> DEFINE n == rq'[b].note
    <2> SUFFICES ASSUME (Resolves(a, rq[b].note) /\ Resolves(b, rq[b].note))'
                 PROVE  (<<"note", rq[b].note>> \in raced)'
      OBVIOUS
    <2>1. Resolves(a, n) /\ Resolves(b, n)
      BY <1>4, <1>5 DEF Resolves
    <2>2. rq[b].note = n
      BY <2>1 DEF Resolves
    <2> QED
      BY <1>1, <2>1, <2>2 DEF Meet
  <1> QED
    BY <1>6, <1>7 DEF Meet

LEMMA MovesSound ==
    ASSUME Sound, NEW c \in Callers, Moves(c) PROVE Sound'
  <1>1. Overlaps'
    BY OverlapsStay DEF Sound, Moves
  <1> SUFFICES ASSUME NEW d \in Callers PROVE Caller(d)'
    BY <1>1 DEF Sound
  <1>2. Caller(d) /\ Caller(c)
    BY DEF Sound
  <1>3. CASE d # c
    BY <1>2, <1>3, CallerStays DEF Moves, OthersStay
  <1>4. CASE d = c
    <2>1. Shaped(c)' /\ There(c)'
      BY <1>2 DEF Caller, Shaped, There, Wrote, Moves, SameCall, WorldStays, Registered
    <2>2. AsChecked(c)'
      BY <1>2 DEF Caller, AsChecked, Shaped, Clean, PathRaced, Wrote, Moves, SameCall, WorldStays,
                  Registered
    <2>3. NotYet(c)' /\ Signals(c)'
      BY <1>2 DEF Caller, NotYet, Signals, PathRaced, Moves, SameCall, WorldStays, Registered
    <2> QED
      BY <1>4, <2>1, <2>2, <2>3 DEF Caller
  <1> QED
    BY <1>3, <1>4

\* A caller without a call has no part to keep.
LEMMA IdleCaller ==
    ASSUME NEW c \in Callers, rq[c] = Idle PROVE Caller(c)
  BY IdleTyped DEF Caller, Shaped, There, AsChecked, NotYet, Signals, Wrote, Ingests

LEMMA LeavesSound ==
    ASSUME Sound, NEW c \in Callers, Leaves(c) PROVE Sound'
  <1>1. Overlaps'
    BY OverlapsStay, IdleTyped DEF Sound, Leaves
  <1> SUFFICES ASSUME NEW d \in Callers PROVE Caller(d)'
    BY <1>1 DEF Sound
  <1>2. CASE d # c
    BY <1>2, CallerStays DEF Leaves, OthersStay, Sound
  <1>3. CASE d = c
    BY <1>3, IdleTyped DEF Leaves, Caller, Shaped, There, AsChecked, NotYet, Signals, Wrote, Ingests
  <1> QED
    BY <1>2, <1>3

-----------------------------------------------------------------------------
(* The two properties under steps that leave disk and graph alone.         *)

Missing == \A f \in file_missing_on_disk :
    \/ \E c \in Callers : rq[c].pc = "copy" /\ rq[c].path = f.path
    \/ <<"ingest", f.path>> \in left
Untracked == \A p \in untracked_managed_file :
    \/ \E c \in Callers : Works(c, p) /\ rq[c].op = "create" /\ rq[c].pc # "write"
    \/ {<<"user", p>>, <<"create", p>>} \cap left # {}
Drifted == \A f \in file_hash_drift : PathRaced(f.path) \/ <<"ingest", f.path>> \in left
LEMMA DriftParts == EveryDriftHasACause <=> Missing /\ Untracked /\ Drifted
  BY DEF EveryDriftHasACause, Missing, Untracked, Drifted, PathRaced

LEMMA MovesDrift ==
    ASSUME EveryDriftHasACause, NEW c \in Callers, Moves(c) PROVE EveryDriftHasACause'
  <1>1. Missing'
    BY DriftParts DEF Missing, file_missing_on_disk, Moves, OthersStay, WorldStays
  <1>2. Untracked'
    <2> SUFFICES ASSUME NEW p \in untracked_managed_file',
                        {<<"user", p>>, <<"create", p>>} \cap left = {}
                 PROVE  \E a \in Callers : (Works(a, p) /\ rq[a].op = "create" /\ rq[a].pc # "write")'
      BY DEF Untracked, Moves
    <2>1. p \in untracked_managed_file
      BY DEF untracked_managed_file, Registered, Moves, WorldStays
    <2>2. PICK a \in Callers : Works(a, p) /\ rq[a].op = "create" /\ rq[a].pc # "write"
      BY <2>1, DriftParts DEF Untracked
    <2>3. (Works(a, p) /\ rq[a].op = "create" /\ rq[a].pc # "write")'
      BY <2>2 DEF Works, Moves, OthersStay, SameCall
    <2> QED
      BY <2>3
  <1>3. Drifted'
    BY DriftParts DEF Drifted, PathRaced, file_hash_drift, Moves, WorldStays
  <1> QED
    BY <1>1, <1>2, <1>3, DriftParts DEF EveryDriftHasACause, Missing, Untracked, Drifted, PathRaced

LEMMA LeavesDrift ==
    ASSUME EveryDriftHasACause, Sound, NEW c \in Callers, Leaves(c) PROVE EveryDriftHasACause'
  <1>0. Shaped(c)
    BY DEF Sound, Caller
  <1>1. Missing'
    <2> SUFFICES ASSUME NEW f \in file_missing_on_disk', <<"ingest", f.path>> \notin left'
                 PROVE  \E a \in Callers : (rq[a].pc = "copy" /\ rq[a].path = f.path)'
      BY DEF Missing
    <2>1. f \in file_missing_on_disk /\ <<"ingest", f.path>> \notin left
      BY DEF file_missing_on_disk, Leaves, WorldStays
    <2>2. PICK a \in Callers : rq[a].pc = "copy" /\ rq[a].path = f.path
      BY <2>1, DriftParts DEF Missing
    <2>3. a # c
      BY <1>0, <2>2 DEF Leaves, BrokenOff, HalfDone, Shaped
    <2> QED
      BY <2>2, <2>3 DEF Leaves, OthersStay
  <1>2. Untracked'
    <2> SUFFICES ASSUME NEW p \in untracked_managed_file',
                        {<<"user", p>>, <<"create", p>>} \cap left' = {}
                 PROVE  \E a \in Callers : (Works(a, p) /\ rq[a].op = "create" /\ rq[a].pc # "write")'
      BY DEF Untracked
    <2>1. p \in untracked_managed_file /\ {<<"user", p>>, <<"create", p>>} \cap left = {}
      BY DEF untracked_managed_file, Registered, Leaves, WorldStays
    <2>2. PICK a \in Callers : Works(a, p) /\ rq[a].op = "create" /\ rq[a].pc # "write"
      BY <2>1, DriftParts DEF Untracked
    <2>3. a # c
      BY <2>2 DEF Leaves, BrokenOff, HalfDone, Works
    <2> QED
      BY <2>2, <2>3 DEF Leaves, OthersStay, Works
  <1>3. Drifted'
    BY DriftParts DEF Drifted, PathRaced, file_hash_drift, Leaves, WorldStays
  <1> QED
    BY <1>1, <1>2, <1>3 DEF EveryDriftHasACause, Missing, Untracked, Drifted, PathRaced

LEMMA OnceStays ==
    ASSUME OnceUnlessOverlapped, WorldStays, raced \subseteq raced'
    PROVE  OnceUnlessOverlapped'
  BY DEF OnceUnlessOverlapped, LandsOnce, LandsTwice, StopSignalsResolvedOnce, Registered, WorldStays

Steady == Sound /\ EveryDriftHasACause /\ OnceUnlessOverlapped
LEMMA QuietSteady ==
    ASSUME Steady, NEW c \in Callers, Moves(c) \/ Leaves(c) PROVE Steady'
  BY MovesSound, LeavesSound, MovesDrift, LeavesDrift, OnceStays DEF Steady, Moves, Leaves

-----------------------------------------------------------------------------
(* A call begins.                                                          *)

\* What the entry points of a call check.
Checked(pc, op, path, content) ==
    \/ pc = "write" /\ op = "create" /\ disk[path] = Nothing
    \/ pc = "dest" /\ op = "ingest" /\ content \in Plans /\ Registered(path) = {}
    \/ /\ pc = "refs" /\ op = "ingest_in_place" /\ content \in Plans /\ Registered(path) = {}
       /\ disk[path] = content
    \/ pc = "dir" /\ op = "register" /\ disk[path] = content

LEMMA BeginsRequest ==
    ASSUME TypeOK, NEW c \in Callers, NEW pc, NEW op, NEW path \in Paths, NEW content \in Contents,
           Begins(c, pc, op, path, content), Checked(pc, op, path, content)
    PROVE  /\ TypeOK' /\ OthersStay(c) /\ WorldStays /\ version' = version /\ left' = left
           /\ rq'[c].pc = pc /\ rq'[c].op = op /\ rq'[c].path = path /\ rq'[c].content = content
           /\ op \in OpKinds \ {"resolve"}
           /\ raced \subseteq raced'
           /\ \A d \in Callers : Works(d, path) => <<"path", path>> \in raced'
  <1> DEFINE r == [pc |-> pc, op |-> op, path |-> path, content |-> content, note |-> 0, base |-> 0]
  <1>1. r \in Request
    BY PlanAssumption DEF Checked, Request, Steps, OpKinds
  <1>2. rq' = [rq EXCEPT ![c] = r]
    BY DEF Begins, Call
  <1>3. r.pc = pc /\ r.op = op /\ r.path = path /\ r.content = content
    OBVIOUS
  <1> HIDE DEF r
  <1>4. rq' \in [Callers -> Request] /\ rq'[c] = r /\ OthersStay(c)
    BY <1>1, <1>2, RqSet DEF TypeOK
  <1>5. PlansOnly'
    BY <1>3, <1>4 DEF PlansOnly, TypeOK, OthersStay, Checked, Ingests
  <1>6. raced' \subseteq ({"path"} \X Paths) \cup ({"note"} \X (1..MaxVersion))
    BY DEF Begins, TypeOK
  <1>7. TypeOK'
    BY <1>4, <1>5, <1>6, TypeStays DEF TypeOK, Begins, WorldStays
  <1>8. raced \subseteq raced' /\ \A d \in Callers : Works(d, path) => <<"path", path>> \in raced'
    BY DEF Begins
  <1> QED
    BY <1>3, <1>4, <1>7, <1>8 DEF Begins, WorldStays, Checked, OpKinds

LEMMA BeginsSteady ==
    ASSUME TypeOK, Steady, NEW c \in Callers, NEW pc, NEW op, NEW path \in Paths,
           NEW content \in Contents,
           Begins(c, pc, op, path, content), Checked(pc, op, path, content)
    PROVE  TypeOK' /\ Steady' /\ version' = version
  <1>1. /\ TypeOK' /\ OthersStay(c) /\ WorldStays /\ version' = version /\ left' = left
        /\ rq'[c].pc = pc /\ rq'[c].op = op /\ rq'[c].path = path /\ rq'[c].content = content
        /\ op \in OpKinds \ {"resolve"}
        /\ raced \subseteq raced'
        /\ \A d \in Callers : Works(d, path) => <<"path", path>> \in raced'
    BY BeginsRequest
  <1>2. rq[c].pc = "idle"
    BY DEF Begins
  <1>3. Overlaps'
    <2> SUFFICES ASSUME NEW a \in Callers, NEW b \in Callers, a # b PROVE Meet(a, b)'
      BY DEF Overlaps
    <2>0. Meet(a, b) /\ Meet(b, a)
      BY DEF Steady, Sound, Overlaps
    <2>1. CASE a # c /\ b # c
      BY <1>1, <2>0, <2>1 DEF Meet, Works, Resolves, OthersStay, PathRaced
    <2>2. CASE a = c
      BY <1>1, <2>2 DEF Meet, Works, Resolves, OthersStay, PathRaced
    <2>3. CASE b = c
      BY <1>1, <2>3 DEF Meet, Works, Resolves, OthersStay, PathRaced
    <2> QED
      BY <2>1, <2>2, <2>3
  <1>4. ASSUME NEW d \in Callers PROVE Caller(d)'
    <2>1. CASE d # c
      BY <1>1, <2>1, CallerStays DEF OthersStay, Steady, Sound
    <2>2. CASE d = c
      <3>0. content # Nothing
        BY PlanAssumption
      <3>1. Shaped(c)' /\ There(c)'
        BY <1>1, <3>0 DEF Checked, Shaped, There, Wrote, WorldStays, Registered, Ingests
      <3>2. AsChecked(c)'
        BY <1>1, <3>0 DEF Checked, AsChecked, Wrote, WorldStays
      <3>3. NotYet(c)' /\ Signals(c)'
        BY <1>1 DEF Checked, NotYet, Signals, WorldStays, Registered, Ingests
      <3> QED
        BY <2>2, <3>1, <3>2, <3>3 DEF Caller
    <2> QED
      BY <2>1, <2>2
  <1>5. EveryDriftHasACause'
    <2>1. Missing'
      BY <1>1, <1>2, DriftParts DEF Steady, Missing, file_missing_on_disk, OthersStay, WorldStays
    <2>2. Untracked'
      <3> SUFFICES ASSUME NEW p \in untracked_managed_file',
                          {<<"user", p>>, <<"create", p>>} \cap left = {}
                   PROVE  \E a \in Callers : (Works(a, p) /\ rq[a].op = "create" /\ rq[a].pc # "write")'
        BY <1>1 DEF Untracked
      <3>1. p \in untracked_managed_file
        BY <1>1 DEF untracked_managed_file, Registered, WorldStays
      <3>2. PICK a \in Callers : Works(a, p) /\ rq[a].op = "create" /\ rq[a].pc # "write"
        BY <3>1, DriftParts DEF Untracked, Steady
      <3> QED
        BY <1>1, <1>2, <3>2 DEF OthersStay, Works
    <2>3. Drifted'
      BY <1>1, DriftParts DEF Steady, Drifted, PathRaced, file_hash_drift, WorldStays
    <2> QED
      BY <2>1, <2>2, <2>3 DEF EveryDriftHasACause, Missing, Untracked, Drifted, PathRaced
  <1> QED
    BY <1>1, <1>3, <1>4, <1>5, OnceStays DEF Steady, Sound

LEMMA StartsSteady ==
    ASSUME TypeOK, Steady, NEW c \in Callers, Starts(c), ~ \E n \in DOMAIN notes : ResolveEscalate(c, n)
    PROVE  TypeOK' /\ Steady' /\ version' = version
  <1>1. ASSUME NEW p \in Paths, NEW x \in Contents, CreateFile(c, p, x)
        PROVE  TypeOK' /\ Steady' /\ version' = version
    BY <1>1, BeginsSteady DEF CreateFile, FreeOnDisk, Checked
  <1>2. ASSUME NEW p \in Paths, RegisterFile(c, p)
        PROVE  TypeOK' /\ Steady' /\ version' = version
    <2>1. disk[p] \in Contents
      BY <1>2 DEF RegisterFile, TypeOK
    <2> QED
      BY <1>2, <2>1, BeginsSteady DEF RegisterFile, Checked
  <1>3. ASSUME NEW p \in Paths, IngestInPlace(c, p)
        PROVE  TypeOK' /\ Steady' /\ version' = version
    <2>1. disk[p] \in Contents
      BY <1>3, PlanAssumption DEF IngestInPlace
    <2> QED
      BY <1>3, <2>1, BeginsSteady DEF IngestInPlace, NotIngested, Checked
  <1>4. ASSUME NEW p \in Paths, NEW x \in Plans, Ingest(c, p, x)
        PROVE  TypeOK' /\ Steady' /\ version' = version
    BY <1>4, BeginsSteady, PlanAssumption DEF Ingest, NotIngested, Checked
  <1> QED
    BY <1>1, <1>2, <1>3, <1>4 DEF Starts

LEMMA ResolveSteady ==
    ASSUME TypeOK, Steady, NEW c \in Callers, NEW n \in DOMAIN notes, ResolveEscalate(c, n)
    PROVE  TypeOK' /\ Steady' /\ version' = version
  <1>0. n \in 1..MaxVersion /\ notes[n] = "open"
    BY DEF ResolveEscalate, Open, TypeOK, FileNode
  <1> DEFINE r == [pc |-> "base", op |-> "resolve", path |-> Idle.path, content |-> Idle.content,
                   note |-> n, base |-> 0]
  <1>1. r \in Request /\ r.pc = "base" /\ r.op = "resolve" /\ r.note = n
    <2>1. Idle.path \in Paths /\ Idle.content \in Contents
      BY IdleTyped DEF Request
    <2> QED
      BY <1>0, <2>1, PlanAssumption DEF Request, Steps, OpKinds
  <1>2. rq' = [rq EXCEPT ![c] = r]
    BY DEF ResolveEscalate, Call
  <1> HIDE DEF r
  <1>3. rq' \in [Callers -> Request] /\ rq'[c] = r /\ OthersStay(c)
    BY <1>1, <1>2, RqSet DEF TypeOK
  <1>4. /\ raced \subseteq raced'
        /\ \A d \in Callers : Resolves(d, n) => <<"note", n>> \in raced'
        /\ raced' \subseteq raced \cup {<<"note", n>>}
    BY DEF ResolveEscalate
  <1>5. PlansOnly'
    BY <1>1, <1>3 DEF PlansOnly, TypeOK, OthersStay, Ingests
  <1>6. WorldStays /\ UNCHANGED <<left, version, dirs, resolves, deaths>> /\ rq[c].pc = "idle"
    BY DEF ResolveEscalate, WorldStays
  <1>7. TypeOK'
    BY <1>0, <1>3, <1>4, <1>5, <1>6, TypeStays DEF TypeOK
  <1>8. Overlaps'
    <2> SUFFICES ASSUME NEW a \in Callers, NEW b \in Callers, a # b PROVE Meet(a, b)'
      BY DEF Overlaps
    <2>0. Meet(a, b) /\ Meet(b, a)
      BY DEF Steady, Sound, Overlaps
    <2>1. CASE a # c /\ b # c
      BY <1>3, <1>4, <2>0, <2>1 DEF Meet, Works, Resolves, OthersStay, PathRaced
    <2>2. CASE a = c
      BY <1>1, <1>3, <1>4, <2>2 DEF Meet, Works, Resolves, OthersStay, PathRaced
    <2>3. CASE b = c
      BY <1>1, <1>3, <1>4, <2>3 DEF Meet, Works, Resolves, OthersStay, PathRaced
    <2> QED
      BY <2>1, <2>2, <2>3
  <1>9. ASSUME NEW d \in Callers PROVE Caller(d)'
    <2>1. CASE d # c
      BY <1>3, <1>4, <1>6, <2>1, CallerStays DEF OthersStay, Steady, Sound
    <2>2. CASE d = c
      BY <1>0, <1>1, <1>3, <1>6, <2>2
         DEF Caller, Shaped, There, AsChecked, NotYet, Signals, Wrote, WorldStays, Ingests
    <2> QED
      BY <2>1, <2>2
  <1>10. EveryDriftHasACause'
    <2>1. Missing'
      BY <1>3, <1>4, <1>6, DriftParts DEF Steady, Missing, file_missing_on_disk, OthersStay, WorldStays
    <2>2. Untracked'
      <3> SUFFICES ASSUME NEW p \in untracked_managed_file',
                          {<<"user", p>>, <<"create", p>>} \cap left = {}
                   PROVE  \E a \in Callers : (Works(a, p) /\ rq[a].op = "create" /\ rq[a].pc # "write")'
        BY <1>6 DEF Untracked
      <3>1. p \in untracked_managed_file
        BY <1>6 DEF untracked_managed_file, Registered, WorldStays
      <3>2. PICK a \in Callers : Works(a, p) /\ rq[a].op = "create" /\ rq[a].pc # "write"
        BY <3>1, DriftParts DEF Untracked, Steady
      <3> QED
        BY <1>3, <1>6, <3>2 DEF OthersStay, Works
    <2>3. Drifted'
      BY <1>4, <1>6, DriftParts DEF Steady, Drifted, PathRaced, file_hash_drift, WorldStays
    <2> QED
      BY <2>1, <2>2, <2>3 DEF EveryDriftHasACause, Missing, Untracked, Drifted, PathRaced
  <1> QED
    BY <1>4, <1>6, <1>7, <1>8, <1>9, <1>10, OnceStays DEF Steady, Sound

-----------------------------------------------------------------------------
(* A call writes its file.                                                 *)

Writes(c) ==
    /\ disk' = [disk EXCEPT ![rq[c].path] = rq[c].content]
    /\ UNCHANGED <<block, version, dirs, files, notes, resolves, deaths, left, raced, resolved>>

LEMMA WritesTyped ==
    ASSUME TypeOK, NEW c \in Callers, Writes(c), rq' \in [Callers -> Request], PlansOnly'
    PROVE  TypeOK'
  <1>1. rq[c].content \in Contents /\ rq[c].path \in Paths
    BY DEF TypeOK, Request
  <1>2. disk' \in [Paths -> Contents \cup {Nothing}]
    BY <1>1 DEF TypeOK, Writes
  <1> QED
    BY <1>2 DEF TypeOK, Writes, PlansOnly

LEMMA WritesOthers ==
    ASSUME TypeOK, Sound, NEW c \in Callers, Writes(c), Works(c, rq[c].path),
           NEW d \in Callers, d # c, rq'[d] = rq[d]
    PROVE  Caller(d)'
  <1>1. /\ rq[c].content # Nothing
        /\ disk'[rq[c].path] = rq[c].content
        /\ \A p \in Paths \ {rq[c].path} : disk'[p] = disk[p]
    BY PlanAssumption DEF TypeOK, Request, Writes
  <1>2. Works(d, rq[c].path) => PathRaced(rq[c].path)
    BY DEF Sound, Overlaps, Meet
  <1>3. rq[d].path \in Paths /\ Caller(d)
    BY DEF TypeOK, Request, Sound
  <1>4. Shaped(d)' /\ There(d)'
    BY <1>1, <1>3 DEF Caller, Shaped, There, Wrote, Registered, Writes
  <1>5. AsChecked(d)'
    <2>1. CASE rq[d].path # rq[c].path
      BY <1>1, <1>3, <2>1 DEF Caller, AsChecked, Clean, PathRaced, Wrote, Registered, Writes
    <2>2. CASE Works(d, rq[c].path)
      BY <1>2, <2>2 DEF AsChecked, Clean, PathRaced, Works, Writes
    <2>3. CASE rq[d].pc = "idle" \/ rq[d].op = "resolve"
      BY <1>3, <2>3 DEF Caller, AsChecked, Shaped, Wrote
    <2> QED
      BY <2>1, <2>2, <2>3 DEF Works
  <1>6. NotYet(d)' /\ Signals(d)'
    BY <1>3 DEF Caller, NotYet, Signals, PathRaced, Registered, Writes
  <1> QED
    BY <1>4, <1>5, <1>6 DEF Caller

LEMMA WriteFileSteady ==
    ASSUME TypeOK, Steady, NEW c \in Callers, WriteFile(c)
    PROVE  TypeOK' /\ Steady' /\ version' = version
  <1>1. rq' \in [Callers -> Request] /\ rq'[c].pc = "dir" /\ SameCall(c) /\ OthersStay(c)
    BY RqPc DEF WriteFile, Goes, TypeOK, Steps
  <1>2. PlansOnly'
    BY <1>1 DEF PlansOnly, TypeOK, SameCall, OthersStay
  <1>3. Writes(c) /\ rq[c].pc = "write"
    BY DEF WriteFile, Writes
  <1>4. TypeOK'
    BY <1>1, <1>2, <1>3, WritesTyped
  <1>5. rq[c].op = "create" /\ Works(c, rq[c].path) /\ AsChecked(c)
    BY <1>3 DEF Steady, Sound, Caller, Shaped, Works
  <1>6. /\ rq[c].content # Nothing /\ rq[c].path \in Paths
        /\ disk'[rq[c].path] = rq[c].content
        /\ \A p \in Paths \ {rq[c].path} : disk'[p] = disk[p]
    BY <1>3, PlanAssumption DEF TypeOK, Request, Writes
  <1>7. Overlaps'
    BY <1>1, <1>3, OverlapsStay DEF Steady, Sound, Writes
  <1>8. ASSUME NEW d \in Callers PROVE Caller(d)'
    <2>1. CASE d # c
      BY <1>1, <1>3, <1>5, <2>1, WritesOthers DEF OthersStay, Steady
    <2>2. CASE d = c
      BY <1>1, <1>5, <1>6, <2>2
         DEF Caller, Shaped, There, AsChecked, NotYet, Signals, Wrote, SameCall, Ingests
    <2> QED
      BY <2>1, <2>2
  <1>9. \A f \in files : f.path \in Paths
    BY DEF TypeOK, FileNode
  <1>10. Missing'
    <2> SUFFICES ASSUME NEW f \in file_missing_on_disk', <<"ingest", f.path>> \notin left
                 PROVE  \E a \in Callers : (rq[a].pc = "copy" /\ rq[a].path = f.path)'
      BY <1>3 DEF Missing, Writes
    <2>1. f \in file_missing_on_disk
      BY <1>3, <1>6, <1>9 DEF file_missing_on_disk, Writes
    <2>2. PICK a \in Callers : rq[a].pc = "copy" /\ rq[a].path = f.path
      BY <2>1, DriftParts DEF Missing, Steady
    <2> QED
      BY <1>1, <1>3, <2>2 DEF OthersStay
  <1>11. Untracked'
    <2> SUFFICES ASSUME NEW p \in untracked_managed_file',
                        {<<"user", p>>, <<"create", p>>} \cap left = {}
                 PROVE  \E a \in Callers : (Works(a, p) /\ rq[a].op = "create" /\ rq[a].pc # "write")'
      BY <1>3 DEF Untracked, Writes
    <2>1. CASE p = rq[c].path
      BY <1>1, <1>5, <2>1 DEF SameCall, Works
    <2>2. CASE p # rq[c].path
      <3>1. p \in untracked_managed_file
        BY <1>3, <1>6, <2>2 DEF untracked_managed_file, Registered, Writes
      <3>2. PICK a \in Callers : Works(a, p) /\ rq[a].op = "create" /\ rq[a].pc # "write"
        BY <3>1, DriftParts DEF Untracked, Steady
      <3> QED
        BY <1>1, <1>3, <3>2 DEF OthersStay, Works
    <2> QED
      BY <2>1, <2>2
  <1>12. Drifted'
    <2> SUFFICES ASSUME NEW f \in file_hash_drift', Clean(f.path) PROVE FALSE
      BY <1>3 DEF Drifted, PathRaced, Clean, Writes
    <2>1. f \in files
      BY <1>3 DEF file_hash_drift, Writes
    <2>2. CASE f.path # rq[c].path
      BY <1>3, <1>6, <1>9, <2>1, <2>2, DriftParts
         DEF Steady, Drifted, file_hash_drift, Clean, Writes
    <2>3. CASE f.path = rq[c].path
      <3>1. disk[f.path] = Nothing
        BY <1>3, <1>5, <2>3 DEF AsChecked
      <3>2. PICK a \in Callers : rq[a].pc = "copy" /\ rq[a].path = f.path
        BY <2>1, <3>1, DriftParts DEF Steady, Missing, file_missing_on_disk, Clean
      <3>3. a # c /\ Works(a, rq[c].path)
        BY <1>3, <2>3, <3>2 DEF Steady, Sound, Caller, Shaped, Works
      <3> QED
        BY <1>5, <2>3, <3>3 DEF Steady, Sound, Overlaps, Meet, Clean
    <2> QED
      BY <2>2, <2>3
  <1>13. OnceUnlessOverlapped'
    BY <1>3 DEF Steady, OnceUnlessOverlapped, LandsOnce, LandsTwice, StopSignalsResolvedOnce,
                Registered, Writes
  <1>14. EveryDriftHasACause'
    BY <1>10, <1>11, <1>12 DEF EveryDriftHasACause, Missing, Untracked, Drifted, PathRaced
  <1> QED
    BY <1>3, <1>4, <1>7, <1>8, <1>13, <1>14 DEF Steady, Sound, Writes

LEMMA CopyArchiveSteady ==
    ASSUME TypeOK, Steady, NEW c \in Callers, CopyArchive(c)
    PROVE  TypeOK' /\ Steady' /\ version' = version
  <1>1. rq' \in [Callers -> Request] /\ rq'[c] = Idle /\ OthersStay(c)
    BY RqSet, IdleTyped DEF CopyArchive, TypeOK
  <1>2. PlansOnly'
    BY <1>1, IdleTyped DEF PlansOnly, TypeOK, OthersStay
  <1>3. Writes(c) /\ rq[c].pc = "copy"
    BY DEF CopyArchive, Writes
  <1>4. TypeOK'
    BY <1>1, <1>2, <1>3, WritesTyped
  <1>5. rq[c].op = "ingest" /\ Works(c, rq[c].path) /\ AsChecked(c) /\ There(c)
    BY <1>3 DEF Steady, Sound, Caller, Shaped, Works
  <1>6. /\ rq[c].content # Nothing /\ rq[c].path \in Paths
        /\ disk'[rq[c].path] = rq[c].content
        /\ \A p \in Paths \ {rq[c].path} : disk'[p] = disk[p]
    BY <1>3, PlanAssumption DEF TypeOK, Request, Writes
  <1>7. Overlaps'
    BY <1>1, <1>3, OverlapsStay, IdleTyped DEF Steady, Sound, Writes
  <1>8. ASSUME NEW d \in Callers PROVE Caller(d)'
    <2>1. CASE d # c
      BY <1>1, <1>3, <1>5, <2>1, WritesOthers DEF OthersStay, Steady
    <2>2. CASE d = c
      BY <1>1, <2>2, IdleTyped
         DEF Caller, Shaped, There, AsChecked, NotYet, Signals, Wrote, Ingests
    <2> QED
      BY <2>1, <2>2
  <1>9. \A f \in files : f.path \in Paths
    BY DEF TypeOK, FileNode
  <1>10. Missing'
    <2> SUFFICES ASSUME NEW f \in file_missing_on_disk', <<"ingest", f.path>> \notin left
                 PROVE  \E a \in Callers : (rq[a].pc = "copy" /\ rq[a].path = f.path)'
      BY <1>3 DEF Missing, Writes
    <2>1. f \in file_missing_on_disk /\ f.path # rq[c].path
      BY <1>3, <1>6, <1>9 DEF file_missing_on_disk, Writes
    <2>2. PICK a \in Callers : rq[a].pc = "copy" /\ rq[a].path = f.path
      BY <2>1, DriftParts DEF Missing, Steady
    <2> QED
      BY <1>1, <2>1, <2>2 DEF OthersStay
  <1>11. Untracked'
    <2> SUFFICES ASSUME NEW p \in untracked_managed_file',
                        {<<"user", p>>, <<"create", p>>} \cap left = {}
                 PROVE  \E a \in Callers : (Works(a, p) /\ rq[a].op = "create" /\ rq[a].pc # "write")'
      BY <1>3 DEF Untracked, Writes
    <2>1. p # rq[c].path
      BY <1>3, <1>5 DEF There, untracked_managed_file, Registered, Writes
    <2>2. p \in untracked_managed_file
      BY <1>3, <1>6, <2>1 DEF untracked_managed_file, Registered, Writes
    <2>3. PICK a \in Callers : Works(a, p) /\ rq[a].op = "create" /\ rq[a].pc # "write"
      BY <2>2, DriftParts DEF Untracked, Steady
    <2> QED
      BY <1>1, <2>1, <2>3 DEF OthersStay, Works
  <1>12. Drifted'
    <2> SUFFICES ASSUME NEW f \in file_hash_drift', Clean(f.path) PROVE FALSE
      BY <1>3 DEF Drifted, PathRaced, Clean, Writes
    <2>1. f \in files
      BY <1>3 DEF file_hash_drift, Writes
    <2>2. CASE f.path # rq[c].path
      BY <1>3, <1>6, <1>9, <2>1, <2>2, DriftParts
         DEF Steady, Drifted, file_hash_drift, Clean, Writes
    <2>3. CASE f.path = rq[c].path
      BY <1>3, <1>5, <1>6, <2>1, <2>3 DEF AsChecked, Registered, file_hash_drift
    <2> QED
      BY <2>2, <2>3
  <1>13. OnceUnlessOverlapped'
    BY <1>3 DEF Steady, OnceUnlessOverlapped, LandsOnce, LandsTwice, StopSignalsResolvedOnce,
                Registered, Writes
  <1>14. EveryDriftHasACause'
    BY <1>10, <1>11, <1>12 DEF EveryDriftHasACause, Missing, Untracked, Drifted, PathRaced
  <1> QED
    BY <1>3, <1>4, <1>7, <1>8, <1>13, <1>14 DEF Steady, Sound, Writes

-----------------------------------------------------------------------------
(* A call commits.                                                         *)

Lands(c) ==
    /\ version < MaxVersion /\ version' = version + 1
    /\ files' = files \cup {Landed(c)}
    /\ notes' = IF Escalates(c) THEN Put(notes, version + 1, "open") ELSE notes
    /\ resolved' = IF Escalates(c) THEN Put(resolved, version + 1, 0) ELSE resolved
    /\ UNCHANGED <<block, disk, dirs, resolves, deaths, left, raced>>

LEMMA LandedNode ==
    ASSUME TypeOK, Ids, NEW c \in Callers, version < MaxVersion
    PROVE  /\ Landed(c) \in FileNode /\ Landed(c).id = version + 1
           /\ Landed(c).path = rq[c].path /\ Landed(c).content = rq[c].content
           /\ Landed(c).plan <=> rq[c].op \in Ingests
           /\ Landed(c) \notin files
           /\ version + 1 \notin DOMAIN notes /\ version + 1 \in 1..MaxVersion
  <1>1. version + 1 \in 1..MaxVersion
    BY PlanAssumption DEF TypeOK
  <1>2. rq[c] \in Request
    BY DEF TypeOK
  <1>3. Landed(c) \in FileNode
    BY <1>1, <1>2 DEF Landed, FileNode, Request
  <1>4. /\ Landed(c).id = version + 1
        /\ Landed(c).path = rq[c].path /\ Landed(c).content = rq[c].content
        /\ Landed(c).plan <=> rq[c].op \in Ingests
    BY DEF Landed
  <1>5. \A f \in files : f.id # version + 1
    BY DEF Ids, TypeOK, FileNode
  <1> QED
    BY <1>1, <1>3, <1>4, <1>5 DEF TypeOK

LEMMA LandsTyped ==
    ASSUME TypeOK, Ids, NEW c \in Callers, Lands(c), rq' \in [Callers -> Request], PlansOnly'
    PROVE  TypeOK'
  <1> DEFINE g == Landed(c)
  <1>1. /\ g \in FileNode /\ g.id = version + 1 /\ g.content = rq[c].content
        /\ g.plan <=> rq[c].op \in Ingests
        /\ version + 1 \notin DOMAIN notes /\ version + 1 \in 1..MaxVersion
    BY LandedNode DEF Lands
  <1>2. files' = files \cup {g} /\ block' = block
    BY DEF Lands
  <1> HIDE DEF g
  <1>3. Escalates(c) <=> g.plan /\ block[g.content].escalate
    BY <1>1 DEF Escalates
  <1>6. files' \subseteq FileNode /\ version' \in 0..MaxVersion
    BY <1>1, <1>2 DEF TypeOK, Lands
  <1>4. CASE Escalates(c)
    <2>1. /\ DOMAIN notes' = DOMAIN notes \cup {version + 1} /\ DOMAIN resolved' = DOMAIN notes'
          /\ \A n \in DOMAIN notes' : notes'[n] \in {"open", "resolved"}
          /\ \A n \in DOMAIN notes' : resolved'[n] \in Nat
      BY <1>4 DEF Lands, Put, TypeOK
    <2>2. DOMAIN notes' = {f.id : f \in {x \in files' : x.plan /\ block'[x.content].escalate}}
      BY <1>1, <1>2, <1>3, <1>4, <2>1 DEF TypeOK
    <2> QED
      BY <1>6, <2>1, <2>2 DEF TypeOK, Lands, PlansOnly
  <1>5. CASE ~Escalates(c)
    <2>1. DOMAIN notes' = {f.id : f \in {x \in files' : x.plan /\ block'[x.content].escalate}}
      BY <1>2, <1>3, <1>5 DEF TypeOK, Lands
    <2> QED
      BY <1>5, <1>6, <2>1 DEF TypeOK, Lands, PlansOnly
  <1> QED
    BY <1>4, <1>5

LEMMA LandsOthers ==
    ASSUME TypeOK, Ids, Sound, NEW c \in Callers, Lands(c), Works(c, rq[c].path),
           NEW d \in Callers, d # c, rq'[d] = rq[d]
    PROVE  Caller(d)'
  <1>1. Caller(d) /\ rq[d].path \in Paths
    BY DEF Sound, TypeOK, Request
  <1>2. Landed(c).path = rq[c].path /\ version + 1 \notin DOMAIN notes
    BY LandedNode DEF Lands
  <1>3. Works(d, rq[c].path) => PathRaced(rq[c].path)
    BY DEF Sound, Overlaps, Meet
  <1>4. files \subseteq files' /\ (rq[d].path # rq[c].path => Registered(rq[d].path)' = Registered(rq[d].path))
    <2>1. rq[d].path # rq[c].path =>
            {f \in files' : f.path = rq[d].path} = {f \in files : f.path = rq[d].path}
      BY <1>2 DEF Lands
    <2> QED
      BY <2>1 DEF Lands, Registered
  <1>5. Shaped(d)' /\ There(d)'
    BY <1>1, <1>4 DEF Caller, Shaped, There, Wrote, Registered, Lands
  <1>6. AsChecked(d)' /\ NotYet(d)'
    <2>1. CASE rq[d].path # rq[c].path
      BY <1>1, <1>4, <2>1 DEF Caller, AsChecked, NotYet, Clean, PathRaced, Wrote, Lands
    <2>2. CASE Works(d, rq[c].path)
      BY <1>3, <2>2 DEF AsChecked, NotYet, Clean, PathRaced, Works, Lands
    <2>3. CASE rq[d].pc = "idle" \/ rq[d].op = "resolve"
      BY <1>1, <2>3 DEF Caller, AsChecked, NotYet, Shaped, Wrote, Ingests
    <2> QED
      BY <2>1, <2>2, <2>3 DEF Works
  <1>7. Signals(d)'
    BY <1>1, <1>2 DEF Caller, Signals, Lands, Put
  <1> QED
    BY <1>5, <1>6, <1>7 DEF Caller

LEMMA LandsSteady ==
    ASSUME TypeOK, Ids, Steady, NEW c \in Callers, Lands(c),
           rq[c].pc = "apply", rq[c].op # "resolve",
           rq' = IF rq[c].op = "ingest" THEN [rq EXCEPT ![c].pc = "copy", ![c].base = 0]
                 ELSE [rq EXCEPT ![c] = Idle]
    PROVE  TypeOK' /\ Steady'
  <1> DEFINE g == Landed(c)
  <1>1. /\ g.path = rq[c].path /\ g.content = rq[c].content
        /\ g.plan <=> rq[c].op \in Ingests
        /\ g \notin files /\ version + 1 \notin DOMAIN notes
    BY LandedNode DEF Lands
  <1>2. files' = files \cup {g}
    BY DEF Lands
  <1> HIDE DEF g
  <1>3. rq' \in [Callers -> Request] /\ OthersStay(c)
        /\ (rq[c].op = "ingest" => rq'[c].pc = "copy" /\ SameCall(c))
        /\ (rq[c].op # "ingest" => rq'[c] = Idle)
    <2>1. CASE rq[c].op = "ingest"
      <3>1. 0 \in 0..MaxVersion
        BY PlanAssumption
      <3> QED
        BY <2>1, <3>1, RqPcBase DEF TypeOK, Steps
    <2>2. CASE rq[c].op # "ingest"
      BY <2>2, RqSet, IdleTyped DEF TypeOK
    <2> QED
      BY <2>1, <2>2
  <1>4. PlansOnly'
    BY <1>3, IdleTyped DEF PlansOnly, TypeOK, SameCall, OthersStay
  <1>5. TypeOK'
    BY <1>3, <1>4, LandsTyped
  <1>6. Works(c, rq[c].path) /\ Caller(c) /\ rq[c].path \in Paths
    BY DEF Works, Steady, Sound, TypeOK, Request
  <1>7. rq[c].op # "ingest" => Wrote(c)
    BY DEF Wrote, TypeOK, Request, OpKinds
  <1>8. Overlaps'
    BY <1>3, OverlapsStay, IdleTyped DEF Steady, Sound, Lands
  <1>9. ASSUME NEW d \in Callers PROVE Caller(d)'
    <2>1. CASE d # c
      BY <1>3, <1>6, <2>1, LandsOthers DEF OthersStay, Steady
    <2>2. CASE d = c /\ rq[c].op # "ingest"
      BY <1>3, <2>2, IdleTyped
         DEF Caller, Shaped, There, AsChecked, NotYet, Signals, Wrote, Ingests
    <2>3. CASE d = c /\ rq[c].op = "ingest"
      <3>1. Shaped(c)' /\ There(c)' /\ NotYet(c)' /\ Signals(c)'
        BY <1>1, <1>2, <1>3, <2>3 DEF Shaped, There, Wrote, NotYet, Signals, SameCall, Registered
      <3>2. ASSUME Clean(rq[c].path) PROVE Registered(rq[c].path) = {} /\ disk[rq[c].path] = Nothing
        BY <1>6, <2>3, <3>2 DEF Caller, NotYet, AsChecked, Clean, Ingests
      <3>3. AsChecked(c)'
        BY <1>1, <1>2, <1>3, <2>3, <3>2
           DEF AsChecked, Wrote, Clean, PathRaced, SameCall, Registered, Lands
      <3> QED
        BY <2>3, <3>1, <3>3 DEF Caller
    <2> QED
      BY <2>1, <2>2, <2>3
  <1>10. Missing'
    <2> SUFFICES ASSUME NEW f \in file_missing_on_disk', <<"ingest", f.path>> \notin left
                 PROVE  \E a \in Callers : (rq[a].pc = "copy" /\ rq[a].path = f.path)'
      BY DEF Missing, Lands
    <2>1. CASE f = g
      BY <1>1, <1>3, <1>6, <1>7, <2>1 DEF file_missing_on_disk, Caller, There, SameCall, Lands
    <2>2. CASE f # g
      <3>1. f \in file_missing_on_disk
        BY <1>2, <2>2 DEF file_missing_on_disk, Lands
      <3>2. PICK a \in Callers : rq[a].pc = "copy" /\ rq[a].path = f.path
        BY <3>1, DriftParts DEF Missing, Steady
      <3> QED
        BY <1>3, <3>2 DEF OthersStay
    <2> QED
      BY <2>1, <2>2
  <1>11. Untracked'
    <2> SUFFICES ASSUME NEW p \in untracked_managed_file',
                        {<<"user", p>>, <<"create", p>>} \cap left = {}
                 PROVE  \E a \in Callers : (Works(a, p) /\ rq[a].op = "create" /\ rq[a].pc # "write")'
      BY DEF Untracked, Lands
    <2>1. p # rq[c].path /\ p \in untracked_managed_file
      BY <1>1, <1>2 DEF untracked_managed_file, Registered, Lands
    <2>2. PICK a \in Callers : Works(a, p) /\ rq[a].op = "create" /\ rq[a].pc # "write"
      BY <2>1, DriftParts DEF Untracked, Steady
    <2> QED
      BY <1>3, <2>1, <2>2 DEF OthersStay, Works
  <1>12. Drifted'
    <2> SUFFICES ASSUME NEW f \in file_hash_drift', Clean(f.path) PROVE FALSE
      BY DEF Drifted, PathRaced, Clean, Lands
    <2>1. CASE f # g
      BY <1>2, <2>1, DriftParts DEF Steady, Drifted, file_hash_drift, Clean, Lands
    <2>2. CASE f = g
      BY <1>1, <1>6, <1>7, <2>2 DEF Caller, AsChecked, file_hash_drift, Lands
    <2> QED
      BY <2>1, <2>2
  <1>13. LandsOnce'
    <2> SUFFICES ASSUME NEW p \in Paths, LandsTwice(p)', ~PathRaced(p) PROVE FALSE
      BY DEF LandsOnce, PathRaced, Lands
    <2>1. PICK f \in files', h \in files' :
            f # h /\ f.plan /\ h.plan /\ f.path = p /\ h.path = p
      BY DEF LandsTwice, Registered
    <2>2. CASE f # g /\ h # g
      BY <1>2, <2>1, <2>2 DEF Steady, OnceUnlessOverlapped, LandsOnce, LandsTwice, Registered, PathRaced
    <2>3. CASE f = g \/ h = g
      <3>1. rq[c].op \in Ingests /\ rq[c].path = p /\ Registered(p) # {}
        BY <1>1, <1>2, <2>1, <2>3 DEF Registered
      <3> QED
        BY <1>6, <3>1 DEF Caller, NotYet
    <2> QED
      BY <2>2, <2>3
  <1>14. StopSignalsResolvedOnce'
    <2>1. /\ DOMAIN resolved = DOMAIN notes /\ raced' = raced
          /\ \A n \in DOMAIN notes : notes[n] = "resolved" <=> resolved[n] > 0
          /\ \A n \in DOMAIN notes : resolved[n] > 1 => <<"note", n>> \in raced
      BY DEF Steady, OnceUnlessOverlapped, StopSignalsResolvedOnce, TypeOK, Lands
    <2>2. CASE Escalates(c)
      <3>1. /\ DOMAIN notes' = DOMAIN notes \cup {version + 1}
            /\ notes'[version + 1] = "open" /\ resolved'[version + 1] = 0
            /\ \A n \in DOMAIN notes : notes'[n] = notes[n] /\ resolved'[n] = resolved[n]
        BY <1>1, <2>1, <2>2 DEF Lands, Put
      <3> QED
        <4> SUFFICES ASSUME NEW n \in DOMAIN notes'
                     PROVE  /\ notes'[n] = "resolved" <=> resolved'[n] > 0
                            /\ resolved'[n] > 1 => <<"note", n>> \in raced
          BY <2>1 DEF StopSignalsResolvedOnce
        <4>1. CASE n \in DOMAIN notes
          BY <2>1, <3>1, <4>1
        <4>2. CASE n = version + 1
          BY <3>1, <4>2
        <4> QED
          BY <3>1, <4>1, <4>2
    <2>3. CASE ~Escalates(c)
      BY <2>1, <2>3 DEF StopSignalsResolvedOnce, Lands
    <2> QED
      BY <2>2, <2>3
  <1>15. EveryDriftHasACause'
    BY <1>10, <1>11, <1>12 DEF EveryDriftHasACause, Missing, Untracked, Drifted, PathRaced
  <1> QED
    BY <1>5, <1>8, <1>9, <1>13, <1>14, <1>15 DEF Steady, Sound, OnceUnlessOverlapped

LEMMA CommitFileSteady ==
    ASSUME TypeOK, Ids, Steady, NEW c \in Callers, CommitFile(c)
    PROVE  TypeOK' /\ Steady' /\ Ids'
  <1>1. CASE Refused(c)
    BY <1>1, RefusedLeaves, QuietSteady DEF CommitFile, Ids, Refused
  <1>2. CASE ~Refused(c)
    <2>1. Lands(c) /\ rq[c].pc = "apply" /\ rq[c].op # "resolve"
      BY <1>2 DEF CommitFile, Lands
    <2>2. TypeOK' /\ Steady'
      BY <1>2, <2>1, LandsSteady DEF CommitFile
    <2>3. Ids'
      BY <2>1, LandedNode DEF Ids, Lands, TypeOK, FileNode
    <2> QED
      BY <2>2, <2>3
  <1> QED
    BY <1>1, <1>2

LEMMA CommitResolveSteady ==
    ASSUME TypeOK, Ids, Steady, NEW c \in Callers, CommitResolve(c)
    PROVE  TypeOK' /\ Steady' /\ Ids'
  <1>0. rq[c].pc = "apply" /\ rq[c].op = "resolve" /\ rq' = [rq EXCEPT ![c] = Idle]
    BY DEF CommitResolve
  <1>1. rq' \in [Callers -> Request] /\ rq'[c] = Idle /\ OthersStay(c)
    BY <1>0, RqSet, IdleTyped DEF TypeOK
  <1>2. CASE UNCHANGED <<block, disk, version, dirs, files, notes, resolves, deaths, left, raced, resolved>>
    <2>1. PlansOnly'
      BY <1>1, IdleTyped DEF PlansOnly, TypeOK, OthersStay
    <2>2. TypeOK'
      BY <1>1, <1>2, <2>1, TypeStays DEF TypeOK, WorldStays
    <2>3. Leaves(c)
      BY <1>0, <1>1, <1>2 DEF Leaves, WorldStays, BrokenOff, HalfDone
    <2> QED
      BY <1>2, <2>2, <2>3, QuietSteady DEF Ids
  <1>3. CASE /\ version < MaxVersion /\ version' = version + 1
             /\ notes' = [notes EXCEPT ![rq[c].note] = "resolved"]
             /\ resolved' = [resolved EXCEPT ![rq[c].note] = @ + 1]
             /\ UNCHANGED <<block, disk, dirs, files, resolves, deaths, left, raced>>
    <2> DEFINE n == rq[c].note
    <2>1. Signals(c)
      BY DEF Steady, Sound, Caller
    <2>2. n \in DOMAIN notes /\ (<<"note", n>> \notin raced => notes[n] = "open")
      BY <1>0, <2>1 DEF Signals
    <2>3. /\ DOMAIN notes' = DOMAIN notes /\ DOMAIN resolved' = DOMAIN resolved
          /\ notes'[n] = "resolved" /\ resolved'[n] = resolved[n] + 1
          /\ \A k \in DOMAIN notes \ {n} : notes'[k] = notes[k] /\ resolved'[k] = resolved[k]
      BY <1>3, <2>2 DEF TypeOK
    <2>4. TypeOK'
      <3>1. PlansOnly'
        BY <1>1, IdleTyped DEF PlansOnly, TypeOK, OthersStay
      <3>2. \A k \in DOMAIN notes' : notes'[k] \in {"open", "resolved"} /\ resolved'[k] \in Nat
        BY <2>2, <2>3 DEF TypeOK
      <3>3. version' \in 0..MaxVersion
        BY <1>3, PlanAssumption DEF TypeOK
      <3>4. DOMAIN notes' = {f.id : f \in {x \in files' : x.plan /\ block'[x.content].escalate}}
        BY <1>3, <2>3 DEF TypeOK
      <3> QED
        BY <1>1, <1>3, <2>3, <3>1, <3>2, <3>3, <3>4 DEF TypeOK, PlansOnly
    <2>5. Overlaps'
      BY <1>1, <1>3, OverlapsStay, IdleTyped DEF Steady, Sound
    <2>6. ASSUME NEW d \in Callers PROVE Caller(d)'
      <3>1. CASE d = c
        BY <1>1, <3>1, IdleTyped
           DEF Caller, Shaped, There, AsChecked, NotYet, Signals, Wrote, Ingests
      <3>2. CASE d # c
        <4>1. Caller(d) /\ rq'[d] = rq[d]
          BY <1>1, <3>2 DEF Steady, Sound, OthersStay
        <4>2. Shaped(d)' /\ There(d)' /\ AsChecked(d)' /\ NotYet(d)'
          BY <1>3, <4>1 DEF Caller, Shaped, There, AsChecked, NotYet, Clean, PathRaced, Wrote, Registered
        <4>3. Resolves(d, n) => <<"note", n>> \in raced
          BY <1>0, <3>2 DEF Steady, Sound, Overlaps, Meet, Resolves
        <4>4. Signals(d)'
          BY <1>3, <2>3, <4>1, <4>3 DEF Caller, Signals, Resolves
        <4> QED
          BY <4>2, <4>4 DEF Caller
      <3> QED
        BY <3>1, <3>2
    <2>7. EveryDriftHasACause'
      <3>1. Missing'
        BY <1>0, <1>1, <1>3, DriftParts DEF Steady, Missing, file_missing_on_disk, OthersStay
      <3>2. Untracked'
        <4> SUFFICES ASSUME NEW p \in untracked_managed_file',
                            {<<"user", p>>, <<"create", p>>} \cap left = {}
                     PROVE  \E a \in Callers : (Works(a, p) /\ rq[a].op = "create" /\ rq[a].pc # "write")'
          BY <1>3 DEF Untracked
        <4>1. p \in untracked_managed_file
          BY <1>3 DEF untracked_managed_file, Registered
        <4>2. PICK a \in Callers : Works(a, p) /\ rq[a].op = "create" /\ rq[a].pc # "write"
          BY <4>1, DriftParts DEF Untracked, Steady
        <4> QED
          BY <1>0, <1>1, <4>2 DEF OthersStay, Works
      <3>3. Drifted'
        BY <1>3, DriftParts DEF Steady, Drifted, PathRaced, file_hash_drift
      <3> QED
        BY <3>1, <3>2, <3>3 DEF EveryDriftHasACause, Missing, Untracked, Drifted, PathRaced
    <2>8. LandsOnce'
      BY <1>3 DEF Steady, OnceUnlessOverlapped, LandsOnce, LandsTwice, Registered
    <2>9. StopSignalsResolvedOnce'
      <3> SUFFICES ASSUME NEW k \in DOMAIN notes
                   PROVE  /\ notes'[k] = "resolved" <=> resolved'[k] > 0
                          /\ resolved'[k] > 1 => <<"note", k>> \in raced
        BY <1>3, <2>3 DEF StopSignalsResolvedOnce
      <3>1. /\ notes[k] = "resolved" <=> resolved[k] > 0
            /\ resolved[k] > 1 => <<"note", k>> \in raced
            /\ resolved[k] \in Nat
        BY DEF Steady, OnceUnlessOverlapped, StopSignalsResolvedOnce, TypeOK
      <3> HIDE DEF n
      <3> QED
        BY <2>2, <2>3, <3>1
    <2> QED
      BY <1>3, <2>4, <2>5, <2>6, <2>7, <2>8, <2>9 DEF Steady, Sound, OnceUnlessOverlapped, Ids, TypeOK, FileNode
  <1> QED
    BY <1>2, <1>3 DEF CommitResolve

LEMMA ElsewhereSteady ==
    ASSUME TypeOK, Ids, Steady, Elsewhere PROVE TypeOK' /\ Steady' /\ Ids'
  <1>1. WorldStays /\ UNCHANGED <<dirs, rq, deaths, left, raced>> /\ version' = version + 1
    BY DEF Elsewhere, WorldStays
  <1>2. TypeOK'
    BY <1>1, PlanAssumption DEF TypeOK, Elsewhere
  <1>3. Ids'
    BY <1>1 DEF Ids, TypeOK, FileNode, WorldStays
  <1>4. Overlaps'
    BY <1>1 DEF Steady, Sound, Overlaps, Meet, Works, Resolves, PathRaced
  <1>5. \A d \in Callers : Caller(d)'
    BY <1>1, CallerStays DEF Steady, Sound
  <1>6. EveryDriftHasACause'
    BY <1>1 DEF Steady, EveryDriftHasACause, file_missing_on_disk, untracked_managed_file,
                file_hash_drift, Registered, Works, WorldStays
  <1> QED
    BY <1>1, <1>2, <1>3, <1>4, <1>5, <1>6, OnceStays DEF Steady, Sound

-----------------------------------------------------------------------------
(* The invariant.                                                          *)

LEMMA IInvParts == IInv <=> TypeOK /\ Ids /\ Steady
  BY DEF IInv, Steady

LEMMA Initially == Init => IInv
  <1> SUFFICES ASSUME Init PROVE IInv
    OBVIOUS
  <1>1. rq \in [Callers -> Request] /\ \A c \in Callers : rq[c] = Idle
    BY IdleTyped DEF Init
  <1>2. DOMAIN notes = {} /\ DOMAIN resolved = {} /\ files = {} /\ version = 0 /\ raced = {}
    BY DEF Init
  <1>3. TypeOK
    BY <1>1, <1>2, IdleTyped, PlanAssumption DEF Init, TypeOK, OpKinds
  <1>4. Overlaps
    BY <1>1, IdleTyped DEF Overlaps, Meet, Works, Resolves
  <1>5. EveryDriftHasACause
    <2>1. \A p \in untracked_managed_file : <<"user", p>> \in left
      BY DEF Init, untracked_managed_file
    <2> QED
      BY <1>2, <2>1 DEF EveryDriftHasACause, file_missing_on_disk, file_hash_drift
  <1>6. OnceUnlessOverlapped
    BY <1>2 DEF OnceUnlessOverlapped, LandsOnce, LandsTwice, StopSignalsResolvedOnce, Registered
  <1> QED
    BY <1>1, <1>2, <1>3, <1>4, <1>5, <1>6, IdleCaller DEF IInv, Ids, Sound

LEMMA Inductive == IInv /\ [Next]_vars => IInv'
  <1> SUFFICES ASSUME TypeOK, Ids, Steady, [Next]_vars PROVE TypeOK' /\ Ids' /\ Steady'
    BY DEF IInv, Steady
  <1>0. ASSUME version' \in {version, version + 1}, files' = files, TypeOK' PROVE Ids'
    BY <1>0 DEF Ids, TypeOK, FileNode
  <1>1. ASSUME NEW c \in Callers, Starts(c) PROVE TypeOK' /\ Ids' /\ Steady'
    <2>0. files' = files
      BY <1>1 DEF Starts, CreateFile, RegisterFile, IngestInPlace, Ingest, ResolveEscalate, Begins
    <2>1. TypeOK' /\ Steady' /\ version' = version
      BY <1>1, StartsSteady, ResolveSteady
    <2> QED
      BY <1>0, <2>0, <2>1
  <1>2. ASSUME NEW c \in Callers, Continues(c) PROVE TypeOK' /\ Ids' /\ Steady'
    <2>0. Shaped(c)
      BY DEF Steady, Sound, Caller
    <2>1. CASE WriteFile(c) \/ CopyArchive(c)
      BY <1>0, <2>1, WriteFileSteady, CopyArchiveSteady DEF WriteFile, CopyArchive
    <2>2. CASE CommitFile(c) \/ CommitResolve(c)
      BY <2>2, CommitFileSteady, CommitResolveSteady
    <2>3. CASE \/ CheckDest(c) \/ PreResolve(c) \/ FindDir(c) \/ ReadDirBase(c)
               \/ MakeDir(c) \/ ReadBase(c)
      <3>1. (Moves(c) \/ Leaves(c)) /\ TypeOK' /\ version' \in {version, version + 1}
        BY <2>0, <2>3, CheckDestStep, PreResolveStep, FindDirStep, ReadDirBaseStep, MakeDirStep,
           ReadBaseStep
      <3> QED
        BY <1>0, <3>1, QuietSteady DEF Moves, Leaves, WorldStays
    <2> QED
      BY <1>2, <2>1, <2>2, <2>3 DEF Continues
  <1>3. ASSUME NEW c \in Callers, Kill(c) PROVE TypeOK' /\ Ids' /\ Steady'
    BY <1>0, <1>3, KillLeaves, QuietSteady DEF Kill
  <1>4. CASE Elsewhere
    BY <1>4, ElsewhereSteady
  <1>5. CASE UNCHANGED vars
    <2>1. TypeOK'
      BY <1>5 DEF TypeOK, vars
    <2>2. WorldStays /\ UNCHANGED <<rq, raced, left, version>>
      BY <1>5 DEF vars, WorldStays
    <2>3. Overlaps'
      BY <2>2 DEF Steady, Sound, Overlaps, Meet, Works, Resolves, PathRaced
    <2>4. \A d \in Callers : Caller(d)'
      BY <2>2, CallerStays DEF Steady, Sound
    <2>5. EveryDriftHasACause'
      BY <2>2 DEF Steady, EveryDriftHasACause, file_missing_on_disk, untracked_managed_file,
                  file_hash_drift, Registered, Works, WorldStays
    <2> QED
      BY <1>0, <2>1, <2>2, <2>3, <2>4, <2>5, OnceStays DEF Steady, Sound, WorldStays
  <1> QED
    BY <1>1, <1>2, <1>3, <1>4, <1>5 DEF Next

LEMMA Always == Spec => []IInv
  BY Initially, Inductive, PTL DEF Spec

(* In every reachable state requests, file nodes and stop signals are       *)
(* well-formed, and the stop signals are those of the plans that landed.    *)
THEOREM TypeCorrect == Spec => []TypeOK
  BY Always, PTL DEF IInv

(* Whatever file and graph disagree on has one of the causes the order of   *)
(* the writes leaves (create_file, register_file, ingest_plan): for any     *)
(* number of callers, paths and contents, and however they interleave, are  *)
(* refused or die.                                                          *)
THEOREM DriftExplained == Spec => []EveryDriftHasACause
  BY Always, PTL DEF IInv

(* A plan file lands once and a stop signal is resolved once, unless two    *)
(* callers were at it at the same time (ingest_plan, resolve_escalate).     *)
THEOREM OnceOnly == Spec => []OnceUnlessOverlapped
  BY Always, PTL DEF IInv

-----------------------------------------------------------------------------
(* Lids.                                                                   *)

LEMMA Least ==
    ASSUME NEW S \in SUBSET Nat, S # {}
    PROVE  \E x \in S : \A y \in S : x <= y
  <1>1. PICK x \in S : \A y \in S : ~ (<<y, x>> \in OpToRel(<, Nat))
    BY WFMin, NatLessThanWellFounded, Zenon
  <1>2. \A y \in S : ~(y < x)
    BY <1>1, Zenon DEF OpToRel
  <1> QED
    BY <1>2

LEMMA Names ==
    /\ DOMAIN T = 1..Len(T) /\ Len(T) \in Nat
    /\ \A j, k \in DOMAIN T : T[j] = T[k] => j = k
    /\ \A k \in DOMAIN T : T[k] # NoLid /\ T[k] # "escalate"
  BY BlockAssumption DEF IsInjective, Range

\* Among more names than that, one is not yet used.
LEMMA OneIsFree ==
    ASSUME NEW m \in Nat, m < Len(T), NEW h
    PROVE  \E k \in DOMAIN T : \A i \in 1..m : h[i] # T[k]
  <1> SUFFICES ASSUME \A k \in DOMAIN T : \E i \in 1..m : h[i] = T[k] PROVE FALSE
    OBVIOUS
  <1> DEFINE S == 1..Len(T)
             R == 1..m
             at == [k \in S |-> CHOOSE i \in R : h[i] = T[k]]
  <1>1. at \in [S -> R] /\ \A k \in S : h[at[k]] = T[k]
    BY Names
  <1>2. IsFiniteSet(S) /\ IsFiniteSet(R) /\ Cardinality(R) < Cardinality(S)
    <2>1. /\ IsFiniteSet(S) /\ Cardinality(S) = IF 1 > Len(T) THEN 0 ELSE Len(T) - 1 + 1
          /\ IsFiniteSet(R) /\ Cardinality(R) = IF 1 > m THEN 0 ELSE m - 1 + 1
      <3>1. 1 \in Int /\ m \in Int /\ Len(T) \in Int
        BY Names
      <3> QED
        BY <3>1, FS_Interval
    <2> HIDE DEF S, R
    <2> QED
      BY <2>1, Names
  <1> HIDE DEF at, S, R
  <1>3. \E j, k \in S : j # k /\ at[j] = at[k]
    BY <1>1, <1>2, FS_PigeonHole
  <1>4. \A j \in S : j \in DOMAIN T
    BY Names DEF S
  <1> QED
    BY <1>1, <1>3, <1>4, Names

\* What the loop of _assign_lids finds.
LEMMA FreeFromIs ==
    ASSUME NEW n \in DOMAIN T, NEW used, \E k \in DOMAIN T : k >= n /\ T[k] \notin used
    PROVE  /\ FreeFrom(n, used) \in DOMAIN T /\ FreeFrom(n, used) >= n
           /\ T[FreeFrom(n, used)] \notin used
           /\ \A j \in DOMAIN T : j >= n /\ j < FreeFrom(n, used) => T[j] \in used
  <1> DEFINE S == {k \in DOMAIN T : k >= n /\ T[k] \notin used}
  <1>1. S \in SUBSET Nat /\ S # {}
    BY Names
  <1>2. PICK x \in S : \A y \in S : x <= y
    BY <1>1, Least
  <1> DEFINE Free(k) == /\ k >= n /\ T[k] \notin used
                        /\ \A j \in DOMAIN T : j >= n /\ T[j] \notin used => k <= j
  <1>3. \E k \in DOMAIN T : Free(k)
    BY <1>2
  <1>4. FreeFrom(n, used) = CHOOSE k \in DOMAIN T : Free(k)
    BY DEF FreeFrom
  <1> HIDE DEF Free
  <1>5. FreeFrom(n, used) \in DOMAIN T /\ Free(FreeFrom(n, used))
    BY <1>3, <1>4
  <1> QED
    BY <1>5, Names DEF Free

RowFirst(b) == [counter |-> 1, used |-> Explicit(b), name |-> NoLid]
RowAfter(b, i, before) ==
    IF b.tasks[i] # NoLid THEN [before EXCEPT !.name = b.tasks[i]]
    ELSE [counter |-> FreeFrom(before.counter, before.used),
          used |-> before.used \cup {T[FreeFrom(before.counter, before.used)]},
          name |-> T[FreeFrom(before.counter, before.used)]]
Rows(b, row, n) ==
    row = [i \in 0..n |-> IF i = 0 THEN RowFirst(b) ELSE RowAfter(b, i, row[i - 1])]

\* The loop ends: for each number of tasks there are rows.
LEMMA RowsExist ==
    ASSUME NEW b, NEW n \in Nat PROVE \E row : Rows(b, row, n)
  <1> DEFINE S == {m \in Nat : ~ \E row : Rows(b, row, m)}
  <1> SUFFICES ASSUME S # {} PROVE FALSE
    OBVIOUS
  <1>1. PICK m \in S : \A y \in S : m <= y
    BY Least
  <1>2. CASE m = 0
    <2> DEFINE row == [i \in 0..0 |-> RowFirst(b)]
    <2>1. Rows(b, row, 0)
      BY DEF Rows
    <2> QED
      BY <1>2, <2>1
  <1>3. CASE m # 0
    <2>1. m - 1 \in Nat /\ m - 1 \notin S
      BY <1>1, <1>3
    <2>2. PICK row : Rows(b, row, m - 1)
      BY <2>1
    <2> DEFINE longer == [i \in 0..m |-> IF i = m THEN RowAfter(b, m, row[m - 1]) ELSE row[i]]
    <2>3. \A i \in 0..(m - 1) : row[i] = IF i = 0 THEN RowFirst(b) ELSE RowAfter(b, i, row[i - 1])
      BY <2>2 DEF Rows
    <2>4. ASSUME NEW i \in 0..m
          PROVE  longer[i] = IF i = 0 THEN RowFirst(b) ELSE RowAfter(b, i, longer[i - 1])
      <3>1. CASE i = m
        <4>1. i # 0 /\ i - 1 \in 0..m /\ i - 1 # m /\ longer[i - 1] = row[m - 1]
          BY <2>1, <3>1
        <4> QED
          BY <3>1, <4>1
      <3>2. CASE i # m /\ i # 0
        <4>1. i \in 0..(m - 1) /\ i - 1 \in 0..m /\ i - 1 # m
          BY <2>1, <3>2
        <4>2. longer[i] = row[i] /\ longer[i - 1] = row[i - 1]
          BY <3>2, <4>1
        <4> QED
          BY <2>3, <3>2, <4>1, <4>2
      <3>3. CASE i = 0
        <4>1. i \in 0..(m - 1) /\ i # m
          BY <2>1, <3>3
        <4> QED
          BY <2>3, <3>3, <4>1
      <3> QED
        BY <3>1, <3>2, <3>3
    <2> HIDE DEF longer
    <2>5. DOMAIN longer = 0..m /\ longer = [i \in 0..m |-> longer[i]]
      BY DEF longer
    <2>6. Rows(b, longer, m)
      BY <2>4, <2>5 DEF Rows
    <2> QED
      BY <1>1, <2>6
  <1> QED
    BY <1>2, <1>3

LEMMA TaskLidsAre ==
    ASSUME NEW b, Len(b.tasks) \in Nat
    PROVE  \E row : /\ Rows(b, row, Len(b.tasks))
                    /\ TaskLids(b) = [i \in DOMAIN b.tasks |-> row[i].name]
  <1> DEFINE n == Len(b.tasks)
             row == CHOOSE row : Rows(b, row, n)
  <1>1. Rows(b, row, n)
    BY RowsExist
  <1>2. TaskLids(b) = [i \in DOMAIN b.tasks |-> row[i].name]
    BY DEF TaskLids, Rows, RowFirst, RowAfter
  <1> QED
    BY <1>1, <1>2

\* A block is made of sequences.
LEMMA WiderSeq ==
    ASSUME NEW A, NEW B, A \subseteq B, NEW s \in Seq(A) PROVE s \in Seq(B)
  OBVIOUS

LEMMA LidsAreSeq ==
    ASSUME NEW A, NEW s \in Seq(A) PROVE Lids(s) \in Seq({x.lid : x \in A})
  BY DEF Lids

LEMMA BlockIs ==
    ASSUME NEW b \in Blocks
    PROVE  /\ Len(b.tasks) \in Nat /\ DOMAIN b.tasks = 1..Len(b.tasks)
           /\ Len(AtomLids(b)) \in Nat /\ DOMAIN AtomLids(b) = 1..Len(AtomLids(b))
           /\ \E X : AtomLids(b) \in Seq(X)
           /\ Len(AtomLids(b)) + Len(b.tasks) < Len(T)
  <1> DEFINE A == Range(b.new_claims)
             B == Range(b.questions)
             C == {x.lid : x \in Range(b.hypotheses)}
             D == {x.lid : x \in Range(b.experiments)}
             X == A \cup B \cup C \cup D
  <1>1. /\ b.tasks \in Seq(Range(b.tasks))
        /\ b.new_claims \in Seq(A) /\ b.questions \in Seq(B)
        /\ b.hypotheses \in Seq(Range(b.hypotheses)) /\ b.experiments \in Seq(Range(b.experiments))
    BY BlockAssumption DEF Sections, PlanBlock
  <1>2. Lids(b.hypotheses) \in Seq(C) /\ Lids(b.experiments) \in Seq(D)
    BY <1>1, LidsAreSeq
  <1>3. A \subseteq X /\ B \subseteq X /\ C \subseteq X /\ D \subseteq X
    OBVIOUS
  <1> HIDE DEF A, B, C, D, X
  <1>4. /\ b.new_claims \in Seq(X) /\ b.questions \in Seq(X)
        /\ Lids(b.hypotheses) \in Seq(X) /\ Lids(b.experiments) \in Seq(X)
    BY <1>1, <1>2, <1>3, WiderSeq
  <1>5. AtomLids(b) \in Seq(X)
    BY <1>4 DEF AtomLids
  <1>6. Len(T) > Len(AtomLids(b)) + Len(b.tasks)
    BY BlockAssumption
  <1> QED
    BY <1>1, <1>5, <1>6, Names

\* What is known of the lids after the first i tasks.
Derived(b, i) == b.tasks[i] = NoLid
CounterOk(r) ==
    /\ r = [counter |-> r.counter, used |-> r.used, name |-> r.name]
    /\ r.counter \in DOMAIN T
    /\ \A j \in DOMAIN T : j < r.counter => T[j] \in r.used
UsedOk(b, row, i) == row[i].used = Explicit(b) \cup {row[j].name : j \in 1..i}
NameOk(b, name, i) ==
    IF Derived(b, i) THEN name \in Range(T) /\ name \notin Explicit(b) ELSE name = b.tasks[i]
NamesOk(b, row, i) ==
    /\ \A j \in 1..i : NameOk(b, row[j].name, j)
    /\ \A j, k \in 1..i : j < k => row[j].name # row[k].name
RowOk(b, row, i) == CounterOk(row[i]) /\ UsedOk(b, row, i) /\ NamesOk(b, row, i)

\* A lid is left for the next task: those in use are of the atoms or of tasks.
LEMMA LidIsLeft ==
    ASSUME NEW b \in Blocks, NEW row, NEW i \in 0..(Len(b.tasks) - 1),
           UsedOk(b, row, i), NamesOk(b, row, i)
    PROVE  \E k \in DOMAIN T : T[k] \notin row[i].used
  <1> DEFINE a == Len(AtomLids(b))
             n == Len(b.tasks)
             h == [m \in 1..(a + n) |-> IF m <= a THEN AtomLids(b)[m]
                    ELSE IF b.tasks[m - a] # NoLid THEN b.tasks[m - a] ELSE row[m - a].name]
  <1>1. a \in Nat /\ n \in Nat /\ a + n < Len(T) /\ a + n \in Nat
    BY BlockIs
  <1>2. PICK k \in DOMAIN T : \A m \in 1..(a + n) : h[m] # T[k]
    <2> HIDE DEF h
    <2> QED
      BY <1>1, OneIsFree
  <1>3. ASSUME NEW x \in Range(AtomLids(b)) PROVE x # T[k]
    <2>1. PICK m \in 1..a : x = AtomLids(b)[m]
      BY BlockIs DEF Range
    <2>2. m \in 1..(a + n) /\ m <= a
      BY <1>1
    <2> QED
      BY <1>2, <2>1, <2>2
  <1>4. ASSUME NEW j \in 1..n
        PROVE  (IF b.tasks[j] # NoLid THEN b.tasks[j] ELSE row[j].name) # T[k]
    <2>1. a + j \in 1..(a + n) /\ ~(a + j <= a) /\ (a + j) - a = j
      BY <1>1
    <2>2. h[a + j] # T[k]
      BY <1>2, <2>1
    <2> QED
      BY <2>1, <2>2
  <1>5. ASSUME NEW x \in Explicit(b) PROVE x # T[k]
    <2>1. CASE x \in Range(AtomLids(b))
      BY <1>3, <2>1
    <2>2. CASE x \in {b.tasks[j] : j \in Given(b)}
      <3>1. PICK j \in 1..n : x = b.tasks[j] /\ b.tasks[j] # NoLid
        BY <2>2, BlockIs DEF Given
      <3> QED
        BY <1>4, <3>1
    <2> QED
      BY <2>1, <2>2 DEF Explicit
  <1>6. ASSUME NEW j \in 1..i PROVE row[j].name # T[k]
    <2>1. j \in 1..n /\ NameOk(b, row[j].name, j)
      BY <1>1 DEF NamesOk
    <2> QED
      BY <1>4, <2>1 DEF NameOk, Derived
  <1> HIDE DEF h, a, n
  <1> QED
    BY <1>5, <1>6 DEF UsedOk

LEMMA RowStarts ==
    ASSUME NEW b \in Blocks, NEW row, Rows(b, row, Len(b.tasks))
    PROVE  RowOk(b, row, 0)
  <1>1. row[0] = RowFirst(b)
    BY BlockIs DEF Rows
  <1>2. 1 \in DOMAIN T /\ \A j \in DOMAIN T : ~(j < 1)
    BY Names, BlockIs
  <1>3. 1..0 = {}
    OBVIOUS
  <1>4. CounterOk(row[0])
    BY <1>1, <1>2 DEF CounterOk, RowFirst
  <1>5. UsedOk(b, row, 0)
    BY <1>1, <1>3 DEF UsedOk, RowFirst
  <1>6. NamesOk(b, row, 0)
    BY <1>3 DEF NamesOk
  <1> QED
    BY <1>4, <1>5, <1>6 DEF RowOk

LEMMA RowSteps ==
    ASSUME NEW b \in Blocks, LidsTaken(b), NEW row, Rows(b, row, Len(b.tasks)),
           NEW i \in 0..(Len(b.tasks) - 1), RowOk(b, row, i)
    PROVE  RowOk(b, row, i + 1)
  <1> DEFINE r == row[i]
             s == row[i + 1]
             f == FreeFrom(r.counter, r.used)
  <1>1. /\ i \in Nat /\ i + 1 \in 1..Len(b.tasks) /\ (i + 1) - 1 = i /\ i + 1 # 0
        /\ i + 1 \in DOMAIN b.tasks
    BY BlockIs
  <1>2. s = RowAfter(b, i + 1, r)
    BY <1>1, BlockIs DEF Rows
  <1>3. CounterOk(r) /\ UsedOk(b, row, i) /\ NamesOk(b, row, i)
    BY DEF RowOk
  <1>4. 1..(i + 1) = (1..i) \cup {i + 1}
    BY <1>1
  <1>5. CASE Derived(b, i + 1)
    <2>1. s = [counter |-> f, used |-> r.used \cup {T[f]}, name |-> T[f]]
      BY <1>2, <1>5 DEF RowAfter, Derived
    <2>2. \E k \in DOMAIN T : k >= r.counter /\ T[k] \notin r.used
      <3>1. PICK k \in DOMAIN T : T[k] \notin r.used
        BY <1>3, LidIsLeft
      <3>2. ~(k < r.counter)
        BY <1>3, <3>1 DEF CounterOk
      <3> QED
        BY <1>3, <3>1, <3>2, Names DEF CounterOk
    <2>3. /\ f \in DOMAIN T /\ f >= r.counter /\ T[f] \notin r.used
          /\ \A j \in DOMAIN T : j >= r.counter /\ j < f => T[j] \in r.used
      BY <1>3, <2>2, FreeFromIs DEF CounterOk
    <2> HIDE DEF f
    <2>4. /\ s.counter = f /\ s.used = r.used \cup {T[f]} /\ s.name = T[f]
          /\ s = [counter |-> s.counter, used |-> s.used, name |-> s.name]
      BY <2>1
    <2> HIDE DEF r, s
    <2>5. CounterOk(s)
      <3> SUFFICES ASSUME NEW j \in DOMAIN T, j < f PROVE T[j] \in r.used
        BY <2>3, <2>4 DEF CounterOk
      <3>1. CASE j < r.counter
        BY <1>3, <3>1 DEF CounterOk
      <3>2. CASE ~(j < r.counter)
        <4>1. j >= r.counter
          BY <1>3, <3>2, Names DEF CounterOk
        <4> QED
          BY <2>3, <4>1
      <3> QED
        BY <3>1, <3>2
    <2>6. r.used = Explicit(b) \cup {row[j].name : j \in 1..i}
      BY <1>3 DEF UsedOk, r
    <2>7. UsedOk(b, row, i + 1)
      BY <1>4, <2>4, <2>6 DEF UsedOk, s
    <2>8. NameOk(b, s.name, i + 1)
      BY <1>5, <2>3, <2>4, <2>6 DEF NameOk, Range
    <2>9. \A j \in 1..i : row[j].name # s.name
      BY <2>3, <2>4, <2>6
    <2>10. NamesOk(b, row, i + 1)
      BY <1>1, <1>3, <1>4, <2>8, <2>9 DEF NamesOk, s
    <2> QED
      BY <2>5, <2>7, <2>10 DEF RowOk, s
  <1>6. CASE ~Derived(b, i + 1)
    <2>1. s = [r EXCEPT !.name = b.tasks[i + 1]]
      BY <1>2, <1>6 DEF RowAfter, Derived
    <2> HIDE DEF r, s
    <2>2. r = [counter |-> r.counter, used |-> r.used, name |-> r.name]
      BY <1>3 DEF CounterOk
    <2>3. s = [counter |-> r.counter, used |-> r.used, name |-> b.tasks[i + 1]]
      BY <2>1, <2>2
    <2>4. /\ s.counter = r.counter /\ s.used = r.used /\ s.name = b.tasks[i + 1]
          /\ s = [counter |-> s.counter, used |-> s.used, name |-> s.name]
      BY <2>3
    <2>5. CounterOk(s)
      BY <1>3, <2>4 DEF CounterOk
    <2>6. i + 1 \in Given(b) /\ s.name \in Explicit(b)
      BY <1>1, <1>6, <2>4 DEF Given, Explicit, Derived
    <2>7. UsedOk(b, row, i + 1)
      <3>1. r.used = Explicit(b) \cup {row[j].name : j \in 1..i}
        BY <1>3 DEF UsedOk, r
      <3> QED
        BY <1>4, <2>4, <2>6, <3>1 DEF UsedOk, s
    <2>8. NameOk(b, s.name, i + 1)
      BY <1>6, <2>4 DEF NameOk
    <2>9. ASSUME NEW j \in 1..i PROVE row[j].name # s.name
      <3>1. NameOk(b, row[j].name, j)
        BY <1>3 DEF NamesOk
      <3>2. CASE Derived(b, j)
        BY <2>6, <3>1, <3>2 DEF NameOk
      <3>3. CASE ~Derived(b, j)
        <4>1. j \in Given(b) /\ j # i + 1
          BY <1>1, <3>3, BlockIs DEF Given, Derived
        <4> QED
          BY <2>4, <2>6, <3>1, <3>3, <4>1 DEF NameOk, LidsTaken
      <3> QED
        BY <3>2, <3>3
    <2>10. NamesOk(b, row, i + 1)
      BY <1>1, <1>3, <1>4, <2>8, <2>9 DEF NamesOk, s
    <2> QED
      BY <2>5, <2>7, <2>10 DEF RowOk, s
  <1> QED
    BY <1>5, <1>6

LEMMA RowsAreOk ==
    ASSUME NEW b \in Blocks, LidsTaken(b), NEW row, Rows(b, row, Len(b.tasks))
    PROVE  RowOk(b, row, Len(b.tasks))
  <1> DEFINE S == {i \in 0..Len(b.tasks) : ~RowOk(b, row, i)}
  <1>1. Len(b.tasks) \in Nat
    BY BlockIs
  <1> SUFFICES ASSUME S # {} PROVE FALSE
    BY <1>1
  <1>2. PICK m \in S : \A i \in S : m <= i
    <2>1. S \in SUBSET Nat
      BY <1>1
    <2> HIDE DEF S
    <2> QED
      BY <2>1, Least
  <1>3. m # 0
    BY <1>2, RowStarts
  <1>4. m - 1 \in 0..(Len(b.tasks) - 1) /\ m - 1 \in 0..Len(b.tasks) /\ (m - 1) + 1 = m
    BY <1>1, <1>2, <1>3
  <1>5. RowOk(b, row, m - 1)
    BY <1>1, <1>2, <1>4
  <1>6. RowOk(b, row, m)
    BY <1>4, <1>5, RowSteps
  <1> QED
    BY <1>2, <1>6

\* In a block whose lids are taken once, the names of all atoms differ.
LEMMA Apart ==
    ASSUME NEW b \in Blocks, LidsTaken(b)
    PROVE  /\ IsInjective(NamesUnder(b)) /\ IsInjective(TaskLids(b))
           /\ Range(TaskLids(b)) \cap Range(NamesUnder(b)) = {}
  <1> DEFINE n == Len(b.tasks)
  <1>1. n \in Nat /\ DOMAIN b.tasks = 1..n
    BY BlockIs
  <1>2. PICK row : Rows(b, row, n) /\ TaskLids(b) = [i \in DOMAIN b.tasks |-> row[i].name]
    BY <1>1, TaskLidsAre
  <1>3. NamesOk(b, row, n)
    BY <1>2, RowsAreOk DEF RowOk
  <1>4. PICK X : AtomLids(b) \in Seq(X)
    BY BlockIs
  <1> HIDE DEF n
  <1>5. IsInjective(TaskLids(b))
    <2> SUFFICES ASSUME NEW i \in 1..n, NEW j \in 1..n, row[i].name = row[j].name PROVE i = j
      BY <1>1, <1>2 DEF IsInjective
    <2>1. i < j \/ j < i \/ i = j
      BY <1>1
    <2> QED
      BY <1>3, <2>1 DEF NamesOk
  <1>6. \A i \in DOMAIN AtomLids(b) : AtomLids(b)[i] # "escalate"
    BY DEF LidsTaken, Explicit, Range
  <1>7. IsInjective(NamesUnder(b)) /\ Range(NamesUnder(b)) \subseteq Range(AtomLids(b)) \cup {"escalate"}
    <2>1. CASE b.escalate
      <3>1. /\ NamesUnder(b) = AtomLids(b) \o <<"escalate">>
            /\ Len(AtomLids(b)) \in Nat /\ DOMAIN AtomLids(b) = 1..Len(AtomLids(b))
        BY <2>1, BlockIs DEF NamesUnder
      <3>2. /\ DOMAIN NamesUnder(b) = 1..(Len(AtomLids(b)) + 1)
            /\ \A i \in 1..Len(AtomLids(b)) : NamesUnder(b)[i] = AtomLids(b)[i]
            /\ NamesUnder(b)[Len(AtomLids(b)) + 1] = "escalate"
        BY <1>4, <3>1
      <3>3. ASSUME NEW i \in DOMAIN NamesUnder(b)
            PROVE  \/ i \in DOMAIN AtomLids(b) /\ NamesUnder(b)[i] = AtomLids(b)[i]
                   \/ i = Len(AtomLids(b)) + 1 /\ NamesUnder(b)[i] = "escalate"
        BY <3>1, <3>2
      <3> QED
        BY <1>6, <3>3 DEF IsInjective, Range, LidsTaken
    <2>2. CASE ~b.escalate
      <3>1. NamesUnder(b) = AtomLids(b)
        BY <1>4, <2>2 DEF NamesUnder
      <3> QED
        BY <3>1 DEF LidsTaken
    <2> QED
      BY <2>1, <2>2
  <1>8. ASSUME NEW i \in 1..n
        PROVE  row[i].name \notin Range(AtomLids(b)) /\ row[i].name # "escalate"
    <2>1. NameOk(b, row[i].name, i)
      BY <1>3 DEF NamesOk
    <2>2. CASE Derived(b, i)
      BY <2>1, <2>2, Names DEF NameOk, Explicit, Range
    <2>3. CASE ~Derived(b, i)
      <3>1. i \in Given(b)
        BY <1>1, <2>3 DEF Given, Derived
      <3> QED
        BY <2>1, <2>3, <3>1 DEF NameOk, LidsTaken, Explicit
    <2> QED
      BY <2>2, <2>3
  <1>9. Range(TaskLids(b)) \cap Range(NamesUnder(b)) = {}
    <2> SUFFICES ASSUME NEW i \in 1..n, row[i].name \in Range(NamesUnder(b)) PROVE FALSE
      BY <1>1, <1>2 DEF Range
    <2> QED
      BY <1>7, <1>8
  <1> QED
    BY <1>5, <1>7, <1>9

\* The lids of a plan are compared before anything else is done with it.
Taken ==
    /\ \A c \in Callers : rq[c].op \in Ingests => LidsTaken(block[rq[c].content])
    /\ \A f \in files : f.plan => f.content \in Plans /\ LidsTaken(block[f.content])
SameOrTaken(c) ==
    \/ SameCall(c)
    \/ rq'[c].op \notin Ingests
    \/ LidsTaken(block[rq'[c].content])

LEMMA TakenStays ==
    ASSUME Taken, NEW c \in Callers, block' = block, OthersStay(c), SameOrTaken(c),
           \A f \in files' : f \in files \/ (f.plan => f.content \in Plans /\ LidsTaken(block[f.content]))
    PROVE  Taken'
  <1>1. ASSUME NEW d \in Callers, rq'[d].op \in Ingests PROVE LidsTaken(block[rq'[d].content])
    BY <1>1 DEF Taken, SameOrTaken, SameCall, OthersStay
  <1> HIDE DEF LidsTaken
  <1>2. \A f \in files' : f.plan => f.content \in Plans /\ LidsTaken(block[f.content])
    BY DEF Taken
  <1>3. \A b : LidsTaken(b)' <=> LidsTaken(b)
    OBVIOUS
  <1> QED
    BY <1>1, <1>2 DEF Taken

LEMMA TakenBegins ==
    ASSUME Taken, TypeOK, NEW c \in Callers, Starts(c) PROVE Taken'
  <1>1. ASSUME NEW pc, NEW op, NEW path \in Paths, NEW content \in Contents,
               Begins(c, pc, op, path, content), Checked(pc, op, path, content),
               op \in Ingests => LidsTaken(block[content])
        PROVE  Taken'
    <2>1. /\ OthersStay(c) /\ WorldStays
          /\ rq'[c].op = op /\ rq'[c].content = content
      BY <1>1, BeginsRequest
    <2>2. SameOrTaken(c)
      BY <1>1, <2>1 DEF SameOrTaken
    <2> QED
      BY <2>1, <2>2, TakenStays DEF WorldStays
  <1>2. ASSUME NEW p \in Paths, NEW x \in Contents, CreateFile(c, p, x) PROVE Taken'
    BY <1>1, <1>2 DEF CreateFile, FreeOnDisk, Checked, Ingests
  <1>3. ASSUME NEW p \in Paths, RegisterFile(c, p) PROVE Taken'
    <2>1. disk[p] \in Contents
      BY <1>3 DEF RegisterFile, TypeOK
    <2> QED
      BY <1>1, <1>3, <2>1 DEF RegisterFile, Checked, Ingests
  <1>4. ASSUME NEW p \in Paths, IngestInPlace(c, p) PROVE Taken'
    <2>1. disk[p] \in Contents
      BY <1>4, PlanAssumption DEF IngestInPlace
    <2> QED
      BY <1>1, <1>4, <2>1 DEF IngestInPlace, NotIngested, Checked
  <1>5. ASSUME NEW p \in Paths, NEW x \in Plans, Ingest(c, p, x) PROVE Taken'
    BY <1>1, <1>5, PlanAssumption DEF Ingest, NotIngested, Checked
  <1>6. ASSUME NEW n \in DOMAIN notes, ResolveEscalate(c, n) PROVE Taken'
    <2>1. rq' = [rq EXCEPT ![c] = Call("base", "resolve", Idle.path, Idle.content, n)]
      BY <1>6 DEF ResolveEscalate
    <2>2. rq'[c].op = "resolve" /\ OthersStay(c)
      BY <2>1 DEF TypeOK, Call, OthersStay
    <2> QED
      BY <1>6, <2>2, TakenStays DEF ResolveEscalate, SameOrTaken, Ingests
  <1> QED
    BY <1>2, <1>3, <1>4, <1>5, <1>6 DEF Starts

LEMMA TakenContinues ==
    ASSUME Taken, TypeOK, Ids, NEW c \in Callers, Shaped(c), Continues(c) \/ Kill(c) PROVE Taken'
  <1>1. CASE Leaves(c)
    BY <1>1, TakenStays, IdleTyped DEF Leaves, WorldStays, SameOrTaken
  <1>2. CASE Moves(c)
    BY <1>2, TakenStays DEF Moves, WorldStays, SameOrTaken
  <1>3. CASE WriteFile(c)
    <2>1. SameCall(c) /\ OthersStay(c)
      BY <1>3, RqPc DEF WriteFile, Goes, TypeOK, Steps
    <2> QED
      BY <1>3, <2>1, TakenStays DEF WriteFile, SameOrTaken
  <1>4. CASE rq' = [rq EXCEPT ![c] = Idle] /\ block' = block /\ files' = files
    <2>1. rq'[c] = Idle /\ OthersStay(c)
      BY <1>4, RqSet, IdleTyped DEF TypeOK
    <2> QED
      BY <1>4, <2>1, TakenStays, IdleTyped DEF SameOrTaken
  <1>5. CASE CommitFile(c) /\ ~Refused(c)
    <2>1. Lands(c)
      BY <1>5 DEF CommitFile, Lands
    <2>2. /\ Landed(c).plan <=> rq[c].op \in Ingests
          /\ Landed(c).content = rq[c].content
      BY <2>1, LandedNode DEF Lands
    <2>3. \A f \in files' : f \in files \/ (f.plan => f.content \in Plans /\ LidsTaken(block[f.content]))
      BY <2>1, <2>2 DEF Lands, Taken, TypeOK
    <2>4. OthersStay(c) /\ SameOrTaken(c)
      <3>1. CASE rq[c].op = "ingest"
        <4>1. rq' = [rq EXCEPT ![c].pc = "copy", ![c].base = 0]
          BY <1>5, <3>1 DEF CommitFile
        <4>2. "copy" \in Steps /\ 0 \in 0..MaxVersion
          BY PlanAssumption DEF Steps
        <4> QED
          BY <4>1, <4>2, RqPcBase DEF TypeOK, SameOrTaken
      <3>2. CASE rq[c].op # "ingest"
        <4>1. rq' = [rq EXCEPT ![c] = Idle]
          BY <1>5, <3>2 DEF CommitFile
        <4> QED
          BY <4>1, RqSet, IdleTyped DEF TypeOK, SameOrTaken
      <3> QED
        BY <3>1, <3>2
    <2> QED
      BY <2>1, <2>3, <2>4, TakenStays DEF Lands
  <1>6. CASE CommitFile(c) /\ Refused(c)
    BY <1>1, <1>6, RefusedLeaves DEF CommitFile
  <1>7. CASE Kill(c)
    BY <1>1, <1>7, KillLeaves
  <1>8. CASE CopyArchive(c) \/ CommitResolve(c)
    BY <1>4, <1>8 DEF CopyArchive, CommitResolve
  <1>9. CASE CheckDest(c) \/ PreResolve(c) \/ FindDir(c) \/ ReadDirBase(c) \/ MakeDir(c) \/ ReadBase(c)
    BY <1>1, <1>2, <1>9, CheckDestStep, PreResolveStep, FindDirStep, ReadDirBaseStep, MakeDirStep,
       ReadBaseStep
  <1> QED
    BY <1>3, <1>5, <1>6, <1>7, <1>8, <1>9 DEF Continues

LEMMA TakenAlways == Spec => []Taken
  <1>1. Init => Taken
    <2> SUFFICES ASSUME Init PROVE Taken
      OBVIOUS
    <2>1. files = {} /\ \A c \in Callers : rq[c] = Idle
      BY DEF Init
    <2> QED
      BY <2>1, IdleTyped DEF Taken
  <1>2. IInv /\ Taken /\ [Next]_vars => Taken'
    <2> SUFFICES ASSUME IInv, Taken, [Next]_vars PROVE Taken'
      OBVIOUS
    <2>1. TypeOK /\ Ids /\ \A c \in Callers : Shaped(c)
      BY DEF IInv, Sound, Caller
    <2>2. CASE Elsewhere
      BY <2>2 DEF Elsewhere, Taken
    <2>3. CASE UNCHANGED vars
      BY <2>3 DEF vars, Taken
    <2> QED
      BY <2>1, <2>2, <2>3, TakenBegins, TakenContinues DEF Next
  <1> QED
    BY <1>1, <1>2, Always, PTL DEF Spec

(* The atoms of every plan in the graph have names of their own: the lids  *)
(* the block gives, those _assign_lids derives for tasks without one, and   *)
(* the stop signal's (_assign_lids, ingest_plan).  For every block, however *)
(* many tasks it has and whichever of the derived names it uses itself.     *)
THEOREM NamedApart == Spec => []AtomsNamedApart
  <1>1. TypeOK /\ Taken => AtomsNamedApart
    <2> SUFFICES ASSUME TypeOK, Taken, NEW f \in files, f.plan
                 PROVE  /\ IsInjective(NamesUnder(block[f.content]))
                        /\ IsInjective(TaskLids(block[f.content]))
                        /\ Range(TaskLids(block[f.content])) \cap Range(NamesUnder(block[f.content])) = {}
      BY DEF AtomsNamedApart
    <2>1. f.content \in Plans /\ block[f.content] \in Blocks
      BY DEF Taken, TypeOK
    <2> QED
      BY <2>1, Apart DEF Taken
  <1> QED
    BY <1>1, Always, TakenAlways, PTL DEF IInv
=============================================================================
