----------------------------- MODULE RunProofs -----------------------------
(***************************************************************************)
(* Proofs about a run, for any number of readers, failures, edits,         *)
(* contracts and metrics.                                                  *)
(***************************************************************************)
EXTENDS Run, TLAPS

Sync == kind \in {"exec", "agent"}
\* The process is gone, and with it the rest of its markers.
Gone == proc \in {"zombie", "dead"}

\* What `failed` may mean of a detached run.
FailedOK == (marks = 3 \/ Gone) /\ (marks = 3 /\ code = 0 => gap)

ProcessOK ==
    /\ proc \in {"none", "command"} => code = None /\ marks = 0
    /\ proc = "none" \/ code # None => ~busy
    /\ proc = "wrapper" => Detached
    /\ proc = "wrapper" \/ marks > 0 => code # None

LaunchOK ==
    /\ kind = "bracket" =>
          proc = "none" /\ launch.pc \in {"start", "read", "contracted", "done", "dead"}
    /\ launch.pc \in {"start", "read"} => proc = "none"
    /\ launch.pc \notin {"start", "read", "dead"} /\ kind # "bracket" => proc # "none"
    /\ launch.pc \in {"start", "read", "spawned"} => node.status = "none"
    /\ launch.pc = "contracted" /\ kind = "bracket" => node.status = "none"
    /\ node.status = "none" => node.judged = None
    /\ launch.pc \in {"created", "linked", "described", "mirrored"} => node.status # "none"
    /\ launch.pc = "contracted" /\ kind # "bracket" => node.status # "none"
    /\ launch.pc \in {"linked", "described", "mirrored"} => OfAgent
    /\ launch.pc = "mirrored" => kind = "agent"
    /\ launch.pc = "start" => launch.contract = None
    /\ meta => kind = "detached_agent"
    /\ contractFile \in {None, launch.contract}

NodeOK ==
    /\ node.status # "none" /\ kind # "bracket" => proc # "none"
    /\ node.judged \in {None, launch.contract} /\ node.contract \in {None, launch.contract}
    /\ Sync => node.status # "running" /\ (Sealed => Gone)
    /\ kind # "bracket" =>
          (node.status = "done" => code = 0) /\ node.exit \in {None, code}
    /\ Detached => node.status # "timed_out" /\ (node.status = "failed" => FailedOK)
    /\ kind # "bracket" /\ changes # None => Sealed

ReaderOK(x) ==
    /\ x.pc # "idle" => node.status # "none"
    /\ x.linked => node.linked
    /\ x.judged \in {None, launch.contract}
    /\ x.pc \in {"looked", "unmarked", "sealing"} => ~Sync
    /\ x.pc \in {"looked", "unmarked"} => x.exit = None
    /\ x.pc = "unmarked" /\ marks = 3 => gap
    /\ x.pc = "sealing" => x.status # None
    /\ x.pc = "sealing" /\ Detached =>
          /\ x.status = "done" => code = 0
          /\ x.exit \in {None, code}
          /\ x.status = "failed" => FailedOK
    /\ x.pc \in {"parsed", "minting"} => x.read \in Metrics
    /\ x.pc = "ending" => kind = "bracket"
    /\ x.pc = "mirroring" => kind # "bracket"
    /\ x.pc \in {"measuring", "judging", "ending"} /\ kind = "bracket" => x.status # None
    /\ x.pc \in {"final", "measuring", "judging", "mirroring"} /\ kind # "bracket" => Sealed
    /\ x.pc \in {"measuring", "judging", "mirroring"} /\ kind # "bracket" => meta

IInv == TypeOK /\ ProcessOK /\ LaunchOK /\ NodeOK /\ \A r \in Readers : ReaderOK(rd[r])

-----------------------------------------------------------------------------
LEMMA IdleOK == Idle \in Reader /\ ReaderOK(Idle)
  BY RunAssumption DEF Idle, Reader, ReaderOK, Codes, Edits

LEMMA InitOK == Init => IInv
<1> SUFFICES ASSUME Init PROVE IInv
  OBVIOUS
<1>1. TypeOK
  <2>1. node \in Node /\ node.judged = None /\ ~Sealed
    BY DEF Init, Node, Codes, Edits, Sealed, Outcomes
  <2>2. rd \in [Readers -> Reader]
    BY IdleOK DEF Init
  <2>3. workspace \in Edits /\ failures \in 0..MaxFailures /\ marks \in 0..3
    BY RunAssumption DEF Init, Edits
  <2>4. evidence \in Seq(Metrics)
    BY DEF Init
  <2> QED BY <2>1, <2>2, <2>3, <2>4 DEF Init, TypeOK, Codes
<1>2. ProcessOK /\ LaunchOK /\ NodeOK
  BY RunAssumption DEF Init, ProcessOK, LaunchOK, NodeOK, Sealed, Outcomes, Gone, Kinds, Sync
<1>3. \A r \in Readers : ReaderOK(rd[r])
  BY IdleOK DEF Init
<1> QED BY <1>1, <1>2, <1>3 DEF IInv

\* A reader that changes nothing but itself and the histories of overlaps
\* and failures.
LEMMA ReaderStep ==
    ASSUME IInv, NEW r \in Readers, NEW x \in Reader, ReaderOK(x),
           rd' = [rd EXCEPT ![r] = x],
           UNCHANGED <<launching, process, world, records, gap>>,
           overlap' \in BOOLEAN, failures' \in 0..MaxFailures
    PROVE  IInv'
<1> USE DEF launching, process, world, records
<1>1. rd' \in [Readers -> Reader] /\ rd'[r] = x /\ \A s \in Readers : s # r => rd'[s] = rd[s]
  BY DEF IInv, TypeOK
<1>2. TypeOK'
  BY <1>1 DEF IInv, TypeOK, Sealed, Detached
<1>3. ProcessOK' /\ LaunchOK' /\ NodeOK'
  BY DEF IInv, ProcessOK, LaunchOK, NodeOK, FailedOK, Sealed, Gone, Detached, OfAgent, Sync
<1>4. \A y \in Reader : ReaderOK(y) => ReaderOK(y)'
  BY DEF ReaderOK, FailedOK, Sealed, Gone, Detached, Sync
<1>5. \A s \in Readers : ReaderOK(rd[s])'
  BY <1>1, <1>4 DEF IInv, ReaderOK, FailedOK, Sealed, Gone, Detached, Sync
<1> QED BY <1>2, <1>3, <1>5 DEF IInv

\* A step of the launcher or of a reader that writes the run node: what it
\* has to keep for the readers.
LEMMA Stable ==
    ASSUME IInv, NEW y \in Reader, ReaderOK(y),
           UNCHANGED <<kind, process, gap>>,
           node'.status = "none" => node.status = "none",
           node.linked => node'.linked,
           launch.contract \in {None, launch'.contract},
           kind # "bracket" /\ Sealed => Sealed',
           meta => meta'
    PROVE  ReaderOK(y)'
  BY DEF ReaderOK, FailedOK, Gone, Detached, Sync, process

-----------------------------------------------------------------------------
(* Readers that only read                                                  *)

LEMMA StartsOK ==
    ASSUME IInv, NEW r \in Readers, NEW x \in Reader, ReaderOK(x), Starts(r, x),
           UNCHANGED <<launching, process, world, records>>
    PROVE  IInv'
<1>1. overlap' \in BOOLEAN /\ failures' \in 0..MaxFailures
  BY DEF Starts, IInv, TypeOK
<1> QED BY <1>1, ReaderStep DEF Starts

LEMMA MovesOK ==
    ASSUME IInv, NEW r \in Readers, NEW x \in Reader, ReaderOK(x), Moves(r, x),
           UNCHANGED <<launching, process, world, records>>
    PROVE  IInv'
<1>1. overlap' \in BOOLEAN /\ failures' \in 0..MaxFailures
  BY DEF Moves, history, IInv, TypeOK
<1> QED BY <1>1, ReaderStep DEF Moves, history

LEMMA LookOK ==
    ASSUME IInv, NEW r \in Readers, Look(r)
    PROVE  IInv'
<1> DEFINE x == [Idle EXCEPT !.pc = IF Open THEN "looked" ELSE "final",
                             !.linked = node.linked, !.judged = node.judged]
<1>1. x \in Reader
  BY DEF Idle, Reader, IInv, TypeOK, Node, Codes, Edits
<1>2. ReaderOK(x)
  BY DEF Look, Starts, Idle, ReaderOK, Open, IInv, TypeOK, Node, NodeOK, LaunchOK, Sealed, Outcomes, Sync
<1> QED BY <1>1, <1>2, StartsOK DEF Look

LEMMA ProbeMarkerOK ==
    ASSUME IInv, NEW r \in Readers, ProbeMarker(r)
    PROVE  IInv'
<1> DEFINE x == IF Finished
                THEN [To(r, "sealing") EXCEPT !.status = Verdict(ExitMarker), !.exit = ExitMarker]
                ELSE To(r, "unmarked")
<1>1. rd[r] \in Reader /\ ReaderOK(rd[r]) /\ rd[r].pc = "looked"
  BY DEF IInv, TypeOK, ProbeMarker
<1>2. Verdict(ExitMarker) \in {"done", "failed"} /\ ExitMarker \in Codes
  BY DEF Verdict, ExitMarker, IInv, TypeOK, Codes
<1>3. x \in Reader
  BY <1>1, <1>2 DEF Reader, To
<1>4. ReaderOK(x)
  <2>1. CASE Finished
    <3>1. x.exit = code /\ x.status = (IF code = 0 THEN "done" ELSE "failed") /\ x.pc = "sealing"
          /\ x.linked = rd[r].linked /\ x.judged = rd[r].judged
      BY <1>1, <2>1 DEF To, Finished, Verdict, ExitMarker, Reader
    <3> QED BY <1>1, <2>1, <3>1, RunAssumption DEF ReaderOK, FailedOK, Finished
  <2>2. CASE ~Finished
    BY <1>1, <2>2 DEF ReaderOK, To, Finished, Reader
  <2> QED BY <2>1, <2>2
<1> QED BY <1>3, <1>4, MovesOK DEF ProbeMarker

LEMMA ProbePidOK ==
    ASSUME IInv, NEW r \in Readers, ProbePid(r)
    PROVE  IInv'
<1> DEFINE x == IF Alive THEN Leave(r) ELSE [To(r, "sealing") EXCEPT !.status = Vanished]
<1>1. rd[r] \in Reader /\ ReaderOK(rd[r]) /\ rd[r].pc = "unmarked"
  BY DEF IInv, TypeOK, ProbePid
<1>2. x \in Reader
  <2>1. [To(r, "sealing") EXCEPT !.status = Vanished] \in Reader
    BY <1>1 DEF Reader, To, Vanished
  <2> QED BY <2>1, IdleOK DEF Leave
<1>3. ReaderOK(x)
  <2>1. CASE Alive
    BY <2>1, IdleOK DEF Leave
  <2>2. CASE ~Alive
    <3>1. Detached => Gone
      BY <1>1, <2>2 DEF Alive, Gone, ReaderOK, IInv, NodeOK, Detached, TypeOK
    <3>2. x.exit = rd[r].exit /\ x.status = "failed" /\ x.pc = "sealing"
          /\ x.linked = rd[r].linked /\ x.judged = rd[r].judged
      BY <1>1, <2>2 DEF To, Vanished, Reader
    <3>3. Detached => x.exit \in {None, code}
      BY <1>1, <3>2 DEF ReaderOK
    <3> QED BY <1>1, <3>1, <3>2, <3>3, RunAssumption DEF ReaderOK, FailedOK
  <2> QED BY <2>1, <2>2
<1> QED BY <1>2, <1>3, MovesOK DEF ProbePid

LEMMA FinalizeOK ==
    ASSUME IInv, NEW r \in Readers, Finalize(r)
    PROVE  IInv'
<1> DEFINE x == IF ~meta THEN Idle
                ELSE IF Frozen THEN [To(r, "judging") EXCEPT !.diff = changes]
                ELSE To(r, "measuring")
<1>1. rd[r] \in Reader /\ ReaderOK(rd[r]) /\ rd[r].pc = "final"
  BY DEF IInv, TypeOK, Finalize
<1>2. x \in Reader
  <2>1. [To(r, "judging") EXCEPT !.diff = changes] \in Reader /\ To(r, "measuring") \in Reader
    BY <1>1 DEF Reader, To, IInv, TypeOK
  <2> QED BY <2>1, IdleOK
<1>3. ReaderOK(x)
  BY <1>1, IdleOK DEF ReaderOK, To, Reader, IInv, LaunchOK
<1> QED BY <1>2, <1>3, MovesOK DEF Finalize

LEMMA JudgeOK ==
    ASSUME IInv, NEW r \in Readers, Judge(r)
    PROVE  IInv'
<1> DEFINE x == IF kind = "bracket"
                THEN [To(r, "ending") EXCEPT
                         !.judged = IF Snapshot \in Checked THEN Snapshot ELSE None]
                ELSE IF HasTask /\ rd[r].judged = None /\ Snapshot \in Checked
                THEN [To(r, "mirroring") EXCEPT !.judged = Snapshot]
                ELSE Idle
<1>1. rd[r] \in Reader /\ ReaderOK(rd[r]) /\ rd[r].pc = "judging"
  BY DEF IInv, TypeOK, Judge
<1>2. Snapshot \in Contracts \cup {None} /\ Snapshot \in {None, launch.contract}
  BY DEF Snapshot, IInv, TypeOK, LaunchOK
<1>3. x \in Reader
  <2>1. [To(r, "ending") EXCEPT !.judged = IF Snapshot \in Checked THEN Snapshot ELSE None]
          \in Reader
    BY <1>1, <1>2 DEF Reader, To
  <2>2. [To(r, "mirroring") EXCEPT !.judged = Snapshot] \in Reader
    BY <1>1, <1>2 DEF Reader, To
  <2> QED BY <2>1, <2>2, IdleOK
<1>4. ReaderOK(x)
  BY <1>1, <1>2, IdleOK DEF ReaderOK, To, Reader
<1> QED BY <1>3, <1>4, MovesOK DEF Judge

LEMMA EndOK ==
    ASSUME IInv, NEW r \in Readers, End(r)
    PROVE  IInv'
<1>1. PICK claim \in {"done", "failed"} :
         Starts(r, [Idle EXCEPT !.pc = "measuring", !.status = claim])
  BY DEF End
<1> DEFINE x == [Idle EXCEPT !.pc = "measuring", !.status = claim]
<1>2. x \in Reader
  BY IdleOK DEF Reader
<1>3. ReaderOK(x)
  BY RunAssumption DEF End, Open, Idle, ReaderOK, Sync, Kinds
<1> QED BY <1>1, <1>2, <1>3, StartsOK DEF End

LEMMA ExtractOK ==
    ASSUME IInv, NEW r \in Readers, Extract(r)
    PROVE  IInv'
<1> DEFINE x == [Idle EXCEPT !.pc = "extracting"]
<1>1. x \in Reader
  BY IdleOK DEF Reader
<1>2. ReaderOK(x)
  BY DEF Extract, Starts, Idle, ReaderOK
<1> QED BY <1>1, <1>2, StartsOK DEF Extract

LEMMA ReadMetricsOK ==
    ASSUME IInv, NEW r \in Readers, ReadMetrics(r)
    PROVE  IInv'
<1> DEFINE x == IF metrics = Absent THEN Idle
                ELSE IF metrics = Invalid THEN To(r, "rejecting")
                ELSE [To(r, "parsed") EXCEPT !.read = metrics, !.error = node.error]
<1>1. rd[r] \in Reader /\ ReaderOK(rd[r]) /\ rd[r].pc = "extracting"
  BY DEF IInv, TypeOK, ReadMetrics
<1>2. x \in Reader
  <2>1. To(r, "rejecting") \in Reader
    BY <1>1 DEF Reader, To
  <2>2. metrics \notin {Absent, Invalid} =>
           [To(r, "parsed") EXCEPT !.read = metrics, !.error = node.error] \in Reader
    BY <1>1 DEF Reader, To, IInv, TypeOK, Node
  <2> QED BY <2>1, <2>2, IdleOK
<1>3. ReaderOK(x)
  BY <1>1, IdleOK DEF ReaderOK, To, Reader, IInv, TypeOK
<1> QED BY <1>2, <1>3, MovesOK DEF ReadMetrics

LEMMA ReadSiblingsOK ==
    ASSUME IInv, NEW r \in Readers, ReadSiblings(r)
    PROVE  IInv'
<1> DEFINE x == IF Extracted(rd[r].read) THEN Idle ELSE To(r, "minting")
<1>1. rd[r] \in Reader /\ ReaderOK(rd[r]) /\ rd[r].pc = "parsed"
  BY DEF IInv, TypeOK, ReadSiblings
<1>2. x \in Reader
  BY <1>1, IdleOK DEF Reader, To
<1>3. ReaderOK(x)
  BY <1>1, IdleOK DEF ReaderOK, To, Reader
<1> QED BY <1>2, <1>3, MovesOK DEF ReadSiblings

LEMMA FailsOK ==
    ASSUME IInv, NEW r \in Readers, Fails(r)
    PROVE  IInv'
<1>1. failures' \in 0..MaxFailures /\ overlap' \in BOOLEAN
  BY RunAssumption DEF Fails, IInv, TypeOK
<1> QED BY <1>1, IdleOK, ReaderStep DEF Fails

-----------------------------------------------------------------------------
(* Readers that write                                                      *)

LEMMA WriterStep ==
    ASSUME IInv, NEW r \in Readers, NEW x \in Reader, Moves(r, x),
           UNCHANGED <<launching, process, world>>,
           node' \in Node, changes' \in Edits \cup {None}, evidence' \in Seq(Metrics),
           node.status # "none", node'.status # "none", node'.linked = node.linked,
           Sealed => Sealed',
           Detached /\ Sealed' => node.linked, node'.judged # None => Sealed',
           NodeOK', ReaderOK(x)'
    PROVE  IInv'
<1> USE DEF launching, process, world, history, Moves
<1>1. rd' \in [Readers -> Reader] /\ rd'[r] = x /\ \A s \in Readers : s # r => rd'[s] = rd[s]
  BY DEF IInv, TypeOK
<1>2. TypeOK'
  BY <1>1 DEF IInv, TypeOK, Detached
<1>3. ProcessOK' /\ LaunchOK'
  BY DEF IInv, ProcessOK, LaunchOK, Detached, OfAgent
<1>4. \A y \in Reader : ReaderOK(y) => ReaderOK(y)'
  BY Stable
<1>5. \A s \in Readers : ReaderOK(rd[s])'
  BY <1>1, <1>4 DEF IInv, ReaderOK, FailedOK, Gone, Detached, Sync, TypeOK
<1> QED BY <1>2, <1>3, <1>5 DEF IInv

LEMMA SealOK ==
    ASSUME IInv, NEW r \in Readers, Seal(r)
    PROVE  IInv'
<1>1. rd[r] \in Reader /\ ReaderOK(rd[r]) /\ rd[r].pc = "sealing" /\ node \in Node
  BY DEF IInv, TypeOK, Seal
<1>2. CASE ~Complete(r)
  BY <1>2, IdleOK, MovesOK DEF Seal, records
<1>3. CASE Complete(r)
  <2>1. [To(r, "final") EXCEPT !.judged = node.judged] \in Reader
    BY <1>1 DEF Reader, To, Node
  <2>2. PICK x \in Reader : x = [To(r, "final") EXCEPT !.judged = node.judged]
    BY <2>1
  <2>3. node' = [node EXCEPT !.status = rd[r].status, !.exit = rd[r].exit] /\ Moves(r, x)
    BY <1>3, <2>2 DEF Seal
  <2>4. /\ node' \in Node /\ node'.status = rd[r].status /\ node'.exit = rd[r].exit
        /\ node'.linked = node.linked /\ node'.judged = node.judged
        /\ node'.contract = node.contract /\ rd[r].status \in {"done", "failed"} /\ ~Sync
    BY <1>1, <2>3 DEF Node, Reader, ReaderOK, Outcomes
  <2>5. Sealed' /\ node.linked /\ node.status # "none" /\ node'.status # "none"
    BY <1>1, <1>3, <2>4 DEF Sealed, Outcomes, Complete, ReaderOK
  <2>6. NodeOK'
    BY <1>1, <2>4, <2>5 DEF NodeOK, ReaderOK, Seal, IInv, FailedOK, Gone, Detached, Sync,
       launching, process, Moves, history, TypeOK, Kinds
  <2>7. ReaderOK(x)'
    <3>1. x.pc = "final" /\ x.judged = node.judged /\ x.linked = rd[r].linked
      BY <1>1, <2>2 DEF Reader, To
    <3>2. launch' = launch /\ node.judged \in {None, launch.contract}
      BY DEF Seal, launching, IInv, NodeOK
    <3> QED BY <2>4, <2>5, <3>1, <3>2 DEF ReaderOK
  <2>8. /\ UNCHANGED <<launching, process, world>> /\ evidence' \in Seq(Metrics)
        /\ changes' \in Edits \cup {None}
    BY DEF Seal, IInv, TypeOK
  <2> QED BY <2>3, <2>4, <2>5, <2>6, <2>7, <2>8, WriterStep
<1> QED BY <1>2, <1>3

LEMMA MeasureOK ==
    ASSUME IInv, NEW r \in Readers, Measure(r)
    PROVE  IInv'
<1>1. rd[r] \in Reader /\ ReaderOK(rd[r]) /\ rd[r].pc = "measuring" /\ node \in Node
  BY DEF IInv, TypeOK, Measure
<1>2. [To(r, "judging") EXCEPT !.diff = workspace] \in Reader
  BY <1>1 DEF Reader, To, IInv, TypeOK
<1>3. PICK x \in Reader : x = [To(r, "judging") EXCEPT !.diff = workspace]
  BY <1>2
<1>4. NodeOK'
  BY <1>1 DEF NodeOK, ReaderOK, Measure, IInv, FailedOK, Gone, Detached, Sync, Sealed,
     launching, process, Moves, history
<1>5. node' = node /\ node.status # "none" /\ (Sealed <=> Sealed')
  BY <1>1 DEF Measure, ReaderOK, Sealed
<1>6. /\ Moves(r, x) /\ UNCHANGED <<launching, process, world>> /\ evidence' \in Seq(Metrics)
      /\ changes' \in Edits \cup {None} /\ (Detached /\ Sealed => node.linked)
      /\ (node.judged # None => Sealed)
  BY <1>3 DEF Measure, IInv, TypeOK
<1>7. ReaderOK(x)'
  <2>1. /\ x.pc = "judging" /\ x.judged = rd[r].judged /\ x.linked = rd[r].linked
        /\ x.status = rd[r].status
    BY <1>1, <1>3 DEF Reader, To
  <2> QED BY <1>1, <1>5, <1>6, <2>1 DEF ReaderOK, launching
<1> QED BY <1>1, <1>4, <1>5, <1>6, <1>7, WriterStep

LEMMA MirrorCheckOK ==
    ASSUME IInv, NEW r \in Readers, MirrorCheck(r)
    PROVE  IInv'
<1>1. rd[r] \in Reader /\ ReaderOK(rd[r]) /\ rd[r].pc = "mirroring" /\ node \in Node
  BY DEF IInv, TypeOK, MirrorCheck
<1>2. /\ node' \in Node /\ node'.status = node.status /\ node'.exit = node.exit
      /\ node'.linked = node.linked /\ node'.judged = rd[r].judged /\ node'.contract = node.contract
  BY <1>1 DEF MirrorCheck, Node, Reader
<1>3. Sealed /\ Sealed' /\ node.status # "none"
  BY <1>1, <1>2 DEF ReaderOK, Sealed, Outcomes
<1>4. NodeOK'
  BY <1>1, <1>2, <1>3 DEF NodeOK, ReaderOK, MirrorCheck, IInv, FailedOK, Gone, Detached, Sync, Sealed,
     launching, process, Moves, history
<1>5. ReaderOK(Idle)'
  BY RunAssumption DEF Idle, ReaderOK
<1> QED BY <1>1, <1>2, <1>3, <1>4, <1>5, IdleOK, WriterStep DEF MirrorCheck, IInv, TypeOK

LEMMA EndSealOK ==
    ASSUME IInv, NEW r \in Readers, EndSeal(r)
    PROVE  IInv'
<1> DEFINE x == [Idle EXCEPT !.pc = "extracting"]
<1>1. /\ rd[r] \in Reader /\ ReaderOK(rd[r]) /\ rd[r].pc = "ending" /\ node \in Node
      /\ rd[r].status \in {"done", "failed"} /\ kind = "bracket"
  BY DEF IInv, TypeOK, EndSeal, ReaderOK, Reader
<1>2. /\ node' \in Node /\ node'.status = rd[r].status /\ node'.exit = node.exit
      /\ node'.linked = node.linked /\ node'.judged \in {node.judged, rd[r].judged}
      /\ node'.contract = node.contract
  BY <1>1 DEF EndSeal, Node, Reader, Outcomes
<1>3. Sealed' /\ node.status # "none" /\ ~Detached
  BY <1>1, <1>2 DEF ReaderOK, Sealed, Outcomes, Detached
<1>4. NodeOK'
  BY <1>1, <1>2, <1>3 DEF NodeOK, ReaderOK, EndSeal, IInv, Detached, Sync, launching, Moves
<1>5. x \in Reader /\ x.pc = "extracting" /\ x.linked = FALSE /\ x.judged = None
  BY IdleOK DEF Idle, Reader
<1>6. ReaderOK(x)'
  BY <1>2, <1>3, <1>5 DEF ReaderOK, Sealed, Outcomes
<1> QED BY <1>1, <1>2, <1>3, <1>4, <1>5, <1>6, WriterStep DEF EndSeal, IInv, TypeOK, Sealed, Outcomes

LEMMA RejectOK ==
    ASSUME IInv, NEW r \in Readers, Reject(r)
    PROVE  IInv'
<1>1. rd[r] \in Reader /\ ReaderOK(rd[r]) /\ rd[r].pc = "rejecting" /\ node \in Node
  BY DEF IInv, TypeOK, Reject
<1>2. /\ node' \in Node /\ node'.status = node.status /\ node'.exit = node.exit
      /\ node'.linked = node.linked /\ node'.judged = node.judged /\ node'.contract = node.contract
  BY <1>1 DEF Reject, Node
<1>3. NodeOK' /\ node.status # "none"
  BY <1>1, <1>2 DEF NodeOK, ReaderOK, Reject, IInv, FailedOK, Gone, Detached, Sync, Sealed,
     launching, process, Moves, history
<1>4. ReaderOK(Idle)'
  BY RunAssumption DEF Idle, ReaderOK
<1> QED BY <1>1, <1>2, <1>3, <1>4, IdleOK, WriterStep DEF Reject, IInv, TypeOK, Sealed, Detached

LEMMA MintOK ==
    ASSUME IInv, NEW r \in Readers, Mint(r)
    PROVE  IInv'
<1>1. rd[r] \in Reader /\ ReaderOK(rd[r]) /\ rd[r].pc = "minting" /\ node \in Node
  BY DEF IInv, TypeOK, Mint
<1>2. /\ node' \in Node /\ node'.status = node.status /\ node'.exit = node.exit
      /\ node'.linked = node.linked /\ node'.judged = node.judged /\ node'.contract = node.contract
  BY <1>1 DEF Mint, Node, Reader
<1>3. NodeOK' /\ node.status # "none"
  BY <1>1, <1>2 DEF NodeOK, ReaderOK, Mint, IInv, FailedOK, Gone, Detached, Sync, Sealed,
     launching, process, Moves, history
<1>4. ReaderOK(Idle)'
  BY RunAssumption DEF Idle, ReaderOK
<1>5. evidence' \in Seq(Metrics)
  BY <1>1 DEF Mint, IInv, TypeOK, ReaderOK
<1> QED BY <1>1, <1>2, <1>3, <1>4, <1>5, IdleOK, WriterStep DEF Mint, IInv, TypeOK, Sealed, Detached

-----------------------------------------------------------------------------
(* The process and the world                                               *)

\* The process moves on: what it exited with stays, gone is gone, and the
\* last marker is written by a process that is not gone, and noticed.
LEMMA ProcessStep ==
    ASSUME IInv, Untouched, proc # "none",
           proc' \in {"command", "wrapper", "zombie", "dead"}, busy' \in BOOLEAN,
           code' \in Codes, marks' \in 0..3, gap' \in BOOLEAN, UNCHANGED <<overlap, failures>>,
           ProcessOK',
           code # None => code' = code, Gone => Gone', marks = 3 => marks' = 3, gap => gap',
           marks' = 3 /\ marks # 3 => ~Gone /\ \A r \in Readers : rd[r].pc = "unmarked" => gap'
    PROVE  IInv'
<1> USE DEF Untouched, launching, world, records
<1>1. TypeOK'
  BY DEF IInv, TypeOK, Sealed, Detached
<1>2. LaunchOK'
  BY DEF IInv, LaunchOK, OfAgent, ProcessOK
<1>3. FailedOK => FailedOK'
  BY DEF FailedOK, IInv, ProcessOK
<1>4. NodeOK'
  BY <1>3, RunAssumption DEF IInv, NodeOK, Sealed, Detached, Sync
<1>5. ASSUME NEW r \in Readers PROVE ReaderOK(rd[r])'
  BY <1>3, RunAssumption DEF IInv, ReaderOK, Sealed, Detached, Sync
<1> QED BY <1>1, <1>2, <1>4, <1>5 DEF IInv

\* A signal leaves code and markers alone and the process gone.
LEMMA TerminatedKeeps ==
    ASSUME IInv, Terminated, Untouched, UNCHANGED history PROVE IInv'
<1>1. proc' \in {"zombie", "dead"} /\ UNCHANGED <<code, marks>>
  BY DEF Terminated
<1>2. busy' \in BOOLEAN /\ (busy' => busy)
  <2>1. busy \in BOOLEAN
    BY DEF IInv, TypeOK
  <2>2. busy' = FALSE \/ busy' = busy
    BY DEF Terminated
  <2>3. CASE busy' = FALSE
    BY <2>3
  <2>4. CASE busy' = busy
    BY <2>1, <2>4
  <2> QED BY <2>2, <2>3, <2>4
<1>3. ProcessOK'
  BY <1>1, <1>2 DEF ProcessOK, IInv
<1>4. proc # "none" /\ UNCHANGED <<gap, overlap, failures>>
  BY DEF Terminated, history
<1> QED BY <1>1, <1>2, <1>3, <1>4, ProcessStep DEF IInv, TypeOK, Gone

LEMMA ProcessKeeps == ASSUME IInv, Process PROVE IInv'
<1> USE DEF ProcessOK, Gone, Codes, Detached
<1>0. ProcessOK /\ NodeOK /\ LaunchOK /\ TypeOK
  BY DEF IInv
<1>1. CASE CommandEnds
  <2>1. ProcessOK'
    BY <1>0, <1>1, RunAssumption DEF CommandEnds, history, Untouched, launching, TypeOK
  <2> QED BY <1>0, <1>1, <2>1, ProcessStep DEF CommandEnds, history, TypeOK
<1>2. CASE WriteMarker
  <2>1. ProcessOK'
    BY <1>0, <1>2, RunAssumption DEF WriteMarker, Untouched, launching, TypeOK
  <2>2. gap' \in BOOLEAN /\ (gap => gap')
    BY <1>0, <1>2, Zenon DEF WriteMarker, TypeOK
  <2>3. ASSUME NEW r \in Readers, rd[r].pc = "unmarked", marks' = 3 PROVE gap'
    BY <1>0, <1>2, <2>3, Zenon DEF WriteMarker, TypeOK
  <2>4. marks' \in 0..3 /\ ~Gone /\ ~Gone' /\ marks # 3
    BY <1>0, <1>2 DEF WriteMarker, TypeOK
  <2>5. /\ Untouched /\ proc = "wrapper" /\ proc' = "wrapper" /\ code' = code
        /\ busy' \in BOOLEAN /\ UNCHANGED <<overlap, failures>>
    BY <1>0, <1>2 DEF WriteMarker, TypeOK
  <2> QED BY <1>0, <2>1, <2>2, <2>3, <2>4, <2>5, ProcessStep DEF TypeOK
<1>3. CASE WrapperExits
  <2>1. ProcessOK'
    BY <1>0, <1>3, RunAssumption DEF WrapperExits, history, Untouched, launching, TypeOK
  <2> QED BY <1>0, <1>3, <2>1, ProcessStep DEF WrapperExits, history, TypeOK
<1>4. CASE Reap
  <2>1. ProcessOK'
    BY <1>0, <1>4, RunAssumption DEF Reap, history, Untouched, launching, TypeOK
  <2> QED BY <1>0, <1>4, <2>1, ProcessStep DEF Reap, history, TypeOK
<1>5. CASE Kill
  BY <1>5, TerminatedKeeps DEF Kill
<1>6. CASE Dies
  BY <1>6, TerminatedKeeps DEF Dies
<1>7. CASE Straggles
  <2>1. ProcessOK'
    BY <1>0, <1>7, RunAssumption DEF Straggles, history, Untouched, launching, TypeOK
  <2> QED BY <1>0, <1>7, <2>1, ProcessStep DEF Straggles, history, TypeOK
<1> QED BY <1>1, <1>2, <1>3, <1>4, <1>5, <1>6, <1>7 DEF Process

LEMMA WorldKeeps == ASSUME IInv, World PROVE IInv'
<1> USE DEF World, launching, process, records, history
<1>1. workspace' \in Edits
  BY RunAssumption DEF IInv, TypeOK, Edits
<1>2. TypeOK'
  BY <1>1 DEF IInv, TypeOK, Sealed, Detached
<1>3. ProcessOK' /\ LaunchOK' /\ NodeOK'
  BY DEF IInv, ProcessOK, LaunchOK, NodeOK, FailedOK, Sealed, Gone, Detached, OfAgent, Sync
<1>4. \A s \in Readers : ReaderOK(rd[s])'
  BY DEF IInv, ReaderOK, FailedOK, Sealed, Gone, Detached, Sync
<1> QED BY <1>2, <1>3, <1>4 DEF IInv

-----------------------------------------------------------------------------
(* Opening a run                                                           *)

\* A step of the launcher that leaves the run node and the diff alone.
LEMMA PlainLaunch ==
    ASSUME IInv, UNCHANGED <<kind, records, world, rd, history, busy, code, marks>>,
           launch'.pc \in {"start", "read", "spawned", "created", "linked", "described",
                           "contracted", "mirrored", "done", "dead"},
           launch'.contract \in Contracts \cup {None},
           launch.contract \in {None, launch'.contract},
           contractFile' \in Contracts \cup {None}, meta' \in BOOLEAN, meta => meta',
           proc' = proc, busy' = busy, LaunchOK'
    PROVE  IInv'
<1> USE DEF records, world, history
<1>1. TypeOK'
  BY DEF IInv, TypeOK, Sealed, Detached
<1>2. ProcessOK'
  BY DEF IInv, ProcessOK, Detached
<1>3. NodeOK'
  BY DEF IInv, NodeOK, FailedOK, Sealed, Gone, Detached, Sync
<1>4. ASSUME NEW r \in Readers PROVE ReaderOK(rd[r])'
  <2>1. rd[r] \in Reader /\ ReaderOK(rd[r]) /\ rd'[r] = rd[r]
    BY DEF IInv, TypeOK
  <2> QED BY <2>1 DEF ReaderOK, FailedOK, Sealed, Gone, Detached, Sync
<1> QED BY <1>1, <1>2, <1>3, <1>4 DEF IInv

\* A step of the launcher that writes the run node or the diff.
LEMMA RecordStep ==
    ASSUME IInv, UNCHANGED <<kind, contractFile, meta, process, world, evidence, rd, history>>,
           launch'.pc \in {"created", "linked", "described", "mirrored", "done"},
           launch'.contract = launch.contract,
           node' \in Node, changes' \in Edits \cup {None},
           node'.status # "none", node.linked => node'.linked, Sealed => Sealed',
           Detached /\ Sealed' => node'.linked, node'.judged # None => Sealed',
           NodeOK', LaunchOK'
    PROVE  IInv'
<1> USE DEF process, world, history
<1>1. TypeOK'
  BY DEF IInv, TypeOK, Detached
<1>2. ProcessOK'
  BY DEF IInv, ProcessOK, Detached
<1>3. ASSUME NEW r \in Readers PROVE ReaderOK(rd[r])'
  <2>1. rd[r] \in Reader /\ ReaderOK(rd[r]) /\ rd'[r] = rd[r]
    BY DEF IInv, TypeOK
  <2>2. PICK y \in Reader : y = rd[r]
    BY <2>1
  <2>3. ReaderOK(y)'
    BY <2>1, <2>2, Stable
  <2> QED BY <2>1, <2>2, <2>3
<1> QED BY <1>1, <1>2, <1>3 DEF IInv

LEMMA LaunchKeeps == ASSUME IInv, Launch PROVE IInv'
<1> USE DEF At, Goto
<1>0. /\ ProcessOK /\ NodeOK /\ LaunchOK /\ TypeOK /\ node \in Node
      /\ launch.contract \in Contracts \cup {None}
  BY DEF IInv, TypeOK
<1>1. CASE ReadTask
  <2>1. PICK c \in {task, None} : launch' = [pc |-> "read", contract |-> c]
    BY <1>1 DEF ReadTask
  <2>2. LaunchOK'
    BY <1>0, <1>1, <2>1 DEF ReadTask, LaunchOK, process, records
  <2> QED BY <1>0, <1>1, <2>1, <2>2, PlainLaunch DEF ReadTask, LaunchOK, TypeOK, process
<1>2. CASE Popen
  <2>1. /\ kind # "bracket" /\ launch' = [launch EXCEPT !.pc = "spawned"] /\ proc = "none"
        /\ node.status = "none" /\ node.judged = None /\ proc' = "command" /\ busy' = TRUE
        /\ code = None /\ marks = 0
        /\ UNCHANGED <<kind, contractFile, meta, code, marks, world, records, rd, history>>
    BY <1>0, <1>2 DEF Popen, LaunchOK, ProcessOK
  <2>2. TypeOK'
    BY <1>0, <2>1 DEF TypeOK, Sealed, Detached, Codes, world, records, history
  <2>3. ProcessOK' /\ LaunchOK'
    BY <1>0, <2>1 DEF ProcessOK, LaunchOK, OfAgent, records
  <2>4. NodeOK'
    BY <1>0, <2>1 DEF NodeOK, FailedOK, Gone, Sealed, Outcomes, Detached, Sync, records, history
  <2>5. ASSUME NEW r \in Readers PROVE ReaderOK(rd[r])'
    <3>1. rd[r] \in Reader /\ ReaderOK(rd[r]) /\ rd'[r] = rd[r]
      BY <2>1 DEF IInv, TypeOK
    <3>2. rd[r].pc = "idle"
      BY <2>1, <3>1 DEF ReaderOK
    <3> QED BY <2>1, <3>1, <3>2 DEF ReaderOK, records
  <2> QED BY <2>2, <2>3, <2>4, <2>5 DEF IInv
<1>3. CASE CreateRun
  <2>1. /\ launch'.pc = (IF kind = "bracket" THEN "done" ELSE "created")
        /\ launch'.contract = launch.contract
    BY <1>0, <1>3 DEF CreateRun
  <2>2. node.status = "none" /\ node.judged = None /\ ~Sealed
    BY <1>0, <1>3 DEF CreateRun, LaunchOK, Detached, Sealed, Outcomes
  <2>3. CASE Detached /\ At("spawned") /\ node' = [node EXCEPT !.status = "running"]
    <3>1. /\ node' \in Node /\ node'.status = "running" /\ node'.judged = node.judged
          /\ node'.exit = node.exit /\ node'.contract = node.contract /\ node'.linked = node.linked
      BY <1>0, <2>3 DEF Node
    <3>2. proc # "none" /\ ~Sync /\ kind # "bracket"
      BY <1>0, <2>3 DEF LaunchOK, Detached, Sync
    <3>3. NodeOK' /\ LaunchOK'
      BY <1>0, <1>3, <2>1, <2>2, <3>1, <3>2 DEF CreateRun, NodeOK, LaunchOK, Sealed, Outcomes, Detached,
         Sync, process
    <3> QED BY <1>0, <1>3, <2>1, <2>2, <3>1, <3>3, RecordStep
            DEF CreateRun, TypeOK, Sealed, Outcomes
  <2>4. CASE /\ Sync /\ At("spawned") /\ proc = "dead"
             /\ node' = [node EXCEPT !.exit = code,
                             !.status = IF code = None THEN "timed_out" ELSE Verdict(code)]
    <3>1. /\ node' \in Node /\ node'.judged = node.judged
          /\ node'.status = (IF code = None THEN "timed_out" ELSE Verdict(code))
          /\ node'.exit = code /\ node'.contract = node.contract /\ node'.linked = node.linked
      BY <1>0, <2>4 DEF Node, Verdict, Outcomes, TypeOK
    <3>2. proc = "dead" /\ kind # "bracket" /\ ~Detached /\ node'.status \in Outcomes
          /\ (node'.status = "done" => code = 0)
      BY <2>4, <3>1 DEF Sync, Detached, Verdict, Outcomes
    <3>3. NodeOK' /\ LaunchOK'
      BY <1>0, <1>3, <2>1, <2>2, <2>4, <3>1, <3>2 DEF CreateRun, NodeOK, LaunchOK, Sealed, Outcomes,
         Detached, Sync, Gone, process
    <3> QED BY <1>0, <1>3, <2>1, <2>2, <3>1, <3>2, <3>3, RecordStep
            DEF CreateRun, TypeOK, Sealed, Outcomes, Detached
  <2>5. CASE /\ kind = "bracket" /\ At("contracted")
             /\ node' = [node EXCEPT !.status = "running", !.contract = launch.contract]
    <3>1. /\ node' \in Node /\ node'.status = "running" /\ node'.judged = node.judged
          /\ node'.exit = node.exit /\ node'.contract = launch.contract
          /\ node'.linked = node.linked
      BY <1>0, <2>5 DEF Node
    <3>2. NodeOK' /\ LaunchOK'
      BY <1>0, <1>3, <2>1, <2>2, <2>5, <3>1 DEF CreateRun, NodeOK, LaunchOK, Sealed, Outcomes, Detached,
         Sync, process
    <3> QED BY <1>0, <1>3, <2>1, <2>2, <3>1, <3>2, RecordStep
            DEF CreateRun, TypeOK, Sealed, Outcomes
  <2> QED BY <1>3, <2>3, <2>4, <2>5 DEF CreateRun, Sync
<1>4. CASE LinkLogs
  <2>1. /\ node' \in Node /\ node'.status = node.status /\ node'.judged = node.judged
        /\ node'.exit = node.exit /\ node'.contract = node.contract /\ node'.linked = TRUE
    BY <1>0, <1>4 DEF LinkLogs, Node
  <2>2. /\ launch'.pc = (IF OfAgent THEN "linked" ELSE "done") /\ node.status # "none"
        /\ launch'.contract = launch.contract /\ (Sealed <=> Sealed')
    BY <1>0, <1>4, <2>1 DEF LinkLogs, LaunchOK, Sealed
  <2>3. NodeOK' /\ LaunchOK'
    BY <1>0, <1>4, <2>1, <2>2 DEF LinkLogs, NodeOK, LaunchOK, FailedOK, Gone, Sealed, Detached, OfAgent,
       Sync, process, history
  <2> QED BY <1>0, <1>4, <2>1, <2>2, <2>3, RecordStep DEF LinkLogs, TypeOK, Detached
<1>5. CASE WriteMeta
  <2>1. /\ launch'.pc = (IF launch.contract = None THEN "done" ELSE "described")
        /\ launch'.contract = launch.contract /\ meta' = TRUE
    BY <1>0, <1>5 DEF WriteMeta
  <2>2. LaunchOK'
    BY <1>0, <1>5, <2>1 DEF WriteMeta, LaunchOK, OfAgent, process, records
  <2> QED BY <1>0, <1>5, <2>1, <2>2, PlainLaunch DEF WriteMeta, TypeOK, process
<1>6. CASE WriteDiff
  <2>1. /\ launch'.pc = (IF launch.contract = None THEN "done" ELSE "described")
        /\ launch'.contract = launch.contract /\ node.status # "none" /\ kind = "agent"
        /\ changes' \in Edits \cup {None} /\ UNCHANGED node
    BY <1>0, <1>6 DEF WriteDiff, LaunchOK, TypeOK
  <2>2. Sealed /\ (Sealed <=> Sealed')
    BY <1>0, <2>1 DEF NodeOK, Sync, Sealed, Outcomes, Node
  <2>3. NodeOK' /\ LaunchOK'
    BY <1>0, <1>6, <2>1, <2>2 DEF WriteDiff, NodeOK, LaunchOK, FailedOK, Gone, Sealed, Detached, OfAgent,
       Sync, process, history
  <2> QED BY <1>0, <1>6, <2>1, <2>2, <2>3, RecordStep DEF WriteDiff, TypeOK, Detached
<1>7. CASE WriteContract
  <2>1. launch'.pc = "contracted" /\ launch'.contract = launch.contract
        /\ contractFile' = launch.contract
    BY <1>0, <1>7 DEF WriteContract
  <2>2. LaunchOK'
    BY <1>0, <1>7, <2>1 DEF WriteContract, LaunchOK, OfAgent, process, records
  <2> QED BY <1>0, <1>7, <2>1, <2>2, PlainLaunch DEF WriteContract, TypeOK, process
<1>8. CASE MirrorContract
  <2>1. /\ node' \in Node /\ node'.status = node.status /\ node'.judged = node.judged
        /\ node'.exit = node.exit /\ node'.contract = launch.contract
        /\ node'.linked = node.linked
    BY <1>0, <1>8 DEF MirrorContract, Node
  <2>2. /\ launch'.pc \in {"mirrored", "done"} /\ (launch'.pc = "mirrored" => kind = "agent")
        /\ launch'.contract = launch.contract /\ node.status # "none" /\ (Sealed <=> Sealed')
    BY <1>0, <1>8, <2>1 DEF MirrorContract, LaunchOK, Sealed, OfAgent
  <2>3. NodeOK' /\ LaunchOK'
    BY <1>0, <1>8, <2>1, <2>2 DEF MirrorContract, NodeOK, LaunchOK, FailedOK, Gone, Sealed, Detached,
       OfAgent, Sync, process, history
  <2> QED BY <1>0, <1>8, <2>1, <2>2, <2>3, RecordStep DEF MirrorContract, TypeOK, Detached
<1>9. CASE CheckAtOnce
  <2>1. /\ node' \in Node /\ node'.status = node.status /\ node'.judged = launch.contract
        /\ node'.exit = node.exit /\ node'.contract = node.contract
        /\ node'.linked = node.linked
    BY <1>0, <1>9 DEF CheckAtOnce, Node, TypeOK
  <2>2. /\ launch'.pc = "done" /\ kind = "agent" /\ launch'.contract = launch.contract
        /\ node.status # "none"
    BY <1>0, <1>9 DEF CheckAtOnce, LaunchOK
  <2>3. Sealed /\ Sealed'
    BY <1>0, <2>1, <2>2 DEF NodeOK, Sync, Sealed, Outcomes, Node
  <2>4. NodeOK' /\ LaunchOK'
    BY <1>0, <1>9, <2>1, <2>2, <2>3 DEF CheckAtOnce, NodeOK, LaunchOK, FailedOK, Gone, Sealed, Detached,
       OfAgent, Sync, process, history
  <2> QED BY <1>0, <1>9, <2>1, <2>2, <2>3, <2>4, RecordStep DEF CheckAtOnce, TypeOK, Detached
<1>10. CASE LaunchDies
  <2>1. launch'.pc = "dead" /\ launch'.contract = launch.contract
    BY <1>0, <1>10 DEF LaunchDies
  <2>2. LaunchOK'
    BY <1>0, <1>10, <2>1 DEF LaunchDies, LaunchOK, OfAgent, process, records
  <2> QED BY <1>0, <1>10, <2>1, <2>2, PlainLaunch DEF LaunchDies, TypeOK, process
<1> QED BY <1>1, <1>2, <1>3, <1>4, <1>5, <1>6, <1>7, <1>8, <1>9, <1>10 DEF Launch

-----------------------------------------------------------------------------
(* The invariant and what follows from it                                  *)

LEMMA NextKeeps == IInv /\ [Next]_vars => IInv'
<1> SUFFICES ASSUME IInv, [Next]_vars PROVE IInv'
  OBVIOUS
<1>1. CASE Launch
  BY <1>1, LaunchKeeps
<1>2. CASE Process
  BY <1>2, ProcessKeeps
<1>3. CASE World
  BY <1>3, WorldKeeps
<1>4. ASSUME NEW r \in Readers, Look(r) \/ End(r) \/ Extract(r) \/ Continue(r) \/ Fails(r)
      PROVE  IInv'
  BY <1>4, LookOK, EndOK, ExtractOK, FailsOK, ProbeMarkerOK, ProbePidOK, SealOK, FinalizeOK,
     MeasureOK, JudgeOK, MirrorCheckOK, EndSealOK, ReadMetricsOK, RejectOK, ReadSiblingsOK,
     MintOK DEF Continue
<1>5. CASE UNCHANGED vars
  <2>1. UNCHANGED <<launching, process, world, records, rd, history>>
    BY <1>5 DEF vars
  <2>2. TypeOK' /\ ProcessOK' /\ LaunchOK' /\ NodeOK'
    BY <2>1 DEF IInv, TypeOK, ProcessOK, LaunchOK, NodeOK, FailedOK, Sealed, Gone, Detached,
       OfAgent, Sync, launching, process, world, records, history
  <2>3. ASSUME NEW r \in Readers PROVE ReaderOK(rd[r])'
    BY <2>1 DEF IInv, ReaderOK, FailedOK, Sealed, Gone, Detached, Sync, launching, process,
       records, history
  <2> QED BY <2>2, <2>3 DEF IInv
<1> QED BY <1>1, <1>2, <1>3, <1>4, <1>5 DEF Next

LEMMA Inductive == Spec => []IInv
  BY InitOK, NextKeeps, PTL DEF Spec

\* The state of a run keeps its shape; in it, a detached run is never sealed
\* without its log nodes (_finalize), nor one judged that is still running.
THEOREM TypeCorrect == Spec => []TypeOK
<1>1. IInv => TypeOK
  BY DEF IInv
<1> QED BY <1>1, Inductive, PTL

\* What is recorded can be trusted, with any number of readers that reconcile
\* the run at once: done and the exit code are the command's, and a success is
\* recorded as failed only in the window between marker and pid (reconcile_run).
THEOREM OutcomeCanBeTrusted == Spec => []OutcomeIsTrue
<1>1. IInv => DoneMeansSucceeded
  BY DEF IInv, NodeOK, DoneMeansSucceeded
<1>2. IInv => FailedUnlessRaced
  BY DEF IInv, NodeOK, FailedOK, FailedUnlessRaced
<1>3. IInv => OutcomeIsTrue
  BY <1>1, <1>2 DEF OutcomeIsTrue
<1> QED BY <1>3, Inductive, PTL

\* No edit of the task after the opening reaches a run's contract or its
\* check (write_contract_snapshot), not even with readers that overlap; and
\* changes.json of an agent is never computed while its command and its
\* wrapper, or its shell, still run (run_agent, finalize_agent_diff).
THEOREM AgentsJudgedFairly == Spec => []JudgedFairly
<1>1. IInv => JudgedByLaunch
  BY DEF IInv, NodeOK, JudgedByLaunch
<1>2. IInv => DiffAfterCommand
  <2> SUFFICES ASSUME IInv, kind # "bracket", changes # None, busy
               PROVE  proc \in {"zombie", "dead"}
    BY DEF DiffAfterCommand
  <2>1. Sealed /\ kind \in Kinds /\ NodeOK /\ ProcessOK
    BY DEF IInv, TypeOK, NodeOK
  <2>2. CASE Sync
    BY <2>1, <2>2 DEF NodeOK, Gone
  <2>3. CASE Detached /\ node.status = "done"
    BY <2>1, <2>3, RunAssumption DEF NodeOK, ProcessOK
  <2>4. CASE Detached /\ node.status = "failed"
    BY <2>1, <2>4 DEF NodeOK, ProcessOK, FailedOK, Gone
  <2> QED BY <2>1, <2>2, <2>3, <2>4 DEF NodeOK, Sealed, Outcomes, Kinds, Sync, Detached
<1>3. IInv => JudgedFairly
  BY <1>1, <1>2 DEF JudgedFairly
<1> QED BY <1>3, Inductive, PTL

-----------------------------------------------------------------------------
(* Readers that do not overlap                                             *)

Working(r) == rd[r].pc # "idle"
OneReader == \A r, s \in Readers : Working(r) /\ Working(s) => r = s

\* What a reader that works alone knows stays true until it acts on it.
AloneOK(x) ==
    /\ x.pc \in {"looked", "unmarked", "sealing"} => Open
    /\ x.pc \in {"measuring", "judging", "ending"} /\ kind = "bracket" => Open
    /\ x.pc \in {"final", "measuring", "judging"} /\ kind = "detached_agent" =>
          x.judged = node.judged
    /\ x.pc = "mirroring" => node.judged = None
    /\ x.pc = "measuring" /\ kind # "bracket" => changes = None
    /\ x.pc \in {"judging", "mirroring", "ending"} => x.diff = changes /\ changes # None
    /\ x.pc = "minting" => ~Extracted(x.read)

\* A check on the run judged the diff there is, and nobody is left to take
\* another one.
JudgedOnce ==
    node.judged # None =>
        /\ node.on = changes
        /\ kind = "agent" => launch.pc = "done"
        /\ kind = "detached_agent" => changes # None

Solo == ~overlap => OneReader /\ (\A r \in Readers : AloneOK(rd[r])) /\ JudgedOnce

-----------------------------------------------------------------------------
\* A step that touches no reader, and nothing a reader goes by.
LEMMA BesideSolo ==
    ASSUME Solo, UNCHANGED <<kind, rd, overlap, evidence, changes>>,
           node'.status = node.status, node'.judged = node.judged, node'.on = node.on,
           launch' = launch \/ launch.pc # "done"
    PROVE  Solo'
  BY DEF Solo, OneReader, Working, AloneOK, JudgedOnce, Open, Extracted

LEMMA ProcessSolo == ASSUME IInv, Solo, Process PROVE Solo'
<1>1. UNCHANGED <<launching, world, records, rd, overlap>>
  BY DEF Process, CommandEnds, WriteMarker, WrapperExits, Reap, Kill, Dies, Straggles, Untouched, history
<1> QED BY <1>1, BesideSolo DEF launching, records

LEMMA WorldSolo == ASSUME IInv, Solo, World PROVE Solo'
<1>1. UNCHANGED <<launching, process, records, rd, overlap>>
  BY DEF World, history
<1> QED BY <1>1, BesideSolo DEF launching, records

\* A launcher writes run node or diff before there are readers, or for an
\* agent it waited for, which no reader measures or judges.
LEMMA LaunchSolo == ASSUME IInv, Solo, Launch PROVE Solo'
<1> USE DEF At, Goto
<1>0. /\ node \in Node /\ launch.pc # "done" /\ LaunchOK /\ NodeOK
      /\ UNCHANGED <<kind, rd, overlap, evidence>>
  BY DEF Launch, ReadTask, Popen, CreateRun, LinkLogs, WriteMeta, WriteDiff, WriteContract,
         MirrorContract, CheckAtOnce, LaunchDies, IInv, TypeOK, LaunchOK, history, records
<1>1. CASE ReadTask \/ Popen \/ WriteMeta \/ WriteContract \/ LaunchDies
  <2>1. UNCHANGED <<node, changes>>
    BY <1>1 DEF ReadTask, Popen, WriteMeta, WriteContract, LaunchDies, records
  <2> QED BY <1>0, <2>1, BesideSolo
<1>2. CASE LinkLogs \/ MirrorContract
  <2>1. /\ node'.status = node.status /\ node'.judged = node.judged /\ node'.on = node.on
        /\ changes' = changes
    BY <1>0, <1>2 DEF LinkLogs, MirrorContract, Node
  <2> QED BY <1>0, <2>1, BesideSolo
<1>3. CASE CreateRun
  <2>1. node.status = "none"
    BY <1>0, <1>3 DEF CreateRun, LaunchOK, Detached
  <2>2. \A r \in Readers : ~Working(r) /\ ~Working(r)'
    BY <1>0, <2>1 DEF IInv, ReaderOK, Working
  <2>3. node.judged = None /\ node'.judged = None
    BY <1>0, <1>3, <2>1 DEF CreateRun, LaunchOK, Node
  <2> QED BY <2>2, <2>3 DEF Solo, OneReader, AloneOK, JudgedOnce, Working
<1>4. CASE WriteDiff \/ CheckAtOnce
  <2>1. kind = "agent" /\ ~meta
    BY <1>0, <1>4 DEF WriteDiff, CheckAtOnce, LaunchOK
  <2>2. \A r \in Readers : rd[r].pc \notin {"looked", "unmarked", "sealing", "measuring", "judging",
                                            "mirroring", "ending"}
    BY <2>1 DEF IInv, ReaderOK, Sync
  <2>3. ~overlap => OneReader' /\ \A r \in Readers : AloneOK(rd[r])'
    BY <1>0, <2>1, <2>2 DEF Solo, OneReader, Working, AloneOK, Extracted
  <2>4. ~overlap => JudgedOnce'
    <3>1. CASE WriteDiff
      <4>1. launch.pc = "linked" /\ node' = node
        BY <3>1 DEF WriteDiff
      <4> QED BY <2>1, <4>1 DEF Solo, JudgedOnce
    <3>2. CASE CheckAtOnce
      <4>1. /\ node'.on = changes /\ changes' = changes /\ launch'.pc = "done" /\ kind' = "agent"
        BY <1>0, <2>1, <3>2 DEF CheckAtOnce, Node, IInv, TypeOK
      <4> QED BY <4>1 DEF JudgedOnce
    <3> QED BY <1>4, <3>1, <3>2
  <2> QED BY <1>0, <2>3, <2>4 DEF Solo
<1> QED BY <1>1, <1>2, <1>3, <1>4 DEF Launch

\* A step of a reader: while there was no overlap the others are idle.
LEMMA ReaderSolo ==
    ASSUME IInv, Solo, NEW r \in Readers, NEW x \in Reader, rd' = [rd EXCEPT ![r] = x],
           \/ Working(r) /\ overlap' = overlap
           \/ overlap' = (overlap \/ \E s \in Readers \ {r} : Working(s)),
           ~overlap' => AloneOK(x)' /\ JudgedOnce'
    PROVE  Solo'
<1> SUFFICES ASSUME ~overlap' PROVE OneReader' /\ \A s \in Readers : AloneOK(rd[s])'
  BY DEF Solo
<1>1. ~overlap /\ \A s \in Readers : s # r => ~Working(s)
  <2>1. CASE Working(r) /\ overlap' = overlap
    BY <2>1 DEF Solo, OneReader
  <2>2. CASE overlap' = (overlap \/ \E s \in Readers \ {r} : Working(s))
    <3>1. ~overlap /\ ~\E s \in Readers \ {r} : Working(s)
      BY <2>2
    <3> QED BY <3>1
  <2> QED BY <2>1, <2>2
<1>2. rd'[r] = x /\ \A s \in Readers : s # r => rd'[s] = rd[s]
  BY DEF IInv, TypeOK
<1>3. \A s \in Readers : s # r => ~Working(s)'
  BY <1>1, <1>2 DEF Working
<1>4. \A s \in Readers : s # r => AloneOK(rd[s])'
  BY <1>3 DEF AloneOK, Working
<1> QED BY <1>2, <1>3, <1>4 DEF OneReader

LEMMA MovesSolo ==
    ASSUME IInv, Solo, NEW r \in Readers, rd[r].pc # "idle", NEW x \in Reader, Moves(r, x),
           ~overlap => AloneOK(x)' /\ JudgedOnce'
    PROVE  Solo'
  BY ReaderSolo DEF Moves, history, Working

LEMMA StartsSolo ==
    ASSUME IInv, Solo, NEW r \in Readers, NEW x \in Reader, Starts(r, x),
           UNCHANGED <<kind, launch, records>>, AloneOK(x)
    PROVE  Solo'
<1>1. rd' = [rd EXCEPT ![r] = x] /\ overlap' = (overlap \/ \E s \in Readers \ {r} : Working(s))
  BY DEF Starts, Working
<1>2. AloneOK(x)'
  BY DEF AloneOK, Open, Extracted, records
<1>3. ~overlap' => JudgedOnce'
  BY <1>1 DEF Solo, JudgedOnce, records
<1> QED BY <1>1, <1>2, <1>3, ReaderSolo

\* A reader that goes on without writing.
LEMMA ThinksSolo ==
    ASSUME IInv, Solo, NEW r \in Readers, rd[r].pc # "idle", NEW x \in Reader, Moves(r, x),
           UNCHANGED <<kind, launch, records>>, ~overlap => AloneOK(x)
    PROVE  Solo'
<1>1. ~overlap => AloneOK(x)'
  BY DEF AloneOK, Open, Extracted, records
<1>2. ~overlap => JudgedOnce'
  BY DEF Solo, JudgedOnce, records
<1> QED BY <1>1, <1>2, MovesSolo

LEMMA IdleAlone == Idle \in Reader /\ AloneOK(Idle)
  BY IdleOK DEF Idle, AloneOK

LEMMA LookSolo == ASSUME IInv, Solo, NEW r \in Readers, Look(r) PROVE Solo'
<1> DEFINE x == [Idle EXCEPT !.pc = IF Open THEN "looked" ELSE "final",
                             !.linked = node.linked, !.judged = node.judged]
<1>1. x \in Reader
  BY IdleOK DEF Reader, IInv, TypeOK, Node
<1>2. AloneOK(x)
  BY IdleOK DEF Reader, AloneOK
<1> QED BY <1>1, <1>2, StartsSolo DEF Look, launching, records

LEMMA EndSolo == ASSUME IInv, Solo, NEW r \in Readers, End(r) PROVE Solo'
<1>1. PICK claim \in {"done", "failed"} : Starts(r, [Idle EXCEPT !.pc = "measuring", !.status = claim])
  BY DEF End
<1> DEFINE x == [Idle EXCEPT !.pc = "measuring", !.status = claim]
<1>2. x \in Reader
  BY IdleOK DEF Reader
<1>3. AloneOK(x)
  BY DEF End, AloneOK, Idle
<1> QED BY <1>1, <1>2, <1>3, StartsSolo DEF End, launching, records

LEMMA ExtractSolo == ASSUME IInv, Solo, NEW r \in Readers, Extract(r) PROVE Solo'
<1> DEFINE x == [Idle EXCEPT !.pc = "extracting"]
<1>1. x \in Reader /\ AloneOK(x)
  BY IdleOK DEF Reader, AloneOK, Idle
<1> QED BY <1>1, StartsSolo DEF Extract, launching, records

LEMMA ProbeSolo == ASSUME IInv, Solo, NEW r \in Readers, ProbeMarker(r) \/ ProbePid(r) PROVE Solo'
<1>1. rd[r] \in Reader /\ rd[r].pc \in {"looked", "unmarked"} /\ (~overlap => AloneOK(rd[r]))
  BY DEF ProbeMarker, ProbePid, Solo, IInv, TypeOK
<1>2. UNCHANGED <<kind, launch, records>>
  BY DEF ProbeMarker, ProbePid, launching, records
<1>3. ASSUME NEW x \in Reader, x.pc \in {"unmarked", "sealing"}, Moves(r, x) PROVE Solo'
  BY <1>1, <1>2, <1>3, ThinksSolo DEF AloneOK
<1>4. CASE ProbeMarker(r)
  <2>1. /\ [To(r, "sealing") EXCEPT !.status = Verdict(ExitMarker), !.exit = ExitMarker] \in Reader
        /\ To(r, "unmarked") \in Reader
    <3>1. Verdict(ExitMarker) \in {"done", "failed"} /\ ExitMarker \in Codes
      BY DEF Verdict, ExitMarker, IInv, TypeOK, Codes
    <3> QED BY <1>1, <3>1 DEF Reader, To
  <2> QED BY <1>1, <1>3, <1>4, <2>1 DEF ProbeMarker, To, Reader
<1>5. CASE ProbePid(r)
  <2>1. [To(r, "sealing") EXCEPT !.status = Vanished] \in Reader
    BY <1>1 DEF Reader, To, Vanished
  <2>2. CASE Alive
    BY <1>1, <1>2, <1>5, <2>2, IdleAlone, ThinksSolo DEF ProbePid, Leave
  <2>3. CASE ~Alive
    BY <1>1, <1>3, <1>5, <2>1, <2>3 DEF ProbePid, To, Reader
  <2> QED BY <2>2, <2>3
<1> QED BY <1>4, <1>5

LEMMA SealSolo == ASSUME IInv, Solo, NEW r \in Readers, Seal(r) PROVE Solo'
<1>1. rd[r] \in Reader /\ rd[r].pc = "sealing" /\ node \in Node /\ (~overlap => AloneOK(rd[r]))
  BY DEF Seal, Solo, IInv, TypeOK
<1>2. CASE ~Complete(r)
  BY <1>1, <1>2, IdleAlone, ThinksSolo DEF Seal, launching, records
<1>3. CASE Complete(r)
  <2>1. PICK x \in Reader : x = [To(r, "final") EXCEPT !.judged = node.judged]
    BY <1>1 DEF Reader, To, Node
  <2>2. /\ x.pc = "final" /\ x.judged = node.judged
    BY <1>1, <2>1 DEF Reader, To
  <2>3. /\ node'.judged = node.judged /\ node'.on = node.on /\ Moves(r, x)
        /\ UNCHANGED <<kind, launch, changes, evidence>>
    BY <1>1, <1>3, <2>1 DEF Seal, Node, launching
  <2>4. AloneOK(x)' /\ (~overlap => JudgedOnce')
    BY <2>2, <2>3 DEF AloneOK, Solo, JudgedOnce
  <2> QED BY <1>1, <2>3, <2>4, MovesSolo
<1> QED BY <1>2, <1>3

LEMMA FinalizeSolo == ASSUME IInv, Solo, NEW r \in Readers, Finalize(r) PROVE Solo'
<1> DEFINE j == [To(r, "judging") EXCEPT !.diff = changes]
<1>1. rd[r] \in Reader /\ rd[r].pc = "final" /\ (~overlap => AloneOK(rd[r])) /\ (meta => kind = "detached_agent")
  BY DEF Finalize, Solo, IInv, TypeOK, LaunchOK
<1>2. UNCHANGED <<kind, launch, records>>
  BY DEF Finalize, launching, records
<1>3. j \in Reader /\ To(r, "measuring") \in Reader
  BY <1>1 DEF Reader, To, IInv, TypeOK
<1>4. /\ j.pc = "judging" /\ j.judged = rd[r].judged /\ j.diff = changes
      /\ To(r, "measuring").pc = "measuring" /\ To(r, "measuring").judged = rd[r].judged
  BY <1>1 DEF Reader, To
<1> HIDE DEF j
<1>5. CASE ~meta
  BY <1>1, <1>2, <1>5, IdleAlone, ThinksSolo DEF Finalize
<1>6. CASE meta /\ Frozen
  <2>1. Moves(r, j)
    BY <1>6 DEF Finalize, j
  <2>2. ~overlap => AloneOK(j)
    BY <1>1, <1>4, <1>6 DEF AloneOK, Frozen
  <2> QED BY <1>1, <1>2, <1>3, <2>1, <2>2, ThinksSolo
<1>7. CASE meta /\ ~Frozen
  <2>1. Moves(r, To(r, "measuring"))
    BY <1>7 DEF Finalize
  <2>2. ~overlap => AloneOK(To(r, "measuring"))
    BY <1>1, <1>4, <1>7 DEF AloneOK, Frozen
  <2> QED BY <1>1, <1>2, <1>3, <2>1, <2>2, ThinksSolo
<1> QED BY <1>5, <1>6, <1>7

\* Nobody measures again once the run is judged.
LEMMA MeasureSolo == ASSUME IInv, Solo, NEW r \in Readers, Measure(r) PROVE Solo'
<1>1. /\ rd[r] \in Reader /\ rd[r].pc = "measuring" /\ (~overlap => AloneOK(rd[r]))
      /\ ReaderOK(rd[r]) /\ LaunchOK
  BY DEF Measure, Solo, IInv, TypeOK
<1>2. PICK x \in Reader : x = [To(r, "judging") EXCEPT !.diff = workspace]
  BY <1>1 DEF Reader, To, IInv, TypeOK
<1>3. x.pc = "judging" /\ x.judged = rd[r].judged /\ x.diff = workspace
  BY <1>1, <1>2 DEF Reader, To
<1>4. Moves(r, x) /\ changes' = workspace /\ workspace # None /\ UNCHANGED <<kind, launch, node>>
  BY <1>2, RunAssumption DEF Measure, launching, IInv, TypeOK, Edits
<1>5. ~overlap => AloneOK(x)'
  BY <1>1, <1>3, <1>4 DEF AloneOK, Open
<1>6. ~overlap => node.judged = None
  <2>1. CASE kind = "bracket"
    BY <1>1, <2>1 DEF AloneOK, Open, IInv, TypeOK, Sealed, Outcomes
  <2>2. CASE kind # "bracket"
    BY <1>1, <2>2 DEF AloneOK, ReaderOK, LaunchOK, Solo, JudgedOnce
  <2> QED BY <2>1, <2>2
<1>7. ~overlap => JudgedOnce'
  BY <1>4, <1>6 DEF JudgedOnce
<1> QED BY <1>1, <1>4, <1>5, <1>7, MovesSolo

LEMMA JudgeSolo == ASSUME IInv, Solo, NEW r \in Readers, Judge(r) PROVE Solo'
<1> DEFINE e == [To(r, "ending") EXCEPT !.judged = IF Snapshot \in Checked THEN Snapshot ELSE None]
           m == [To(r, "mirroring") EXCEPT !.judged = Snapshot]
<1>1. /\ rd[r] \in Reader /\ rd[r].pc = "judging" /\ (~overlap => AloneOK(rd[r]))
      /\ ReaderOK(rd[r]) /\ LaunchOK
  BY DEF Judge, Solo, IInv, TypeOK
<1>2. UNCHANGED <<kind, launch, records>>
  BY DEF Judge, launching, records
<1>3. Snapshot \in Contracts \cup {None}
  BY DEF Snapshot, IInv, TypeOK
<1>4. e \in Reader /\ m \in Reader
  BY <1>1, <1>3 DEF Reader, To
<1>5. e.pc = "ending" /\ e.diff = rd[r].diff /\ m.pc = "mirroring" /\ m.diff = rd[r].diff
  BY <1>1 DEF Reader, To
<1>6. Moves(r, IF kind = "bracket" THEN e
               ELSE IF HasTask /\ rd[r].judged = None /\ Snapshot \in Checked THEN m ELSE Idle)
  BY DEF Judge
<1> HIDE DEF e, m
<1>7. CASE kind = "bracket"
  <2>1. ~overlap => AloneOK(e)
    BY <1>1, <1>5, <1>7 DEF AloneOK
  <2> QED BY <1>1, <1>2, <1>4, <1>6, <1>7, <2>1, ThinksSolo
<1>8. CASE kind # "bracket" /\ HasTask /\ rd[r].judged = None /\ Snapshot \in Checked
  <2>1. ~overlap => AloneOK(m)
    BY <1>1, <1>5, <1>8 DEF AloneOK, ReaderOK, LaunchOK
  <2> QED BY <1>1, <1>2, <1>4, <1>6, <1>8, <2>1, ThinksSolo
<1>9. CASE kind # "bracket" /\ ~(HasTask /\ rd[r].judged = None /\ Snapshot \in Checked)
  BY <1>1, <1>2, <1>6, <1>9, IdleAlone, ThinksSolo
<1> QED BY <1>7, <1>8, <1>9

LEMMA MirrorCheckSolo == ASSUME IInv, Solo, NEW r \in Readers, MirrorCheck(r) PROVE Solo'
<1>1. /\ rd[r] \in Reader /\ rd[r].pc = "mirroring" /\ (~overlap => AloneOK(rd[r]))
      /\ ReaderOK(rd[r]) /\ LaunchOK /\ node \in Node
  BY DEF MirrorCheck, Solo, IInv, TypeOK
<1>2. /\ node'.on = rd[r].diff /\ Moves(r, Idle) /\ UNCHANGED <<kind, launch, changes>>
  BY <1>1 DEF MirrorCheck, Node, launching
<1>3. ~overlap => JudgedOnce'
  BY <1>1, <1>2 DEF AloneOK, ReaderOK, LaunchOK, JudgedOnce
<1>4. AloneOK(Idle)'
  BY DEF AloneOK, Idle
<1> QED BY <1>1, <1>2, <1>3, <1>4, IdleAlone, MovesSolo

LEMMA EndSealSolo == ASSUME IInv, Solo, NEW r \in Readers, EndSeal(r) PROVE Solo'
<1> DEFINE x == [Idle EXCEPT !.pc = "extracting"]
<1>1. /\ rd[r] \in Reader /\ rd[r].pc = "ending" /\ (~overlap => AloneOK(rd[r]))
      /\ kind = "bracket" /\ node \in Node
  BY DEF EndSeal, Solo, IInv, TypeOK, ReaderOK
<1>2. x \in Reader /\ x.pc = "extracting"
  BY IdleOK DEF Reader
<1>3. Moves(r, x) /\ UNCHANGED <<kind, launch, changes>>
  BY DEF EndSeal, launching
<1>4. AloneOK(x)'
  BY <1>2 DEF AloneOK
<1>5. ~overlap => JudgedOnce'
  <2>1. ~overlap => node.judged = None
    BY <1>1 DEF AloneOK, Open, IInv, TypeOK, Sealed, Outcomes
  <2>2. CASE rd[r].judged = None
    BY <1>1, <1>3, <2>1, <2>2 DEF EndSeal, JudgedOnce, Node
  <2>3. CASE rd[r].judged # None
    <3>1. node'.on = rd[r].diff
      BY <1>1, <2>3 DEF EndSeal, Node
    <3> QED BY <1>1, <1>3, <3>1 DEF AloneOK, JudgedOnce
  <2> QED BY <2>2, <2>3
<1> QED BY <1>1, <1>2, <1>3, <1>4, <1>5, MovesSolo

LEMMA EvidenceSolo ==
    ASSUME IInv, Solo, NEW r \in Readers, ReadMetrics(r) \/ Reject(r) \/ ReadSiblings(r) \/ Mint(r)
    PROVE  Solo'
<1>1. rd[r] \in Reader /\ rd[r].pc # "idle" /\ node \in Node
  BY DEF ReadMetrics, Reject, ReadSiblings, Mint, IInv, TypeOK
<1>2. CASE ReadMetrics(r)
  <2>1. UNCHANGED <<kind, launch, records>>
    BY <1>2 DEF ReadMetrics, launching, records
  <2>2. To(r, "rejecting") \in Reader /\ To(r, "rejecting").pc = "rejecting"
    BY <1>1 DEF Reader, To
  <2>3. CASE metrics \notin {Absent, Invalid}
    <3>1. PICK x \in Reader : x = [To(r, "parsed") EXCEPT !.read = metrics, !.error = node.error]
      BY <1>1, <2>3 DEF Reader, To, IInv, TypeOK, Node
    <3>2. x.pc = "parsed"
      BY <1>1, <3>1 DEF Reader, To
    <3>3. Moves(r, x)
      BY <1>2, <2>3, <3>1 DEF ReadMetrics
    <3> QED BY <1>1, <2>1, <3>2, <3>3, ThinksSolo DEF AloneOK
  <2>4. CASE metrics = Absent
    BY <1>1, <1>2, <2>1, <2>4, IdleAlone, ThinksSolo DEF ReadMetrics
  <2>5. CASE metrics = Invalid
    <3>1. Moves(r, To(r, "rejecting"))
      BY <1>2, <2>5, RunAssumption DEF ReadMetrics
    <3>2. AloneOK(To(r, "rejecting"))
      BY <2>2 DEF AloneOK
    <3> QED BY <1>1, <2>1, <2>2, <3>1, <3>2, ThinksSolo
  <2> QED BY <2>3, <2>4, <2>5
<1>3. CASE Reject(r) \/ Mint(r)
  <2>1. /\ Moves(r, Idle) /\ node'.judged = node.judged /\ node'.on = node.on
        /\ UNCHANGED <<kind, launch, changes>>
    BY <1>1, <1>3 DEF Reject, Mint, Node, launching
  <2>2. AloneOK(Idle)' /\ (~overlap => JudgedOnce')
    BY <2>1 DEF AloneOK, Idle, Solo, JudgedOnce
  <2> QED BY <1>1, <2>1, <2>2, IdleAlone, MovesSolo
<1>4. CASE ReadSiblings(r)
  <2>1. UNCHANGED <<kind, launch, records>>
    BY <1>4 DEF ReadSiblings, launching, records
  <2>2. /\ To(r, "minting") \in Reader /\ To(r, "minting").pc = "minting"
        /\ To(r, "minting").read = rd[r].read
    BY <1>1 DEF Reader, To
  <2>3. CASE Extracted(rd[r].read)
    BY <1>1, <1>4, <2>1, <2>3, IdleAlone, ThinksSolo DEF ReadSiblings
  <2>4. CASE ~Extracted(rd[r].read)
    <3>1. AloneOK(To(r, "minting")) /\ Moves(r, To(r, "minting"))
      BY <1>4, <2>2, <2>4 DEF AloneOK, ReadSiblings
    <3> QED BY <1>1, <2>1, <2>2, <3>1, ThinksSolo
  <2> QED BY <2>3, <2>4
<1> QED BY <1>2, <1>3, <1>4

LEMMA FailsSolo == ASSUME IInv, Solo, NEW r \in Readers, Fails(r) PROVE Solo'
<1>1. AloneOK(Idle)' /\ (~overlap => JudgedOnce')
  BY DEF AloneOK, Idle, Solo, JudgedOnce, Fails, launching, records
<1> QED BY <1>1, IdleAlone, ReaderSolo DEF Fails, Working

LEMMA ContinueSolo == ASSUME IInv, Solo, NEW r \in Readers, Continue(r) PROVE Solo'
  BY ProbeSolo, SealSolo, FinalizeSolo, MeasureSolo, JudgeSolo, MirrorCheckSolo, EndSealSolo,
     EvidenceSolo DEF Continue

LEMMA SoloStep == IInv /\ Solo /\ [Next]_vars => Solo'
<1> SUFFICES ASSUME IInv, Solo, [Next]_vars PROVE Solo'
  OBVIOUS
<1>1. CASE Launch \/ Process \/ World
  BY <1>1, LaunchSolo, ProcessSolo, WorldSolo
<1>2. ASSUME NEW r \in Readers, Look(r) \/ End(r) \/ Extract(r) \/ Continue(r) \/ Fails(r) PROVE Solo'
  BY <1>2, LookSolo, EndSolo, ExtractSolo, ContinueSolo, FailsSolo
<1>3. CASE UNCHANGED vars
  BY <1>3, BesideSolo DEF vars, launching, records, history
<1> QED BY <1>1, <1>2, <1>3 DEF Next

-----------------------------------------------------------------------------
\* What one step may do to the records of a run while readers do not overlap.
KeepsHistory ==
    /\ Sealed => node'.status = node.status /\ node'.exit = node.exit
    /\ node.judged # None => node'.judged = node.judged
    /\ \/ evidence' = evidence
       \/ \E m \in Metrics \ {evidence[i] : i \in DOMAIN evidence} : evidence' = Append(evidence, m)

LEMMA LaunchKeepsHistory == ASSUME IInv, Solo, ~overlap, Launch PROVE KeepsHistory
<1> USE DEF At
<1>0. node \in Node /\ LaunchOK /\ JudgedOnce /\ evidence' = evidence
  BY DEF Launch, ReadTask, Popen, CreateRun, LinkLogs, WriteMeta, WriteDiff, WriteContract,
         MirrorContract, CheckAtOnce, LaunchDies, IInv, TypeOK, Solo, records
<1>1. CASE CreateRun
  <2>1. ~Sealed /\ node.judged = None
    BY <1>0, <1>1 DEF CreateRun, LaunchOK, Sealed, Outcomes, Detached
  <2> QED BY <1>0, <2>1 DEF KeepsHistory
<1>2. CASE CheckAtOnce
  <2>1. node.judged = None
    BY <1>0, <1>2 DEF CheckAtOnce, LaunchOK, JudgedOnce
  <2> QED BY <1>0, <1>2, <2>1 DEF CheckAtOnce, Node, KeepsHistory
<1>3. CASE ~CreateRun /\ ~CheckAtOnce
  <2>1. node'.status = node.status /\ node'.exit = node.exit /\ node'.judged = node.judged
    BY <1>0, <1>3 DEF Launch, ReadTask, Popen, LinkLogs, WriteMeta, WriteDiff, WriteContract,
       MirrorContract, LaunchDies, Node, records
  <2> QED BY <1>0, <2>1 DEF KeepsHistory
<1> QED BY <1>1, <1>2, <1>3

LEMMA ContinueKeepsHistory ==
    ASSUME IInv, Solo, ~overlap, NEW r \in Readers, Continue(r)
    PROVE  KeepsHistory
<1>0. /\ node \in Node /\ rd[r] \in Reader /\ ReaderOK(rd[r]) /\ AloneOK(rd[r])
      /\ (node.judged # None => Sealed)
  BY DEF IInv, TypeOK, Solo
<1>1. CASE ProbeMarker(r) \/ ProbePid(r) \/ Finalize(r) \/ Measure(r) \/ Judge(r)
           \/ ReadMetrics(r) \/ ReadSiblings(r)
  BY <1>1 DEF ProbeMarker, ProbePid, Finalize, Measure, Judge, ReadMetrics, ReadSiblings,
     KeepsHistory, records
<1>2. CASE Seal(r)
  <2>1. ~Sealed /\ node'.judged = node.judged /\ evidence' = evidence
    BY <1>0, <1>2 DEF Seal, AloneOK, Open, Sealed, Outcomes, Node
  <2> QED BY <2>1 DEF KeepsHistory
<1>3. CASE MirrorCheck(r)
  BY <1>0, <1>3 DEF MirrorCheck, AloneOK, Node, KeepsHistory
<1>4. CASE EndSeal(r)
  <2>1. ~Sealed /\ evidence' = evidence
    BY <1>0, <1>4 DEF EndSeal, AloneOK, ReaderOK, Open, Sealed, Outcomes
  <2> QED BY <1>0, <2>1 DEF KeepsHistory
<1>5. CASE Reject(r)
  BY <1>0, <1>5 DEF Reject, Node, KeepsHistory
<1>6. CASE Mint(r)
  <2>1. rd[r].read \in Metrics \ {evidence[i] : i \in DOMAIN evidence}
    BY <1>0, <1>6 DEF Mint, AloneOK, ReaderOK, Extracted
  <2>2. node'.status = node.status /\ node'.exit = node.exit /\ node'.judged = node.judged
    BY <1>0, <1>6 DEF Mint, Node
  <2> QED BY <1>6, <2>1, <2>2 DEF Mint, KeepsHistory
<1> QED BY <1>1, <1>2, <1>3, <1>4, <1>5, <1>6 DEF Continue

LEMMA StepKeepsHistory == IInv /\ Solo /\ [Next]_vars => [overlap' \/ KeepsHistory]_vars
<1> SUFFICES ASSUME IInv, Solo, Next, ~overlap' PROVE KeepsHistory
  OBVIOUS
<1>1. ~overlap
  BY DEF Next, Launch, ReadTask, Popen, CreateRun, LinkLogs, WriteMeta, WriteDiff, WriteContract,
         MirrorContract, CheckAtOnce, LaunchDies, Process, CommandEnds, WriteMarker, WrapperExits,
         Reap, Kill, Dies, Straggles, World, Look, End, Extract, Starts, Continue, ProbeMarker,
         ProbePid, Seal, Finalize, Measure, Judge, MirrorCheck, EndSeal, ReadMetrics, Reject,
         ReadSiblings, Mint, Moves, Fails, history
<1>2. CASE Launch
  BY <1>1, <1>2, LaunchKeepsHistory
<1>3. CASE Process \/ World
  BY <1>3 DEF Process, CommandEnds, WriteMarker, WrapperExits, Reap, Kill, Dies, Straggles, Untouched,
     World, KeepsHistory, records
<1>4. ASSUME NEW r \in Readers, Look(r) \/ End(r) \/ Extract(r) \/ Fails(r) PROVE KeepsHistory
  BY <1>4 DEF Look, End, Extract, Fails, KeepsHistory, records
<1>5. ASSUME NEW r \in Readers, Continue(r) PROVE KeepsHistory
  BY <1>1, <1>5, ContinueKeepsHistory
<1> QED BY <1>2, <1>3, <1>4, <1>5 DEF Next

LEMMA AlwaysSolo == Spec => [](IInv /\ Solo)
<1>1. Init => IInv /\ Solo
  <2> SUFFICES ASSUME Init PROVE Solo
    BY InitOK
  <2>1. node.judged = None /\ \A r \in Readers : ~Working(r) /\ rd[r] = Idle
    BY DEF Init, Working, Idle
  <2> QED BY <2>1, IdleAlone DEF Solo, OneReader, JudgedOnce
<1>2. (IInv /\ Solo) /\ [Next]_vars => (IInv /\ Solo)'
  BY NextKeeps, SoloStep
<1> QED BY <1>1, <1>2, PTL DEF Spec

\* While readers of the run do not overlap, the contract check on it judged
\* the diff in changes.json (finalize_agent_diff reads an existing one back,
\* end_run refuses a run that has ended), however often readers come back.
THEOREM ChecksMatchDiffs == Spec => []CheckMatchesDiff
<1>1. Solo => CheckMatchesDiff
  BY DEF Solo, JudgedOnce, CheckMatchesDiff
<1> QED BY <1>1, AlwaysSolo, PTL

\* While readers of the run do not overlap, nothing that was recorded is
\* rewritten: not the status a run was sealed with, not its contract check,
\* and no evidence is added twice (reconcile_run, end_run, extract_evidence).
THEOREM NothingRewritten == Spec => HistoryKept
<1>1. IInv /\ Solo /\ [Next]_vars => [overlap' \/ KeepsHistory]_vars
  BY StepKeepsHistory
<1> QED BY <1>1, AlwaysSolo, PTL DEF Spec, HistoryKept, KeepsHistory
=============================================================================
