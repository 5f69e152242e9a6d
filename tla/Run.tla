-------------------------------- MODULE Run --------------------------------
(***************************************************************************)
(* One run node and everybody who writes it: the command that opens it     *)
(* (exec_run, run_agent, start_run, start_agent_run, begin_run), the       *)
(* process it starts with its wrapper script, and the readers that close   *)
(* it afterwards: `run status`, `run wait` and `run reconcile`             *)
(* (reconcile_run, then finalize_agent_diff), `run end` (end_run) and      *)
(* `evidence extract`.  Readers are separate processes without a lock.     *)
(*                                                                         *)
(* A patch is one step (module Commit looks inside).  It takes the version *)
(* it is based on right before it applies, so it does not protect what its *)
(* caller read earlier; a conflict in between is a failure of the caller.  *)
(* A workspace is the number of edits it has seen, a contract or a metrics *)
(* file is a model value.                                                  *)
(***************************************************************************)
EXTENDS Naturals, FiniteSets, Sequences

CONSTANTS
    Readers,      \* processes that close the run or extract from it
    Waiter,       \* the reader that asks again and again
    Contracts,    \* what the task node may say
    Checked,      \* the contracts with has_checks()
    Metrics,      \* valid contents of the metrics file
    Absent, Invalid,
    None,
    Measured,     \* bound: kinds of run whose metrics file changes
    MaxEdits,     \* bound: edits of the workspace
    MaxFailures   \* bound: readers that fail or are killed halfway

ASSUME RunAssumption ==
    /\ Waiter \in Readers /\ Checked \subseteq Contracts
    /\ None \notin Contracts \cup Metrics \cup Nat \cup {"done", "failed"}
    /\ Absent \notin Metrics /\ Invalid \notin Metrics /\ Absent # Invalid
    /\ MaxEdits \in Nat /\ MaxFailures \in Nat

VARIABLES
    kind,          \* which command opens the run
    launch,        \* that command: where it is, the contract it read
    task,          \* the contract the task node holds now
    contractFile,  \* <run_dir>/contract.json
    meta,          \* does <run_dir>/agent_meta.json exist?
    node,          \* the run node
    proc,          \* the process group leader: wrapper script, or `sh -c` of exec_run
    busy,          \* does the command itself still run?
    code,          \* what the command exited with, None before or if it was killed
    marks,         \* markers the wrapper wrote: ended_at, exit_code, finished
    workspace,     \* edits so far
    changes,       \* <run_dir>/changes.json: the workspace it was computed from
    metrics,       \* <workdir>/metrics.json
    evidence,      \* metrics of the evidence nodes under the run
    rd,            \* the readers
    overlap,       \* (history) were two readers ever at work at once?
    gap,           \* (history) was the last marker written between two probes of a reader?
    failures

launching == <<kind, launch, contractFile, meta>>
process == <<proc, busy, code, marks>>
world == <<task, workspace, metrics>>
records == <<node, changes, evidence>>
history == <<overlap, gap, failures>>
vars == <<launching, process, world, records, rd, history>>

Kinds == {"exec", "agent", "detached", "detached_agent", "bracket"}
Detached == kind \in {"detached", "detached_agent"}
OfAgent == kind \in {"agent", "detached_agent"}

Outcomes == {"done", "failed", "timed_out"}
Edits == 0..MaxEdits
Codes == {None, 0, 1}

Node ==
    [status : {"none", "running"} \cup Outcomes, exit : Codes, linked : BOOLEAN,
     contract : Contracts \cup {None}, judged : Contracts \cup {None},
     on : Edits \cup {None}, error : BOOLEAN]

Reader ==
    [pc : {"idle", "looked", "unmarked", "sealing", "final", "measuring", "judging",
           "mirroring", "ending", "extracting", "rejecting", "parsed", "minting"},
     status : {None, "done", "failed"}, exit : Codes, linked : BOOLEAN,
     judged : Contracts \cup {None}, diff : Edits \cup {None},
     read : Metrics \cup {None}, error : BOOLEAN]

Idle == [pc |-> "idle", status |-> None, exit |-> None, linked |-> FALSE, judged |-> None,
         diff |-> None, read |-> None, error |-> FALSE]

Sealed == node.status \in Outcomes
Verdict(c) == IF c = 0 THEN "done" ELSE "failed"

-----------------------------------------------------------------------------
(* Opening a run                                                           *)

At(pc) == launch.pc = pc
Goto(pc) == launch' = [launch EXCEPT !.pc = pc]

\* The contract is taken from the task node, or there is no task (--prompt,
\* and the shell runs).
ReadTask ==
    /\ At("start")
    /\ \E c \in {task, None} :
          /\ kind \in {"exec", "detached"} => c = None
          /\ kind = "bracket" => c = task
          /\ launch' = [pc |-> "read", contract |-> c]
    /\ UNCHANGED <<kind, contractFile, meta, process, world, records, rd, history>>

\* subprocess.Popen: the command runs before anything is recorded.
Popen ==
    /\ At("read") /\ kind # "bracket"
    /\ Goto("spawned")
    /\ proc' = "command" /\ busy' = TRUE
    /\ UNCHANGED <<kind, contractFile, meta, code, marks, world, records, rd, history>>

\* The first patch.  exec_run waits for the process and records how it ended.
CreateRun ==
    /\ \/ /\ Detached /\ At("spawned")
          /\ node' = [node EXCEPT !.status = "running"]
       \/ /\ kind \in {"exec", "agent"} /\ At("spawned") /\ proc = "dead"
          /\ node' = [node EXCEPT !.exit = code,
                                  !.status = IF code = None THEN "timed_out" ELSE Verdict(code)]
       \/ /\ kind = "bracket" /\ At("contracted")
          /\ node' = [node EXCEPT !.status = "running", !.contract = launch.contract]
    /\ Goto(IF kind = "bracket" THEN "done" ELSE "created")
    /\ UNCHANGED <<kind, contractFile, meta, process, world, changes, evidence, rd, history>>

\* The second patch: the log files, which reconcile needs to close the run.
LinkLogs ==
    /\ At("created")
    /\ node' = [node EXCEPT !.linked = TRUE]
    /\ Goto(IF OfAgent THEN "linked" ELSE "done")
    /\ UNCHANGED <<kind, contractFile, meta, process, world, changes, evidence, rd, history>>

\* start_agent_run: before_snapshot.json and agent_meta.json.
WriteMeta ==
    /\ kind = "detached_agent" /\ At("linked")
    /\ meta' = TRUE
    /\ Goto(IF launch.contract = None THEN "done" ELSE "described")
    /\ UNCHANGED <<kind, contractFile, process, world, records, rd, history>>

\* run_agent: the diff, right after the command.
WriteDiff ==
    /\ kind = "agent" /\ At("linked")
    /\ changes' = workspace
    /\ Goto(IF launch.contract = None THEN "done" ELSE "described")
    /\ UNCHANGED <<kind, contractFile, meta, process, world, node, evidence, rd, history>>

\* write_contract_snapshot.
WriteContract ==
    /\ \/ At("described")
       \/ kind = "bracket" /\ At("read")
    /\ contractFile' = launch.contract
    /\ Goto("contracted")
    /\ UNCHANGED <<kind, meta, process, world, records, rd, history>>

\* The contract mirrored on the run node, with the fulfills edge.
MirrorContract ==
    /\ OfAgent /\ At("contracted")
    /\ node' = [node EXCEPT !.contract = launch.contract]
    /\ Goto(IF kind = "agent" /\ launch.contract \in Checked THEN "mirrored" ELSE "done")
    /\ UNCHANGED <<kind, contractFile, meta, process, world, changes, evidence, rd, history>>

\* run_agent: check_contract and its patch.
CheckAtOnce ==
    /\ At("mirrored")
    /\ node' = [node EXCEPT !.judged = launch.contract, !.on = changes]
    /\ Goto("done")
    /\ UNCHANGED <<kind, contractFile, meta, process, world, changes, evidence, rd, history>>

\* A patch of the launcher is refused, or it is killed: the rest never happens.
LaunchDies ==
    /\ launch.pc \notin {"start", "done", "dead"}
    /\ Goto("dead")
    /\ UNCHANGED <<kind, contractFile, meta, process, world, records, rd, history>>

Launch ==
    \/ ReadTask \/ Popen \/ CreateRun \/ LinkLogs \/ WriteMeta \/ WriteDiff
    \/ WriteContract \/ MirrorContract \/ CheckAtOnce \/ LaunchDies

-----------------------------------------------------------------------------
(* The process                                                             *)

Untouched == UNCHANGED <<launching, world, records, rd>>

\* The command exits by itself.  The wrapper goes on; exec_run has waited.
CommandEnds ==
    /\ proc = "command"
    /\ busy' = FALSE
    /\ code' \in {0, 1}
    /\ proc' = IF Detached THEN "wrapper" ELSE "dead"
    /\ UNCHANGED marks /\ Untouched /\ UNCHANGED history

\* The wrapper writes ended_at, exit_code and finished, in this order.
WriteMarker ==
    /\ proc = "wrapper" /\ marks < 3
    /\ marks' = marks + 1
    /\ gap' = (gap \/ (marks' = 3 /\ \E r \in Readers : rd[r].pc = "unmarked"))
    /\ UNCHANGED <<proc, busy, code, overlap, failures>> /\ Untouched

\* The wrapper exits: a zombie until its parent, or init, reaps it.
WrapperExits ==
    /\ proc = "wrapper" /\ marks = 3
    /\ proc' = "zombie"
    /\ UNCHANGED <<busy, code, marks>> /\ Untouched /\ UNCHANGED history

Reap ==
    /\ proc = "zombie"
    /\ proc' = "dead"
    /\ UNCHANGED <<busy, code, marks>> /\ Untouched /\ UNCHANGED history

\* A signal ends the wrapper; the command may handle it and live on.
Terminated ==
    /\ proc \in {"command", "wrapper"}
    /\ proc' = IF Detached THEN "zombie" ELSE "dead"
    /\ busy' \in {FALSE, busy}
    /\ UNCHANGED <<code, marks>>

\* kill_run, and the timeout of exec_run, which kills the shell.
Kill ==
    /\ \/ Detached /\ node.status = "running"
       \/ kind \in {"exec", "agent"} /\ At("spawned") /\ proc = "command"
    /\ Terminated
    /\ Untouched /\ UNCHANGED history

\* A SIGKILL from elsewhere, the machine going down.
Dies ==
    /\ Detached /\ Terminated
    /\ Untouched /\ UNCHANGED history

\* A command that outlived its wrapper ends.
Straggles ==
    /\ busy /\ proc \in {"zombie", "dead"}
    /\ busy' = FALSE
    /\ UNCHANGED <<proc, code, marks>> /\ Untouched /\ UNCHANGED history

Process ==
    \/ CommandEnds \/ WriteMarker \/ WrapperExits \/ Reap \/ Kill \/ Dies \/ Straggles

\* Everybody else: the task node is edited, files of the workspace change,
\* the metrics file is written, rewritten or removed.
World ==
    /\ \/ task' \in Contracts \ {task} /\ UNCHANGED <<workspace, metrics>>
       \/ workspace < MaxEdits /\ workspace' = workspace + 1 /\ UNCHANGED <<task, metrics>>
       \/ kind \in Measured /\ metrics' \in (Metrics \cup {Absent, Invalid}) \ {metrics}
          /\ UNCHANGED <<task, workspace>>
    /\ UNCHANGED <<launching, process, records, rd, history>>

-----------------------------------------------------------------------------
(* Readers: reconcile_run                                                  *)

\* A reader that is idle starts on something.
Starts(r, reader) ==
    /\ rd[r].pc = "idle" /\ node.status # "none"
    /\ rd' = [rd EXCEPT ![r] = reader]
    /\ overlap' = (overlap \/ \E s \in Readers \ {r} : rd[s].pc # "idle")
    /\ UNCHANGED <<gap, failures>>

Moves(r, reader) ==
    /\ rd' = [rd EXCEPT ![r] = reader]
    /\ UNCHANGED history

To(r, pc) == [rd[r] EXCEPT !.pc = pc]

\* (mutant Always) The status is not looked at.
Always == TRUE
\* Nothing to do on a run that is not running.
Open == node.status = "running"

Look(r) ==
    /\ Starts(r, [Idle EXCEPT !.pc = IF Open THEN "looked" ELSE "final",
                              !.linked = node.linked, !.judged = node.judged])
    /\ UNCHANGED <<launching, process, world, records>>

\* (mutant AnyMarker) The first file of the wrapper is taken for the last.
AnyMarker == marks >= 1
Finished == marks = 3
\* _read_finished_markers.
ExitMarker == IF marks >= 2 THEN code ELSE None

ProbeMarker(r) ==
    /\ rd[r].pc = "looked"
    /\ Moves(r, IF Finished
                THEN [To(r, "sealing") EXCEPT !.status = Verdict(ExitMarker), !.exit = ExitMarker]
                ELSE To(r, "unmarked"))
    /\ UNCHANGED <<launching, process, world, records>>

\* (mutant Signalable) What answers os.kill(pid, 0).
Signalable == proc \notin {"none", "dead"}
\* _is_alive: neither gone nor a zombie.
Alive == proc \notin {"none", "zombie", "dead"}
Vanished == "failed"

\* (mutant Eagerly) A run that is still running is finalized.
Eagerly(r) == To(r, "final")
Leave(r) == Idle

\* Alive: still running.  Gone without its marker: failed.
ProbePid(r) ==
    /\ rd[r].pc = "unmarked"
    /\ Moves(r, IF Alive THEN Leave(r) ELSE [To(r, "sealing") EXCEPT !.status = Vanished])
    /\ UNCHANGED <<launching, process, world, records>>

\* (mutant Whatever) The log nodes are not asked for.
Whatever(r) == TRUE
Complete(r) == rd[r].linked

\* _finalize, and load_node after its patch; RunnerError when the second
\* patch of the launch is missing (as it is in a bracket).
Seal(r) ==
    /\ rd[r].pc = "sealing"
    /\ IF Complete(r)
       THEN /\ node' = [node EXCEPT !.status = rd[r].status, !.exit = rd[r].exit]
            /\ Moves(r, [To(r, "final") EXCEPT !.judged = node.judged])
       ELSE Moves(r, Idle) /\ UNCHANGED node
    /\ UNCHANGED <<launching, process, world, changes, evidence>>

-----------------------------------------------------------------------------
(* Readers: finalize_agent_diff                                            *)

HasTask == launch.contract # None

\* (mutant Rehash) changes.json is computed again.
Rehash == FALSE
Frozen == changes # None

\* Only a run with agent_meta.json; a diff that exists is read back.
Finalize(r) ==
    /\ rd[r].pc = "final"
    /\ Moves(r, IF ~meta THEN Idle
                ELSE IF Frozen THEN [To(r, "judging") EXCEPT !.diff = changes]
                ELSE To(r, "measuring"))
    /\ UNCHANGED <<launching, process, world, records>>

\* snapshot_workspace, diff_snapshots and changes.json, here and in end_run.
Measure(r) ==
    /\ rd[r].pc = "measuring"
    /\ changes' = workspace
    /\ Moves(r, [To(r, "judging") EXCEPT !.diff = workspace])
    /\ UNCHANGED <<launching, process, world, node, evidence>>

\* (mutant LiveContract) The task node is read again.
LiveContract == task
Snapshot == contractFile

\* check_contract against contract.json.  An agent run without a task, one
\* judged before and one whose contract has no checks are done; a missing
\* contract.json is a RuntimeError.
Judge(r) ==
    /\ rd[r].pc = "judging"
    /\ Moves(r, IF kind = "bracket"
                THEN [To(r, "ending") EXCEPT
                         !.judged = IF Snapshot \in Checked THEN Snapshot ELSE None]
                ELSE IF HasTask /\ rd[r].judged = None /\ Snapshot \in Checked
                THEN [To(r, "mirroring") EXCEPT !.judged = Snapshot]
                ELSE Idle)
    /\ UNCHANGED <<launching, process, world, records>>

MirrorCheck(r) ==
    /\ rd[r].pc = "mirroring"
    /\ node' = [node EXCEPT !.judged = rd[r].judged, !.on = rd[r].diff]
    /\ Moves(r, Idle)
    /\ UNCHANGED <<launching, process, world, changes, evidence>>

-----------------------------------------------------------------------------
(* Readers: end_run                                                        *)

\* The caller's claim; a run that has ended is rejected.
End(r) ==
    /\ kind = "bracket" /\ Open
    /\ \E claim \in {"done", "failed"} :
          Starts(r, [Idle EXCEPT !.pc = "measuring", !.status = claim])
    /\ UNCHANGED <<launching, process, world, records>>

\* One patch: status and, if there were checks, contract_check.
EndSeal(r) ==
    /\ rd[r].pc = "ending"
    /\ node' = IF rd[r].judged = None
               THEN [node EXCEPT !.status = rd[r].status]
               ELSE [node EXCEPT !.status = rd[r].status, !.judged = rd[r].judged,
                                 !.on = rd[r].diff]
    /\ Moves(r, [Idle EXCEPT !.pc = "extracting"])
    /\ UNCHANGED <<launching, process, world, changes, evidence>>

-----------------------------------------------------------------------------
(* Readers: extract_evidence                                               *)

\* `evidence extract`.
Extract(r) ==
    /\ r # Waiter
    /\ Starts(r, [Idle EXCEPT !.pc = "extracting"])
    /\ UNCHANGED <<launching, process, world, records>>

\* _parse_metrics.  No file: nothing is recorded.
ReadMetrics(r) ==
    /\ rd[r].pc = "extracting"
    /\ Moves(r, IF metrics = Absent THEN Idle
                ELSE IF metrics = Invalid THEN To(r, "rejecting")
                ELSE [To(r, "parsed") EXCEPT !.read = metrics, !.error = node.error])
    /\ UNCHANGED <<launching, process, world, records>>

\* reject: the whole file, stamped on the run node.
Reject(r) ==
    /\ rd[r].pc = "rejecting"
    /\ node' = [node EXCEPT !.error = TRUE]
    /\ Moves(r, Idle)
    /\ UNCHANGED <<launching, process, world, changes, evidence>>

\* An evidence node of the run has these metrics.
Extracted(m) == \E i \in DOMAIN evidence : evidence[i] = m

ReadSiblings(r) ==
    /\ rd[r].pc = "parsed"
    /\ Moves(r, IF Extracted(rd[r].read) THEN Idle ELSE To(r, "minting"))
    /\ UNCHANGED <<launching, process, world, records>>

\* A new evidence node; an error the reader saw on the run is cleared.
Mint(r) ==
    /\ rd[r].pc = "minting"
    /\ evidence' = Append(evidence, rd[r].read)
    /\ node' = [node EXCEPT !.error = @ /\ ~rd[r].error]
    /\ Moves(r, Idle)
    /\ UNCHANGED <<launching, process, world, changes>>

\* A reader fails (a version conflict, a half-written file) or is killed.
Fails(r) ==
    /\ rd[r].pc # "idle" /\ failures < MaxFailures
    /\ rd' = [rd EXCEPT ![r] = Idle]
    /\ failures' = failures + 1
    /\ UNCHANGED <<launching, process, world, records, overlap, gap>>

Continue(r) ==
    \/ ProbeMarker(r) \/ ProbePid(r) \/ Seal(r) \/ Finalize(r) \/ Measure(r) \/ Judge(r)
    \/ MirrorCheck(r) \/ EndSeal(r) \/ ReadMetrics(r) \/ Reject(r) \/ ReadSiblings(r) \/ Mint(r)

-----------------------------------------------------------------------------
Init ==
    /\ kind \in Kinds
    /\ launch = [pc |-> "start", contract |-> None]
    /\ task \in Contracts
    /\ contractFile = None /\ meta = FALSE
    /\ node = [status |-> "none", exit |-> None, linked |-> FALSE, contract |-> None,
               judged |-> None, on |-> None, error |-> FALSE]
    /\ proc = "none" /\ busy = FALSE /\ code = None /\ marks = 0
    /\ workspace = 0 /\ changes = None
    /\ metrics = Absent /\ evidence = <<>>
    /\ rd = [r \in Readers |-> Idle]
    /\ overlap = FALSE /\ gap = FALSE /\ failures = 0

Next ==
    \/ Launch \/ Process \/ World
    \/ \E r \in Readers : Look(r) \/ End(r) \/ Extract(r) \/ Continue(r) \/ Fails(r)

\* A command line runs to its end; somebody asks again, as `run wait` does.
Fairness ==
    /\ \A r \in Readers : WF_vars(Continue(r))
    /\ WF_vars(Look(Waiter))

Spec == Init /\ [][Next]_vars /\ Fairness

-----------------------------------------------------------------------------
(* Properties                                                              *)

\* The state has its shape.  A run that reconcile sealed had its log nodes
\* (_finalize refuses one without), and a run is judged only once sealed or
\* sealed by the same patch.
TypeOK ==
    /\ kind \in Kinds
    /\ launch.pc \in {"start", "read", "spawned", "created", "linked", "described",
                     "contracted", "mirrored", "done", "dead"}
    /\ launch.contract \in Contracts \cup {None}
    /\ task \in Contracts /\ contractFile \in Contracts \cup {None} /\ meta \in BOOLEAN
    /\ node \in Node
    /\ Detached /\ Sealed => node.linked
    /\ node.judged # None => Sealed
    /\ proc \in {"none", "command", "wrapper", "zombie", "dead"}
    /\ busy \in BOOLEAN /\ code \in Codes /\ marks \in 0..3
    /\ workspace \in Edits /\ changes \in Edits \cup {None}
    /\ metrics \in Metrics \cup {Absent, Invalid} /\ evidence \in Seq(Metrics)
    /\ rd \in [Readers -> Reader]
    /\ overlap \in BOOLEAN /\ gap \in BOOLEAN /\ failures \in 0..MaxFailures

DoneMeansSucceeded ==
    kind # "bracket" =>
        /\ node.status = "done" => code = 0
        /\ node.exit \in {None, code}

FailedUnlessRaced ==
    Detached /\ marks = 3 /\ code = 0 /\ node.status = "failed" => gap

\* What is recorded of a run is true, up to one race: done, and the exit code,
\* are what the command did; and a detached run that finished with 0 is failed
\* only if its last marker appeared while a reader was between the marker and
\* the pid (reconcile_run).
OutcomeIsTrue == DoneMeansSucceeded /\ FailedUnlessRaced

\* History is not rewritten (bracket.py end_run, evidence.py): as long as no
\* two readers overlap, a sealed run keeps its status and exit code, a
\* contract check is made once, and extraction only adds evidence, and only
\* metrics that no evidence of the run has.
HistoryKept ==
    [][overlap'
       \/ /\ Sealed => node'.status = node.status /\ node'.exit = node.exit
          /\ node.judged # None => node'.judged = node.judged
          /\ \/ evidence' = evidence
             \/ \E m \in Metrics \ {evidence[i] : i \in DOMAIN evidence} :
                   evidence' = Append(evidence, m)]_vars

\* A run is judged against the contract that was read when it was opened,
\* whatever became of the task since (contract.py write_contract_snapshot),
\* and the contract mirrored on the run is that one too.
JudgedByLaunch ==
    /\ node.judged \in {None, launch.contract}
    /\ node.contract \in {None, launch.contract}

\* As long as no two readers overlap, the diff that the contract check on the
\* run judged is the one in changes.json, however often the workspace
\* changed and the readers came back or failed.
CheckMatchesDiff ==
    ~overlap /\ node.judged # None => node.on = changes

\* The diff of an agent is taken after its command, unless the command
\* outlived a wrapper that was killed.
DiffAfterCommand ==
    kind # "bracket" /\ changes # None /\ busy => proc \in {"zombie", "dead"}

\* An agent is judged fairly: by the contract it was launched with, on the
\* whole of what its command did.
JudgedFairly == JudgedByLaunch /\ DiffAfterCommand

\* Once the process of a recorded run is gone, somebody who keeps asking gets
\* it sealed, a zombie included.
EventuallySealed ==
    (Detached /\ node.linked /\ proc \in {"zombie", "dead"}) ~> Sealed

=============================================================================
