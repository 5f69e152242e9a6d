-------------------------------- MODULE Gate --------------------------------
(***************************************************************************)
(* The write gate: the handlers that judge, accept, draw, discuss, propose *)
(* and withdraw data-flow edges, for the human (edge endpoints of app.py,  *)
(* with the action resolver) and for an agent (op blocks, agent_ops.py).   *)
(* Each reads the edge, checks, and later applies a patch based on the     *)
(* version it reads only then: the patch is refused if the graph changed   *)
(* during it, not if the edge changed after the check.  Handlers run in a  *)
(* pool of threads.                                                        *)
(***************************************************************************)
EXTENDS Naturals, FiniteSets

CONSTANTS
    Edges,        \* ids of data-flow edges
    Humans,       \* requests of the user
    Agents,       \* turns of a discussion
    Locked,       \* edges the resolver refuses (locked, or immutable projections)
    None,
    Unborn, Removed,
    MaxCommits    \* bound: commits of the graph

VARIABLES
    edges,   \* the edge files: attributes, or not there
    version, \* graph_version of the manifest
    rq,      \* the handlers: what they are about to write
    said,    \* (history) the last verdict of the human on an edge
    raced    \* (history) <<actor, edge>>: written after it had changed under the check

vars == <<edges, version, rq, said, raced>>

AGENT_VERDICTS == {"correct", "wrong", "uncertain"}
UserVerdicts == {"correct", "wrong", "disputed"}

Attrs ==
    [source : {"user", "agent", "trace"}, status : {None, "proposed", "accepted"},
     verdict : {None, "unconfirmed"} \cup AGENT_VERDICTS \cup UserVerdicts,
     by : {None, "user", "agent", "trace"}, discuss : BOOLEAN]

Creates == {"create_edge", "propose_edge"}
Deletes == {"delete_edge", "withdraw_edge"}
Op ==
    [act : Creates \cup Deletes \cup {"verdict", "accept", "discuss", "set_verdict"}, edge : Edges,
     verdict : {None} \cup AGENT_VERDICTS \cup UserVerdicts, flag : BOOLEAN]

ASSUME GateAssumption ==
    /\ Locked \subseteq Edges
    /\ Humans \cap Agents = {}
    /\ Unborn \notin Attrs /\ Removed \notin Attrs /\ Unborn # Removed
    /\ None \notin AGENT_VERDICTS \cup UserVerdicts \cup {"proposed", "accepted", "user", "agent"}
    /\ None \notin Op
    /\ MaxCommits \in Nat

Files == Attrs \cup {Unborn, Removed}
Exists(e) == edges[e] \notin {Unborn, Removed}

\* What each handler sends to the kernel.
New(source, status, verdict, by) ==
    [source |-> source, status |-> status, verdict |-> verdict, by |-> by, discuss |-> FALSE]
Drawn == New("user", None, None, None)
Proposed == New("agent", "proposed", "unconfirmed", None)
Traced == New("trace", None, "correct", "trace")

Judged(x, verdict, actor) == [x EXCEPT !.verdict = verdict, !.by = actor]
Accepted(x) == [Judged(x, "correct", "user") EXCEPT !.status = "accepted"]

Sends(act, e, verdict, flag) == [act |-> act, edge |-> e, verdict |-> verdict, flag |-> flag]

\* The file after the patch: attributes are merged into what is there then.
Written(op, x) ==
    CASE op.act = "create_edge"  -> Drawn
      [] op.act = "propose_edge" -> Proposed
      [] op.act \in Deletes      -> Removed
      [] op.act = "verdict"      -> Judged(x, op.verdict, "user")
      [] op.act = "set_verdict"  -> Judged(x, op.verdict, "agent")
      [] op.act = "accept"       -> Accepted(x)
      [] op.act = "discuss"      -> [x EXCEPT !.discuss = op.flag]

Request ==
    [pc : {"idle", "checked", "based"}, op : Op \cup {None}, base : 0..MaxCommits,
     stale : BOOLEAN]   \* (history) was the edge written since the check?

Idle == [pc |-> "idle", op |-> None, base |-> 0, stale |-> FALSE]

Actor(q) == IF q \in Agents THEN "agent" ELSE "user"

-----------------------------------------------------------------------------
(* The checks                                                              *)

\* resolve_action: a locked or read-only target is refused.
Writable(e) == e \notin Locked
\* An id is minted once: no edge has it, and no handler is about to give it.
Fresh(e) == edges[e] = Unborn /\ \A q \in DOMAIN rq : rq[q].pc # "idle" => rq[q].op.edge # e
\* (mutant Anything) Every edge can be accepted.
Anything(x) == TRUE
\* _edge_accept_state_policy, and the check of withdraw_edge.
Ghost(x) == x.source = "agent" /\ x.status = "proposed"
\* (mutant Own) The status is not looked at.
Own(x) == x.source = "agent"
Withdrawable(x) == Ghost(x)
\* (mutant Anybodys) A human verdict does not stop the agent.
Anybodys(x) == TRUE
Revisable(x) == x.by # "user"

\* A handler that has checked its op; a new edge is checked by the kernel only.
Passes(q, op) ==
    /\ rq[q].pc = "idle"
    /\ rq' = [rq EXCEPT ![q] =
          [pc |-> "checked", op |-> op, base |-> 0, stale |-> FALSE]]
    /\ UNCHANGED <<edges, version, said, raced>>

\* POST /edge and DELETE /edge: no check of their own.
CreateEdge(q) == \E e \in Edges :
    Fresh(e) /\ Passes(q, Sends("create_edge", e, None, FALSE))

DeleteEdge(q) == \E e \in Edges :
    edges[e] # Unborn /\ Passes(q, Sends("delete_edge", e, None, FALSE))

PostVerdict(q) == \E e \in Edges, v \in UserVerdicts :
    Exists(e) /\ Writable(e) /\ Passes(q, Sends("verdict", e, v, FALSE))

AcceptGhost(q) == \E e \in Edges :
    Exists(e) /\ Writable(e) /\ Ghost(edges[e]) /\ Passes(q, Sends("accept", e, None, FALSE))

SetDiscuss(q) == \E e \in Edges, flag \in BOOLEAN :
    Exists(e) /\ Writable(e) /\ Passes(q, Sends("discuss", e, None, flag))

\* The agent's ops, one by one; a rejected one changes nothing.
SetVerdict(q) == \E e \in Edges, v \in AGENT_VERDICTS :
    Exists(e) /\ Revisable(edges[e]) /\ Passes(q, Sends("set_verdict", e, v, FALSE))

ProposeEdge(q) == \E e \in Edges :
    Fresh(e) /\ Passes(q, Sends("propose_edge", e, None, FALSE))

WithdrawEdge(q) == \E e \in Edges :
    Exists(e) /\ Withdrawable(edges[e]) /\ Passes(q, Sends("withdraw_edge", e, None, FALSE))

-----------------------------------------------------------------------------
(* The patch                                                               *)

\* apply_patch_now reads the version.
ReadBase(q) ==
    /\ rq[q].pc = "checked"
    /\ rq' = [rq EXCEPT ![q].pc = "based", ![q].base = version]
    /\ UNCHANGED <<edges, version, said, raced>>

\* The edge is there, or is new.
Lands(op) == IF op.act \in Creates THEN edges[op.edge] = Unborn ELSE Exists(op.edge)

Current(q) == rq[q].base = version

Apply(q) ==
    /\ rq[q].pc = "based" /\ Current(q) /\ Lands(rq[q].op) /\ version < MaxCommits
    /\ LET op == rq[q].op
           e == op.edge IN
       /\ edges' = [edges EXCEPT ![e] = Written(op, @)]
       /\ said' = [said EXCEPT ![e] = CASE op.act = "verdict" -> op.verdict
                                        [] op.act = "accept"  -> "correct"
                                        [] OTHER              -> @]
       /\ raced' = IF rq[q].stale THEN raced \cup {<<Actor(q), e>>} ELSE raced
       /\ rq' = [p \in DOMAIN rq |->
                    IF p = q THEN Idle
                    ELSE [rq[p] EXCEPT !.stale = @ \/ (rq[p].pc # "idle" /\ rq[p].op.edge = e)]]
    /\ version' = version + 1

\* VersionConflict, or ValidationError because the edge is gone or the ports of
\* a new one do not fit: nothing is written.
Refuse(q) ==
    /\ rq[q].pc = "based"
    /\ ~Current(q) \/ ~Lands(rq[q].op) \/ rq[q].op.act \in Creates
    /\ rq' = [rq EXCEPT ![q] = Idle]
    /\ UNCHANGED <<edges, version, said, raced>>

\* Any other commit of the project.
Elsewhere ==
    /\ version < MaxCommits
    /\ version' = version + 1
    /\ UNCHANGED <<edges, rq, said, raced>>

-----------------------------------------------------------------------------
\* Edges may have been traced by an import or proposed by `simulanka propose`.
Init ==
    /\ edges \in [Edges -> {Unborn, Traced, Proposed}]
    /\ version = 0
    /\ rq = [q \in Humans \cup Agents |-> Idle]
    /\ said = [e \in Edges |-> None]
    /\ raced = {}

Next ==
    \/ \E q \in Humans :
          \/ CreateEdge(q) \/ DeleteEdge(q) \/ PostVerdict(q) \/ AcceptGhost(q)
          \/ SetDiscuss(q)
    \/ \E q \in Agents : SetVerdict(q) \/ ProposeEdge(q) \/ WithdrawEdge(q)
    \/ \E q \in Humans \cup Agents : ReadBase(q) \/ Apply(q) \/ Refuse(q)
    \/ Elsewhere

Spec == Init /\ [][Next]_vars

-----------------------------------------------------------------------------
\* The edges the human and an agent have to talk about (disagreements.py).
Disagreement(x) ==
    \/ Ghost(x) /\ x.verdict = "wrong" /\ x.by = "user"
    \/ x.source = "user" /\ x.verdict \in {"wrong", "uncertain"} /\ x.by = "agent"
    \/ x.verdict = "disputed"
    \/ x.discuss

-----------------------------------------------------------------------------
(* Properties                                                              *)

\* The state has its shape.  Only agents propose, a verdict has an author who
\* may give it, and only the human accepts.
TypeOK ==
    /\ edges \in [Edges -> Files]
    /\ \A e \in Edges : Exists(e) =>
          /\ edges[e].status # None => edges[e].source = "agent"
          /\ edges[e].status = "accepted" => edges[e].by = "user" \/ \E p \in raced : p[2] = e
          /\ edges[e].by = "user" => edges[e].verdict \in UserVerdicts
          /\ edges[e].by = "agent" => edges[e].verdict \in AGENT_VERDICTS
    /\ version \in 0..MaxCommits
    /\ rq \in [Humans \cup Agents -> Request]
    /\ said \in [Edges -> {None} \cup UserVerdicts]
    /\ raced \subseteq {"user", "agent"} \X Edges

\* What the human said last of an edge is what the edge says, and what the
\* human rejected or disputes waits in the queue, as long as no agent wrote the
\* edge on a check out of date (agent_ops.py _set_verdict, app.py post_verdict).
HumanLastWord ==
    \A e \in Edges :
        Exists(e) /\ said[e] # None /\ <<"agent", e>> \notin raced =>
            /\ edges[e].by = "user" /\ edges[e].verdict = said[e]
            /\ said[e] \in {"wrong", "disputed"} /\ edges[e].source = "agent"
               /\ edges[e].status = "proposed" => Disagreement(edges[e])

\* Whatever the handlers interleave with, each write is one that the matrix
\* grants its actor in the state it writes to, unless the edge was written
\* between the check and the patch; and only handlers write edges.
Matrix == INSTANCE WriteMatrix
Writes(q) == rq[q].pc = "based" /\ rq'[q].pc = "idle" /\ version' # version
ImplementsMatrix ==
    [][\E q \in Humans \cup Agents :
          Writes(q) /\ (rq[q].stale \/ Matrix!May(Actor(q), rq[q].op.edge))]_edges

\* An agent never overwrites a verdict of the human (docs/frontend.md).
\* Refuted by a human verdict that lands between the agent's check and patch.
AgentNeverOverrides ==
    [][\A e \in Edges : Exists(e) /\ edges[e].by = "user" /\ edges'[e] \notin {Unborn, Removed}
          => edges'[e].by = "user"]_vars
=============================================================================
