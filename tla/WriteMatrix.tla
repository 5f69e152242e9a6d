---------------------------- MODULE WriteMatrix ----------------------------
(***************************************************************************)
(* What the write gate promises: who may do what to a data-flow edge.  The *)
(* human draws, judges, accepts and removes; an agent proposes ghosts,     *)
(* revises verdicts that are not the human's, and takes back ghosts nobody *)
(* has accepted.  Nobody else writes, and nothing is written otherwise.    *)
(***************************************************************************)
CONSTANTS Edges, None, Unborn, Removed

VARIABLE edges

Life == {Unborn, Removed}
Alive(e) == edges[e] \notin Life
Becomes(e, x) == edges' = [edges EXCEPT ![e] = x]
Ghost(x) == x.source = "agent" /\ x.status = "proposed"

User(e) ==
    \/ /\ edges[e] = Unborn
       /\ Becomes(e, [source |-> "user", status |-> None, verdict |-> None, by |-> None,
                      discuss |-> FALSE])
    \/ /\ Alive(e)
       /\ \/ \E v \in {"correct", "wrong", "disputed"} :
                Becomes(e, [edges[e] EXCEPT !.verdict = v, !.by = "user"])
          \/ /\ Ghost(edges[e])
             /\ Becomes(e, [edges[e] EXCEPT !.status = "accepted", !.verdict = "correct",
                                            !.by = "user"])
          \/ \E flag \in BOOLEAN : Becomes(e, [edges[e] EXCEPT !.discuss = flag])
          \/ Becomes(e, Removed)

Agent(e) ==
    \/ /\ edges[e] = Unborn
       /\ Becomes(e, [source |-> "agent", status |-> "proposed", verdict |-> "unconfirmed",
                      by |-> None, discuss |-> FALSE])
    \/ /\ Alive(e)
       /\ \/ /\ edges[e].by # "user"
             /\ \E v \in {"correct", "wrong", "uncertain"} :
                   Becomes(e, [edges[e] EXCEPT !.verdict = v, !.by = "agent"])
          \/ Ghost(edges[e]) /\ Becomes(e, Removed)

May(actor, e) == IF actor = "agent" THEN Agent(e) ELSE User(e)
=============================================================================
