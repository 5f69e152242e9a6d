----------------------------- MODULE GateProofs -----------------------------
(***************************************************************************)
(* What holds of the write gate for any edges, users and agents.  The      *)
(* invariant says what is left of a handler's check when it comes to       *)
(* write: as long as the edge was not written in between, the check still  *)
(* holds; in any case the edge has the source it had, for no edge is born  *)
(* twice.                                                                  *)
(***************************************************************************)
EXTENDS Gate, TLAPS

\* The ops each actor can have in hand.
Mine(q, op) ==
    /\ IF q \in Agents
       THEN op.act \in {"set_verdict", "propose_edge", "withdraw_edge"}
       ELSE op.act \in {"create_edge", "delete_edge", "verdict", "accept", "discuss"}
    /\ op.act = "set_verdict" => op.verdict \in AGENT_VERDICTS
    /\ op.act = "verdict" => op.verdict \in UserVerdicts

\* What the check found, on the file x.
Checked(op, x) ==
    /\ op.act = "accept" => Ghost(x)
    /\ op.act = "set_verdict" => Revisable(x)
    /\ op.act = "withdraw_edge" => Withdrawable(x)

Holds(q) ==
    rq[q].pc # "idle" =>
        /\ rq[q].op \in Op
        /\ Mine(q, rq[q].op)
        /\ rq[q].op.act \notin Creates => edges[rq[q].op.edge] # Unborn
        /\ Exists(rq[q].op.edge) =>
              /\ rq[q].op.act = "accept" => edges[rq[q].op.edge].source = "agent"
              /\ ~rq[q].stale => Checked(rq[q].op, edges[rq[q].op.edge])

Types ==
    /\ edges \in [Edges -> Files]
    /\ version \in 0..MaxCommits
    /\ rq \in [Humans \cup Agents -> Request]
    /\ said \in [Edges -> {None} \cup UserVerdicts]
    /\ raced \subseteq {"user", "agent"} \X Edges

Raced(e) == \E p \in raced : p[2] = e

\* What is true of the file of an edge.
Sound(e) ==
    /\ edges[e] = Unborn => said[e] = None
    /\ Exists(e) =>
          /\ edges[e].status # None => edges[e].source = "agent"
          /\ edges[e].status = "accepted" => edges[e].by = "user" \/ Raced(e)
          /\ edges[e].by = "user" => edges[e].verdict \in UserVerdicts
          /\ edges[e].by = "agent" => edges[e].verdict \in AGENT_VERDICTS
          /\ said[e] # None /\ <<"agent", e>> \notin raced =>
                edges[e].by = "user" /\ edges[e].verdict = said[e]

IInv == Types /\ (\A q \in Humans \cup Agents : Holds(q)) /\ (\A e \in Edges : Sound(e))

\* What the proofs use of the constants.
LEMMA Distinct ==
    /\ Unborn \notin Attrs /\ Removed \notin Attrs /\ Unborn # Removed
    /\ Humans \cap Agents = {} /\ None \notin Op
    /\ None # "user" /\ None # "agent" /\ None # "proposed" /\ None # "accepted"
    BY GateAssumption
LEMMA Bound == MaxCommits \in Nat
    BY GateAssumption

-----------------------------------------------------------------------------
\* The fields of what the handlers write.
LEMMA NewEdges ==
    /\ Drawn \in Attrs /\ Proposed \in Attrs /\ Traced \in Attrs
    /\ Drawn.by = None /\ Proposed.by = None /\ Traced.by = "trace"
    /\ Drawn.status = None /\ Traced.status = None
    /\ Proposed.source = "agent" /\ Proposed.status = "proposed"
    BY DEF Drawn, Proposed, Traced, New, Attrs, AGENT_VERDICTS

LEMMA IdleIsRequest == Idle \in Request
    BY Bound DEF Request, Idle

LEMMA JudgedFields ==
    ASSUME NEW x \in Attrs, NEW v \in AGENT_VERDICTS \cup UserVerdicts, NEW a \in {"user", "agent"}
    PROVE  /\ Judged(x, v, a) \in Attrs
           /\ Judged(x, v, a).verdict = v /\ Judged(x, v, a).by = a
           /\ Judged(x, v, a).source = x.source /\ Judged(x, v, a).status = x.status
    BY DEF Attrs, Judged

LEMMA AcceptedFields ==
    ASSUME NEW x \in Attrs
    PROVE  /\ Accepted(x) \in Attrs
           /\ Accepted(x).verdict = "correct" /\ Accepted(x).by = "user"
           /\ Accepted(x).source = x.source /\ Accepted(x).status = "accepted"
<1>1. "correct" \in AGENT_VERDICTS \cup UserVerdicts
    BY DEF UserVerdicts
<1> DEFINE y == Judged(x, "correct", "user")
<1>2. /\ y \in Attrs /\ y.verdict = "correct" /\ y.by = "user" /\ y.source = x.source
    BY <1>1, JudgedFields
<1> HIDE DEF y
<1>3. [y EXCEPT !.status = "accepted"] \in Attrs
    BY <1>2 DEF Attrs
<1>4. Accepted(x) = [y EXCEPT !.status = "accepted"]
    BY DEF Accepted, y
<1> QED BY <1>2, <1>3, <1>4 DEF Attrs

\* What a handler sends and writes has the shape of a file.
LEMMA WrittenIsFile ==
    ASSUME NEW q \in Humans \cup Agents, NEW op \in Op, Mine(q, op),
           NEW x \in Files, op.act \notin Creates => x \in Attrs
    PROVE  /\ op.act \in Creates => Written(op, x) \in Attrs
           /\ op.act \in Deletes => Written(op, x) = Removed
           /\ op.act \notin Creates \cup Deletes =>
                 Written(op, x) \in Attrs /\ Written(op, x).source = x.source
<1>1. CASE op.act = "create_edge"
    BY <1>1, NewEdges DEF Written, Creates, Deletes
<1>2. CASE op.act = "propose_edge"
    BY <1>2, NewEdges DEF Written, Creates, Deletes
<1>3. CASE op.act \in Deletes
    BY <1>3 DEF Written, Creates, Deletes
<1>4. CASE op.act = "verdict"
    BY <1>4, JudgedFields DEF Written, Mine, Creates, Deletes
<1>5. CASE op.act = "set_verdict"
    BY <1>5, JudgedFields DEF Written, Mine, Creates, Deletes
<1>6. CASE op.act = "accept"
    BY <1>6, AcceptedFields DEF Written, Creates, Deletes
<1>7. CASE op.act = "discuss"
    BY <1>7 DEF Written, Creates, Deletes, Attrs, Op
<1> QED BY <1>1, <1>2, <1>3, <1>4, <1>5, <1>6, <1>7 DEF Mine, Creates, Deletes

\* A handler that passes its check holds what it checked.
LEMMA PassesKeeps ==
    ASSUME IInv, NEW q \in Humans \cup Agents, NEW op \in Op, Passes(q, op), Mine(q, op),
           op.act \notin Creates => edges[op.edge] # Unborn,
           Exists(op.edge) => Checked(op, edges[op.edge])
    PROVE  IInv'
<1>1. Types'
  <2>1. [pc |-> "checked", op |-> op, base |-> 0, stale |-> FALSE] \in Request
      BY Bound DEF Request
  <2> QED BY <2>1 DEF IInv, Types, Passes
<1>2. \A p \in Humans \cup Agents : Holds(p)'
  <2> TAKE p \in Humans \cup Agents
  <2>1. rq'[p] = IF p = q THEN [pc |-> "checked", op |-> op, base |-> 0, stale |-> FALSE]
               ELSE rq[p]
      BY DEF IInv, Types, Passes
  <2>2. CASE p = q
      BY <2>1, <2>2 DEF Passes, Holds, Idle, Mine, Checked, Ghost, Exists
  <2>3. CASE p # q
      BY <2>1, <2>3 DEF IInv, Passes, Holds, Mine, Checked, Exists
  <2> QED BY <2>2, <2>3
<1>3. \A e \in Edges : Sound(e)'
    BY DEF IInv, Passes, Sound, Raced, Exists
<1> QED BY <1>1, <1>2, <1>3 DEF IInv

THEOREM InitHolds == Init => IInv
<1> SUFFICES ASSUME Init PROVE IInv
    OBVIOUS
<1>2. Types
    BY IdleIsRequest, NewEdges, Bound DEF Init, Types, Files
<1>3. \A q \in Humans \cup Agents : Holds(q)
    BY DEF Init, Holds, Idle
<1>4. \A e \in Edges : Sound(e)
    BY NewEdges, Distinct DEF Init, Sound, Exists
<1> QED BY <1>2, <1>3, <1>4 DEF IInv

-----------------------------------------------------------------------------
\* The write of a patch, on one edge.
LEMMA ApplyKeeps ==
    ASSUME IInv, NEW q \in Humans \cup Agents, Apply(q),
           NEW op \in Op, op = rq[q].op, NEW e \in Edges, e = op.edge
    PROVE  IInv'
<1> DEFINE y == Written(op, edges[e])
<1>1. /\ Mine(q, op) /\ Holds(q)
      /\ op.act \in Creates => edges[e] = Unborn
      /\ op.act \notin Creates => edges[e] \in Attrs
    BY DEF IInv, Types, Holds, Apply, Op, Lands, Exists, Files
<1>2. /\ edges[e] \in Files
      /\ edges' = [edges EXCEPT ![e] = y] /\ edges'[e] = y
      /\ \A d \in Edges : d # e => edges'[d] = edges[d]
    BY <1>1 DEF IInv, Types, Apply
<1>3. /\ op.act \in Creates => y \in Attrs
      /\ op.act \in Deletes => y = Removed
      /\ op.act \notin Creates \cup Deletes => y \in Attrs /\ y.source = edges[e].source
    BY <1>1, <1>2, WrittenIsFile
<1>4. y \in Files /\ y # Unborn
    BY <1>1, <1>3, Distinct DEF Files, Creates, Deletes
<1> HIDE DEF y
<1>5. /\ said' = [said EXCEPT ![e] = CASE op.act = "verdict" -> op.verdict
                                       [] op.act = "accept"  -> "correct"
                                       [] OTHER              -> @]
      /\ raced' = IF rq[q].stale THEN raced \cup {<<Actor(q), e>>} ELSE raced
    BY DEF Apply
<1>6. said' \in [Edges -> {None} \cup UserVerdicts]
    BY <1>1, <1>5 DEF IInv, Types, Mine, UserVerdicts
<1>7. raced' \subseteq {"user", "agent"} \X Edges
    BY <1>1, <1>5 DEF IInv, Types, Actor
<1>8. \A p \in Humans \cup Agents : p # q =>
          rq'[p] = [rq[p] EXCEPT !.stale = @ \/ (rq[p].pc # "idle" /\ rq[p].op.edge = e)]
    BY DEF IInv, Types, Apply
<1>9. rq'[q] = Idle
    BY DEF IInv, Types, Apply
<1>10. Types'
  <2>1. rq' \in [Humans \cup Agents -> Request]
    <3>1. \A p \in Humans \cup Agents : rq'[p] \in Request
      <4> TAKE p \in Humans \cup Agents
      <4>1. CASE p = q
          BY <1>9, <4>1, IdleIsRequest
      <4>2. CASE p # q
        <5>1. rq[p] \in Request
            BY DEF IInv, Types
        <5> QED BY <1>8, <4>2, <5>1 DEF Request
      <4> QED BY <4>1, <4>2
    <3> QED BY <3>1 DEF IInv, Types, Apply
  <2>2. version' \in 0..MaxCommits
      BY Bound DEF IInv, Types, Apply
  <2>3. edges' \in [Edges -> Files]
      BY <1>1, <1>2, <1>4 DEF IInv, Types
  <2> QED BY <2>1, <2>2, <2>3, <1>6, <1>7 DEF Types
<1>11. \A p \in Humans \cup Agents : Holds(p)'
  <2> SUFFICES ASSUME NEW p \in Humans \cup Agents, rq'[p].pc # "idle" PROVE Holds(p)'
      BY DEF Holds
  <2>1. p # q
      BY <1>9 DEF Idle
  <2>2. /\ rq'[p].pc = rq[p].pc /\ rq'[p].op = rq[p].op /\ rq[p].op \in Op
        /\ rq'[p].stale <=> rq[p].stale \/ rq[p].op.edge = e
    <3>1. rq[p] \in Request /\ Holds(p)
        BY DEF IInv, Types
    <3>2. rq'[p] = [rq[p] EXCEPT !.stale = @ \/ (rq[p].pc # "idle" /\ rq[p].op.edge = e)]
        BY <1>8, <2>1
    <3>3. rq'[p].pc = rq[p].pc /\ rq'[p].op = rq[p].op
        BY <3>1, <3>2 DEF Request
    <3>4. rq'[p].stale <=> rq[p].stale \/ (rq[p].pc # "idle" /\ rq[p].op.edge = e)
        BY <3>1, <3>2 DEF Request
    <3> QED BY <3>1, <3>3, <3>4 DEF Holds
  <2>3. Holds(p) /\ rq[p].op.edge \in Edges
      BY <2>2 DEF IInv, Op
  <2>4. CASE rq[p].op.edge # e
      BY <1>2, <2>2, <2>3, <2>4 DEF Holds, Mine, Checked, Exists
  <2>5. CASE rq[p].op.edge = e
    <3>1. rq[p].op.act \notin Creates => edges[e] \in Attrs
        BY <1>1, <1>4, <2>2, <2>3, <2>5 DEF Holds, Creates
    <3>2. edges'[e] = y /\ y # Unborn /\ rq'[p].stale
        BY <1>2, <1>4, <2>2, <2>5
    <3>3. ASSUME rq[p].op.act = "accept", y # Removed PROVE y.source = "agent"
      <4>1. edges[e] \in Attrs /\ Exists(e) /\ edges[e].source = "agent"
          BY <3>1, <3>3, <2>2, <2>3, <2>5, Distinct DEF Holds, Exists, Creates
      <4>2. op.act \notin Creates \cup Deletes
          BY <1>1, <1>3, <3>3, <4>1 DEF Exists
      <4> QED BY <1>3, <4>1, <4>2
    <3> QED BY <2>2, <2>3, <2>5, <3>2, <3>3 DEF Holds, Mine, Exists
  <2> QED BY <2>4, <2>5
<1>12. \A d \in Edges : Sound(d)'
  <2> TAKE d \in Edges
  <2>1. raced \subseteq raced'
      BY <1>5
  <2>2. CASE d # e
    <3>1. said'[d] = said[d]
        BY <1>5, <2>2 DEF IInv, Types
    <3> QED BY <1>2, <2>1, <2>2, <3>1 DEF IInv, Sound, Raced, Exists
  <2>3. CASE d = e
    <3>1. Sound(e) /\ said[e] \in {None} \cup UserVerdicts
        BY <1>1 DEF IInv, Types
    <3>2. said'[e] = CASE op.act = "verdict" -> op.verdict
                       [] op.act = "accept"  -> "correct"
                       [] OTHER              -> said[e]
        BY <1>1, <1>5 DEF IInv, Types
    <3>3. rq[q].stale => Raced(e)' /\ <<Actor(q), e>> \in raced'
      <4>1. <<Actor(q), e>>[2] = e
          OBVIOUS
      <4> QED BY <1>5, <4>1 DEF Raced
    <3>4. Raced(e) => Raced(e)'
        BY <2>1 DEF Raced
    <3>5. CASE op.act \in Creates
      <4>1. y = Drawn \/ y = Proposed
        <5>1. CASE op.act = "create_edge"
            BY <5>1 DEF y, Written, Deletes
        <5>2. CASE op.act = "propose_edge"
            BY <5>2 DEF y, Written, Deletes
        <5> QED BY <3>5, <5>1, <5>2 DEF Creates
      <4>2. said'[e] = None
          BY <1>1, <3>1, <3>2, <3>5 DEF Sound, Creates
      <4> QED BY <1>2, <1>4, <2>3, <4>1, <4>2, NewEdges, Distinct DEF Sound, Exists
    <3>6. CASE op.act \in Deletes
        BY <1>2, <1>3, <1>4, <3>6, <2>3 DEF Sound, Exists
    <3>7. ASSUME op.act \notin Creates \cup Deletes
          PROVE  edges[e] \in Attrs /\ Exists(e)
        BY <1>1, <3>7, Distinct DEF Exists
    <3>8. CASE op.act = "verdict"
      <4>1. /\ y.status = edges[e].status /\ y.source = edges[e].source
            /\ y.by = "user" /\ y.verdict = op.verdict /\ op.verdict \in UserVerdicts
          BY <1>1, <3>7, <3>8, JudgedFields DEF y, Written, Mine, Creates, Deletes
      <4>2. said'[e] = op.verdict
          BY <3>2, <3>8
      <4>3. Exists(e)
          BY <3>7, <3>8 DEF Creates, Deletes
      <4> QED BY <1>2, <1>4, <2>3, <3>1, <4>1, <4>2, <4>3 DEF Sound, Exists
    <3>9. CASE op.act = "accept"
      <4>1. /\ y.status = "accepted" /\ y.source = edges[e].source
            /\ y.by = "user" /\ y.verdict = "correct"
          BY <3>7, <3>9, AcceptedFields DEF y, Written, Creates, Deletes
      <4>2. said'[e] = "correct"
          BY <3>2, <3>9
      <4>3. edges[e].source = "agent"
          BY <1>1, <3>7, <3>9 DEF Holds, Apply, Creates, Deletes
      <4> QED BY <1>2, <1>4, <2>3, <4>1, <4>2, <4>3 DEF Sound, Exists, UserVerdicts
    <3>10. CASE op.act = "discuss"
      <4>1. /\ y.status = edges[e].status /\ y.source = edges[e].source
            /\ y.by = edges[e].by /\ y.verdict = edges[e].verdict
          BY <3>7, <3>10 DEF y, Written, Creates, Deletes, Attrs
      <4>2. said'[e] = said[e]
          BY <3>2, <3>10
      <4>3. Exists(e)
          BY <3>7, <3>10 DEF Creates, Deletes
      <4> QED BY <1>2, <1>4, <2>1, <2>3, <3>1, <3>4, <4>1, <4>2, <4>3 DEF Sound, Exists
    <3>11. CASE op.act = "set_verdict"
      <4>1. Actor(q) = "agent" /\ op.verdict \in AGENT_VERDICTS
          BY <1>1, <3>11 DEF Mine, Actor
      <4>2. /\ y.status = edges[e].status /\ y.source = edges[e].source
            /\ y.by = "agent" /\ y.verdict = op.verdict
          BY <3>7, <3>11, <4>1, JudgedFields DEF y, Written, Creates, Deletes
      <4>3. said'[e] = said[e] /\ Exists(e)
          BY <3>2, <3>7, <3>11 DEF Creates, Deletes
      <4>4. ~rq[q].stale => edges[e].by # "user"
          BY <1>1, <3>11, <4>3 DEF Holds, Apply, Checked, Revisable
      <4> QED BY <1>2, <1>4, <2>1, <2>3, <3>1, <3>3, <3>4, <4>1, <4>2, <4>3, <4>4 DEF Sound, Exists
    <3> QED BY <1>1, <3>5, <3>6, <3>8, <3>9, <3>10, <3>11 DEF Mine, Creates, Deletes
  <2> QED BY <2>2, <2>3
<1> QED BY <1>10, <1>11, <1>12 DEF IInv

-----------------------------------------------------------------------------
\* One step per action of the gate.
THEOREM StepHolds == IInv /\ [Next]_vars => IInv'
<1> SUFFICES ASSUME IInv, [Next]_vars PROVE IInv'
    OBVIOUS
<1> USE DEF Sends, Op, Mine, Checked, Exists
<1>1. ASSUME NEW q \in Humans, CreateEdge(q) PROVE IInv'
  <2>1. PICK e \in Edges :
           Fresh(e) /\ Passes(q, Sends("create_edge", e, None, FALSE))
      BY <1>1 DEF CreateEdge
  <2> QED BY <2>1, PassesKeeps, Distinct DEF Fresh, Creates
<1>2. ASSUME NEW q \in Humans, DeleteEdge(q) PROVE IInv'
  <2>1. PICK e \in Edges :
           edges[e] # Unborn /\ Passes(q, Sends("delete_edge", e, None, FALSE))
      BY <1>2 DEF DeleteEdge
  <2> QED BY <2>1, PassesKeeps, Distinct DEF Creates, Deletes
<1>3. ASSUME NEW q \in Humans, PostVerdict(q) PROVE IInv'
  <2>1. PICK e \in Edges, v \in UserVerdicts :
           Exists(e) /\ Passes(q, Sends("verdict", e, v, FALSE))
      BY <1>3 DEF PostVerdict
  <2> QED BY <2>1, PassesKeeps, Distinct DEF Creates
<1>4. ASSUME NEW q \in Humans, AcceptGhost(q) PROVE IInv'
  <2>1. PICK e \in Edges :
           Exists(e) /\ Ghost(edges[e]) /\ Passes(q, Sends("accept", e, None, FALSE))
      BY <1>4 DEF AcceptGhost
  <2> QED BY <2>1, PassesKeeps, Distinct DEF Creates
<1>5. ASSUME NEW q \in Humans, SetDiscuss(q) PROVE IInv'
  <2>1. PICK e \in Edges, flag \in BOOLEAN :
           Exists(e) /\ Passes(q, Sends("discuss", e, None, flag))
      BY <1>5 DEF SetDiscuss
  <2> QED BY <2>1, PassesKeeps, Distinct DEF Creates
<1>6. ASSUME NEW q \in Agents, SetVerdict(q) PROVE IInv'
  <2>1. PICK e \in Edges, v \in AGENT_VERDICTS :
           Exists(e) /\ Revisable(edges[e]) /\ Passes(q, Sends("set_verdict", e, v, FALSE))
      BY <1>6 DEF SetVerdict
  <2> QED BY <2>1, PassesKeeps, Distinct DEF Creates
<1>7. ASSUME NEW q \in Agents, ProposeEdge(q) PROVE IInv'
  <2>1. PICK e \in Edges :
           Fresh(e) /\ Passes(q, Sends("propose_edge", e, None, FALSE))
      BY <1>7 DEF ProposeEdge
  <2> QED BY <2>1, PassesKeeps, Distinct DEF Fresh, Creates
<1>8. ASSUME NEW q \in Agents, WithdrawEdge(q) PROVE IInv'
  <2>1. PICK e \in Edges :
           Exists(e) /\ Withdrawable(edges[e]) /\ Passes(q, Sends("withdraw_edge", e, None, FALSE))
      BY <1>8 DEF WithdrawEdge
  <2> QED BY <2>1, PassesKeeps, Distinct DEF Creates, Deletes
<1>9. ASSUME NEW q \in Humans \cup Agents, ReadBase(q) PROVE IInv'
  <2>1. \A p \in Humans \cup Agents :
           /\ rq'[p] \in Request
           /\ rq'[p].op = rq[p].op /\ rq'[p].stale = rq[p].stale
           /\ rq'[p].pc # "idle" => rq[p].pc # "idle"
    <3> TAKE p \in Humans \cup Agents
    <3>1. rq[p] \in Request /\ version \in 0..MaxCommits
        BY DEF IInv, Types
    <3>2. CASE p = q
      <4>1. rq'[p] = [rq[p] EXCEPT !.pc = "based", !.base = version] /\ rq[p].pc = "checked"
          BY <1>9, <3>2 DEF ReadBase, IInv, Types
      <4> QED BY <3>1, <4>1 DEF Request
    <3>3. CASE p # q
        BY <1>9, <3>1, <3>3 DEF ReadBase, IInv, Types
    <3> QED BY <3>2, <3>3
  <2>2. Types'
      BY <1>9, <2>1 DEF ReadBase, IInv, Types
  <2>3. \A p \in Humans \cup Agents : Holds(p)'
      BY <1>9, <2>1 DEF ReadBase, IInv, Holds
  <2>4. \A e \in Edges : Sound(e)'
      BY <1>9 DEF ReadBase, IInv, Sound, Raced
  <2> QED BY <2>2, <2>3, <2>4 DEF IInv
<1>10. ASSUME NEW q \in Humans \cup Agents, Apply(q) PROVE IInv'
  <2>1. rq[q].op \in Op
      BY <1>10 DEF Apply, IInv, Holds
  <2>2. PICK op \in Op : op = rq[q].op
      BY <2>1
  <2>3. PICK e \in Edges : e = op.edge
      OBVIOUS
  <2> QED BY <1>10, <2>2, <2>3, ApplyKeeps
<1>11. ASSUME NEW q \in Humans \cup Agents, Refuse(q) PROVE IInv'
  <2>1. \A p \in Humans \cup Agents : rq'[p] = IF p = q THEN Idle ELSE rq[p]
      BY <1>11 DEF Refuse, IInv, Types
  <2>2. Types'
      BY <1>11, IdleIsRequest DEF Refuse, IInv, Types
  <2>3. \A p \in Humans \cup Agents : Holds(p)'
      BY <1>11, <2>1 DEF Refuse, IInv, Holds, Idle
  <2>4. \A e \in Edges : Sound(e)'
      BY <1>11 DEF Refuse, IInv, Sound, Raced
  <2> QED BY <2>2, <2>3, <2>4 DEF IInv
<1>12. CASE Elsewhere
    BY <1>12, Bound DEF Elsewhere, IInv, Types, Holds, Sound, Raced
<1>13. CASE UNCHANGED vars
    BY <1>13 DEF vars, IInv, Types, Holds, Sound, Raced
<1> QED BY <1>1, <1>2, <1>3, <1>4, <1>5, <1>6, <1>7, <1>8, <1>9, <1>10, <1>11, <1>12, <1>13 DEF Next

THEOREM AlwaysHolds == Spec => []IInv
BY InitHolds, StepHolds, PTL DEF Spec

-----------------------------------------------------------------------------
\* The files have their shape, and a verdict has an author who may give it,
\* whatever the user's requests and the agents' turns interleave with.
THEOREM TypeCorrect == Spec => []TypeOK
<1>1. IInv => TypeOK
    BY DEF IInv, Types, Sound, Raced, TypeOK
<1> QED BY <1>1, AlwaysHolds, PTL

\* What the human said last of an edge stands, unless an agent wrote the edge
\* on a check made before it changed (_set_verdict of agent_ops.py).
THEOREM HumanHasLastWord == Spec => []HumanLastWord
<1>1. IInv => HumanLastWord
    BY DEF IInv, Sound, HumanLastWord, Disagreement, Ghost
<1> QED BY <1>1, AlwaysHolds, PTL

-----------------------------------------------------------------------------
\* The gate implements the matrix: a handler whose edge was not written after
\* its check writes what its actor may write in the state it writes to.
LEMMA ApplyIsGranted ==
    ASSUME IInv, NEW q \in Humans \cup Agents, Apply(q), ~rq[q].stale,
           NEW op \in Op, op = rq[q].op, NEW e \in Edges, e = op.edge
    PROVE  Matrix!May(Actor(q), e)
<1>1. Mine(q, op) /\ (Exists(e) => Checked(op, edges[e]))
    BY DEF IInv, Holds, Apply
<1>2. edges' = [edges EXCEPT ![e] = Written(op, edges[e])]
    BY DEF Apply
<1>3. IF op.act \in Creates THEN edges[e] = Unborn ELSE Exists(e)
    BY DEF Apply, Lands
<1> USE DEF Matrix!May, Matrix!User, Matrix!Agent, Matrix!Becomes, Matrix!Alive, Matrix!Life
<1>4. CASE op.act = "create_edge"
    BY <1>1, <1>2, <1>3, <1>4 DEF Mine, Actor, Creates, Deletes, Written, Drawn, New
<1>5. CASE op.act = "propose_edge"
    BY <1>1, <1>2, <1>3, <1>5 DEF Mine, Actor, Creates, Deletes, Written, Proposed, New
<1>6. CASE op.act = "delete_edge"
    BY <1>1, <1>2, <1>3, <1>6 DEF Mine, Actor, Creates, Deletes, Written, Exists
<1>7. CASE op.act = "withdraw_edge"
    BY <1>1, <1>2, <1>3, <1>7
    DEF Mine, Checked, Withdrawable, Ghost, Matrix!Ghost, Actor, Creates, Deletes, Written, Exists
<1>8. CASE op.act = "verdict"
    BY <1>1, <1>2, <1>3, <1>8 DEF Mine, Actor, Creates, Deletes, Written, Judged, Exists, UserVerdicts
<1>9. CASE op.act = "set_verdict"
    BY <1>1, <1>2, <1>3, <1>9
    DEF Mine, Checked, Revisable, Actor, Creates, Deletes, Written, Judged, Exists, AGENT_VERDICTS
<1>10. CASE op.act = "accept"
    BY <1>1, <1>2, <1>3, <1>10
    DEF Mine, Checked, Ghost, Matrix!Ghost, Actor, Creates, Deletes, Written, Judged, Accepted, Exists
<1>11. CASE op.act = "discuss"
    BY <1>1, <1>2, <1>3, <1>11 DEF Mine, Actor, Creates, Deletes, Written, Exists, Op
<1> QED BY <1>1, <1>4, <1>5, <1>6, <1>7, <1>8, <1>9, <1>10, <1>11 DEF Mine

\* Any number of requests and turns, and any other commits, write an edge only
\* as the matrix grants, but for the writes whose edge changed after the check.
THEOREM Implementation == Spec => ImplementsMatrix
<1> DEFINE Granted == \E q \in Humans \cup Agents :
                          Writes(q) /\ (rq[q].stale \/ Matrix!May(Actor(q), rq[q].op.edge))
<1>1. IInv /\ [Next]_vars => [Granted]_edges
  <2> SUFFICES ASSUME IInv, [Next]_vars, edges' # edges PROVE Granted
      OBVIOUS
  <2>1. PICK q \in Humans \cup Agents : Apply(q)
      BY DEF Next, vars, CreateEdge, DeleteEdge, PostVerdict, AcceptGhost, SetDiscuss, SetVerdict,
             ProposeEdge, WithdrawEdge, Passes, ReadBase, Refuse, Elsewhere
  <2>2. Writes(q)
      BY <2>1 DEF Apply, Writes, IInv, Types, Idle
  <2>3. rq[q].op \in Op /\ rq[q].op.edge \in Edges
      BY <2>1 DEF Apply, IInv, Holds, Op
  <2>4. ~rq[q].stale => Matrix!May(Actor(q), rq[q].op.edge)
    <3>1. PICK op \in Op : op = rq[q].op
        BY <2>3
    <3>2. PICK e \in Edges : e = op.edge
        BY <2>3, <3>1
    <3> QED BY <2>1, <3>1, <3>2, ApplyIsGranted
  <2> QED BY <2>2, <2>4
<1> QED BY <1>1, AlwaysHolds, PTL DEF Spec, ImplementsMatrix
=============================================================================
