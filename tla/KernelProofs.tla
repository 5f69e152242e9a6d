---------------------------- MODULE KernelProofs ----------------------------
(***************************************************************************)
(* Proofs about module Kernel, for every set of ids, types and names.       *)
(***************************************************************************)
EXTENDS Kernel, TLAPS

(* Saving one record in a file map.                                         *)
LEMMA SavedMap ==
    ASSUME NEW f, NEW i, NEW rec
    PROVE  /\ DOMAIN Saved(f, i, rec) = DOMAIN f \cup {i}
           /\ Saved(f, i, rec)[i] = rec
           /\ \A j \in DOMAIN f : j # i => Saved(f, i, rec)[j] = f[j]
  BY DEF Saved, Overlay

LEMMA SavedIsMap ==
    ASSUME NEW f, NEW ids, NEW recs, NEW i \in ids, NEW rec \in recs, IsMap(f, ids, recs)
    PROVE  IsMap(Saved(f, i, rec), ids, recs)
  BY DEF Saved, Overlay, IsMap

LEMMA OverlayIsMap ==
    ASSUME NEW f, NEW g, NEW ids, NEW recs, NEW dead,
           IsMap(f, ids, recs), IsMap(g, ids, recs)
    PROVE  IsMap(Overlay(f, g, dead), ids, recs)
  BY DEF Overlay, IsMap

LEMMA EmptyIsMap ==
    ASSUME NEW ids, NEW recs
    PROVE  IsMap(<<>>, ids, recs) /\ DOMAIN <<>> = {}
  BY DEF IsMap

-----------------------------------------------------------------------------
(* Types                                                                   *)

LEMMA InitTypeOK == Init => TypeOK
  BY KernelAssumption, EmptyIsMap DEF Init, TypeOK, EmptyPatch, Created

\* The parts of TypeOK about the staged patch, for the patch that a stage
\* action builds by saving files and logging ops.
PatchOK(p) ==
    /\ IsMap(p.nodes, NodeIds, Node) /\ IsMap(p.ports, PortIds, Port)
    /\ IsMap(p.edges, EdgeIds, Edge)
    /\ p.delNodes \subseteq DOMAIN nodes /\ p.delPorts \subseteq DOMAIN ports
    /\ p.delEdges \subseteq DOMAIN edges
    /\ (DOMAIN p.nodes \ DOMAIN nodes) \cup DOMAIN p.ports \subseteq (NodeIds \cup PortIds) \ minted
    /\ p.ops \subseteq Op /\ p.size \in 0..MaxOps

LEMMA StagedTypeOK ==
    ASSUME TypeOK, UNCHANGED <<nodes, ports, edges, minted>>, PatchOK(pend')
    PROVE  TypeOK'
  BY DEF TypeOK, PatchOK, Created

LEMMA NodeNowType ==
    ASSUME TypeOK, NEW n \in DOMAIN nodes \cup Created
    PROVE  NodeNow(n) \in Node /\ n \in NodeIds
  BY DEF TypeOK, NodeNow, Latest, Created, IsMap

LEMMA EdgeNowType ==
    ASSUME TypeOK, NEW e \in DOMAIN edges
    PROVE  EdgeNow(e) \in Edge /\ e \in EdgeIds
  BY DEF TypeOK, EdgeNow, Latest, IsMap

LEMMA CreateNodeTypeOK ==
    ASSUME TypeOK, NEW t \in NodeTypes, NEW nm \in Names,
           NEW p \in DOMAIN nodes \cup Created \cup {NoNode}, CreateNode(t, nm, p)
    PROVE  TypeOK'
<1> DEFINE rec == [type |-> t, name |-> nm, parent |-> p, attrs |-> {}]
<1>1. PICK n \in Fresh(NodeIds) :
        IF p = NoNode
        THEN StageSave(Saved(pend.nodes, n, rec), pend.ports, pend.edges,
                       {CanonicalOp("create_node", n, {}, {}, {})})
        ELSE StageChild(n, rec)
  BY DEF CreateNode
<1>2. rec \in Node /\ n \in NodeIds /\ n \notin minted
  BY NodeNowType DEF Node, Fresh, TypeOK
<1>3. IsMap(Saved(pend.nodes, n, rec), NodeIds, Node)
  BY <1>2, SavedIsMap DEF TypeOK
<1>4. DOMAIN Saved(pend.nodes, n, rec) = DOMAIN pend.nodes \cup {n}
  BY SavedMap
<1>5. pend.size + 1 \in 0..MaxOps
  BY KernelAssumption DEF CreateNode, MayStage, TypeOK
<1>6. PatchOK(pend')
  <2>1. CASE p = NoNode
    <3>1. CanonicalOp("create_node", n, {}, {}, {}) \in Op
      BY <1>2 DEF CanonicalOp, Op, OpKinds
    <3> QED BY <1>1, <1>2, <1>3, <1>4, <1>5, <2>1, <3>1
            DEF PatchOK, TypeOK, StageSave, Created, CreateNode
  <2>2. CASE p # NoNode
    <3>1. PICK e \in Fresh(EdgeIds) :
            StageSave(Saved(pend.nodes, n, rec), pend.ports,
                     Saved(pend.edges, e, ContainsEdge(p, n)),
                     {CanonicalOp("create_node", n, {p}, {}, {}),
                      CanonicalOp("create_edge", e, {p, n}, {}, {})})
      BY <1>1, <2>2 DEF StageChild
    <3>2. p \in NodeIds /\ e \in EdgeIds
      BY <2>2, NodeNowType DEF Fresh
    <3>3. ContainsEdge(p, n) \in Edge
      BY <1>2, <3>2, KernelAssumption DEF ContainsEdge, Edge
    <3>4. IsMap(Saved(pend.edges, e, ContainsEdge(p, n)), EdgeIds, Edge)
      BY <3>2, <3>3, SavedIsMap DEF TypeOK
    <3>5. /\ CanonicalOp("create_node", n, {p}, {}, {}) \in Op
          /\ CanonicalOp("create_edge", e, {p, n}, {}, {}) \in Op
      BY <1>2, <3>2 DEF CanonicalOp, Op, OpKinds
    <3> QED BY <1>2, <1>3, <1>4, <1>5, <3>1, <3>4, <3>5
            DEF PatchOK, TypeOK, StageSave, Created, CreateNode
  <2> QED BY <2>1, <2>2
<1> QED BY <1>6, StagedTypeOK DEF CreateNode

LEMMA SizeOK ==
    ASSUME TypeOK, pend.size < MaxOps
    PROVE  pend.size + 1 \in 0..MaxOps
  BY KernelAssumption DEF TypeOK

LEMMA CreatePortTypeOK ==
    ASSUME TypeOK, NEW n \in DOMAIN nodes, NEW nm \in PortNames, NEW d \in {"in", "out"},
           CreatePort(n, nm, d)
    PROVE  TypeOK'
<1> DEFINE rec == [node |-> n, name |-> nm, dir |-> d]
<1>1. PICK p \in Fresh(PortIds) :
        StageSave(pend.nodes, Saved(pend.ports, p, rec), pend.edges,
                  {CanonicalOp("create_port", p, {n}, {}, {})})
  BY DEF CreatePort
<1>2. rec \in Port /\ p \in PortIds /\ p \notin minted /\ n \in NodeIds
  BY DEF Port, Fresh, TypeOK, IsMap
<1>3. IsMap(Saved(pend.ports, p, rec), PortIds, Port)
  BY <1>2, SavedIsMap DEF TypeOK
<1>4. DOMAIN Saved(pend.ports, p, rec) = DOMAIN pend.ports \cup {p}
  BY SavedMap
<1>5. CanonicalOp("create_port", p, {n}, {}, {}) \in Op
  BY <1>2 DEF CanonicalOp, Op, OpKinds
<1>6. PatchOK(pend')
  BY <1>1, <1>2, <1>3, <1>4, <1>5, SizeOK
  DEF PatchOK, TypeOK, StageSave, Created, CreatePort, MayStage
<1> QED BY <1>6, StagedTypeOK DEF CreatePort

LEMMA CreateEdgeTypeOK ==
    ASSUME TypeOK, NEW t \in EdgeTypes,
           NEW s \in DOMAIN nodes \cup Created, NEW d \in DOMAIN nodes \cup Created,
           NEW sp \in DOMAIN ports \cup {NoPort}, NEW dp \in DOMAIN ports \cup {NoPort},
           CreateEdge(t, s, d, sp, dp)
    PROVE  TypeOK'
<1> DEFINE rec == [type |-> t, src |-> s, tgt |-> d, sport |-> sp, tport |-> dp, attrs |-> {}]
<1>1. PICK e \in Fresh(EdgeIds) :
        StageSave(pend.nodes, pend.ports, Saved(pend.edges, e, rec),
                  {CanonicalOp("create_edge", e, {s, d}, {}, {})})
  BY DEF CreateEdge
<1>2. s \in NodeIds /\ d \in NodeIds /\ e \in EdgeIds
  BY NodeNowType DEF Fresh
<1>3. rec \in Edge
  BY <1>2, KernelAssumption DEF Edge, TypeOK, IsMap
<1>4. IsMap(Saved(pend.edges, e, rec), EdgeIds, Edge)
  BY <1>2, <1>3, SavedIsMap DEF TypeOK
<1>5. CanonicalOp("create_edge", e, {s, d}, {}, {}) \in Op
  BY <1>2 DEF CanonicalOp, Op, OpKinds
<1>6. PatchOK(pend')
  BY <1>1, <1>4, <1>5, SizeOK DEF PatchOK, TypeOK, StageSave, Created, CreateEdge, MayStage
<1> QED BY <1>6, StagedTypeOK DEF CreateEdge

\* update_attrs on a node and rename_node both save a new version of it.
LEMMA SaveNodeTypeOK ==
    ASSUME TypeOK, NEW n \in DOMAIN nodes, NEW rec \in Node, NEW op \in Op,
           pend.size < MaxOps, UNCHANGED <<nodes, ports, edges, minted>>,
           StageSave(Saved(pend.nodes, n, rec), pend.ports, pend.edges, {op})
    PROVE  TypeOK'
<1>1. n \in NodeIds
  BY DEF TypeOK, IsMap
<1>2. IsMap(Saved(pend.nodes, n, rec), NodeIds, Node)
  BY <1>1, SavedIsMap DEF TypeOK
<1>3. DOMAIN Saved(pend.nodes, n, rec) = DOMAIN pend.nodes \cup {n}
  BY SavedMap
<1>4. PatchOK(pend')
  BY <1>2, <1>3, SizeOK DEF PatchOK, TypeOK, StageSave, Created
<1> QED BY <1>4, StagedTypeOK

LEMMA UpdateNodeTypeOK ==
    ASSUME TypeOK, NEW n \in DOMAIN nodes, NEW k \in AttrKeys, UpdateNode(n, {k})
    PROVE  TypeOK'
<1>1. NodeNow(n) \in Node /\ n \in NodeIds
  BY NodeNowType
<1>2. [NodeNow(n) EXCEPT !.attrs = @ \cup {k}] \in Node
  BY <1>1 DEF Node
<1>3. CanonicalOp("update_node", n, {}, {k}, {}) \in Op
  BY <1>1 DEF CanonicalOp, Op, OpKinds
<1> QED BY <1>2, <1>3, SaveNodeTypeOK DEF UpdateNode, MayStage

LEMMA RenameNodeTypeOK ==
    ASSUME TypeOK, NEW n \in DOMAIN nodes, NEW nm \in Names, RenameNode(n, nm)
    PROVE  TypeOK'
<1>1. NodeNow(n) \in Node /\ n \in NodeIds
  BY NodeNowType
<1>2. [NodeNow(n) EXCEPT !.name = nm] \in Node
  BY <1>1 DEF Node
<1>3. CanonicalOp("rename_node", n, {}, {nm}, {}) \in Op
  BY <1>1 DEF CanonicalOp, Op, OpKinds
<1> QED BY <1>2, <1>3, SaveNodeTypeOK DEF RenameNode, MayStage

LEMMA UpdateEdgeTypeOK ==
    ASSUME TypeOK, NEW e \in DOMAIN edges, NEW k \in AttrKeys, UpdateEdge(e, {k})
    PROVE  TypeOK'
<1> DEFINE rec == [EdgeNow(e) EXCEPT !.attrs = @ \cup {k}]
           op == CanonicalOp("update_edge", e, {EdgeNow(e).src, EdgeNow(e).tgt}, {k}, {})
<1>1. EdgeNow(e) \in Edge /\ e \in EdgeIds
  BY EdgeNowType
<1>2. rec \in Edge
  BY <1>1 DEF Edge
<1>3. EdgeNow(e).src \in NodeIds /\ EdgeNow(e).tgt \in NodeIds
  BY <1>1 DEF Edge
<1>4. op \in Op
  BY <1>1, <1>3 DEF CanonicalOp, Op, OpKinds
<1>5. IsMap(Saved(pend.edges, e, rec), EdgeIds, Edge)
  BY <1>1, <1>2, SavedIsMap DEF TypeOK
<1>6. StageSave(pend.nodes, pend.ports, Saved(pend.edges, e, rec), {op})
  BY DEF UpdateEdge
<1>7. PatchOK(pend')
  BY <1>4, <1>5, <1>6, SizeOK DEF PatchOK, TypeOK, StageSave, Created, UpdateEdge, MayStage
<1> QED BY <1>7, StagedTypeOK DEF UpdateEdge

\* A remove stages ids on disk and logs ops that name node, port and edge ids.
LEMMA RemoveTypeOK ==
    ASSUME TypeOK, pend.size < MaxOps, UNCHANGED <<nodes, ports, edges, minted>>,
           NEW N \in SUBSET DOMAIN nodes, NEW P \in SUBSET DOMAIN ports,
           NEW E \in SUBSET DOMAIN edges, NEW ops \in SUBSET Op, StageRemove(N, P, E, ops)
    PROVE  TypeOK'
<1>1. PatchOK(pend')
  BY SizeOK DEF PatchOK, TypeOK, StageRemove, Created
<1> QED BY <1>1, StagedTypeOK

LEMMA DeleteEdgeTypeOK ==
    ASSUME TypeOK, NEW e \in DOMAIN edges, DeleteEdge(e)
    PROVE  TypeOK'
<1> DEFINE op == CanonicalOp("delete_edge", e, {edges[e].src, edges[e].tgt}, {}, {})
<1>1. edges[e] \in Edge /\ e \in EdgeIds
  BY DEF TypeOK, IsMap
<1>2. op \in Op
  BY <1>1 DEF Edge, CanonicalOp, Op, OpKinds
<1>3. StageRemove({}, {}, {}, {}) \/ StageRemove({}, {}, {e}, {op})
  BY DEF DeleteEdge
<1>4. pend.size < MaxOps /\ UNCHANGED <<nodes, ports, edges, minted>>
  BY DEF DeleteEdge, MayDelete
<1> HIDE DEF op
<1> QED BY <1>2, <1>3, <1>4, RemoveTypeOK

LEMMA DeleteNodeTypeOK ==
    ASSUME TypeOK, NEW n \in DOMAIN nodes, DeleteNode(n)
    PROVE  TypeOK'
<1> DEFINE op == CanonicalOp("delete_node", n, Parents(nodes[n].parent), {}, Cascade(n))
<1>1. nodes[n] \in Node /\ n \in NodeIds
  BY DEF TypeOK, IsMap
<1>2. Parents(nodes[n].parent) \subseteq NodeIds
  BY <1>1 DEF Parents, Node
<1>3. PortsOf(n) \subseteq DOMAIN ports /\ IncidentEdges(n) \subseteq DOMAIN edges
  BY DEF PortsOf, IncidentEdges
<1>4. Cascade(n) \subseteq PortIds \cup EdgeIds
  BY <1>3 DEF Cascade, TypeOK, IsMap
<1>5. op \in Op
  BY <1>1, <1>2, <1>4 DEF CanonicalOp, Op, OpKinds
<1>6. \/ StageRemove({}, {}, {}, {})
      \/ StageRemove({n}, PortsOf(n), IncidentEdges(n), {op})
  BY DEF DeleteNode
<1>7. pend.size < MaxOps /\ UNCHANGED <<nodes, ports, edges, minted>>
  BY DEF DeleteNode, MayDelete
<1> HIDE DEF op
<1> QED BY <1>3, <1>5, <1>6, <1>7, RemoveTypeOK

LEMMA EmptyPatchOK ==
    /\ IsMap(EmptyPatch.nodes, NodeIds, Node) /\ IsMap(EmptyPatch.ports, PortIds, Port)
    /\ IsMap(EmptyPatch.edges, EdgeIds, Edge)
    /\ DOMAIN EmptyPatch.nodes = {} /\ DOMAIN EmptyPatch.ports = {}
    /\ DOMAIN EmptyPatch.edges = {}
    /\ EmptyPatch.delNodes = {} /\ EmptyPatch.delPorts = {} /\ EmptyPatch.delEdges = {}
    /\ EmptyPatch.ops = {} /\ EmptyPatch.size \in 0..MaxOps
  BY EmptyIsMap, KernelAssumption DEF EmptyPatch

LEMMA CommitTypeOK ==
    ASSUME TypeOK, Commit
    PROVE  TypeOK'
<1>1. /\ IsMap(nodes', NodeIds, Node) /\ IsMap(ports', PortIds, Port)
      /\ IsMap(edges', EdgeIds, Edge)
  BY OverlayIsMap DEF Commit, TypeOK, StagedNodes, StagedPorts, StagedEdges
<1>2. /\ DOMAIN nodes' \subseteq DOMAIN nodes \cup DOMAIN pend.nodes
      /\ DOMAIN ports' \subseteq DOMAIN ports \cup DOMAIN pend.ports
      /\ DOMAIN edges' \subseteq DOMAIN edges \cup DOMAIN pend.edges
  BY DEF Commit, StagedNodes, StagedPorts, StagedEdges, Overlay
<1>3. /\ minted' \subseteq NodeIds \cup PortIds \cup EdgeIds
      /\ DOMAIN nodes' \cup DOMAIN ports' \cup DOMAIN edges' \subseteq minted'
  BY <1>2 DEF Commit, TypeOK, IsMap
<1>4. pend' = EmptyPatch
  BY DEF Commit
<1> QED BY <1>1, <1>3, <1>4, EmptyPatchOK DEF TypeOK, Created

LEMMA RejectTypeOK ==
    ASSUME TypeOK, Reject
    PROVE  TypeOK'
<1>1. pend' = EmptyPatch /\ UNCHANGED <<nodes, ports, edges, minted>>
  BY DEF Reject
<1> QED BY <1>1, EmptyPatchOK DEF TypeOK, Created

LEMMA NextTypeOK ==
    ASSUME TypeOK, [Next]_vars
    PROVE  TypeOK'
<1>1. CASE Stage
  <2>1. ASSUME NEW t \in NodeTypes, NEW nm \in Names,
               NEW p \in DOMAIN nodes \cup Created \cup {NoNode}, CreateNode(t, nm, p)
        PROVE  TypeOK'
    BY <2>1, CreateNodeTypeOK
  <2>2. ASSUME NEW n \in DOMAIN nodes, NEW nm \in PortNames, NEW d \in {"in", "out"},
               CreatePort(n, nm, d)
        PROVE  TypeOK'
    BY <2>2, CreatePortTypeOK
  <2>3. ASSUME NEW t \in EdgeTypes, NEW s \in DOMAIN nodes \cup Created,
               NEW d \in DOMAIN nodes \cup Created, CreateEdge(t, s, d, NoPort, NoPort)
        PROVE  TypeOK'
    BY <2>3, CreateEdgeTypeOK
  <2>4. ASSUME NEW t \in EdgeTypes, NEW sp \in DOMAIN ports, NEW dp \in DOMAIN ports,
               CreateEdge(t, ports[sp].node, ports[dp].node, sp, dp)
        PROVE  TypeOK'
    <3>1. /\ ports[sp].node \in DOMAIN nodes \cup Created
          /\ ports[dp].node \in DOMAIN nodes \cup Created
      BY <2>4 DEF CreateEdge, EdgeOk
    <3> QED BY <2>4, <3>1, CreateEdgeTypeOK
  <2>5. ASSUME NEW n \in DOMAIN nodes, NEW k \in AttrKeys, UpdateNode(n, {k})
        PROVE  TypeOK'
    BY <2>5, UpdateNodeTypeOK
  <2>6. ASSUME NEW e \in DOMAIN edges, NEW k \in AttrKeys, UpdateEdge(e, {k})
        PROVE  TypeOK'
    BY <2>6, UpdateEdgeTypeOK
  <2>7. ASSUME NEW n \in DOMAIN nodes, NEW nm \in Names, RenameNode(n, nm)
        PROVE  TypeOK'
    BY <2>7, RenameNodeTypeOK
  <2>8. ASSUME NEW e \in DOMAIN edges, DeleteEdge(e)
        PROVE  TypeOK'
    BY <2>8, DeleteEdgeTypeOK
  <2>9. ASSUME NEW n \in DOMAIN nodes, DeleteNode(n)
        PROVE  TypeOK'
    BY <2>9, DeleteNodeTypeOK
  <2> QED BY <1>1, <2>1, <2>2, <2>3, <2>4, <2>5, <2>6, <2>7, <2>8, <2>9 DEF Stage
<1>2. CASE Commit
  BY <1>2, CommitTypeOK
<1>3. CASE Reject
  BY <1>3, RejectTypeOK
<1>4. CASE UNCHANGED vars
  BY <1>4 DEF vars, TypeOK, Created
<1> QED BY <1>1, <1>2, <1>3, <1>4 DEF Next

\* Every file holds a well-formed record, an id is never minted twice, and a
\* staged patch only removes what is on disk (kernel/apply.py apply_patch).
THEOREM TypeCorrect == Spec => []TypeOK
<1>1. Init => TypeOK
  BY InitTypeOK
<1>2. TypeOK /\ [Next]_vars => TypeOK'
  BY NextTypeOK
<1> QED BY <1>1, <1>2, PTL DEF Spec
-----------------------------------------------------------------------------
(* What a patch does and what its event says of it                         *)

\* Every file the patch saves or removes is named by one of its ops.
Named ==
    /\ \A n \in DOMAIN pend.nodes : \E op \in pend.ops :
          op.id = n /\ op.kind \in {"create_node", "update_node", "rename_node"}
    /\ \A p \in DOMAIN pend.ports : \E op \in pend.ops :
          op.kind = "create_port" /\ op.id = p /\ pend.ports[p].node \in op.refs
    /\ \A e \in DOMAIN pend.edges : \E op \in pend.ops : op.id = e
    /\ \A n \in pend.delNodes : \E op \in pend.ops :
          op.kind = "delete_node" /\ op.id = n /\ Parents(nodes[n].parent) \subseteq op.refs
    /\ \A p \in pend.delPorts : \E op \in pend.ops : p \in op.cascade
    /\ \A e \in pend.delEdges : \E op \in pend.ops : op.id = e \/ e \in op.cascade
    /\ \A n \in Created : pend.nodes[n].parent # NoNode =>
          \E op \in pend.ops : op.kind = "create_edge" /\ pend.nodes[n].parent \in op.refs

\* Every update and rename is in the version that will be saved.
Effective ==
    \A op \in pend.ops :
       /\ op.kind = "update_node" =>
             op.id \in DOMAIN pend.nodes /\ op.data \subseteq pend.nodes[op.id].attrs
       /\ op.kind = "update_edge" =>
             op.id \in DOMAIN pend.edges /\ op.data \subseteq pend.edges[op.id].attrs
       /\ op.kind = "rename_node" =>
             /\ op.id \in DOMAIN pend.nodes
             /\ \E o \in pend.ops : o.kind = "rename_node" /\ o.id = op.id
                                    /\ pend.nodes[op.id].name \in o.data

\* A node the patch renames differs from all its siblings on disk.
Apart ==
    \A n, m \in DOMAIN nodes :
        /\ n # m /\ NodeNow(n).parent = NodeNow(m).parent
        /\ NodeNow(n).name # nodes[n].name
        => NodeNow(n).name # NodeNow(m).name

Accounted == Named /\ Effective /\ Apart

LEMMA EmptyAccounted ==
    ASSUME pend = EmptyPatch
    PROVE  Accounted
<1>1. /\ DOMAIN pend.nodes = {} /\ DOMAIN pend.ports = {} /\ DOMAIN pend.edges = {}
      /\ pend.delNodes = {} /\ pend.delPorts = {} /\ pend.delEdges = {} /\ pend.ops = {}
  BY EmptyPatchOK
<1>2. \A n \in DOMAIN nodes : NodeNow(n) = nodes[n]
  BY <1>1 DEF NodeNow, Latest
<1> QED BY <1>1, <1>2 DEF Accounted, Named, Effective, Apart, Created

LEMMA EmptyAccountedPrime ==
    ASSUME pend' = EmptyPatch
    PROVE  Accounted'
<1>1. /\ DOMAIN pend'.nodes = {} /\ DOMAIN pend'.ports = {} /\ DOMAIN pend'.edges = {}
      /\ pend'.delNodes = {} /\ pend'.delPorts = {} /\ pend'.delEdges = {} /\ pend'.ops = {}
  BY EmptyPatchOK
<1>2. \A n \in DOMAIN nodes' : NodeNow(n)' = nodes'[n]
  BY <1>1 DEF NodeNow, Latest
<1> QED BY <1>1, <1>2 DEF Accounted, Named, Effective, Apart, Created

\* An op that saves new files only: what was staged stays as it was.
LEMMA NewFilesAccounted ==
    ASSUME Accounted, UNCHANGED <<nodes, ports, edges, minted>>,
           NEW N, NEW P, NEW E, NEW ops, StageSave(N, P, E, ops),
           DOMAIN pend.nodes \subseteq DOMAIN N, DOMAIN pend.ports \subseteq DOMAIN P,
           DOMAIN pend.edges \subseteq DOMAIN E,
           \A n \in DOMAIN pend.nodes : N[n] = pend.nodes[n],
           \A p \in DOMAIN pend.ports : P[p] = pend.ports[p],
           \A e \in DOMAIN pend.edges : E[e] = pend.edges[e],
           \A n \in DOMAIN N \ DOMAIN pend.nodes :
              /\ n \notin DOMAIN nodes
              /\ \E op \in ops : op.id = n /\ op.kind = "create_node"
              /\ N[n].parent # NoNode =>
                    \E op \in ops : op.kind = "create_edge" /\ N[n].parent \in op.refs,
           \A p \in DOMAIN P \ DOMAIN pend.ports : \E op \in ops :
              op.kind = "create_port" /\ op.id = p /\ P[p].node \in op.refs,
           \A e \in DOMAIN E \ DOMAIN pend.edges : \E op \in ops : op.id = e,
           \A op \in ops : op.kind \in {"create_node", "create_port", "create_edge"}
    PROVE  Accounted'
<1>1. /\ pend'.nodes = N /\ pend'.ports = P /\ pend'.edges = E
      /\ pend'.delNodes = pend.delNodes /\ pend'.delPorts = pend.delPorts
      /\ pend'.delEdges = pend.delEdges /\ pend'.ops = pend.ops \cup ops
  BY DEF StageSave
<1>2. Named'
  BY <1>1 DEF Accounted, Named, Created
<1>3. Effective'
  BY <1>1 DEF Accounted, Effective
<1>4. \A n \in DOMAIN nodes : NodeNow(n)' = NodeNow(n)
  BY <1>1 DEF NodeNow, Latest
<1>5. Apart'
  BY <1>4 DEF Accounted, Apart
<1> QED BY <1>2, <1>3, <1>5 DEF Accounted

LEMMA CreateNodeAccounted ==
    ASSUME TypeOK, Accounted, NEW t \in NodeTypes, NEW nm \in Names,
           NEW p \in DOMAIN nodes \cup Created \cup {NoNode}, CreateNode(t, nm, p)
    PROVE  Accounted'
<1> DEFINE rec == [type |-> t, name |-> nm, parent |-> p, attrs |-> {}]
<1>1. PICK n \in Fresh(NodeIds) :
        IF p = NoNode
        THEN StageSave(Saved(pend.nodes, n, rec), pend.ports, pend.edges,
                       {CanonicalOp("create_node", n, {}, {}, {})})
        ELSE StageChild(n, rec)
  BY DEF CreateNode
<1> DEFINE N == Saved(pend.nodes, n, rec)
<1>2. n \notin DOMAIN nodes /\ n \notin DOMAIN pend.nodes
  BY DEF Fresh, TypeOK
<1>3. /\ DOMAIN N = DOMAIN pend.nodes \cup {n} /\ N[n].parent = p
      /\ \A m \in DOMAIN pend.nodes : N[m] = pend.nodes[m]
  BY <1>2 DEF Saved, Overlay
<1>4. UNCHANGED <<nodes, ports, edges, minted>>
  BY DEF CreateNode
<1> HIDE DEF N
<1>5. CASE p = NoNode
  <2> DEFINE ops == {CanonicalOp("create_node", n, {}, {}, {})}
  <2>1. StageSave(N, pend.ports, pend.edges, ops)
    BY <1>1, <1>5 DEF N
  <2>2. \A op \in ops : op.id = n /\ op.kind = "create_node"
    BY DEF CanonicalOp
  <2>3. ops # {}
    OBVIOUS
  <2> HIDE DEF ops
  <2> QED BY <1>2, <1>3, <1>4, <1>5, <2>1, <2>2, <2>3, NewFilesAccounted
<1>6. CASE p # NoNode
  <2>1. PICK e \in Fresh(EdgeIds) :
          StageSave(N, pend.ports, Saved(pend.edges, e, ContainsEdge(p, n)),
                    {CanonicalOp("create_node", n, {p}, {}, {}),
                     CanonicalOp("create_edge", e, {p, n}, {}, {})})
    BY <1>1, <1>6 DEF StageChild, N
  <2> DEFINE E == Saved(pend.edges, e, ContainsEdge(p, n))
             cn == CanonicalOp("create_node", n, {p}, {}, {})
             ce == CanonicalOp("create_edge", e, {p, n}, {}, {})
  <2>2. e \notin DOMAIN pend.edges
    BY DEF Fresh
  <2>3. /\ DOMAIN E = DOMAIN pend.edges \cup {e}
        /\ \A g \in DOMAIN pend.edges : E[g] = pend.edges[g]
    BY <2>2 DEF Saved, Overlay
  <2>4. /\ cn.id = n /\ cn.kind = "create_node"
        /\ ce.id = e /\ ce.kind = "create_edge" /\ p \in ce.refs
    BY DEF CanonicalOp
  <2>5. StageSave(N, pend.ports, E, {cn, ce})
    BY <2>1
  <2> HIDE DEF E, cn, ce
  <2> QED BY <1>2, <1>3, <1>4, <2>3, <2>4, <2>5, NewFilesAccounted
<1> QED BY <1>5, <1>6

LEMMA CreatePortAccounted ==
    ASSUME Accounted, NEW n \in DOMAIN nodes, NEW nm \in PortNames, NEW d \in {"in", "out"},
           CreatePort(n, nm, d)
    PROVE  Accounted'
<1> DEFINE rec == [node |-> n, name |-> nm, dir |-> d]
<1>1. PICK p \in Fresh(PortIds) :
        StageSave(pend.nodes, Saved(pend.ports, p, rec), pend.edges,
                  {CanonicalOp("create_port", p, {n}, {}, {})})
  BY DEF CreatePort
<1> DEFINE P == Saved(pend.ports, p, rec)
           op == CanonicalOp("create_port", p, {n}, {}, {})
<1>2. p \notin DOMAIN pend.ports
  BY DEF Fresh
<1>3. /\ DOMAIN P = DOMAIN pend.ports \cup {p} /\ P[p].node = n
      /\ \A q \in DOMAIN pend.ports : P[q] = pend.ports[q]
  BY <1>2 DEF Saved, Overlay
<1>4. op.kind = "create_port" /\ op.id = p /\ n \in op.refs
  BY DEF CanonicalOp
<1>5. StageSave(pend.nodes, P, pend.edges, {op})
  BY <1>1
<1>6. UNCHANGED <<nodes, ports, edges, minted>>
  BY DEF CreatePort
<1> HIDE DEF P, op
<1> QED BY <1>3, <1>4, <1>5, <1>6, NewFilesAccounted

LEMMA CreateEdgeAccounted ==
    ASSUME Accounted, NEW t, NEW s, NEW d, NEW sp, NEW dp, CreateEdge(t, s, d, sp, dp)
    PROVE  Accounted'
<1> DEFINE rec == [type |-> t, src |-> s, tgt |-> d, sport |-> sp, tport |-> dp, attrs |-> {}]
<1>1. PICK e \in Fresh(EdgeIds) :
        StageSave(pend.nodes, pend.ports, Saved(pend.edges, e, rec),
                  {CanonicalOp("create_edge", e, {s, d}, {}, {})})
  BY DEF CreateEdge
<1> DEFINE E == Saved(pend.edges, e, rec)
           op == CanonicalOp("create_edge", e, {s, d}, {}, {})
<1>2. e \notin DOMAIN pend.edges
  BY DEF Fresh
<1>3. /\ DOMAIN E = DOMAIN pend.edges \cup {e}
      /\ \A g \in DOMAIN pend.edges : E[g] = pend.edges[g]
  BY <1>2 DEF Saved, Overlay
<1>4. op.kind = "create_edge" /\ op.id = e
  BY DEF CanonicalOp
<1>5. StageSave(pend.nodes, pend.ports, E, {op})
  BY <1>1
<1>6. UNCHANGED <<nodes, ports, edges, minted>>
  BY DEF CreateEdge
<1> HIDE DEF E, op
<1> QED BY <1>3, <1>4, <1>5, <1>6, NewFilesAccounted

\* update_attrs on a node and rename_node: a new version of it that keeps its
\* parent and every attribute, logged under its id.
LEMMA TouchNodeAccounted ==
    ASSUME Accounted, UNCHANGED <<nodes, ports, edges, minted>>,
           NEW n \in DOMAIN nodes, NEW rec, NEW op,
           StageSave(Saved(pend.nodes, n, rec), pend.ports, pend.edges, {op}),
           rec.parent = NodeNow(n).parent, NodeNow(n).attrs \subseteq rec.attrs,
           op.id = n,
           \/ /\ op.kind = "update_node" /\ op.data \subseteq rec.attrs
              /\ rec.name = NodeNow(n).name
           \/ /\ op.kind = "rename_node" /\ rec.name \in op.data
              /\ rec.name \notin SiblingNames(n)
    PROVE  Accounted'
<1> DEFINE N == Saved(pend.nodes, n, rec)
<1>1. /\ DOMAIN N = DOMAIN pend.nodes \cup {n} /\ N[n] = rec
      /\ \A m \in DOMAIN pend.nodes : m # n => N[m] = pend.nodes[m]
  BY DEF Saved, Overlay
<1>2. /\ pend'.nodes = N /\ pend'.ports = pend.ports /\ pend'.edges = pend.edges
      /\ pend'.delNodes = pend.delNodes /\ pend'.delPorts = pend.delPorts
      /\ pend'.delEdges = pend.delEdges /\ pend'.ops = pend.ops \cup {op}
  BY DEF StageSave
<1> HIDE DEF N
<1>3. n \in DOMAIN pend.nodes => pend.nodes[n] = NodeNow(n)
  BY DEF NodeNow, Latest
<1>4. Named'
  <2>1. \A m \in Created' : m \in Created /\ pend'.nodes[m] = pend.nodes[m]
    BY <1>1, <1>2 DEF Created
  <2> QED BY <1>1, <1>2, <2>1 DEF Accounted, Named
<1>5. Effective'
  <2> SUFFICES ASSUME NEW o \in pend'.ops
               PROVE  /\ o.kind = "update_node" =>
                            o.id \in DOMAIN N /\ o.data \subseteq N[o.id].attrs
                      /\ o.kind = "update_edge" =>
                            o.id \in DOMAIN pend.edges /\ o.data \subseteq pend.edges[o.id].attrs
                      /\ o.kind = "rename_node" =>
                            /\ o.id \in DOMAIN N
                            /\ \E r \in pend'.ops : r.kind = "rename_node" /\ r.id = o.id
                                                    /\ N[o.id].name \in r.data
    BY <1>2 DEF Effective
  <2>1. CASE o = op
    BY <1>1, <1>2, <1>3, <2>1 DEF Accounted, Effective
  <2>2. CASE o \in pend.ops /\ o.id # n
    BY <1>1, <1>2, <2>2 DEF Accounted, Effective
  <2>3. CASE o \in pend.ops /\ o.id = n
    BY <1>1, <1>2, <1>3, <2>3 DEF Accounted, Effective
  <2> QED BY <1>2, <2>1, <2>2, <2>3
<1>6. /\ NodeNow(n)' = rec
      /\ \A m \in DOMAIN nodes : m # n => NodeNow(m)' = NodeNow(m)
  BY <1>1, <1>2 DEF NodeNow, Latest
<1>7. Apart'
  <2>1. \A m \in DOMAIN nodes : m # n /\ NodeNow(m).parent = rec.parent =>
           NodeNow(m).name \in SiblingNames(n)
    BY DEF SiblingNames
  <2> QED BY <1>6, <2>1 DEF Accounted, Apart
<1> QED BY <1>4, <1>5, <1>7 DEF Accounted

LEMMA UpdateNodeAccounted ==
    ASSUME TypeOK, Accounted, NEW n \in DOMAIN nodes, NEW k \in AttrKeys, UpdateNode(n, {k})
    PROVE  Accounted'
<1> DEFINE rec == [NodeNow(n) EXCEPT !.attrs = @ \cup {k}]
           op == CanonicalOp("update_node", n, {}, {k}, {})
<1>1. NodeNow(n) \in Node
  BY NodeNowType
<1>2. /\ rec.parent = NodeNow(n).parent /\ rec.name = NodeNow(n).name
      /\ rec.attrs = NodeNow(n).attrs \cup {k}
  BY <1>1 DEF Node
<1>3. op.id = n /\ op.kind = "update_node" /\ op.data = {k}
  BY DEF CanonicalOp
<1>4. /\ StageSave(Saved(pend.nodes, n, rec), pend.ports, pend.edges, {op})
      /\ UNCHANGED <<nodes, ports, edges, minted>>
  BY DEF UpdateNode
<1> HIDE DEF rec, op
<1> QED BY <1>2, <1>3, <1>4, TouchNodeAccounted

LEMMA RenameNodeAccounted ==
    ASSUME TypeOK, Accounted, NEW n \in DOMAIN nodes, NEW nm \in Names, RenameNode(n, nm)
    PROVE  Accounted'
<1> DEFINE rec == [NodeNow(n) EXCEPT !.name = nm]
           op == CanonicalOp("rename_node", n, {}, {nm}, {})
<1>1. NodeNow(n) \in Node
  BY NodeNowType
<1>2. rec.parent = NodeNow(n).parent /\ rec.name = nm /\ rec.attrs = NodeNow(n).attrs
  BY <1>1 DEF Node
<1>3. op.id = n /\ op.kind = "rename_node" /\ op.data = {nm}
  BY DEF CanonicalOp
<1>4. /\ StageSave(Saved(pend.nodes, n, rec), pend.ports, pend.edges, {op})
      /\ nm \notin SiblingNames(n)
      /\ UNCHANGED <<nodes, ports, edges, minted>>
  BY DEF RenameNode
<1> HIDE DEF rec, op
<1> QED BY <1>2, <1>3, <1>4, TouchNodeAccounted

LEMMA UpdateEdgeAccounted ==
    ASSUME TypeOK, Accounted, NEW e \in DOMAIN edges, NEW k \in AttrKeys, UpdateEdge(e, {k})
    PROVE  Accounted'
<1> DEFINE rec == [EdgeNow(e) EXCEPT !.attrs = @ \cup {k}]
           op == CanonicalOp("update_edge", e, {EdgeNow(e).src, EdgeNow(e).tgt}, {k}, {})
           E == Saved(pend.edges, e, rec)
<1>1. EdgeNow(e) \in Edge
  BY EdgeNowType
<1>2. rec.attrs = EdgeNow(e).attrs \cup {k}
  BY <1>1 DEF Edge
<1>3. op.id = e /\ op.kind = "update_edge" /\ op.data = {k}
  BY DEF CanonicalOp
<1>4. /\ StageSave(pend.nodes, pend.ports, E, {op})
      /\ UNCHANGED <<nodes, ports, edges, minted>>
  BY DEF UpdateEdge
<1>5. /\ DOMAIN E = DOMAIN pend.edges \cup {e} /\ E[e] = rec
      /\ \A g \in DOMAIN pend.edges : g # e => E[g] = pend.edges[g]
  BY DEF Saved, Overlay
<1>6. e \in DOMAIN pend.edges => pend.edges[e] = EdgeNow(e)
  BY DEF EdgeNow, Latest
<1> HIDE DEF rec, op, E
<1>7. /\ pend'.nodes = pend.nodes /\ pend'.ports = pend.ports /\ pend'.edges = E
      /\ pend'.delNodes = pend.delNodes /\ pend'.delPorts = pend.delPorts
      /\ pend'.delEdges = pend.delEdges /\ pend'.ops = pend.ops \cup {op}
  BY <1>4 DEF StageSave
<1>8. Named'
  <2>1. Created' = Created
    BY <1>4, <1>7 DEF Created
  <2> QED BY <1>3, <1>4, <1>5, <1>7, <2>1 DEF Accounted, Named
<1>9. Effective'
  BY <1>2, <1>3, <1>5, <1>6, <1>7 DEF Accounted, Effective
<1>10. \A n \in DOMAIN nodes : NodeNow(n)' = NodeNow(n)
  BY <1>4, <1>7 DEF NodeNow, Latest
<1>11. Apart'
  BY <1>4, <1>10 DEF Accounted, Apart
<1> QED BY <1>8, <1>9, <1>11 DEF Accounted

\* A delete names what it removes, itself or in its cascade.
LEMMA RemoveAccounted ==
    ASSUME Accounted, UNCHANGED <<nodes, ports, edges, minted>>,
           NEW N, NEW P, NEW E, NEW ops, StageRemove(N, P, E, ops),
           \A n \in N : \E op \in ops :
              op.kind = "delete_node" /\ op.id = n /\ Parents(nodes[n].parent) \subseteq op.refs,
           \A p \in P : \E op \in ops : p \in op.cascade,
           \A e \in E \ pend.delEdges : \E op \in ops : op.id = e \/ e \in op.cascade,
           \A op \in ops : op.kind \in {"delete_node", "delete_edge"}
    PROVE  Accounted'
<1>1. /\ pend'.nodes = pend.nodes /\ pend'.ports = pend.ports /\ pend'.edges = pend.edges
      /\ pend'.delNodes = pend.delNodes \cup N /\ pend'.delPorts = pend.delPorts \cup P
      /\ pend'.delEdges = pend.delEdges \cup E /\ pend'.ops = pend.ops \cup ops
  BY DEF StageRemove
<1>2. Named'
  <2>1. Created' = Created
    BY <1>1 DEF Created
  <2> QED BY <1>1, <2>1 DEF Accounted, Named
<1>3. Effective'
  BY <1>1 DEF Accounted, Effective
<1>4. \A n \in DOMAIN nodes : NodeNow(n)' = NodeNow(n)
  BY <1>1 DEF NodeNow, Latest
<1>5. Apart'
  BY <1>4 DEF Accounted, Apart
<1> QED BY <1>2, <1>3, <1>5 DEF Accounted

LEMMA DeleteEdgeAccounted ==
    ASSUME Accounted, NEW e \in DOMAIN edges, DeleteEdge(e)
    PROVE  Accounted'
<1> DEFINE op == CanonicalOp("delete_edge", e, {edges[e].src, edges[e].tgt}, {}, {})
<1>1. op.kind = "delete_edge" /\ op.id = e
  BY DEF CanonicalOp
<1>2. StageRemove({}, {}, {}, {}) \/ StageRemove({}, {}, {e}, {op})
  BY DEF DeleteEdge
<1>3. UNCHANGED <<nodes, ports, edges, minted>>
  BY DEF DeleteEdge
<1> HIDE DEF op
<1> QED BY <1>1, <1>2, <1>3, RemoveAccounted

LEMMA DeleteNodeAccounted ==
    ASSUME Accounted, NEW n \in DOMAIN nodes, DeleteNode(n)
    PROVE  Accounted'
<1> DEFINE op == CanonicalOp("delete_node", n, Parents(nodes[n].parent), {}, Cascade(n))
<1>1. /\ op.kind = "delete_node" /\ op.id = n
      /\ op.refs = Parents(nodes[n].parent) /\ op.cascade = Cascade(n)
  BY DEF CanonicalOp
<1>2. \/ StageRemove({}, {}, {}, {})
      \/ StageRemove({n}, PortsOf(n), IncidentEdges(n), {op})
  BY DEF DeleteNode
<1>3. UNCHANGED <<nodes, ports, edges, minted>>
  BY DEF DeleteNode
<1>4. PortsOf(n) \subseteq Cascade(n) /\ IncidentEdges(n) \ pend.delEdges \subseteq Cascade(n)
  BY DEF Cascade
<1> HIDE DEF op
<1> QED BY <1>1, <1>2, <1>3, <1>4, RemoveAccounted

LEMMA NextAccounted ==
    ASSUME TypeOK, Accounted, [Next]_vars
    PROVE  Accounted'
<1>1. CASE Stage
  BY <1>1, CreateNodeAccounted, CreatePortAccounted, CreateEdgeAccounted, UpdateNodeAccounted,
     UpdateEdgeAccounted, RenameNodeAccounted, DeleteEdgeAccounted, DeleteNodeAccounted
  DEF Stage
<1>2. CASE Commit \/ Reject
  <2>1. pend' = EmptyPatch
    BY <1>2 DEF Commit, Reject
  <2> QED BY <2>1, EmptyAccountedPrime
<1>3. CASE UNCHANGED vars
  <2>1. nodes' = nodes /\ pend' = pend
    BY <1>3 DEF vars
  <2>2. Created' = Created /\ \A n \in DOMAIN nodes : NodeNow(n)' = NodeNow(n)
    BY <2>1 DEF Created, NodeNow, Latest
  <2>3. Named'
    BY <2>1, <2>2 DEF Accounted, Named
  <2>4. Effective'
    BY <2>1 DEF Accounted, Effective
  <2>5. Apart'
    BY <2>1, <2>2 DEF Accounted, Apart
  <2> QED BY <2>3, <2>4, <2>5 DEF Accounted
<1> QED BY <1>1, <1>2, <1>3 DEF Next

\* At every moment the ops logged so far say what the staged patch does,
\* whatever the patch mixes (kernel/apply.py _Pending and its op handlers).
THEOREM OpsTellThePatch == Spec => [](TypeOK /\ Accounted)
<1>1. Init => TypeOK /\ Accounted
  BY InitTypeOK, EmptyAccounted DEF Init
<1>2. TypeOK /\ Accounted /\ [Next]_vars => TypeOK' /\ Accounted'
  BY NextTypeOK, NextAccounted
<1> QED BY <1>1, <1>2, PTL DEF Spec

\* Only a commit touches the files, and it leaves exactly what was staged.
LEMMA DiskStep ==
    ASSUME TypeOK, [Next]_vars, disk' # disk
    PROVE  nodes' = StagedNodes /\ ports' = StagedPorts /\ edges' = StagedEdges
  BY DEF Next, Stage, CreateNode, CreatePort, CreateEdge, UpdateNode, UpdateEdge, RenameNode,
         DeleteEdge, DeleteNode, Commit, Reject, vars, disk

\* A node, port or edge that is on disk on both sides of a commit is the
\* version the patch saved, or the old one.
LEMMA AfterCommit ==
    ASSUME nodes' = StagedNodes, ports' = StagedPorts, edges' = StagedEdges
    PROVE  /\ DOMAIN nodes' = (DOMAIN nodes \cup DOMAIN pend.nodes) \ pend.delNodes
           /\ DOMAIN ports' = (DOMAIN ports \cup DOMAIN pend.ports) \ pend.delPorts
           /\ DOMAIN edges' = (DOMAIN edges \cup DOMAIN pend.edges) \ pend.delEdges
           /\ \A n \in DOMAIN nodes' : nodes'[n] = NodeNow(n)
           /\ \A p \in DOMAIN ports' : ports'[p] = Latest(pend.ports, ports, p)
           /\ \A e \in DOMAIN edges' : edges'[e] = EdgeNow(e)
  BY DEF StagedNodes, StagedPorts, StagedEdges, Overlay, NodeNow, EdgeNow, Latest

\* A rename never takes the name of a sibling on disk, also when one patch
\* renames several siblings (kernel/apply.py _op_rename_node).
THEOREM RenamesKeepApart == Spec => RenameNeverCollides
<1> DEFINE Step ==
      \A n, m \in DOMAIN nodes \cap DOMAIN nodes' :
          /\ n # m /\ nodes'[n].parent = nodes'[m].parent
          /\ nodes'[n].name # nodes[n].name
          => nodes'[n].name # nodes'[m].name
<1>1. TypeOK /\ Accounted /\ [Next]_vars => [Step]_disk
  <2> SUFFICES ASSUME TypeOK, Accounted, [Next]_vars, disk' # disk PROVE Step
    OBVIOUS
  <2>1. \A n \in DOMAIN nodes' : nodes'[n] = NodeNow(n)
    BY DiskStep, AfterCommit
  <2> QED BY <2>1 DEF Accounted, Apart
<1> QED BY <1>1, OpsTellThePatch, PTL DEF Spec, RenameNeverCollides

\* The event of a patch is a complete and true record of it: it names all that
\* came, went or changed, and every update and rename it names took effect.
THEOREM EventsAccount == Spec => EventIsTheRecord
<1>1. TypeOK /\ Accounted /\ [Next]_vars => [EventNamesEveryChange /\ NoLostUpdate]_disk
  <2> SUFFICES ASSUME TypeOK, Accounted, [Next]_vars, disk' # disk
               PROVE  EventNamesEveryChange /\ NoLostUpdate
    OBVIOUS
  <2> DEFINE named == {op.id : op \in pend.ops} \cup UNION {op.cascade : op \in pend.ops}
             Changed(f, g) == {i \in DOMAIN f \cup DOMAIN g :
                                 ~(i \in DOMAIN f /\ i \in DOMAIN g /\ f[i] = g[i])}
  <2>1. nodes' = StagedNodes /\ ports' = StagedPorts /\ edges' = StagedEdges
    BY DiskStep
  <2>2. /\ Changed(nodes, nodes') \subseteq DOMAIN pend.nodes \cup pend.delNodes
        /\ Changed(ports, ports') \subseteq DOMAIN pend.ports \cup pend.delPorts
        /\ Changed(edges, edges') \subseteq DOMAIN pend.edges \cup pend.delEdges
    BY <2>1, AfterCommit DEF NodeNow, EdgeNow, Latest
  <2>3. /\ DOMAIN pend.nodes \cup pend.delNodes \subseteq named
        /\ DOMAIN pend.ports \cup pend.delPorts \subseteq named
        /\ DOMAIN pend.edges \cup pend.delEdges \subseteq named
    BY DEF Accounted, Named
  <2>4. EventNamesEveryChange
    BY <2>2, <2>3 DEF EventNamesEveryChange
  <2>5. /\ \A n \in DOMAIN nodes' \cap DOMAIN pend.nodes : nodes'[n] = pend.nodes[n]
        /\ \A e \in DOMAIN edges' \cap DOMAIN pend.edges : edges'[e] = pend.edges[e]
    BY <2>1, AfterCommit DEF NodeNow, EdgeNow, Latest
  <2>6. NoLostUpdate
    BY <2>5 DEF NoLostUpdate, Accounted, Effective
  <2> QED BY <2>4, <2>6
<1> QED BY <1>1, OpsTellThePatch, PTL DEF Spec, EventIsTheRecord

\* Every view a patch changes is in the list the canvas is told to reload
\* (server/app.py _affected): the nodes that came, went or changed, and the
\* containers of those that came or went.
THEOREM ViewsReloaded == Spec => AffectedCoversNodes
<1> DEFINE Step ==
      LET shown == AffectedNodes(pend.ops)
      IN  /\ \A n \in DOMAIN nodes \ DOMAIN nodes' : {n} \cup Parents(nodes[n].parent) \subseteq shown
          /\ \A n \in DOMAIN nodes' \ DOMAIN nodes : {n} \cup Parents(nodes'[n].parent) \subseteq shown
          /\ \A n \in DOMAIN nodes \cap DOMAIN nodes' : nodes[n] # nodes'[n] => n \in shown
          /\ \A p \in DOMAIN ports' \ DOMAIN ports : ports'[p].node \in shown
<1>1. TypeOK /\ Accounted /\ [Next]_vars => [Step]_disk
  <2> SUFFICES ASSUME TypeOK, Accounted, [Next]_vars, disk' # disk PROVE Step
    OBVIOUS
  <2> DEFINE shown == AffectedNodes(pend.ops)
  <2>1. nodes' = StagedNodes /\ ports' = StagedPorts /\ edges' = StagedEdges
    BY DiskStep
  <2>2. \A op \in pend.ops :
           op.kind \in {"create_node", "update_node", "rename_node", "delete_node"} =>
              op.id \in shown
    BY DEF AffectedNodes
  <2>3. \A op \in pend.ops :
           op.kind \in {"create_edge", "delete_node", "create_port"} => op.refs \subseteq shown
    BY DEF AffectedNodes
  <2> HIDE DEF shown
  <2>4. \A n \in DOMAIN nodes \ DOMAIN nodes' : {n} \cup Parents(nodes[n].parent) \subseteq shown
    <3>1. DOMAIN nodes \ DOMAIN nodes' \subseteq pend.delNodes
      BY <2>1, AfterCommit
    <3> QED BY <2>2, <2>3, <3>1 DEF Accounted, Named
  <2>5. \A n \in DOMAIN nodes' \ DOMAIN nodes : {n} \cup Parents(nodes'[n].parent) \subseteq shown
    <3> SUFFICES ASSUME NEW n \in DOMAIN nodes' \ DOMAIN nodes
                 PROVE  {n} \cup Parents(nodes'[n].parent) \subseteq shown
      OBVIOUS
    <3>1. n \in Created /\ nodes'[n] = pend.nodes[n]
      BY <2>1, AfterCommit DEF Created, NodeNow, Latest
    <3>2. n \in shown
      BY <2>2, <3>1 DEF Accounted, Named, Created
    <3>3. pend.nodes[n].parent # NoNode => pend.nodes[n].parent \in shown
      BY <2>3, <3>1 DEF Accounted, Named
    <3> QED BY <3>1, <3>2, <3>3 DEF Parents
  <2>6. \A n \in DOMAIN nodes \cap DOMAIN nodes' : nodes[n] # nodes'[n] => n \in shown
    <3>1. \A n \in DOMAIN nodes \cap DOMAIN nodes' :
             nodes[n] # nodes'[n] => n \in DOMAIN pend.nodes
      BY <2>1, AfterCommit DEF NodeNow, Latest
    <3> QED BY <2>2, <3>1 DEF Accounted, Named
  <2>7. \A p \in DOMAIN ports' \ DOMAIN ports : ports'[p].node \in shown
    <3>1. \A p \in DOMAIN ports' \ DOMAIN ports :
             p \in DOMAIN pend.ports /\ ports'[p] = pend.ports[p]
      BY <2>1, AfterCommit DEF Latest
    <3> QED BY <2>3, <3>1 DEF Accounted, Named
  <2> QED BY <2>4, <2>5, <2>6, <2>7 DEF shown
<1> QED BY <1>1, OpsTellThePatch, PTL DEF Spec, AffectedCoversNodes
-----------------------------------------------------------------------------
(* Integrity: patches keep the project graph well formed, under the two    *)
(* things the callers in the repository respect: a delete travels alone in *)
(* its patch, and `contains` edges are made by create_node only.           *)

Disciplined == MixedPatches = FALSE /\ "contains" \notin EdgeTypes

Good(N, P, E) ==
    RefsIn(N, P, E) /\ MirrorIn(N, E) /\ FlowIn(N, P, E) /\ ForestIn(N) /\ PortNamesIn(P)

\* A patch that removes something saves nothing, and an empty patch is empty.
Pure ==
    /\ pend.size = 0 => DOMAIN pend.nodes = {} /\ DOMAIN pend.ports = {} /\ DOMAIN pend.edges = {}
                        /\ pend.delNodes = {} /\ pend.delEdges = {}
    /\ pend.delNodes = {} => pend.delPorts = {}

\* The inductive invariant: the graph on disk is well formed, and so is the
\* one the staged patch would leave.
IInv ==
    /\ TypeOK
    /\ Good(nodes, ports, edges)
    /\ Good(StagedNodes, StagedPorts, StagedEdges)
    /\ Pure

-----------------------------------------------------------------------------
(* Overlays                                                                *)

LEMMA OverlaySaved ==
    ASSUME NEW f, NEW old, NEW i, NEW rec
    PROVE  Overlay(Saved(f, i, rec), old, {}) = Saved(Overlay(f, old, {}), i, rec)
<1> DEFINE A == Overlay(Saved(f, i, rec), old, {})
           B == Saved(Overlay(f, old, {}), i, rec)
<1>1. DOMAIN A = DOMAIN old \cup DOMAIN f \cup {i} /\ DOMAIN B = DOMAIN old \cup DOMAIN f \cup {i}
  BY DEF Overlay, Saved
<1>2. \A j \in DOMAIN A : A[j] = B[j]
  BY DEF Overlay, Saved
<1>3. A = [j \in DOMAIN A |-> A[j]] /\ B = [j \in DOMAIN B |-> B[j]]
  BY DEF Overlay, Saved
<1> QED BY <1>1, <1>2, <1>3

-----------------------------------------------------------------------------
(* Edits of a well-formed graph                                            *)

LEMMA GoodAddRoot ==
    ASSUME NEW N, NEW P, NEW E, Good(N, P, E), NEW n, n \notin DOMAIN N, n # NoNode,
           NEW rec, rec.parent = NoNode
    PROVE  Good(Saved(N, n, rec), P, E)
<1> DEFINE M == Saved(N, n, rec)
<1>1. DOMAIN M = DOMAIN N \cup {n} /\ M[n] = rec /\ \A j \in DOMAIN N : M[j] = N[j]
  BY DEF Saved, Overlay
<1> HIDE DEF M
<1>2. RefsIn(M, P, E)
  BY <1>1 DEF Good, RefsIn
<1>3. MirrorIn(M, E)
  BY <1>1 DEF Good, RefsIn, MirrorIn, EdgesInto
<1>4. FlowIn(M, P, E)
  BY <1>1 DEF Good, RefsIn, FlowIn
<1>5. ForestIn(M)
  <2> SUFFICES ASSUME NEW S \in SUBSET DOMAIN M, S # {} PROVE \E m \in S : M[m].parent \notin S
    BY DEF ForestIn
  <2>1. CASE S \subseteq DOMAIN N
    BY <1>1, <2>1 DEF Good, ForestIn
  <2>2. CASE n \in S /\ NoNode \notin S
    BY <1>1, <2>2
  <2>3. CASE n \in S /\ NoNode \in S
    <3>1. S \ {n} # {} /\ S \ {n} \in SUBSET DOMAIN N
      BY <1>1, <2>3
    <3>2. PICK m \in S \ {n} : N[m].parent \notin S \ {n}
      BY <3>1 DEF Good, ForestIn
    <3>3. N[m].parent # n
      BY <1>1, <3>1, <3>2 DEF Good, RefsIn
    <3> QED BY <1>1, <3>1, <3>2, <3>3
  <2> QED BY <1>1, <2>1, <2>2, <2>3
<1> QED BY <1>2, <1>3, <1>4, <1>5 DEF Good, M

LEMMA GoodAddChild ==
    ASSUME NEW N, NEW P, NEW E, Good(N, P, E), NEW n, n \notin DOMAIN N, n # NoNode,
           NEW p \in DOMAIN N, p # NoNode, NEW rec, rec.parent = p,
           NEW e, e \notin DOMAIN E
    PROVE  Good(Saved(N, n, rec), P, Saved(E, e, ContainsEdge(p, n)))
<1> DEFINE M == Saved(N, n, rec)
           F == Saved(E, e, ContainsEdge(p, n))
<1>1. DOMAIN M = DOMAIN N \cup {n} /\ M[n] = rec /\ \A j \in DOMAIN N : M[j] = N[j]
  BY DEF Saved, Overlay
<1>2. /\ DOMAIN F = DOMAIN E \cup {e} /\ \A j \in DOMAIN E : F[j] = E[j]
      /\ F[e] = ContainsEdge(p, n)
  BY DEF Saved, Overlay
<1>3. /\ F[e].type = "contains" /\ F[e].src = p /\ F[e].tgt = n
      /\ F[e].sport = NoPort /\ F[e].tport = NoPort
  BY <1>2 DEF ContainsEdge
<1> HIDE DEF M, F
<1>4. RefsIn(M, P, F)
  BY <1>1, <1>2, <1>3 DEF Good, RefsIn
<1>5. MirrorIn(M, F)
  <2> SUFFICES ASSUME NEW m \in DOMAIN M
               PROVE  IF M[m].parent = NoNode THEN EdgesInto(m, F) = {}
                      ELSE \E g \in DOMAIN F : EdgesInto(m, F) = {g} /\ F[g].src = M[m].parent
    BY DEF MirrorIn
  <2>1. CASE m = n
    <3>1. EdgesInto(n, F) = {e}
      BY <1>2, <1>3 DEF Good, RefsIn, EdgesInto
    <3> QED BY <1>1, <1>2, <1>3, <2>1, <3>1
  <2>2. CASE m # n
    <3>1. m \in DOMAIN N /\ M[m] = N[m]
      BY <1>1, <2>2
    <3>2. EdgesInto(m, F) = EdgesInto(m, E)
      BY <1>2, <1>3, <2>2 DEF EdgesInto
    <3> QED BY <1>2, <3>1, <3>2 DEF Good, MirrorIn
  <2> QED BY <2>1, <2>2
<1>6. FlowIn(M, P, F)
  BY <1>1, <1>2, <1>3 DEF Good, RefsIn, FlowIn
<1>7. ForestIn(M)
  <2> SUFFICES ASSUME NEW S \in SUBSET DOMAIN M, S # {} PROVE \E m \in S : M[m].parent \notin S
    BY DEF ForestIn
  <2>1. CASE S \ {n} = {}
    BY <1>1, <2>1
  <2>2. CASE S \ {n} # {}
    <3>1. PICK m \in S \ {n} : N[m].parent \notin S \ {n}
      BY <1>1, <2>2 DEF Good, ForestIn
    <3>2. m \in DOMAIN N /\ N[m].parent # n
      BY <1>1, <3>1 DEF Good, RefsIn
    <3> QED BY <1>1, <3>1, <3>2
  <2> QED BY <2>1, <2>2
<1> QED BY <1>4, <1>5, <1>6, <1>7 DEF Good, M, F

LEMMA GoodAddPort ==
    ASSUME NEW N, NEW P, NEW E, Good(N, P, E), NEW q, q \notin DOMAIN P,
           NEW n \in DOMAIN N, NEW rec, rec.node = n,
           \A r \in DOMAIN P : P[r].node = n => P[r].name # rec.name
    PROVE  Good(N, Saved(P, q, rec), E)
<1> DEFINE R == Saved(P, q, rec)
<1>1. DOMAIN R = DOMAIN P \cup {q} /\ R[q] = rec /\ \A j \in DOMAIN P : R[j] = P[j]
  BY DEF Saved, Overlay
<1> HIDE DEF R
<1>2. RefsIn(N, R, E)
  BY <1>1 DEF Good, RefsIn
<1>3. FlowIn(N, R, E)
  BY <1>1 DEF Good, FlowIn
<1>4. PortNamesIn(R)
  BY <1>1 DEF Good, PortNamesIn
<1> QED BY <1>2, <1>3, <1>4 DEF Good, R

LEMMA GoodAddEdge ==
    ASSUME NEW N, NEW P, NEW E, Good(N, P, E), NEW e, e \notin DOMAIN E,
           NEW rec, rec.type # "contains", NEW Q, EdgeOk(rec, N, Q),
           \A q \in DOMAIN Q : q \in DOMAIN P /\ P[q] = Q[q]
    PROVE  Good(N, P, Saved(E, e, rec))
<1> DEFINE F == Saved(E, e, rec)
<1>1. DOMAIN F = DOMAIN E \cup {e} /\ F[e] = rec /\ \A j \in DOMAIN E : F[j] = E[j]
  BY DEF Saved, Overlay
<1> HIDE DEF F
<1>2. RefsIn(N, P, F)
  BY <1>1 DEF Good, RefsIn, EdgeOk
<1>3. \A m \in DOMAIN N : EdgesInto(m, F) = EdgesInto(m, E)
  BY <1>1 DEF EdgesInto
<1>4. MirrorIn(N, F)
  BY <1>1, <1>3 DEF Good, MirrorIn
<1>5. FlowIn(N, P, F)
  BY <1>1 DEF Good, FlowIn, EdgeOk, TunnelIn, TunnelOut
<1> QED BY <1>2, <1>4, <1>5 DEF Good, F

LEMMA GoodTouchNode ==
    ASSUME NEW N, NEW P, NEW E, Good(N, P, E), NEW n \in DOMAIN N,
           NEW rec, rec.parent = N[n].parent
    PROVE  Good(Saved(N, n, rec), P, E)
<1> DEFINE M == Saved(N, n, rec)
<1>1. DOMAIN M = DOMAIN N /\ \A j \in DOMAIN N : M[j].parent = N[j].parent
  BY DEF Saved, Overlay
<1> HIDE DEF M
<1>2. RefsIn(M, P, E)
  BY <1>1 DEF Good, RefsIn
<1>3. MirrorIn(M, E)
  BY <1>1 DEF Good, MirrorIn
<1>4. FlowIn(M, P, E)
  BY <1>1 DEF Good, RefsIn, FlowIn
<1>5. ForestIn(M)
  BY <1>1 DEF Good, ForestIn
<1> QED BY <1>2, <1>3, <1>4, <1>5 DEF Good, M

LEMMA GoodTouchEdge ==
    ASSUME NEW N, NEW P, NEW E, Good(N, P, E), NEW e \in DOMAIN E, NEW rec,
           rec.type = E[e].type, rec.src = E[e].src, rec.tgt = E[e].tgt,
           rec.sport = E[e].sport, rec.tport = E[e].tport
    PROVE  Good(N, P, Saved(E, e, rec))
<1> DEFINE F == Saved(E, e, rec)
<1>1. /\ DOMAIN F = DOMAIN E
      /\ \A j \in DOMAIN E : F[j].type = E[j].type /\ F[j].src = E[j].src /\ F[j].tgt = E[j].tgt
                             /\ F[j].sport = E[j].sport /\ F[j].tport = E[j].tport
  BY DEF Saved, Overlay
<1> HIDE DEF F
<1>2. RefsIn(N, P, F)
  BY <1>1 DEF Good, RefsIn
<1>3. \A m \in DOMAIN N : EdgesInto(m, F) = EdgesInto(m, E)
  BY <1>1 DEF EdgesInto
<1>4. MirrorIn(N, F)
  BY <1>1, <1>3 DEF Good, MirrorIn
<1>5. FlowIn(N, P, F)
  BY <1>1 DEF Good, FlowIn
<1> QED BY <1>2, <1>4, <1>5 DEF Good, F

LEMMA GoodDropEdge ==
    ASSUME NEW N, NEW P, NEW E, Good(N, P, E), NEW e \in DOMAIN E, E[e].type # "contains",
           NEW F, DOMAIN F = DOMAIN E \ {e}, \A j \in DOMAIN F : F[j] = E[j]
    PROVE  Good(N, P, F)
<1>1. RefsIn(N, P, F)
  BY DEF Good, RefsIn
<1>2. \A m \in DOMAIN N : EdgesInto(m, F) = EdgesInto(m, E)
  BY DEF EdgesInto
<1>3. MirrorIn(N, F)
  <2>1. \A m \in DOMAIN N, g \in DOMAIN E : EdgesInto(m, E) = {g} => g \in DOMAIN F
    BY DEF EdgesInto
  <2> QED BY <1>2, <2>1 DEF Good, MirrorIn
<1>4. FlowIn(N, P, F)
  BY DEF Good, FlowIn
<1> QED BY <1>1, <1>3, <1>4 DEF Good

\* M, Q, F is the graph N, P, E without n, its ports and its edges.
Without(n, N, P, E, M, Q, F) ==
    /\ DOMAIN M = DOMAIN N \ {n} /\ \A j \in DOMAIN M : M[j] = N[j]
    /\ DOMAIN Q = {q \in DOMAIN P : P[q].node # n} /\ \A j \in DOMAIN Q : Q[j] = P[j]
    /\ DOMAIN F = {e \in DOMAIN E : E[e].src # n /\ E[e].tgt # n}
    /\ \A j \in DOMAIN F : F[j] = E[j]

LEMMA GoodDropNode ==
    ASSUME NEW N, NEW P, NEW E, Good(N, P, E), NEW n \in DOMAIN N, n # NoNode,
           NoPort \notin DOMAIN P, \A m \in DOMAIN N : N[m].parent # n,
           NEW M, NEW Q, NEW F, Without(n, N, P, E, M, Q, F)
    PROVE  Good(M, Q, F)
<1> USE DEF Without
<1>1. RefsIn(M, Q, F)
  BY DEF Good, RefsIn
<1>2. MirrorIn(M, F)
  <2> SUFFICES ASSUME NEW m \in DOMAIN M
               PROVE  IF M[m].parent = NoNode THEN EdgesInto(m, F) = {}
                      ELSE \E g \in DOMAIN F : EdgesInto(m, F) = {g} /\ F[g].src = M[m].parent
    BY DEF MirrorIn
  <2>1. m \in DOMAIN N /\ m # n /\ M[m] = N[m] /\ N[m].parent # n
    OBVIOUS
  <2>2. EdgesInto(m, F) \subseteq EdgesInto(m, E)
    BY DEF EdgesInto
  <2>3. CASE M[m].parent = NoNode
    BY <2>1, <2>2, <2>3 DEF Good, MirrorIn
  <2>4. CASE M[m].parent # NoNode
    <3>1. PICK g \in DOMAIN E : EdgesInto(m, E) = {g} /\ E[g].src = N[m].parent
      BY <2>1, <2>4 DEF Good, MirrorIn
    <3>2. E[g].tgt = m /\ E[g].type = "contains"
      BY <3>1 DEF EdgesInto
    <3>3. g \in DOMAIN F /\ F[g] = E[g]
      BY <2>1, <3>1, <3>2
    <3>4. g \in EdgesInto(m, F)
      BY <3>2, <3>3 DEF EdgesInto
    <3> QED BY <2>1, <2>2, <2>4, <3>1, <3>3, <3>4
  <2> QED BY <2>3, <2>4
<1>3. FlowIn(M, Q, F)
  <2> SUFFICES ASSUME NEW e \in DOMAIN F, F[e].type = "data_flow"
               PROVE  /\ F[e].sport \in DOMAIN Q /\ F[e].tport \in DOMAIN Q
                      /\ Q[F[e].sport].dir = "out" \/ M[F[e].tgt].parent = F[e].src
                      /\ Q[F[e].tport].dir = "in" \/ M[F[e].src].parent = F[e].tgt
    BY DEF FlowIn
  <2>1. e \in DOMAIN E /\ F[e] = E[e] /\ E[e].src # n /\ E[e].tgt # n
    OBVIOUS
  <2>2. M[E[e].src] = N[E[e].src] /\ M[E[e].tgt] = N[E[e].tgt]
    BY <2>1 DEF Good, RefsIn
  <2>3. /\ E[e].sport \in DOMAIN P /\ E[e].tport \in DOMAIN P
        /\ P[E[e].sport].dir = "out" \/ N[E[e].tgt].parent = E[e].src
        /\ P[E[e].tport].dir = "in" \/ N[E[e].src].parent = E[e].tgt
    BY <2>1 DEF Good, FlowIn
  <2>4. E[e].sport # NoPort /\ E[e].tport # NoPort
    BY <2>3
  <2>5. P[E[e].sport].node = E[e].src /\ P[E[e].tport].node = E[e].tgt
    BY <2>1, <2>3, <2>4 DEF Good, RefsIn
  <2> QED BY <2>1, <2>2, <2>3, <2>5
<1>4. ForestIn(M)
  BY DEF Good, ForestIn
<1>5. PortNamesIn(Q)
  BY DEF Good, PortNamesIn
<1> QED BY <1>1, <1>2, <1>3, <1>4, <1>5 DEF Good

-----------------------------------------------------------------------------
(* Staging edits the staged graph and leaves the disk alone                *)

\* Nothing is being removed, so the staged graph is the disk overlaid with the
\* saved files; it is typed, and pending ports and nodes are new.
Adding == pend.delNodes = {} /\ pend.delPorts = {} /\ pend.delEdges = {}

LEMMA MayStageAdding ==
    ASSUME IInv, Disciplined, MayStage
    PROVE  Adding
  BY DEF IInv, Pure, Disciplined, MayStage, Adding

LEMMA StagedView ==
    ASSUME IInv, Adding
    PROVE  /\ DOMAIN StagedNodes = DOMAIN nodes \cup Created
           /\ \A n \in DOMAIN StagedNodes : StagedNodes[n] = NodeNow(n)
           /\ DOMAIN StagedPorts = DOMAIN ports \cup DOMAIN pend.ports
           /\ \A q \in DOMAIN ports : StagedPorts[q] = ports[q]
           /\ \A q \in DOMAIN pend.ports : StagedPorts[q] = pend.ports[q]
           /\ DOMAIN StagedEdges = DOMAIN edges \cup DOMAIN pend.edges
           /\ \A e \in DOMAIN edges : StagedEdges[e] = EdgeNow(e)
<1>1. /\ DOMAIN StagedNodes = DOMAIN nodes \cup Created
      /\ DOMAIN StagedPorts = DOMAIN ports \cup DOMAIN pend.ports
      /\ DOMAIN StagedEdges = DOMAIN edges \cup DOMAIN pend.edges
  BY DEF StagedNodes, StagedPorts, StagedEdges, Overlay, Adding, Created
<1>2. \A n \in DOMAIN StagedNodes : StagedNodes[n] = NodeNow(n)
  BY DEF StagedNodes, NodeNow, Latest, Overlay
<1>3. \A e \in DOMAIN edges : StagedEdges[e] = EdgeNow(e)
  BY <1>1 DEF StagedEdges, EdgeNow, Latest, Overlay
<1>4. DOMAIN ports \cap DOMAIN pend.ports = {}
  BY DEF IInv, TypeOK
<1>5. /\ \A q \in DOMAIN ports : StagedPorts[q] = ports[q]
      /\ \A q \in DOMAIN pend.ports : StagedPorts[q] = pend.ports[q]
  BY <1>1, <1>4 DEF StagedPorts, Overlay
<1> QED BY <1>1, <1>2, <1>3, <1>5

LEMMA GoodStagedPrime ==
    ASSUME NEW N, NEW P, NEW E, Good(N, P, E),
           StagedNodes' = N, StagedPorts' = P, StagedEdges' = E
    PROVE  Good(StagedNodes, StagedPorts, StagedEdges)'
  BY DEF Good, RefsIn, MirrorIn, FlowIn, ForestIn, PortNamesIn, EdgesInto

LEMMA GoodDiskPrime ==
    ASSUME NEW N, NEW P, NEW E, Good(N, P, E), nodes' = N, ports' = P, edges' = E
    PROVE  Good(nodes, ports, edges)'
  BY DEF Good, RefsIn, MirrorIn, FlowIn, ForestIn, PortNamesIn, EdgesInto

\* One more file saved is one more edit of the staged graph.
LEMMA SaveStaged ==
    ASSUME IInv, Adding, NEW N, NEW P, NEW E, NEW ops, StageSave(N, P, E, ops),
           TypeOK', UNCHANGED <<nodes, ports, edges, minted>>,
           Good(Overlay(N, nodes, {}), Overlay(P, ports, {}), Overlay(E, edges, {}))
    PROVE  IInv'
<1>1. /\ StagedNodes' = Overlay(N, nodes, {}) /\ StagedPorts' = Overlay(P, ports, {})
      /\ StagedEdges' = Overlay(E, edges, {})
  BY DEF StageSave, StagedNodes, StagedPorts, StagedEdges, Adding
<1>2. Good(StagedNodes, StagedPorts, StagedEdges)'
  BY <1>1, GoodStagedPrime
<1>3. Good(nodes, ports, edges)'
  BY GoodDiskPrime DEF IInv
<1>4. Pure'
  BY DEF Pure, StageSave, Adding, IInv, TypeOK
<1> QED BY <1>2, <1>3, <1>4 DEF IInv

LEMMA StagedOverlay ==
    ASSUME Adding
    PROVE  /\ StagedNodes = Overlay(pend.nodes, nodes, {})
           /\ StagedPorts = Overlay(pend.ports, ports, {})
           /\ StagedEdges = Overlay(pend.edges, edges, {})
  BY DEF Adding, StagedNodes, StagedPorts, StagedEdges

LEMMA CreateNodeGood ==
    ASSUME IInv, Disciplined, NEW t \in NodeTypes, NEW nm \in Names,
           NEW p \in DOMAIN nodes \cup Created \cup {NoNode}, CreateNode(t, nm, p)
    PROVE  IInv'
<1> DEFINE rec == [type |-> t, name |-> nm, parent |-> p, attrs |-> {}]
<1>1. PICK n \in Fresh(NodeIds) :
        IF p = NoNode
        THEN StageSave(Saved(pend.nodes, n, rec), pend.ports, pend.edges,
                       {CanonicalOp("create_node", n, {}, {}, {})})
        ELSE StageChild(n, rec)
  BY DEF CreateNode
<1>2. Adding /\ TypeOK' /\ UNCHANGED <<nodes, ports, edges, minted>>
  BY MayStageAdding, CreateNodeTypeOK DEF CreateNode, IInv
<1>3. n \notin DOMAIN StagedNodes /\ n # NoNode
  BY <1>2, StagedView, KernelAssumption DEF Fresh, IInv, TypeOK, Created
<1>4. Good(StagedNodes, StagedPorts, StagedEdges)
  BY DEF IInv
<1>5. CASE p = NoNode
  <2>1. rec.parent = NoNode
    BY <1>5
  <2>2. Good(Saved(StagedNodes, n, rec), StagedPorts, StagedEdges)
    BY <1>3, <1>4, <2>1, GoodAddRoot
  <2>3. Good(Overlay(Saved(pend.nodes, n, rec), nodes, {}), Overlay(pend.ports, ports, {}),
             Overlay(pend.edges, edges, {}))
    BY <1>2, <2>2, StagedOverlay, OverlaySaved
  <2> QED BY <1>1, <1>2, <1>5, <2>3, SaveStaged
<1>6. CASE p # NoNode
  <2>1. PICK e \in Fresh(EdgeIds) :
          StageSave(Saved(pend.nodes, n, rec), pend.ports,
                   Saved(pend.edges, e, ContainsEdge(p, n)),
                   {CanonicalOp("create_node", n, {p}, {}, {}),
                    CanonicalOp("create_edge", e, {p, n}, {}, {})})
    BY <1>1, <1>6 DEF StageChild
  <2>2. e \notin DOMAIN StagedEdges
    BY <1>2, StagedView DEF Fresh, IInv, TypeOK
  <2>3. p \in DOMAIN StagedNodes
    BY <1>2, <1>6, StagedView
  <2>4. rec.parent = p
    OBVIOUS
  <2>5. Good(Saved(StagedNodes, n, rec), StagedPorts, Saved(StagedEdges, e, ContainsEdge(p, n)))
    BY <1>3, <1>4, <1>6, <2>2, <2>3, <2>4, GoodAddChild
  <2>6. Good(Overlay(Saved(pend.nodes, n, rec), nodes, {}), Overlay(pend.ports, ports, {}),
             Overlay(Saved(pend.edges, e, ContainsEdge(p, n)), edges, {}))
    BY <1>2, <2>5, StagedOverlay, OverlaySaved
  <2> QED BY <1>2, <2>1, <2>6, SaveStaged
<1> QED BY <1>5, <1>6

LEMMA CreatePortGood ==
    ASSUME IInv, Disciplined, NEW n \in DOMAIN nodes, NEW nm \in PortNames,
           NEW d \in {"in", "out"}, CreatePort(n, nm, d)
    PROVE  IInv'
<1> DEFINE rec == [node |-> n, name |-> nm, dir |-> d]
<1>1. PICK q \in Fresh(PortIds) :
        StageSave(pend.nodes, Saved(pend.ports, q, rec), pend.edges,
                  {CanonicalOp("create_port", q, {n}, {}, {})})
  BY DEF CreatePort
<1>2. Adding /\ TypeOK' /\ UNCHANGED <<nodes, ports, edges, minted>>
  BY MayStageAdding, CreatePortTypeOK DEF CreatePort, IInv
<1>3. q \notin DOMAIN StagedPorts
  BY <1>2, StagedView DEF Fresh, IInv, TypeOK
<1>4. n \in DOMAIN StagedNodes /\ rec.node = n /\ rec.name = nm
  BY <1>2, StagedView
<1>5. \A r \in DOMAIN StagedPorts : StagedPorts[r].node = n => StagedPorts[r].name # nm
  BY <1>2, StagedView DEF CreatePort, PortNamesOf
<1>6. Good(StagedNodes, Saved(StagedPorts, q, rec), StagedEdges)
  <2> HIDE DEF rec
  <2> QED BY <1>3, <1>4, <1>5, GoodAddPort DEF IInv
<1>7. Good(Overlay(pend.nodes, nodes, {}), Overlay(Saved(pend.ports, q, rec), ports, {}),
           Overlay(pend.edges, edges, {}))
  BY <1>2, <1>6, StagedOverlay, OverlaySaved
<1> QED BY <1>1, <1>2, <1>7, SaveStaged

LEMMA CreateEdgeGood ==
    ASSUME IInv, Disciplined, NEW t \in EdgeTypes,
           NEW s \in DOMAIN nodes \cup Created, NEW d \in DOMAIN nodes \cup Created,
           NEW sp \in DOMAIN ports \cup {NoPort}, NEW dp \in DOMAIN ports \cup {NoPort},
           CreateEdge(t, s, d, sp, dp)
    PROVE  IInv'
<1> DEFINE rec == [type |-> t, src |-> s, tgt |-> d, sport |-> sp, tport |-> dp, attrs |-> {}]
           view == [i \in DOMAIN nodes \cup Created |-> NodeNow(i)]
<1>1. PICK e \in Fresh(EdgeIds) :
        StageSave(pend.nodes, pend.ports, Saved(pend.edges, e, rec),
                  {CanonicalOp("create_edge", e, {s, d}, {}, {})})
  BY DEF CreateEdge
<1>2. Adding /\ TypeOK' /\ UNCHANGED <<nodes, ports, edges, minted>>
  BY MayStageAdding, CreateEdgeTypeOK DEF CreateEdge, IInv
<1>3. e \notin DOMAIN StagedEdges
  BY <1>2, StagedView DEF Fresh, IInv, TypeOK
<1>4. EdgeOk(rec, view, ports) /\ rec.type # "contains"
  BY DEF CreateEdge, Disciplined
<1>5. view = StagedNodes
  <2>1. StagedNodes = [i \in DOMAIN StagedNodes |-> StagedNodes[i]]
    BY DEF StagedNodes, Overlay
  <2> QED BY <1>2, <2>1, StagedView
<1>6. \A q \in DOMAIN ports : q \in DOMAIN StagedPorts /\ StagedPorts[q] = ports[q]
  BY <1>2, StagedView
<1>7. Good(StagedNodes, StagedPorts, Saved(StagedEdges, e, rec))
  <2> HIDE DEF rec, view
  <2> QED BY <1>3, <1>4, <1>5, <1>6, GoodAddEdge DEF IInv
<1>8. Good(Overlay(pend.nodes, nodes, {}), Overlay(pend.ports, ports, {}),
           Overlay(Saved(pend.edges, e, rec), edges, {}))
  BY <1>2, <1>7, StagedOverlay, OverlaySaved
<1> QED BY <1>1, <1>2, <1>8, SaveStaged

\* update_attrs and rename_node keep the parent.
LEMMA TouchNodeGood ==
    ASSUME IInv, Adding, NEW n \in DOMAIN nodes, NEW rec, rec.parent = NodeNow(n).parent,
           NEW op, StageSave(Saved(pend.nodes, n, rec), pend.ports, pend.edges, {op}),
           TypeOK', UNCHANGED <<nodes, ports, edges, minted>>
    PROVE  IInv'
<1>1. n \in DOMAIN StagedNodes /\ rec.parent = StagedNodes[n].parent
  BY StagedView
<1>2. Good(Saved(StagedNodes, n, rec), StagedPorts, StagedEdges)
  BY <1>1, GoodTouchNode DEF IInv
<1>3. Good(Overlay(Saved(pend.nodes, n, rec), nodes, {}), Overlay(pend.ports, ports, {}),
           Overlay(pend.edges, edges, {}))
  BY <1>2, StagedOverlay, OverlaySaved
<1> QED BY <1>3, SaveStaged

LEMMA UpdateNodeGood ==
    ASSUME IInv, Disciplined, NEW n \in DOMAIN nodes, NEW k \in AttrKeys, UpdateNode(n, {k})
    PROVE  IInv'
<1> DEFINE rec == [NodeNow(n) EXCEPT !.attrs = @ \cup {k}]
<1>1. Adding /\ TypeOK' /\ UNCHANGED <<nodes, ports, edges, minted>>
  BY MayStageAdding, UpdateNodeTypeOK DEF UpdateNode, IInv
<1>2. NodeNow(n) \in Node
  BY NodeNowType DEF IInv
<1>3. rec.parent = NodeNow(n).parent
  BY <1>2 DEF Node
<1>4. StageSave(Saved(pend.nodes, n, rec), pend.ports, pend.edges,
                {CanonicalOp("update_node", n, {}, {k}, {})})
  BY DEF UpdateNode
<1> HIDE DEF rec
<1> QED BY <1>1, <1>3, <1>4, TouchNodeGood

LEMMA RenameNodeGood ==
    ASSUME IInv, Disciplined, NEW n \in DOMAIN nodes, NEW nm \in Names, RenameNode(n, nm)
    PROVE  IInv'
<1> DEFINE rec == [NodeNow(n) EXCEPT !.name = nm]
<1>1. Adding /\ TypeOK' /\ UNCHANGED <<nodes, ports, edges, minted>>
  BY MayStageAdding, RenameNodeTypeOK DEF RenameNode, IInv
<1>2. NodeNow(n) \in Node
  BY NodeNowType DEF IInv
<1>3. rec.parent = NodeNow(n).parent
  BY <1>2 DEF Node
<1>4. StageSave(Saved(pend.nodes, n, rec), pend.ports, pend.edges,
                {CanonicalOp("rename_node", n, {}, {nm}, {})})
  BY DEF RenameNode
<1> HIDE DEF rec
<1> QED BY <1>1, <1>3, <1>4, TouchNodeGood

LEMMA UpdateEdgeGood ==
    ASSUME IInv, Disciplined, NEW e \in DOMAIN edges, NEW k \in AttrKeys, UpdateEdge(e, {k})
    PROVE  IInv'
<1> DEFINE rec == [EdgeNow(e) EXCEPT !.attrs = @ \cup {k}]
<1>1. Adding /\ TypeOK' /\ UNCHANGED <<nodes, ports, edges, minted>>
  BY MayStageAdding, UpdateEdgeTypeOK DEF UpdateEdge, IInv
<1>2. EdgeNow(e) \in Edge
  BY EdgeNowType DEF IInv
<1>3. e \in DOMAIN StagedEdges /\ StagedEdges[e] = EdgeNow(e)
  BY <1>1, StagedView
<1>4. /\ rec.type = StagedEdges[e].type /\ rec.src = StagedEdges[e].src
      /\ rec.tgt = StagedEdges[e].tgt /\ rec.sport = StagedEdges[e].sport
      /\ rec.tport = StagedEdges[e].tport
  BY <1>2, <1>3 DEF Edge
<1>5. Good(StagedNodes, StagedPorts, Saved(StagedEdges, e, rec))
  <2> HIDE DEF rec
  <2> QED BY <1>3, <1>4, GoodTouchEdge DEF IInv
<1>6. Good(Overlay(pend.nodes, nodes, {}), Overlay(pend.ports, ports, {}),
           Overlay(Saved(pend.edges, e, rec), edges, {}))
  BY <1>1, <1>5, StagedOverlay, OverlaySaved
<1>7. StageSave(pend.nodes, pend.ports, Saved(pend.edges, e, rec),
                {CanonicalOp("update_edge", e, {EdgeNow(e).src, EdgeNow(e).tgt}, {k}, {})})
  BY DEF UpdateEdge
<1> HIDE DEF rec
<1> QED BY <1>1, <1>6, <1>7, SaveStaged

\* A delete opens its patch: nothing else is staged.
LEMMA MayDeleteAlone ==
    ASSUME IInv, Disciplined, MayDelete
    PROVE  /\ DOMAIN pend.nodes = {} /\ DOMAIN pend.ports = {} /\ DOMAIN pend.edges = {}
           /\ pend.delNodes = {} /\ pend.delPorts = {} /\ pend.delEdges = {}
  BY DEF IInv, Pure, Disciplined, MayDelete

LEMMA RemoveStaged ==
    ASSUME IInv, NEW N, NEW P, NEW E, NEW ops, StageRemove(N, P, E, ops), N = {} => P = {},
           DOMAIN pend.nodes = {}, DOMAIN pend.ports = {}, DOMAIN pend.edges = {},
           pend.delNodes = {}, pend.delPorts = {}, pend.delEdges = {},
           TypeOK', UNCHANGED <<nodes, ports, edges, minted>>,
           \A M, Q, F :
              /\ DOMAIN M = DOMAIN nodes \ N /\ \A j \in DOMAIN M : M[j] = nodes[j]
              /\ DOMAIN Q = DOMAIN ports \ P /\ \A j \in DOMAIN Q : Q[j] = ports[j]
              /\ DOMAIN F = DOMAIN edges \ E /\ \A j \in DOMAIN F : F[j] = edges[j]
              => Good(M, Q, F)
    PROVE  IInv'
<1>1. /\ StagedNodes' = Overlay(pend.nodes, nodes, N) /\ StagedPorts' = Overlay(pend.ports, ports, P)
      /\ StagedEdges' = Overlay(pend.edges, edges, E)
  BY DEF StageRemove, StagedNodes, StagedPorts, StagedEdges
<1>2. Good(Overlay(pend.nodes, nodes, N), Overlay(pend.ports, ports, P), Overlay(pend.edges, edges, E))
  BY DEF Overlay
<1>3. Good(StagedNodes, StagedPorts, StagedEdges)'
  BY <1>1, <1>2, GoodStagedPrime
<1>4. Good(nodes, ports, edges)'
  BY GoodDiskPrime DEF IInv
<1>5. Pure'
  BY DEF Pure, StageRemove, IInv, TypeOK
<1> QED BY <1>3, <1>4, <1>5 DEF IInv

\* A delete that stages nothing (the id is already staged) cannot be the first.
LEMMA DeleteEdgeGood ==
    ASSUME IInv, Disciplined, NEW e \in DOMAIN edges, DeleteEdge(e)
    PROVE  IInv'
<1> DEFINE op == CanonicalOp("delete_edge", e, {edges[e].src, edges[e].tgt}, {}, {})
<1>1. TypeOK' /\ MayDelete /\ UNCHANGED <<nodes, ports, edges, minted>>
  BY DeleteEdgeTypeOK DEF DeleteEdge, IInv
<1>2. /\ DOMAIN pend.nodes = {} /\ DOMAIN pend.ports = {} /\ DOMAIN pend.edges = {}
      /\ pend.delNodes = {} /\ pend.delPorts = {} /\ pend.delEdges = {}
  BY <1>1, MayDeleteAlone
<1>3. edges[e].type # "contains" /\ StageRemove({}, {}, {e}, {op})
  BY <1>2 DEF DeleteEdge, Deletable
<1>4. ASSUME NEW M, NEW Q, NEW F,
             DOMAIN M = DOMAIN nodes \ {}, \A j \in DOMAIN M : M[j] = nodes[j],
             DOMAIN Q = DOMAIN ports \ {}, \A j \in DOMAIN Q : Q[j] = ports[j],
             DOMAIN F = DOMAIN edges \ {e}, \A j \in DOMAIN F : F[j] = edges[j]
      PROVE  Good(M, Q, F)
  <2>1. Good(nodes, ports, F)
    BY <1>3, <1>4, GoodDropEdge DEF IInv
  <2> QED BY <1>4, <2>1 DEF Good, RefsIn, MirrorIn, FlowIn, ForestIn, PortNamesIn, EdgesInto
<1> HIDE DEF op
<1> QED BY <1>1, <1>2, <1>3, <1>4, RemoveStaged

LEMMA DeleteNodeGood ==
    ASSUME IInv, Disciplined, NEW n \in DOMAIN nodes, DeleteNode(n)
    PROVE  IInv'
<1> DEFINE op == CanonicalOp("delete_node", n, Parents(nodes[n].parent), {}, Cascade(n))
<1>1. TypeOK' /\ MayDelete /\ UNCHANGED <<nodes, ports, edges, minted>>
  BY DeleteNodeTypeOK DEF DeleteNode, IInv
<1>2. /\ DOMAIN pend.nodes = {} /\ DOMAIN pend.ports = {} /\ DOMAIN pend.edges = {}
      /\ pend.delNodes = {} /\ pend.delPorts = {} /\ pend.delEdges = {}
  BY <1>1, MayDeleteAlone
<1>3. ~HasChildren(n) /\ StageRemove({n}, PortsOf(n), IncidentEdges(n), {op})
  BY <1>2 DEF DeleteNode
<1>4. n # NoNode /\ NoPort \notin DOMAIN ports
  BY KernelAssumption DEF IInv, TypeOK, IsMap
<1>5. ASSUME NEW M, NEW Q, NEW F,
             DOMAIN M = DOMAIN nodes \ {n}, \A j \in DOMAIN M : M[j] = nodes[j],
             DOMAIN Q = DOMAIN ports \ PortsOf(n), \A j \in DOMAIN Q : Q[j] = ports[j],
             DOMAIN F = DOMAIN edges \ IncidentEdges(n), \A j \in DOMAIN F : F[j] = edges[j]
      PROVE  Good(M, Q, F)
  <2>1. DOMAIN Q = {q \in DOMAIN ports : ports[q].node # n}
    BY <1>5 DEF PortsOf
  <2>2. DOMAIN F = {e \in DOMAIN edges : edges[e].src # n /\ edges[e].tgt # n}
    BY <1>5 DEF IncidentEdges
  <2>3. \A m \in DOMAIN nodes : nodes[m].parent # n
    BY <1>3 DEF HasChildren
  <2>4. Good(nodes, ports, edges) /\ n \in DOMAIN nodes /\ DOMAIN M = DOMAIN nodes \ {n}
    BY <1>5 DEF IInv
  <2>5. Without(n, nodes, ports, edges, M, Q, F)
    BY <1>5, <2>1, <2>2 DEF Without
  <2> QED BY <1>4, <2>3, <2>4, <2>5, GoodDropNode
<1> HIDE DEF op
<1> QED BY <1>1, <1>2, <1>3, <1>5, RemoveStaged

LEMMA EmptyStaged ==
    ASSUME TypeOK', pend' = EmptyPatch, Good(nodes, ports, edges)'
    PROVE  IInv'
<1>1. /\ DOMAIN pend.nodes' = {} /\ DOMAIN pend.ports' = {} /\ DOMAIN pend.edges' = {}
      /\ pend.delNodes' = {} /\ pend.delPorts' = {} /\ pend.delEdges' = {}
  BY EmptyPatchOK
<1>2. StagedNodes' = nodes' /\ StagedPorts' = ports' /\ StagedEdges' = edges'
  <2>1. /\ nodes' = [i \in DOMAIN nodes' |-> nodes'[i]]
        /\ ports' = [i \in DOMAIN ports' |-> ports'[i]]
        /\ edges' = [i \in DOMAIN edges' |-> edges'[i]]
    BY DEF TypeOK, IsMap
  <2> QED BY <1>1, <2>1 DEF StagedNodes, StagedPorts, StagedEdges, Overlay
<1>3. Good(StagedNodes, StagedPorts, StagedEdges)'
  BY <1>2 DEF Good, RefsIn, MirrorIn, FlowIn, ForestIn, PortNamesIn, EdgesInto
<1> QED BY <1>1, <1>3 DEF IInv, Pure

LEMMA CommitGood ==
    ASSUME IInv, Commit
    PROVE  IInv'
<1>1. TypeOK'
  BY CommitTypeOK DEF IInv
<1>2. nodes' = StagedNodes /\ ports' = StagedPorts /\ edges' = StagedEdges /\ pend' = EmptyPatch
  BY DEF Commit
<1>3. Good(nodes, ports, edges)'
  BY <1>2, GoodDiskPrime DEF IInv
<1> QED BY <1>1, <1>2, <1>3, EmptyStaged

LEMMA RejectGood ==
    ASSUME IInv, Reject
    PROVE  IInv'
<1>1. TypeOK'
  BY RejectTypeOK DEF IInv
<1>2. nodes' = nodes /\ ports' = ports /\ edges' = edges /\ pend' = EmptyPatch
  BY DEF Reject
<1>3. Good(nodes, ports, edges)'
  BY <1>2, GoodDiskPrime DEF IInv
<1> QED BY <1>1, <1>2, <1>3, EmptyStaged

-----------------------------------------------------------------------------
(* The invariant                                                           *)

LEMMA InitGood == Init => IInv
<1> SUFFICES ASSUME Init PROVE IInv
  OBVIOUS
<1>1. TypeOK
  BY InitTypeOK
<1>2. DOMAIN nodes = {} /\ DOMAIN ports = {} /\ DOMAIN edges = {}
  BY EmptyIsMap DEF Init
<1>3. Good(nodes, ports, edges)
  BY <1>2 DEF Good, RefsIn, MirrorIn, FlowIn, ForestIn, PortNamesIn
<1>4. /\ DOMAIN pend.nodes = {} /\ DOMAIN pend.ports = {} /\ DOMAIN pend.edges = {}
      /\ pend.delNodes = {} /\ pend.delPorts = {} /\ pend.delEdges = {}
  BY EmptyPatchOK DEF Init
<1>5. DOMAIN StagedNodes = {} /\ DOMAIN StagedPorts = {} /\ DOMAIN StagedEdges = {}
  BY <1>2, <1>4 DEF StagedNodes, StagedPorts, StagedEdges, Overlay
<1>6. Good(StagedNodes, StagedPorts, StagedEdges)
  BY <1>5 DEF Good, RefsIn, MirrorIn, FlowIn, ForestIn, PortNamesIn
<1> QED BY <1>1, <1>3, <1>4, <1>6 DEF IInv, Pure

LEMMA NextGood ==
    ASSUME Disciplined, IInv, [Next]_vars
    PROVE  IInv'
<1>1. CASE Stage
  <2>1. ASSUME NEW t \in NodeTypes, NEW nm \in Names,
               NEW p \in DOMAIN nodes \cup Created \cup {NoNode}, CreateNode(t, nm, p)
        PROVE  IInv'
    BY <2>1, CreateNodeGood
  <2>2. ASSUME NEW n \in DOMAIN nodes, NEW nm \in PortNames, NEW d \in {"in", "out"},
               CreatePort(n, nm, d)
        PROVE  IInv'
    BY <2>2, CreatePortGood
  <2>3. ASSUME NEW t \in EdgeTypes, NEW s \in DOMAIN nodes \cup Created,
               NEW d \in DOMAIN nodes \cup Created, CreateEdge(t, s, d, NoPort, NoPort)
        PROVE  IInv'
    BY <2>3, CreateEdgeGood
  <2>4. ASSUME NEW t \in EdgeTypes, NEW sp \in DOMAIN ports, NEW dp \in DOMAIN ports,
               CreateEdge(t, ports[sp].node, ports[dp].node, sp, dp)
        PROVE  IInv'
    <3>1. /\ ports[sp].node \in DOMAIN nodes \cup Created
          /\ ports[dp].node \in DOMAIN nodes \cup Created
      BY <2>4 DEF CreateEdge, EdgeOk
    <3> QED BY <2>4, <3>1, CreateEdgeGood
  <2>5. ASSUME NEW n \in DOMAIN nodes, NEW k \in AttrKeys, UpdateNode(n, {k})
        PROVE  IInv'
    BY <2>5, UpdateNodeGood
  <2>6. ASSUME NEW e \in DOMAIN edges, NEW k \in AttrKeys, UpdateEdge(e, {k})
        PROVE  IInv'
    BY <2>6, UpdateEdgeGood
  <2>7. ASSUME NEW n \in DOMAIN nodes, NEW nm \in Names, RenameNode(n, nm)
        PROVE  IInv'
    BY <2>7, RenameNodeGood
  <2>8. ASSUME NEW e \in DOMAIN edges, DeleteEdge(e)
        PROVE  IInv'
    BY <2>8, DeleteEdgeGood
  <2>9. ASSUME NEW n \in DOMAIN nodes, DeleteNode(n)
        PROVE  IInv'
    BY <2>9, DeleteNodeGood
  <2> QED BY <1>1, <2>1, <2>2, <2>3, <2>4, <2>5, <2>6, <2>7, <2>8, <2>9 DEF Stage
<1>2. CASE Commit
  BY <1>2, CommitGood
<1>3. CASE Reject
  BY <1>3, RejectGood
<1>4. CASE UNCHANGED vars
  <2>1. TypeOK'
    BY NextTypeOK DEF IInv
  <2>2. nodes' = nodes /\ ports' = ports /\ edges' = edges /\ pend' = pend
    BY <1>4 DEF vars
  <2>3. Good(nodes, ports, edges)'
    BY <2>2, GoodDiskPrime DEF IInv
  <2>4. StagedNodes' = StagedNodes /\ StagedPorts' = StagedPorts /\ StagedEdges' = StagedEdges
    BY <2>2 DEF StagedNodes, StagedPorts, StagedEdges
  <2>5. Good(StagedNodes, StagedPorts, StagedEdges)'
    BY <2>4, GoodStagedPrime DEF IInv
  <2> QED BY <2>1, <2>2, <2>3, <2>5 DEF IInv, Pure
<1> QED BY <1>1, <1>2, <1>3, <1>4 DEF Next

\* Under the discipline of the in-repo callers the inductive invariant holds:
\* what apply_patch has written, and what it has staged, is a sound graph.
THEOREM Integrity == Disciplined /\ Spec => []IInv
<1>1. Init => IInv
  BY InitGood
<1>2. Disciplined /\ IInv /\ [Next]_vars => IInv'
  BY NextGood
<1> SUFFICES ASSUME Disciplined PROVE Spec => []IInv
  OBVIOUS
<1>3. IInv /\ [Next]_vars => IInv'
  BY <1>2
<1> QED BY <1>1, <1>3, PTL DEF Spec

\* Every reference in the graph files resolves: parents, port owners, edge ends
\* and edge ports (what kernel/doctor.py looks for is never found).
THEOREM IntegrityNoDangling == Disciplined /\ Spec => []NoDangling
<1>1. IInv => NoDangling
  BY DEF IInv, Good, NoDangling
<1> QED BY <1>1, Integrity, PTL

\* Containment is one forest, written twice (create_node writes parent_id and
\* the `contains` edge, delete_edge refuses one of them, delete_node removes
\* both), whatever the patches.
THEOREM IntegrityContainment == Disciplined /\ Spec => []Containment
<1>1. IInv => Containment
  BY DEF IInv, Good, Containment
<1> QED BY <1>1, Integrity, PTL

\* Two ports of a node never share a name, also when one patch creates both.
THEOREM IntegrityPortNames == Disciplined /\ Spec => []PortNamesUnique
<1>1. IInv => PortNamesUnique
  BY DEF IInv, Good, PortNamesUnique
<1> QED BY <1>1, Integrity, PTL

\* A data_flow edge keeps obeying the direction rule validate_edge checked when
\* it was made, whatever later patches do to the nodes and ports at its ends.
THEOREM IntegrityFlow == Disciplined /\ Spec => []FlowLegal
<1>1. IInv => FlowLegal
  BY DEF IInv, Good, FlowLegal
<1> QED BY <1>1, Integrity, PTL
=============================================================================
