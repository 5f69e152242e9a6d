------------------------------- MODULE Kernel -------------------------------
(***************************************************************************)
(* The graph kernel: how one PatchIntent becomes a change of the project   *)
(* graph (kernel/apply.py, kernel/validator.py).                           *)
(*                                                                         *)
(* A patch is a list of operations.  Every operation is checked against    *)
(* the entity files on disk plus what the earlier operations of the same   *)
(* patch have staged (`_Pending`).  When all are accepted the whole patch  *)
(* is written; when any is refused nothing is.  Here one action stages one *)
(* operation, Commit writes the patch and Reject drops it.  This module    *)
(* has a single writer and no crash: module Commit cuts the write into its *)
(* file operations and lets writers race.                                  *)
(*                                                                         *)
(* Selectors (ids, paths, bare names, @ref handles) are abstracted to the  *)
(* entity they resolve to: an entity on disk, or, where the code accepts   *)
(* @ref, a node created earlier in the patch.                              *)
(***************************************************************************)
EXTENDS Naturals, FiniteSets

CONSTANTS
    NodeIds, PortIds, EdgeIds,  \* the ids new_id can mint
    NoNode, NoPort,             \* parent_id = None, source_port_id = None
    NodeTypes,                  \* keys of the node Profiles
    RootTypes,                  \* those that accept parent None
    AcceptsParent,              \* <<child type, parent type>> allow_parents admits
    Endpoints,                  \* edge type -> <<source type, target type>> admitted
    EdgeTypes,                  \* the types callers pass to create_edge
    Names, PortNames,
    AttrKeys,                   \* attribute keys; a merge is their union
    MixedPatches,               \* may a delete share its patch with other ops?
    MaxOps                      \* bound: operations in one patch

ASSUME KernelAssumption ==
    /\ NoNode \notin NodeIds /\ NoPort \notin PortIds
    /\ RootTypes \subseteq NodeTypes
    /\ AcceptsParent \subseteq NodeTypes \X NodeTypes
    /\ EdgeTypes \cup {"contains", "data_flow"} \subseteq DOMAIN Endpoints
    /\ MixedPatches \in BOOLEAN
    /\ MaxOps \in Nat

VARIABLES
    nodes, ports, edges,  \* the entity files: id -> record
    minted,               \* ids of every entity ever committed
    pend                  \* the patch being staged

vars == <<nodes, ports, edges, minted, pend>>
disk == <<nodes, ports, edges>>

-----------------------------------------------------------------------------
(* Records                                                                 *)

Node == [type : NodeTypes, name : Names, parent : NodeIds \cup {NoNode},
         attrs : SUBSET AttrKeys]
Port == [node : NodeIds, name : PortNames, dir : {"in", "out"}]
Edge == [type : DOMAIN Endpoints, src : NodeIds, tgt : NodeIds,
         sport : PortIds \cup {NoPort}, tport : PortIds \cup {NoPort},
         attrs : SUBSET AttrKeys]

OpKinds == {"create_node", "create_port", "create_edge", "update_node",
            "update_edge", "rename_node", "delete_edge", "delete_node"}

\* A canonical op as the event records it: the entity, the node ids carried
\* beside it, the keys or the name it sets, what a delete_node took along.
Op == [kind : OpKinds, id : NodeIds \cup PortIds \cup EdgeIds,
       refs : SUBSET NodeIds, data : SUBSET (AttrKeys \cup Names),
       cascade : SUBSET (PortIds \cup EdgeIds)]

\* nodes, ports and edges are the files the patch saves (new and updated
\* entities alike), del* those it removes; size counts the operations.
EmptyPatch ==
    [nodes |-> <<>>, ports |-> <<>>, edges |-> <<>>,
     delNodes |-> {}, delPorts |-> {}, delEdges |-> {}, ops |-> {}, size |-> 0]

\* The files of `old` after saving those of `new` and removing `dead`.
Overlay(new, old, dead) ==
    [i \in (DOMAIN old \cup DOMAIN new) \ dead |->
        IF i \in DOMAIN new THEN new[i] ELSE old[i]]

Saved(f, i, rec) == Overlay([j \in {i} |-> rec], f, {})

\* What the disk holds once the patch is written.
StagedNodes == Overlay(pend.nodes, nodes, pend.delNodes)
StagedPorts == Overlay(pend.ports, ports, pend.delPorts)
StagedEdges == Overlay(pend.edges, edges, pend.delEdges)

\* Nodes created by this patch; @ref handles name exactly these.
Created == DOMAIN pend.nodes \ DOMAIN nodes
\* (mutant FreshReused) An id of a deleted entity is minted again.
FreshReused(ids) == ids \ (DOMAIN nodes \cup DOMAIN ports \cup DOMAIN edges
        \cup DOMAIN pend.nodes \cup DOMAIN pend.ports \cup DOMAIN pend.edges)
Fresh(ids) ==
    ids \ (minted \cup DOMAIN pend.nodes \cup DOMAIN pend.ports \cup DOMAIN pend.edges)

\* The latest version of a node or an edge: an earlier op of the patch may
\* have staged one, else the file on disk.
\* (mutant LatestOnDisk) A staged version is ignored.
LatestOnDisk(saved, file, i) == IF i \in DOMAIN file THEN file[i] ELSE saved[i]
Latest(saved, file, i) == IF i \in DOMAIN saved THEN saved[i] ELSE file[i]
NodeNow(n) == Latest(pend.nodes, nodes, n)
EdgeNow(e) == Latest(pend.edges, edges, e)

Parents(n) == {n} \ {NoNode}

CanonicalOp(kind, id, refs, data, cascade) ==
    [kind |-> kind, id |-> id, refs |-> refs, data |-> data, cascade |-> cascade]

-----------------------------------------------------------------------------
(* validator.py                                                            *)

\* validate_node: the Profile's allow_parents against the parent's type.
NodeOk(type, parent) ==
    \/ parent = NoNode /\ type \in RootTypes
    \/ /\ parent \in DOMAIN nodes \cup DOMAIN pend.nodes
       /\ <<type, NodeNow(parent).type>> \in AcceptsParent

\* A container's in-port is a source towards its own children, its out-port a
\* sink for them: exactly one containment level.
\* (mutant TunnelAnyLevel) An in-port is a source towards any node.
TunnelAnyLevel(srcId, sdir, tgtParent) == sdir = "in"
TunnelIn(srcId, sdir, tgtParent) == sdir = "in" /\ tgtParent = srcId
TunnelOut(tgtId, tdir, srcParent) == tdir = "out" /\ srcParent = tgtId

\* validate_edge: endpoint Profiles, then the port rules.  N and P are the
\* nodes and ports the endpoints are looked up in.
EdgeOk(e, N, P) ==
    /\ {e.src, e.tgt} \subseteq DOMAIN N
    /\ <<N[e.src].type, N[e.tgt].type>> \in Endpoints[e.type]
    /\ IF e.type = "data_flow"
       THEN /\ e.sport \in DOMAIN P /\ e.tport \in DOMAIN P
            /\ P[e.sport].node = e.src /\ P[e.tport].node = e.tgt
            /\ P[e.sport].dir = "out" \/ TunnelIn(e.src, P[e.sport].dir, N[e.tgt].parent)
            /\ P[e.tport].dir = "in" \/ TunnelOut(e.tgt, P[e.tport].dir, N[e.src].parent)
       ELSE e.sport = NoPort /\ e.tport = NoPort

\* validate_port: the name against the node's ports, on disk and pending.
PortNamesOf(n) ==
    {ports[p].name : p \in {q \in DOMAIN ports : ports[q].node = n}}
      \cup {pend.ports[p].name : p \in {q \in DOMAIN pend.ports : pend.ports[q].node = n}}

-----------------------------------------------------------------------------
(* The operations of apply.py                                              *)

\* Every caller in the repository sends a delete as a patch of one operation;
\* MixedPatches lifts that and allows what apply_patch itself accepts.
MayStage ==
    /\ pend.size < MaxOps
    /\ MixedPatches \/ (pend.delNodes = {} /\ pend.delEdges = {})
MayDelete == pend.size < MaxOps /\ (MixedPatches \/ pend.size = 0)

\* One more op staged: it saves files (the full maps of the patch are given) ...
StageSave(N, P, E, ops) ==
    pend' = [nodes |-> N, ports |-> P, edges |-> E,
             delNodes |-> pend.delNodes, delPorts |-> pend.delPorts,
             delEdges |-> pend.delEdges, ops |-> pend.ops \cup ops, size |-> pend.size + 1]

\* ... or removes some.
StageRemove(N, P, E, ops) ==
    pend' = [nodes |-> pend.nodes, ports |-> pend.ports, edges |-> pend.edges,
             delNodes |-> pend.delNodes \cup N, delPorts |-> pend.delPorts \cup P,
             delEdges |-> pend.delEdges \cup E, ops |-> pend.ops \cup ops,
             size |-> pend.size + 1]

ContainsEdge(parent, child) ==
    [type |-> "contains", src |-> parent, tgt |-> child,
     sport |-> NoPort, tport |-> NoPort, attrs |-> {}]

\* (mutant StageOrphan) The `contains` edge is not dual-written.
StageOrphan(n, rec) ==
    StageSave(Saved(pend.nodes, n, rec), pend.ports, pend.edges,
              {CanonicalOp("create_node", n, {rec.parent}, {}, {})})

\* create_node under a parent also creates the `contains` edge to it.
StageChild(n, rec) ==
    \E e \in Fresh(EdgeIds) :
        /\ <<NodeNow(rec.parent).type, rec.type>> \in Endpoints["contains"]
        /\ StageSave(Saved(pend.nodes, n, rec), pend.ports,
                     Saved(pend.edges, e, ContainsEdge(rec.parent, n)),
                     {CanonicalOp("create_node", n, {rec.parent}, {}, {}),
                      CanonicalOp("create_edge", e, {rec.parent, n}, {}, {})})

CreateNode(type, name, parent) ==
    /\ MayStage
    /\ NodeOk(type, parent)
    /\ \E n \in Fresh(NodeIds) :
          LET rec == [type |-> type, name |-> name, parent |-> parent, attrs |-> {}]
          IN  IF parent = NoNode
              THEN StageSave(Saved(pend.nodes, n, rec), pend.ports, pend.edges,
                             {CanonicalOp("create_node", n, {}, {}, {})})
              ELSE StageChild(n, rec)
    /\ UNCHANGED <<nodes, ports, edges, minted>>

CreatePort(n, name, dir) ==
    /\ MayStage
    /\ name \notin PortNamesOf(n)
    /\ \E p \in Fresh(PortIds) :
          StageSave(pend.nodes,
                    Saved(pend.ports, p, [node |-> n, name |-> name, dir |-> dir]),
                    pend.edges, {CanonicalOp("create_port", p, {n}, {}, {})})
    /\ UNCHANGED <<nodes, ports, edges, minted>>

\* An endpoint is a node (on disk or @ref) or a port on disk and its node.
CreateEdge(type, src, tgt, sport, tport) ==
    LET rec == [type |-> type, src |-> src, tgt |-> tgt,
                sport |-> sport, tport |-> tport, attrs |-> {}]
    IN  /\ MayStage
        /\ EdgeOk(rec, [i \in DOMAIN nodes \cup Created |-> NodeNow(i)], ports)
        /\ \E e \in Fresh(EdgeIds) :
              StageSave(pend.nodes, pend.ports, Saved(pend.edges, e, rec),
                        {CanonicalOp("create_edge", e, {src, tgt}, {}, {})})
        /\ UNCHANGED <<nodes, ports, edges, minted>>

UpdateNode(n, keys) ==
    /\ MayStage
    /\ NodeOk(nodes[n].type, nodes[n].parent)
    /\ StageSave(Saved(pend.nodes, n, [NodeNow(n) EXCEPT !.attrs = @ \cup keys]),
                 pend.ports, pend.edges, {CanonicalOp("update_node", n, {}, keys, {})})
    /\ UNCHANGED <<nodes, ports, edges, minted>>

UpdateEdge(e, keys) ==
    /\ MayStage
    /\ e \notin pend.delEdges
    /\ EdgeOk(EdgeNow(e), nodes, ports)
    /\ StageSave(pend.nodes, pend.ports,
                 Saved(pend.edges, e, [EdgeNow(e) EXCEPT !.attrs = @ \cup keys]),
                 {CanonicalOp("update_edge", e, {EdgeNow(e).src, EdgeNow(e).tgt}, keys, {})})
    /\ UNCHANGED <<nodes, ports, edges, minted>>

\* (mutant SiblingNamesOnDisk) Renames staged by the patch are not overlaid.
SiblingNamesOnDisk(n) ==
    {nodes[s].name : s \in {m \in DOMAIN nodes : m # n /\ nodes[m].parent = nodes[n].parent}}

\* Names the rename check sees under n's parent: files on disk and nodes
\* created by the patch, overlaid with the patch's own renames.
SiblingNames(n) ==
    {NodeNow(s).name : s \in {m \in DOMAIN nodes \cup Created :
                                m # n /\ NodeNow(m).parent = NodeNow(n).parent}}

RenameNode(n, newName) ==
    /\ MayStage
    /\ newName \notin SiblingNames(n)
    /\ StageSave(Saved(pend.nodes, n, [NodeNow(n) EXCEPT !.name = newName]),
                 pend.ports, pend.edges, {CanonicalOp("rename_node", n, {}, {newName}, {})})
    /\ UNCHANGED <<nodes, ports, edges, minted>>


\* delete_edge refuses the edges that back the hierarchy.
Deletable(e) == edges[e].type # "contains"

DeleteEdge(e) ==
    /\ MayDelete
    /\ \/ e \in pend.delEdges /\ StageRemove({}, {}, {}, {})
       \/ /\ e \notin pend.delEdges /\ Deletable(e)
          /\ StageRemove({}, {}, {e},
                 {CanonicalOp("delete_edge", e, {edges[e].src, edges[e].tgt}, {}, {})})
    /\ UNCHANGED <<nodes, ports, edges, minted>>

\* The child count, the ports and the incident edges are those on disk.
HasChildren(n) == \E m \in DOMAIN nodes : nodes[m].parent = n
\* (mutant OutgoingEdges) Edges into the node are left behind.
OutgoingEdges(n) == {e \in DOMAIN edges : edges[e].src = n}
IncidentEdges(n) == {e \in DOMAIN edges : edges[e].src = n \/ edges[e].tgt = n}
PortsOf(n) == {p \in DOMAIN ports : ports[p].node = n}

\* (mutant NoCascade) The op names the node only.
NoCascade(n) == {}
\* What the delete_node op reports beside the node itself.
Cascade(n) == (IncidentEdges(n) \ pend.delEdges) \cup PortsOf(n)

DeleteNode(n) ==
    /\ MayDelete
    /\ \/ n \in pend.delNodes /\ StageRemove({}, {}, {}, {})
       \/ /\ n \notin pend.delNodes /\ ~HasChildren(n)
          /\ StageRemove({n}, PortsOf(n), IncidentEdges(n),
                 {CanonicalOp("delete_node", n, Parents(nodes[n].parent), {}, Cascade(n))})
    /\ UNCHANGED <<nodes, ports, edges, minted>>

\* Every op was accepted: write the patch and record its event.
Commit ==
    /\ pend.size > 0
    /\ nodes' = StagedNodes
    /\ ports' = StagedPorts
    /\ edges' = StagedEdges
    /\ minted' = minted \cup DOMAIN pend.nodes \cup DOMAIN pend.ports \cup DOMAIN pend.edges
    /\ pend' = EmptyPatch

\* Some op was refused (an unknown selector is always possible): no file is
\* touched, and the ids the patch had drawn are never seen.
Reject ==
    /\ pend.size > 0
    /\ pend' = EmptyPatch
    /\ UNCHANGED <<nodes, ports, edges, minted>>

-----------------------------------------------------------------------------
Init ==
    /\ nodes = <<>> /\ ports = <<>> /\ edges = <<>>
    /\ minted = {}
    /\ pend = EmptyPatch

Stage ==
    \/ \E t \in NodeTypes, nm \in Names, p \in DOMAIN nodes \cup Created \cup {NoNode} :
          CreateNode(t, nm, p)
    \/ \E n \in DOMAIN nodes, nm \in PortNames, d \in {"in", "out"} : CreatePort(n, nm, d)
    \/ \E t \in EdgeTypes, s, d \in DOMAIN nodes \cup Created : CreateEdge(t, s, d, NoPort, NoPort)
    \/ \E t \in EdgeTypes, sp, dp \in DOMAIN ports :
          CreateEdge(t, ports[sp].node, ports[dp].node, sp, dp)
    \/ \E n \in DOMAIN nodes, k \in AttrKeys : UpdateNode(n, {k})
    \/ \E e \in DOMAIN edges, k \in AttrKeys : UpdateEdge(e, {k})
    \/ \E n \in DOMAIN nodes, nm \in Names : RenameNode(n, nm)
    \/ \E e \in DOMAIN edges : DeleteEdge(e)
    \/ \E n \in DOMAIN nodes : DeleteNode(n)

Next == Stage \/ Commit \/ Reject

Spec == Init /\ [][Next]_vars
-----------------------------------------------------------------------------
(* server/app.py `_affected`: what the event of a patch tells the canvas to  *)
(* reload.                                                                  *)

\* (mutant AffectedWithoutParent) The container of a deleted node is left out.
AffectedWithoutParent(ops) ==
    {op.id : op \in {o \in ops : o.kind \in {"create_node", "update_node",
                                             "rename_node", "delete_node"}}}
      \cup UNION {op.refs : op \in {o \in ops :
                o.kind \in {"create_edge", "delete_edge", "update_edge", "create_port"}}}
AffectedNodes(ops) ==
    {op.id : op \in {o \in ops : o.kind \in {"create_node", "update_node",
                                             "rename_node", "delete_node"}}}
      \cup UNION {op.refs : op \in {o \in ops :
                o.kind \in {"create_edge", "delete_edge", "update_edge",
                           "delete_node", "create_port"}}}

-----------------------------------------------------------------------------
(* Properties                                                              *)

IsMap(f, ids, recs) == DOMAIN f \subseteq ids /\ f \in [DOMAIN f -> recs]

\* Files hold well-formed records, and an id is never minted twice: what a
\* patch creates was never on disk before.
TypeOK ==
    /\ IsMap(nodes, NodeIds, Node) /\ IsMap(ports, PortIds, Port) /\ IsMap(edges, EdgeIds, Edge)
    /\ minted \subseteq NodeIds \cup PortIds \cup EdgeIds
    /\ DOMAIN nodes \cup DOMAIN ports \cup DOMAIN edges \subseteq minted
    /\ IsMap(pend.nodes, NodeIds, Node) /\ IsMap(pend.ports, PortIds, Port)
    /\ IsMap(pend.edges, EdgeIds, Edge)
    /\ pend.delNodes \subseteq DOMAIN nodes /\ pend.delPorts \subseteq DOMAIN ports
    /\ pend.delEdges \subseteq DOMAIN edges
    /\ Created \cup DOMAIN pend.ports \subseteq (NodeIds \cup PortIds) \ minted
    /\ pend.ops \subseteq Op /\ pend.size \in 0..MaxOps

\* The same four conditions are asked of the disk and, in the proofs, of the
\* staged graph: N, P and E are the nodes, ports and edges of a graph.

RefsIn(N, P, E) ==
    /\ \A n \in DOMAIN N : N[n].parent \in DOMAIN N \cup {NoNode}
    /\ \A p \in DOMAIN P : P[p].node \in DOMAIN N
    /\ \A e \in DOMAIN E :
          /\ E[e].src \in DOMAIN N /\ E[e].tgt \in DOMAIN N
          /\ E[e].sport # NoPort => E[e].sport \in DOMAIN P /\ P[E[e].sport].node = E[e].src
          /\ E[e].tport # NoPort => E[e].tport \in DOMAIN P /\ P[E[e].tport].node = E[e].tgt

\* The `contains` edges into n.
EdgesInto(n, E) == {e \in DOMAIN E : E[e].type = "contains" /\ E[e].tgt = n}

MirrorIn(N, E) ==
    \A n \in DOMAIN N :
        IF N[n].parent = NoNode THEN EdgesInto(n, E) = {}
        ELSE \E e \in DOMAIN E : EdgesInto(n, E) = {e} /\ E[e].src = N[n].parent

FlowIn(N, P, E) ==
    \A e \in DOMAIN E : E[e].type = "data_flow" =>
        /\ E[e].sport \in DOMAIN P /\ E[e].tport \in DOMAIN P
        /\ P[E[e].sport].dir = "out" \/ N[E[e].tgt].parent = E[e].src
        /\ P[E[e].tport].dir = "in" \/ N[E[e].src].parent = E[e].tgt

ForestIn(N) ==
    \A S \in SUBSET DOMAIN N : S # {} => \E n \in S : N[n].parent \notin S

PortNamesIn(P) ==
    \A p, q \in DOMAIN P : p # q /\ P[p].node = P[q].node => P[p].name # P[q].name

\* Referential integrity: a node's parent, a port's node, an edge's ends and
\* ports all exist, and an edge's ports sit on its ends (doctor's dangling
\* checks stay silent), whatever a delete_node takes along.
NoDangling == RefsIn(nodes, ports, edges)

\* Containment is recorded twice and stays one forest: parent_id is exactly the
\* cache of the `contains` edges (doctor's parent_cache_mismatch), and no set of
\* nodes keeps all its parents inside, so every walk up parent_id (paths,
\* scopes, provenance) ends.
Containment == MirrorIn(nodes, edges) /\ ForestIn(nodes)

\* Data flows out of an out-port into an in-port, except across exactly one
\* containment boundary, where it enters by the parent's in-port or leaves by
\* its out-port (doctor's edge_source_direction / edge_target_direction).
FlowLegal == FlowIn(nodes, ports, edges)

\* `/path.name` addresses at most one port of a node, however many ports one
\* patch creates.
PortNamesUnique == PortNamesIn(ports)

\* A rename never takes the name a sibling already on disk ends up with, also
\* when one patch renames several siblings.
RenameNeverCollides ==
    [][\A n, m \in DOMAIN nodes \cap DOMAIN nodes' :
          /\ n # m /\ nodes'[n].parent = nodes'[m].parent
          /\ nodes'[n].name # nodes[n].name
          => nodes'[n].name # nodes'[m].name]_disk

\* Nothing changes on disk that the committed event does not name: the log
\* alone accounts for every entity that came, went or changed.
EventNamesEveryChange ==
    LET named == {op.id : op \in pend.ops} \cup UNION {op.cascade : op \in pend.ops}
        Changed(f, g) == {i \in DOMAIN f \cup DOMAIN g :
                             ~(i \in DOMAIN f /\ i \in DOMAIN g /\ f[i] = g[i])}
    IN  Changed(nodes, nodes') \cup Changed(ports, ports') \cup Changed(edges, edges')
           \subseteq named

\* Two operations of one patch on the same node or edge both take effect: the
\* second starts from the version the first staged.
NoLostUpdate ==
    \A op \in pend.ops :
       /\ op.kind = "update_node" /\ op.id \in DOMAIN nodes' => op.data \subseteq nodes'[op.id].attrs
       /\ op.kind = "update_edge" /\ op.id \in DOMAIN edges' => op.data \subseteq edges'[op.id].attrs
       /\ op.kind = "rename_node" /\ op.id \in DOMAIN nodes' =>
             \E o \in pend.ops : o.kind = "rename_node" /\ o.id = op.id
                                  /\ nodes'[op.id].name \in o.data

\* The event can be trusted as the record of its patch: it leaves nothing out
\* that changed, and nothing it names was lost.
EventIsTheRecord == [][EventNamesEveryChange /\ NoLostUpdate]_disk

\* The canvas reloads every view a patch changes: each node that came, went
\* or changed, and the container it sits in when it came or went.
AffectedCoversNodes ==
    [][LET shown == AffectedNodes(pend.ops)
       IN  /\ \A n \in DOMAIN nodes \ DOMAIN nodes' : {n} \cup Parents(nodes[n].parent) \subseteq shown
           /\ \A n \in DOMAIN nodes' \ DOMAIN nodes : {n} \cup Parents(nodes'[n].parent) \subseteq shown
           /\ \A n \in DOMAIN nodes \cap DOMAIN nodes' : nodes[n] # nodes'[n] => n \in shown
           /\ \A p \in DOMAIN ports' \ DOMAIN ports : ports'[p].node \in shown]_disk
=============================================================================
