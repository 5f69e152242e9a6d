-------------------------------- MODULE Trace --------------------------------
(***************************************************************************)
(* import_model (importer/torch_export.py): one forward pass of a PyTorch  *)
(* model under hooks becomes the data-flow edges between its modules.      *)
(* What forward() does is nondeterministic: it calls modules, computes     *)
(* tensors, in place or not, passes them on and forgets them.  The tracer  *)
(* knows a tensor by its address, which another may have as soon as nobody *)
(* holds the tensor.                                                       *)
(***************************************************************************)
EXTENDS Naturals, FiniteSets, SequencesExt

CONSTANTS
    Modules,             \* fqns of the submodules, as sequences of names
    Addr,                \* id() of tensors
    Input,               \* that of the example input, which lives throughout
    MaxCalls, MaxOps,    \* bounds: calls of modules, aten ops
    MaxTensors           \* bound: tensors passed or returned together

VARIABLES
    phase,     \* where import_model is
    frames,    \* forward() calls in progress: the module, the tensors it holds
    producer,  \* address -> the modules whose output it descends from
    edges,     \* leaf edges <<module, module>>
    exits,     \* <<module, container>>: what became the container's output
    nodes,     \* modules committed
    ported,    \* modules committed with their ports
    drawn,     \* data_flow edges committed
    calls, ops,
    data,      \* (history) tensor -> every module its data came out of
    flows,     \* (history) <<module, port>>: what came out of it reached the port
    looped     \* (history) modules that were given their own output

traced == <<producer, edges, exits>>
committed == <<nodes, ported, drawn>>
vars == <<phase, frames, traced, committed, calls, ops, data, flows, looped>>

Root == <<>>
Fqn == {Root} \cup Modules
Port == Fqn \X {"in", "out"}
Edge == Port \X Port
Phases == {"forward", "nodes", "edges", "imported", "failed"}
Frame == [fqn : Fqn, holds : SUBSET Addr]

ASSUME TraceAssumption ==
    /\ IsFiniteSet(Modules) /\ Root \notin Modules
    /\ \A m \in Modules : m \in Seq(Range(m)) /\ Front(m) \in Fqn
    /\ Input \in Addr
    /\ MaxCalls \in Nat /\ MaxOps \in Nat /\ MaxTensors \in Nat

Inside(m, c) == IsStrictPrefix(c, m)

-----------------------------------------------------------------------------
(* Tensors                                                                 *)

Top == Last(frames)
Held(fs) == {Input} \cup UNION {fs[i].holds : i \in DOMAIN fs}
Some(S) == {T \in SUBSET S : Cardinality(T) <= MaxTensors}
Of(f, T) == UNION {f[t] : t \in T \cap DOMAIN f}
Gets(fs, T) == [fs EXCEPT ![Len(fs)].holds = @ \cup T]
\* _stamp, which does nothing without sources.
Stamp(T, srcs) ==
    IF srcs = {} THEN producer
    ELSE [a \in DOMAIN producer \cup T |-> IF a \in T THEN srcs ELSE producer[a]]
\* weakref.finalize: the entry goes with its tensor.
\* (mutant Keep) Entries stay until their address is stamped again.
Keep(f, fs) == f
Drop(f, fs) == Restrict(f, DOMAIN f \cap Held(fs))

-----------------------------------------------------------------------------
(* The forward pass                                                        *)

\* pre_hook: _emit_for of every tensor of the arguments.
Emitted(m, T) == (Of(producer, T) \ {m}) \X {m}
Call(m, T) ==
    /\ phase = "forward" /\ calls < MaxCalls
    /\ Inside(m, Top.fqn)
    /\ T \in Some(Top.holds)
    /\ edges' = edges \cup Emitted(m, T)
    /\ frames' = Append(frames, [fqn |-> m, holds |-> T])
    /\ calls' = calls + 1
    /\ flows' = flows \cup (Of(data, T) \X {<<m, "in">>})
    /\ looped' = looped \cup (Of(producer, T) \cap {m})
    /\ UNCHANGED <<phase, producer, exits, committed, ops, data>>

\* post_hook: whose tensor leaves, read before the stamp.
\* (mutant StampFirst) Read after it.
StampFirst(c, T) == {}
Leaving(c, T) == {s \in Of(producer, T) : Inside(s, c)} \X {c}
Return(T) ==
    /\ phase = "forward" /\ Len(frames) > 1
    /\ T \in Some(Top.holds)
    /\ LET m == Top.fqn
           rest == Gets(Front(frames), T)
       IN  /\ exits' = exits \cup Leaving(m, T)
           /\ producer' = Drop(Stamp(T, {m}), rest)
           /\ frames' = rest
           /\ data' = Restrict([a \in DOMAIN data \cup T |->
                                    Of(data, {a}) \cup (IF a \in T THEN {m} ELSE {})],
                               Held(rest))
           /\ flows' = flows \cup (Of(data, T) \X {<<m, "out">>})
    /\ UNCHANGED <<phase, edges, committed, calls, ops, looped>>

\* __torch_dispatch__: the result is a new tensor or, in place, an argument.
Op(T, out) ==
    /\ phase = "forward" /\ ops < MaxOps
    /\ T \in Some(Top.holds)
    /\ out \in T \/ out \notin Held(frames)
    /\ producer' = Stamp({out}, Of(producer, T))
    /\ frames' = Gets(frames, {out})
    /\ ops' = ops + 1
    /\ data' = [a \in DOMAIN data \cup {out} |-> IF a = out THEN Of(data, T) ELSE data[a]]
    /\ UNCHANGED <<phase, edges, exits, committed, calls, flows, looped>>
Forget(t) ==
    /\ phase = "forward" /\ t \in Top.holds
    /\ LET fewer == [frames EXCEPT ![Len(frames)].holds = @ \ {t}]
       IN  /\ frames' = fewer
           /\ producer' = Drop(producer, fewer)
           /\ data' = Restrict(data, Held(fewer))
    /\ UNCHANGED <<phase, edges, exits, committed, calls, ops, flows, looped>>

\* The output of the model; what was traced of tensors is not needed any more.
Finish(T) ==
    /\ phase = "forward" /\ Len(frames) = 1
    /\ T \in Some(Top.holds)
    /\ exits' = exits \cup Leaving(Root, T)
    /\ flows' = flows \cup (Of(data, T) \X {<<Root, "out">>})
    /\ phase' = "nodes"
    /\ frames' = <<>> /\ producer' = <<>> /\ data' = <<>>
    /\ calls' = 0 /\ ops' = 0
    /\ UNCHANGED <<edges, committed, looped>>

-----------------------------------------------------------------------------
(* From leaf edges to edges of the graph                                   *)

\* (mutant OneJump) One edge, however many levels.
OneJump(ancestor, descendant) ==
    IF Inside(descendant, ancestor) THEN {<<ancestor, descendant>>} ELSE {}
ChainPairs(ancestor, descendant) ==
    IF Inside(descendant, ancestor)
    THEN {<<SubSeq(descendant, 1, i), SubSeq(descendant, 1, i + 1)>> :
            i \in Len(ancestor)..(Len(descendant) - 1)}
    ELSE {}
\* Neither is an ancestor of the other: the edges that are rolled up.
Diverge(e) == ~IsPrefix(e[1], e[2]) /\ ~IsPrefix(e[2], e[1])
DivergingAncestors(e) ==
    LET i == CHOOSE k \in 1..Len(e[1]) :
                e[1][k] # e[2][k] /\ SubSeq(e[1], 1, k - 1) = SubSeq(e[2], 1, k - 1)
    IN  <<SubSeq(e[1], 1, i), SubSeq(e[2], 1, i)>>

Across == {e \in edges : Diverge(e)}
Entering == {e \in edges : e[1] = Root}
Join(pairs, out, in) == {<<<<p[1], out>>, <<p[2], in>>>> : p \in pairs}
PeerEdges == Join({DivergingAncestors(e) : e \in Across}, "out", "in")
TunnelIn ==
    Join((UNION {ChainPairs(Root, e[2]) : e \in Entering})
            \cup UNION {ChainPairs(DivergingAncestors(e)[2], e[2]) : e \in Across},
         "in", "in")
TunnelOut ==
    Join({<<p[2], p[1]>> : p \in UNION {ChainPairs(x[2], x[1]) : x \in exits}}, "out", "out")

-----------------------------------------------------------------------------
(* The patches, one for each node, its ports and each edge                 *)

\* validate_edge: from an out port to an in port, or through the ports of a
\* container, one level deep.
LegalFlow(e) ==
    \/ e[1][2] = "out" /\ e[2][2] = "in"
    \/ e[1][2] = "in" /\ e[2][2] = "in" /\ e[2][1] # Root /\ Front(e[2][1]) = e[1][1]
    \/ e[1][2] = "out" /\ e[2][2] = "out" /\ e[1][1] # Root /\ Front(e[1][1]) = e[2][1]
Accepted(e) == {e[1][1], e[2][1]} \subseteq ported /\ LegalFlow(e)

\* Parents before children, nodes before ports.
Shallowest(ms) == CHOOSE m \in ms : \A x \in ms : Len(m) <= Len(x)
CommitNode ==
    /\ phase = "nodes" /\ nodes = ported /\ Fqn \ nodes # {}
    /\ nodes' = nodes \cup {Shallowest(Fqn \ nodes)}
    /\ UNCHANGED <<phase, frames, traced, ported, drawn, calls, ops, data, flows, looped>>
CommitPorts ==
    /\ phase = "nodes" /\ nodes # ported
    /\ ported' = nodes
    /\ UNCHANGED <<phase, frames, traced, nodes, drawn, calls, ops, data, flows, looped>>
NodesDone ==
    /\ phase = "nodes" /\ ported = Fqn
    /\ phase' = "edges"
    /\ UNCHANGED <<frames, traced, committed, calls, ops, data, flows, looped>>
\* Peers, then tunnels in, then tunnels out, each in a fixed order.
Todo ==
    LET left == <<PeerEdges \ drawn, TunnelIn \ drawn, TunnelOut \ drawn>>
    IN  IF left[1] # {} THEN left[1] ELSE IF left[2] # {} THEN left[2] ELSE left[3]
CommitEdge ==
    /\ phase = "edges" /\ Todo # {}
    /\ LET e == CHOOSE x \in Todo : TRUE
       IN  Accepted(e) /\ drawn' = drawn \cup {e}
    /\ UNCHANGED <<phase, frames, traced, nodes, ported, calls, ops, data, flows, looped>>
Imported ==
    /\ phase = "edges" /\ Todo = {}
    /\ phase' = "imported"
    /\ UNCHANGED <<frames, traced, committed, calls, ops, data, flows, looped>>
\* forward() raises, or another commit comes between the version a patch is
\* based on and the patch: what is committed stays, what was traced is gone.
Fails ==
    /\ phase \notin {"imported", "failed"}
    /\ phase' = "failed"
    /\ frames' = <<>> /\ producer' = <<>> /\ edges' = {} /\ exits' = {}
    /\ calls' = 0 /\ ops' = 0
    /\ data' = <<>> /\ looped' = {}
    /\ flows' = IF drawn = {} THEN {} ELSE flows
    /\ UNCHANGED committed

-----------------------------------------------------------------------------
\* Without an example input there is no forward pass (structure only).
Init ==
    /\ phase \in {"forward", "nodes"}
    /\ frames = IF phase = "forward" THEN <<[fqn |-> Root, holds |-> {Input}]>> ELSE <<>>
    /\ producer = IF phase = "forward" THEN [a \in {Input} |-> {Root}] ELSE <<>>
    /\ data = producer
    /\ edges = {} /\ exits = {} /\ nodes = {} /\ ported = {} /\ drawn = {}
    /\ calls = 0 /\ ops = 0
    /\ flows = {} /\ looped = {}

Forward ==
    \/ \E m \in Modules, T \in SUBSET Addr : Call(m, T)
    \/ \E T \in SUBSET Addr : Return(T) \/ Finish(T)
    \/ \E T \in SUBSET Addr, out \in Addr : Op(T, out)
    \/ \E t \in Addr : Forget(t)
Commit == CommitNode \/ CommitPorts \/ NodesDone \/ CommitEdge \/ Imported
Next == Forward \/ Commit \/ Fails
Spec == Init /\ [][Next]_vars

-----------------------------------------------------------------------------
(* Only live tensors have producers, of what is or was called; ports follow *)
(* their node and edges their ports.                                        *)
TypeOK ==
    /\ phase \in Phases
    /\ frames \in Seq(Frame)
    /\ DOMAIN producer \subseteq Addr /\ \A a \in DOMAIN producer : producer[a] \in (SUBSET Fqn) \ {{}}
    /\ phase = "forward" => DOMAIN producer \subseteq Held(frames)
    /\ edges \subseteq Fqn \X Modules /\ exits \subseteq Modules \X Fqn
    /\ nodes \subseteq Fqn /\ ported \subseteq nodes /\ drawn \subseteq Edge
    /\ calls \in 0..MaxCalls /\ ops \in 0..MaxOps
    /\ DOMAIN data \subseteq Addr /\ flows \subseteq Fqn \X Port /\ looped \subseteq Modules

Within(m, c) == IsPrefix(c, m)
\* Some data crossed: from inside the source, or from outside a container whose
\* in port it is; to the inside of the target, or out of a container.
Witnessed(e) ==
    \E f \in flows :
        /\ \/ e[1][2] = "out" /\ Within(f[1], e[1][1])
           \/ e[1][2] = "in" /\ (f[1] = Root \/ ~Within(f[1], e[1][1]))
        /\ f[2][2] = e[2][2]
        /\ \/ e[2][2] = "in" /\ Within(f[2][1], e[2][1])
           \/ e[2][2] = "out" /\ Within(e[2][1], f[2][1])
(* What is drawn happened: every edge, at every moment and wherever the     *)
(* import fails, is one some data took in the forward pass, whatever        *)
(* addresses were used again (_run_forward_trace), ends at ports that are   *)
(* there, and is one the kernel accepts (_chain_pairs: "the kernel's tunnel *)
(* rule accepts exactly one level per edge").                               *)
DrawnIsReal ==
    /\ edges \subseteq {<<f[1], f[2][1]>> : f \in flows}
    /\ \A e \in drawn : Accepted(e) /\ Witnessed(e)
    /\ phase = "edges" /\ Todo # {} => \A e \in Todo : Accepted(e)

\* Where the drawing is silent: a module's loop to itself, edges between a
\* container and its inside, and what left a container without being returned.
Silent ==
    {<<<<m, "out">>, <<m, "in">>>> : m \in looped}
    \cup {<<<<e[1], "out">>, <<e[2], "in">>>> : e \in edges \ (Across \cup Entering)}
    \cup UNION {{<<<<e[1], "out">>, <<c, "out">>>> :
                    c \in {x \in Modules : Inside(e[1], x) /\ ~Within(e[2], x)}} : e \in edges}
Links ==
    drawn \cup {<<<<m, "in">>, <<m, "out">>>> : m \in Fqn} \cup Silent
Reach(p) ==
    LET from[n \in 0..Cardinality(Port)] ==
            IF n = 0 THEN {p}
            ELSE LET S == from[n - 1] IN S \cup {l[2] : l \in {x \in Links : x[1] \in S}}
    IN  from[Cardinality(Port)]
RootSide(s) == <<s, IF s = Root THEN "in" ELSE "out">>
(* What happened is drawn: all data that reached a module, or left one, is  *)
(* joined by drawn edges to the module it came out of, through the modules  *)
(* on its way and the brackets of the containers it crossed (import_model,  *)
(* docs/frontend.md: "entering any container, the input bracket is joined   *)
(* to the first consumer, the output bracket to the producer"), with the    *)
(* exceptions of Silent.                                                    *)
FlowsAreDrawn ==
    phase = "imported" =>
        \A f \in flows : f[2] \in Reach(RootSide(f[1]))
=============================================================================
