------------------------------ MODULE Registry ------------------------------
(***************************************************************************)
(* Registry.build (registry/profiles.py): the declarations of the trusted  *)
(* packages become one registry, or the start of the program fails.        *)
(* Aliases are resolved kind by kind, then node profiles, edge profiles,   *)
(* templates and actions.  visit() of aliases and of profiles is recursive *)
(* with a memo; its call stack is the variable stack, and one step is one  *)
(* call or one return.                                                     *)
(***************************************************************************)
EXTENDS Integers, SequencesExt

CONSTANTS
    Name,     \* keys, aliases and references; numbers, for the loops go in sorted order
    None,
    ANY,      \* the wildcard of parents and endpoints
    Root,     \* in allow_parents: the profile may have no parent
    Untrimmed,    \* names that are empty or have spaces around them
    Inputs    \* the declarations of the packages, in the order they are read

VARIABLES
    input,    \* what is built
    phase,    \* where build is
    at,       \* the declaration to register next
    decl,     \* kind -> key -> declaration
    alias,    \* kind -> alias -> canonical key, as far as resolved
    stack,    \* visit(): the calls in progress
    node,     \* resolved node profiles
    edge,     \* resolved edge profiles
    template  \* resolved templates

vars == <<input, phase, at, decl, alias, stack, node, edge, template>>

Opt(S) == {None} \cup S
Side == {"source", "target"}
PortDirection == {"in", "out"}
ExecutorFamily == {"GraphCommand", "SessionCommand", "ProjectionCommand"}
ProfileKind == {"node", "edge", "port"}

\* What the packages declare.  capabilities stands for tags and attribute
\* names too, which unite alike; presentation for closed_attrs, inherited alike.
NodeProfileSpec ==
    [extends : Opt(Name), capabilities : SUBSET Name, validator : Opt(Name),
     presentation : Opt(Name), allow_parents : Opt(SUBSET (Name \cup {ANY, Root}))]
EdgeProfileSpec ==
    [extends : Opt(Name), capabilities : SUBSET Name, validator : Opt(Name),
     presentation : Opt(Name), profiles : [Side -> Opt(SUBSET (Name \cup {ANY}))],
     required : [Side -> SUBSET Name], needs_ports : Opt(BOOLEAN),
     direction : [Side -> Opt(PortDirection)]]
CapabilityConsumer == {"validation", "action", "context", "presentation"}
CapabilitySpec == [consumers : SUBSET CapabilityConsumer]
TemplateSpec == [profile : Name, ports : SUBSET Name, json : BOOLEAN]    \* its default_attrs
ActionSpec == [capabilities : SUBSET Name, executor : Name, family : ExecutorFamily]
Plain == {"package", "port", "presentation", "validator"}    \* a key says it all

Body ==
    [capability |-> CapabilitySpec, node |-> NodeProfileSpec, edge |-> EdgeProfileSpec,
     template |-> TemplateSpec, executor |-> ExecutorFamily, action |-> ActionSpec,
     package |-> {None}, port |-> {None}, presentation |-> {None}, validator |-> {None}]
Kinds == DOMAIN Body
AliasSpec == [of : ProfileKind, target : Name]
Declaration(d) ==
    /\ DOMAIN d = {"kind", "key", "body"} /\ d.key \in Name
    /\ IF d.kind = "alias" THEN d.body \in AliasSpec
       ELSE d.kind \in Kinds /\ d.body \in Body[d.kind]
Packages(s) == s \in Seq(Range(s)) /\ \A d \in Range(s) : Declaration(d)

\* What build makes of a profile.
ResolvedNode ==
    [lineage : Seq(Name), capabilities : SUBSET Name, validator_chain : Seq(Name),
     presentation : Opt(Name), allow_parents : SUBSET (Name \cup {ANY, Root})]
ResolvedEdge ==
    [lineage : Seq(Name), capabilities : SUBSET Name, validator_chain : Seq(Name),
     presentation : Opt(Name), profiles : [Side -> SUBSET (Name \cup {ANY})],
     required : [Side -> SUBSET Name], needs_ports : BOOLEAN,
     direction : [Side -> Opt(PortDirection)]]

ASSUME RegistryAssumption ==
    /\ Name \subseteq Nat /\ Untrimmed \subseteq Name
    /\ \A s \in Inputs : Packages(s)
    /\ {None, ANY, Root} \cap Name = {} /\ ANY # Root
    /\ \A names \in SUBSET (Name \cup {ANY, Root}) : names # None

Sequel ==
    [register |-> "node_aliases", node_aliases |-> "edge_aliases",
     edge_aliases |-> "port_aliases", port_aliases |-> "nodes", nodes |-> "edges",
     edges |-> "templates", templates |-> "actions", actions |-> "built"]
Phases == DOMAIN Sequel \cup {"built", "failed"}
AliasesOf == [node_aliases |-> "node", edge_aliases |-> "edge", port_aliases |-> "port"]

Keys(kind) == DOMAIN decl[kind]
With(f, k, v) == [x \in DOMAIN f \cup {k} |-> IF x = k THEN v ELSE f[x]]
Top == Last(stack)
\* (mutant NeverOnStack) The search for a cycle is left out.
NeverOnStack(n) == FALSE
OnStack(n) == Contains(stack, n)
Pop == Front(stack)

Advance ==
    /\ phase' = Sequel[phase]
    /\ UNCHANGED <<input, at, decl, alias, stack, node, edge, template>>
RegistryBuildError ==
    /\ phase' = "failed"
    /\ UNCHANGED <<input, at, decl, alias, stack, node, edge, template>>
Call(n) ==
    /\ stack' = Append(stack, n)
    /\ UNCHANGED <<input, phase, at, decl, alias, node, edge, template>>

-----------------------------------------------------------------------------
\* _require_key and the other checks a declaration is made with.  A reference to
\* an untrimmed name would be refused too: no declaration can have that key.
Accepted(d) ==
    /\ d.key \notin Untrimmed
    /\ d.kind = "capability" => d.body.consumers # {}
\* Registering: a second declaration of a key is an error, whatever package it
\* comes from.  Aliases are listed and looked at later.
Register ==
    /\ phase = "register" /\ at <= Len(input)
    /\ LET d == input[at] IN
       \/ /\ ~Accepted(d)
          /\ RegistryBuildError
       \/ /\ Accepted(d) /\ d.kind = "alias"
          /\ at' = at + 1
          /\ UNCHANGED <<input, phase, decl, alias, stack, node, edge, template>>
       \/ /\ Accepted(d) /\ d.kind # "alias" /\ d.key \notin Keys(d.kind)
          /\ decl' = [decl EXCEPT ![d.kind] = With(@, d.key, d.body)]
          /\ at' = at + 1
          /\ UNCHANGED <<input, phase, alias, stack, node, edge, template>>
       \/ /\ Accepted(d) /\ d.kind # "alias" /\ d.key \in Keys(d.kind)
          /\ RegistryBuildError
Registered == phase = "register" /\ at > Len(input) /\ Advance

-----------------------------------------------------------------------------
\* _resolve_aliases.
Aliases(kind) == {i \in DOMAIN input : input[i].kind = "alias" /\ input[i].body.of = kind}
Aliased(kind) == {input[i].key : i \in Aliases(kind)}
RawTarget(kind, a) == input[CHOOSE i \in Aliases(kind) : input[i].key = a].body.target
Clash(kind) ==
    \/ Aliased(kind) \cap Keys(kind) # {}
    \/ \E i, j \in Aliases(kind) : i # j /\ input[i].key = input[j].key

Resolving(kind) == phase \in DOMAIN AliasesOf /\ AliasesOf[phase] = kind
PendingAliases(kind) == Aliased(kind) \ DOMAIN alias[kind]

AliasesClash(kind) == Resolving(kind) /\ Clash(kind) /\ RegistryBuildError
StartAlias(kind) ==
    /\ Resolving(kind) /\ ~Clash(kind)
    /\ stack = <<>> /\ PendingAliases(kind) # {}
    /\ Call(Min(PendingAliases(kind)))
\* (mutant KnownIfAlias) An alias counts before it is resolved.
KnownIfAlias(kind, n) == n \in Keys(kind) \cup Aliased(kind)
Known(kind, n) == n \in Keys(kind) \cup DOMAIN alias[kind]
canonical(kind, n) == IF n \in DOMAIN alias[kind] THEN alias[kind][n] ELSE n
VisitAlias(kind) ==
    /\ Resolving(kind) /\ stack # <<>>
    /\ LET target == RawTarget(kind, Top) IN
       \/ /\ Known(kind, target)
          /\ alias' = [alias EXCEPT ![kind] = With(@, Top, canonical(kind, target))]
          /\ stack' = Pop
          /\ UNCHANGED <<input, phase, at, decl, node, edge, template>>
       \/ /\ ~Known(kind, target) /\ target \in Aliased(kind) /\ ~OnStack(target)
          /\ Call(target)
       \/ /\ ~Known(kind, target) /\ (target \notin Aliased(kind) \/ OnStack(target))
          /\ RegistryBuildError
AliasesDone(kind) ==
    /\ Resolving(kind) /\ ~Clash(kind)
    /\ stack = <<>> /\ PendingAliases(kind) = {}
    /\ Advance

-----------------------------------------------------------------------------
\* _resolve_nodes and _resolve_edges.  A profile without a base extends these.
NodeBase ==
    [lineage |-> <<>>, capabilities |-> {}, validator_chain |-> <<>>, presentation |-> None,
     allow_parents |-> {}]
EdgeBase ==
    [lineage |-> <<>>, capabilities |-> {}, validator_chain |-> <<>>, presentation |-> None,
     profiles |-> [s \in Side |-> {ANY}], required |-> [s \in Side |-> {}],
     needs_ports |-> FALSE, direction |-> [s \in Side |-> None]]

\* (mutant BaseFirst) The base wins over the profile's own declaration.
BaseFirst(own, inherited) == IF inherited = None THEN own ELSE inherited
Override(own, inherited) == IF own = None THEN inherited ELSE own
Chain(inherited, own) == IF own = None THEN inherited ELSE Append(inherited, own)
Canonical(names) == {canonical("node", n) : n \in names}

ResolveNode(key, spec, base) ==
    [lineage |-> Append(base.lineage, key),
     capabilities |-> base.capabilities \cup spec.capabilities,
     validator_chain |-> Chain(base.validator_chain, spec.validator),
     presentation |-> Override(spec.presentation, base.presentation),
     allow_parents |-> Canonical(Override(spec.allow_parents, base.allow_parents))]
ResolveEdge(key, spec, base) ==
    [lineage |-> Append(base.lineage, key),
     capabilities |-> base.capabilities \cup spec.capabilities,
     validator_chain |-> Chain(base.validator_chain, spec.validator),
     presentation |-> Override(spec.presentation, base.presentation),
     profiles |-> [s \in Side |-> Canonical(Override(spec.profiles[s], base.profiles[s]))],
     required |-> [s \in Side |-> base.required[s] \cup spec.required[s]],
     needs_ports |-> Override(spec.needs_ports, base.needs_ports),
     direction |-> [s \in Side |-> Override(spec.direction[s], base.direction[s])]]

\* The checks of visit(), on the declaration and on what it resolves to.
PartsKnown(spec, item) ==
    /\ spec.capabilities \subseteq Keys("capability")
    /\ spec.validator \in Opt(Keys("validator"))
    /\ item.presentation \in Opt(Keys("presentation"))
NodeOk(spec, item) ==
    /\ PartsKnown(spec, item)
    /\ item.allow_parents \subseteq Keys("node") \cup {ANY, Root}
EndpointProfilesKnown(item) ==
    \A s \in Side : item.profiles[s] \subseteq DOMAIN node \cup {ANY}
EdgeOk(spec, item) ==
    /\ PartsKnown(spec, item)
    /\ \A s \in Side : spec.required[s] \subseteq Keys("capability")
    /\ EndpointProfilesKnown(item)
    /\ \A s \in Side : item.needs_ports <=> item.direction[s] # None

\* One call of visit(), for node and edge profiles alike: done are the profiles
\* already resolved, item what the one on top resolves to.
StartProfile(kind, done) ==
    /\ stack = <<>> /\ Keys(kind) # DOMAIN done
    /\ Call(Min(Keys(kind) \ DOMAIN done))
\* (mutant BaseAsWritten) A base given by an alias is not looked up.
BaseAsWritten(kind, key) == decl[kind][key].extends
BaseKey(kind, key) ==
    LET extends == decl[kind][key].extends
    IN  IF extends = None THEN None ELSE canonical(kind, extends)
BaseReady(kind, done) == BaseKey(kind, Top) \in Opt(DOMAIN done)
VisitBase(kind, done) ==
    /\ stack # <<>> /\ ~BaseReady(kind, done)
    /\ LET base == BaseKey(kind, Top) IN
       \/ base \in Keys(kind) /\ ~OnStack(base) /\ Call(base)
       \/ (base \notin Keys(kind) \/ OnStack(base)) /\ RegistryBuildError
ProfilesDone(kind, done) == stack = <<>> /\ Keys(kind) = DOMAIN done /\ Advance

NodeItem ==
    LET base == BaseKey("node", Top)
    IN  ResolveNode(Top, decl["node"][Top], IF base = None THEN NodeBase ELSE node[base])
FinishNode ==
    /\ stack # <<>> /\ BaseReady("node", node)
    /\ \/ /\ NodeOk(decl["node"][Top], NodeItem)
          /\ node' = With(node, Top, NodeItem)
          /\ stack' = Pop
          /\ UNCHANGED <<input, phase, at, decl, alias, edge, template>>
       \/ /\ ~NodeOk(decl["node"][Top], NodeItem)
          /\ RegistryBuildError
ResolveNodes ==
    /\ phase = "nodes"
    /\ \/ StartProfile("node", node)
       \/ VisitBase("node", node)
       \/ FinishNode
       \/ ProfilesDone("node", node)

EdgeItem ==
    LET base == BaseKey("edge", Top)
    IN  ResolveEdge(Top, decl["edge"][Top], IF base = None THEN EdgeBase ELSE edge[base])
FinishEdge ==
    /\ stack # <<>> /\ BaseReady("edge", edge)
    /\ \/ /\ EdgeOk(decl["edge"][Top], EdgeItem)
          /\ edge' = With(edge, Top, EdgeItem)
          /\ stack' = Pop
          /\ UNCHANGED <<input, phase, at, decl, alias, node, template>>
       \/ /\ ~EdgeOk(decl["edge"][Top], EdgeItem)
          /\ RegistryBuildError
ResolveEdges ==
    /\ phase = "edges"
    /\ \/ StartProfile("edge", edge)
       \/ VisitBase("edge", edge)
       \/ FinishEdge
       \/ ProfilesDone("edge", edge)

-----------------------------------------------------------------------------
\* _resolve_templates, and _validate_actions with the descriptor: loops without
\* calls, one step each.
TemplateOk(spec) ==
    /\ canonical("node", spec.profile) \in DOMAIN node
    /\ \A p \in spec.ports : canonical("port", p) \in Keys("port")
ResolveTemplate(spec) ==
    [spec EXCEPT !.profile = canonical("node", @), !.ports = {canonical("port", p) : p \in @}]
ResolveTemplates ==
    /\ phase = "templates"
    /\ \/ /\ \A t \in Keys("template") : TemplateOk(decl["template"][t])
          /\ template' = [t \in Keys("template") |-> ResolveTemplate(decl["template"][t])]
          /\ phase' = Sequel[phase]
          /\ UNCHANGED <<input, at, decl, alias, stack, node, edge>>
       \/ /\ \E t \in Keys("template") : ~TemplateOk(decl["template"][t])
          /\ RegistryBuildError

ActionOk(spec) ==
    /\ spec.capabilities \subseteq Keys("capability")
    /\ \A c \in spec.capabilities : "action" \in decl["capability"][c].consumers
    /\ spec.executor \in Keys("executor")
    /\ decl["executor"][spec.executor] = spec.family
Describable == \A t \in Keys("template") : template[t].json
Finishable == (\A a \in Keys("action") : ActionOk(decl["action"][a])) /\ Describable
Finish ==
    /\ phase = "actions"
    /\ \/ Finishable /\ Advance
       \/ ~Finishable /\ RegistryBuildError

\* Lookups in a registry that is built.
resolve_key(kind, n) == IF n \in Keys(kind) THEN n
                        ELSE IF n \in DOMAIN alias[kind] THEN alias[kind][n] ELSE None

-----------------------------------------------------------------------------
Init ==
    /\ input \in Inputs
    /\ phase = "register" /\ at = 1
    /\ decl = [k \in Kinds |-> <<>>]
    /\ alias = [k \in ProfileKind |-> <<>>]
    /\ stack = <<>> /\ node = <<>> /\ edge = <<>> /\ template = <<>>

ResolveAliases ==
    \E kind \in ProfileKind :
        AliasesClash(kind) \/ StartAlias(kind) \/ VisitAlias(kind) \/ AliasesDone(kind)

Next ==
    \/ Register \/ Registered \/ ResolveAliases
    \/ ResolveNodes \/ ResolveEdges \/ ResolveTemplates \/ Finish

Spec == Init /\ [][Next]_vars
Fairness == WF_vars(Next)    \* build runs on until it returns or raises
FairSpec == Spec /\ Fairness

-----------------------------------------------------------------------------
PartialTo(f, D, R) == DOMAIN f \subseteq D /\ \A k \in DOMAIN f : f[k] \in R

(* Declarations, aliases and profiles are of their kind, and only declared  *)
(* names are resolved (the dicts of Registry.build).                        *)
TypeOK ==
    /\ Packages(input) /\ phase \in Phases /\ at \in 1..(Len(input) + 1)
    /\ DOMAIN decl = Kinds /\ \A k \in Kinds : PartialTo(decl[k], Name, Body[k])
    /\ DOMAIN alias = ProfileKind
    /\ \A k \in ProfileKind : PartialTo(alias[k], Aliased(k), Keys(k))
    /\ stack \in Seq(Name)
    /\ PartialTo(node, Keys("node"), ResolvedNode)
    /\ PartialTo(edge, Keys("edge"), ResolvedEdge)
    /\ PartialTo(template, Keys("template"), TemplateSpec)

\* The lineage of a profile, root first, follows the declarations.
Ancestry(kind, key, lineage) ==
    /\ lineage # <<>> /\ Last(lineage) = key
    /\ \A i \in DOMAIN lineage :
        /\ lineage[i] \in Keys(kind)
        /\ BaseKey(kind, lineage[i]) = IF i = 1 THEN None ELSE lineage[i - 1]
\* v is the value of a field that derived profiles override: the nearest
\* declaration of it.
Inherits(v, lineage, own, default) ==
    \/ \E i \in DOMAIN lineage :
        /\ own[lineage[i]] # None /\ v = own[lineage[i]]
        /\ \A j \in DOMAIN lineage : j > i => own[lineage[j]] = None
    \/ (\A i \in DOMAIN lineage : own[lineage[i]] = None) /\ v = default
\* chain holds what the lineage declares of a field that adds up, root first.
Accumulates(chain, lineage, own) ==
    \E place \in [DOMAIN chain -> DOMAIN lineage] :
        /\ \A i, j \in DOMAIN chain : i < j => place[i] < place[j]
        /\ \A i \in DOMAIN chain : chain[i] = own[lineage[place[i]]]
        /\ Range(place) = {p \in DOMAIN lineage : own[lineage[p]] # None}
Written(names) == IF names = None THEN None ELSE Canonical(names)

NodeInherits(k, item) ==
    LET spec == decl["node"]
    IN  /\ Ancestry("node", k, item.lineage)
        /\ item.capabilities =
            UNION {spec[item.lineage[i]].capabilities : i \in DOMAIN item.lineage}
        /\ Inherits(item.allow_parents, item.lineage,
                    [n \in DOMAIN spec |-> Written(spec[n].allow_parents)], {})
        /\ Inherits(item.presentation, item.lineage,
                    [n \in DOMAIN spec |-> spec[n].presentation], None)
        /\ Accumulates(item.validator_chain, item.lineage,
                       [n \in DOMAIN spec |-> spec[n].validator])
EdgeInherits(k, item) ==
    LET spec == decl["edge"]
    IN  /\ Ancestry("edge", k, item.lineage)
        /\ item.capabilities =
            UNION {spec[item.lineage[i]].capabilities : i \in DOMAIN item.lineage}
        /\ Inherits(item.presentation, item.lineage,
                    [n \in DOMAIN spec |-> spec[n].presentation], None)
        /\ Accumulates(item.validator_chain, item.lineage,
                       [n \in DOMAIN spec |-> spec[n].validator])
        /\ Inherits(item.needs_ports, item.lineage,
                    [n \in DOMAIN spec |-> spec[n].needs_ports], FALSE)
        /\ \A s \in Side :
            /\ item.required[s] =
                UNION {spec[item.lineage[i]].required[s] : i \in DOMAIN item.lineage}
            /\ Inherits(item.profiles[s], item.lineage,
                        [n \in DOMAIN spec |-> Written(spec[n].profiles[s])], {ANY})
            /\ Inherits(item.direction[s], item.lineage,
                        [n \in DOMAIN spec |-> spec[n].direction[s]], None)

(* Single inheritance: however deep the recursion and in whatever order the *)
(* profiles are visited, a resolved profile is its ancestry, flattened: the *)
(* capabilities (and tags) of its whole lineage, for an edge the ones it    *)
(* requires at either end too; every validator of the lineage, root first,  *)
(* each in its place; and of every other field the declaration nearest to   *)
(* it, or the default.  ("resolved model has the fields, constraints and    *)
(* capabilities of component".)                                             *)
ResolvedIsInherited ==
    /\ \A k \in DOMAIN node : NodeInherits(k, node[k])
    /\ \A k \in DOMAIN edge : EdgeInherits(k, edge[k])

\* Every lookup ends at a profile, and what profiles and templates name is there.
NothingDangles ==
    phase = "built" =>
        /\ \A n \in Keys("node") \cup Aliased("node") : resolve_key("node", n) \in DOMAIN node
        /\ \A n \in Keys("edge") \cup Aliased("edge") : resolve_key("edge", n) \in DOMAIN edge
        /\ \A n \in Keys("port") \cup Aliased("port") : resolve_key("port", n) \in Keys("port")
        /\ \A k \in DOMAIN node : node[k].allow_parents \subseteq DOMAIN node \cup {ANY, Root}
        /\ \A k \in DOMAIN node : node[k].capabilities \subseteq Keys("capability")
        /\ \A k \in DOMAIN edge, s \in Side :
            /\ edge[k].profiles[s] \subseteq DOMAIN node \cup {ANY}
            /\ edge[k].required[s] \subseteq Keys("capability")
        /\ \A t \in Keys("template") :
            template[t].profile \in DOMAIN node /\ template[t].ports \subseteq Keys("port")

-----------------------------------------------------------------------------
\* The rules of the registry specification, stated of the packages alone.
Given(kind) == {i \in DOMAIN input : input[i].kind = kind}
Declared(kind) == {input[i].key : i \in Given(kind)}
SpecOf(kind, k) == input[CHOOSE i \in Given(kind) : input[i].key = k].body
NamesTrimmed == \A i \in DOMAIN input : input[i].key \notin Untrimmed
NoDuplicate ==
    \A kind \in Kinds : \A i, j \in Given(kind) : input[i].key = input[j].key => i = j
\* Every set of names with a step out of it: chains of such steps end.
Leads(names, To(_)) == \A S \in SUBSET names : S # {} => \E n \in S : To(n) \notin S
AliasesLead(kind) ==
    LET target(a) == RawTarget(kind, a) IN
    /\ \A i, j \in Aliases(kind) : input[i].key = input[j].key => i = j
    /\ Aliased(kind) \cap Declared(kind) = {}
    /\ \A a \in Aliased(kind) : target(a) \in Declared(kind) \cup Aliased(kind)
    /\ Leads(Aliased(kind), target)
Meaning(kind) ==
    CHOOSE c \in [Aliased(kind) -> Declared(kind)] :
        \A a \in Aliased(kind) :
            c[a] = IF RawTarget(kind, a) \in Declared(kind) THEN RawTarget(kind, a)
                   ELSE c[RawTarget(kind, a)]
Means(kind, n) == IF n \in Aliased(kind) THEN Meaning(kind)[n] ELSE n
BaseOf(kind, k) ==
    LET extends == SpecOf(kind, k).extends
    IN  IF extends = None THEN None ELSE Means(kind, extends)
LineagesEnd(kind) ==
    LET base(k) == BaseOf(kind, k) IN
    /\ \A k \in Declared(kind) : base(k) \in Opt(Declared(kind))
    /\ Leads(Declared(kind), base)
ReferencesKnown(kind) ==
    \A k \in Declared(kind) :
        /\ SpecOf(kind, k).capabilities \subseteq Declared("capability")
        /\ SpecOf(kind, k).validator \in Opt(Declared("validator"))
        /\ SpecOf(kind, k).presentation \in Opt(Declared("presentation"))
AllMean(names) == \A n \in names : Means("node", n) \in Declared("node") \cup {ANY, Root}
\* The value a profile has of a field that is overridden along its lineage.
Effective(Values, Own(_), default) ==
    CHOOSE v \in [Declared("edge") -> Values] :
        \A k \in Declared("edge") :
            v[k] = IF Own(k) # None THEN Own(k)
                   ELSE IF BaseOf("edge", k) = None THEN default ELSE v[BaseOf("edge", k)]
NodesWellFormed ==
    /\ LineagesEnd("node") /\ ReferencesKnown("node")
    /\ \A k \in Declared("node") :
        SpecOf("node", k).allow_parents # None => AllMean(SpecOf("node", k).allow_parents)
EdgesWellFormed ==
    /\ LineagesEnd("edge") /\ ReferencesKnown("edge")
    /\ \A k \in Declared("edge"), s \in Side :
        /\ SpecOf("edge", k).required[s] \subseteq Declared("capability")
        /\ SpecOf("edge", k).profiles[s] # None => AllMean(SpecOf("edge", k).profiles[s])
    /\ LET ported(k) == SpecOf("edge", k).needs_ports
       IN  \A s \in Side :
            LET directed(k) == SpecOf("edge", k).direction[s]
            IN  \A k \in Declared("edge") :
                Effective(BOOLEAN, ported, FALSE)[k]
                    <=> Effective(Opt(PortDirection), directed, None)[k] # None
TemplatesWellFormed ==
    \A t \in Declared("template") :
        /\ Means("node", SpecOf("template", t).profile) \in Declared("node")
        /\ \A p \in SpecOf("template", t).ports : Means("port", p) \in Declared("port")
ActionsWellFormed ==
    \A a \in Declared("action") :
        LET spec == SpecOf("action", a) IN
        /\ \A c \in spec.capabilities :
            c \in Declared("capability") /\ "action" \in SpecOf("capability", c).consumers
        /\ spec.executor \in Declared("executor")
        /\ SpecOf("executor", spec.executor) = spec.family
CapabilitiesConsumed ==
    \A c \in Declared("capability") : SpecOf("capability", c).consumers # {}
DefaultsAreJson == \A t \in Declared("template") : SpecOf("template", t).json
WellFormed ==
    /\ NamesTrimmed /\ CapabilitiesConsumed /\ NoDuplicate
    /\ \A kind \in ProfileKind : AliasesLead(kind)
    /\ NodesWellFormed /\ EdgesWellFormed /\ TemplatesWellFormed /\ ActionsWellFormed
    /\ DefaultsAreJson

(* The program starts exactly with packages that form a coherent registry:  *)
(* no key declared twice or untrimmed, no unknown base, capability or other *)
(* reference, no cycle of inheritance, directly or through aliases, however *)
(* long, no capability nothing consumes, no template data that is not JSON. *)
(* (A version below 1 is refused too; it is always 2.)  No part of          *)
(* what it starts with refers to a profile by an alias or to one that is    *)
(* not there: each lookup, by key or by alias, ends at a profile.           *)
BuildDecides ==
    /\ phase = "built" => WellFormed /\ NothingDangles
    /\ phase = "failed" => ~WellFormed

\* What is left to do: phases, declarations to read, and names to resolve, which
\* count twice until their visit() has begun and once until it returns.
StepsLeft ==
    [register |-> 9, node_aliases |-> 8, edge_aliases |-> 7, port_aliases |-> 6, nodes |-> 5,
     edges |-> 4, templates |-> 3, actions |-> 2, built |-> 1, failed |-> 0]
Visited == DOMAIN AliasesOf \cup {"nodes", "edges"}
Unresolved(p) ==
    IF p = "nodes" THEN Declared("node") \ DOMAIN node
    ELSE IF p = "edges" THEN Declared("edge") \ DOMAIN edge
    ELSE PendingAliases(AliasesOf[p])
Open == UNION {{p} \X Unresolved(p) : p \in Visited}
Begun == {phase} \X Range(stack)
Work ==
    IF phase = "failed" THEN 0
    ELSE StepsLeft[phase] + (Len(input) + 1 - at) + Cardinality(Open) + Cardinality(Open \ Begun)

(* No packages keep build in its recursion: whatever cycle of bases or      *)
(* aliases they hold, each call and each return of visit() leaves less to   *)
(* do, so that build takes no more steps than Work counts at the start.     *)
EveryStepCounts == [][Work' < Work]_vars
\* Nor does it stop on the way: it ends in a registry or an error.
BuildEnds == EveryStepCounts /\ <>(phase \in {"built", "failed"})
=============================================================================
