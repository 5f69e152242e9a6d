--------------------------- MODULE RegistryProofs ---------------------------
(***************************************************************************)
(* Proofs about Registry: types, that a resolved profile is its ancestry,  *)
(* flattened, and that build refuses exactly the incoherent packages,      *)
(* whatever the packages and the order of the visits.                      *)
(*                                                                         *)
(* visit() of a profile sees its base complete (BaseReady), and what it    *)
(* adds to it is one more link of the lineage (NodeItemInherits).  That    *)
(* stays true because declarations and aliases are fixed by the time       *)
(* profiles are resolved (Staged).                                         *)
(*                                                                         *)
(* For what build decides, Kept says what each phase has made of the       *)
(* declarations and Reached how far it has come.  Names are resolved after *)
(* the ones they lead to, so each set of resolved names has a way out      *)
(* (Grounded): no cycle is among them.  A name met again on the stack      *)
(* closes a cycle (Trail), which has none.                                 *)
(*                                                                         *)
(* That build ends follows from the same: the names on the stack are       *)
(* distinct and unresolved (OpenVisits), so that a call begins a name not  *)
(* begun and a return finishes one, and Work goes down at every step.      *)
(***************************************************************************)
EXTENDS Registry, FiniteSetTheorems, WellFoundedInduction, TLAPS

Early == {"register", "node_aliases", "edge_aliases", "port_aliases"}

\* What each phase leaves for later ones.
Staged ==
    /\ phase \in Early => DOMAIN node = {} /\ DOMAIN edge = {}
    /\ phase = "nodes" => DOMAIN edge = {}
    /\ phase \notin {"register", "node_aliases", "failed"} => Aliased("node") \cap Keys("node") = {}
\* Whose visit() is in progress.
Stacked ==
    /\ \A kind \in ProfileKind :
        Resolving(kind) => \A i \in DOMAIN stack : stack[i] \in Aliased(kind)
    /\ phase = "nodes" => \A i \in DOMAIN stack : stack[i] \in Keys("node")
    /\ phase = "edges" => \A i \in DOMAIN stack : stack[i] \in Keys("edge")
    /\ phase \in {"register", "templates", "actions", "built"} => stack = <<>>

IInv == TypeOK /\ Staged /\ Stacked /\ ResolvedIsInherited

-----------------------------------------------------------------------------
(* Sequences and declarations.                                             *)

LEMMA Stack ==
    ASSUME NEW s \in Seq(Name), s # <<>>
    PROVE  /\ Len(s) \in DOMAIN s /\ Last(s) = s[Len(s)] /\ Last(s) \in Name
           /\ Front(s) \in Seq(Name)
           /\ \A i \in DOMAIN Front(s) : i \in DOMAIN s /\ Front(s)[i] = s[i]
  BY DEF Last, Front

LEMMA Push ==
    ASSUME NEW s \in Seq(Name), NEW n \in Name
    PROVE  /\ Append(s, n) \in Seq(Name) /\ Append(s, n) # <<>> /\ Last(Append(s, n)) = n
           /\ DOMAIN Append(s, n) = DOMAIN s \cup {Len(s) + 1}
           /\ Append(s, n)[Len(s) + 1] = n
           /\ \A i \in DOMAIN s : Append(s, n)[i] = s[i] /\ i < Len(s) + 1
  BY DEF Last

LEMMA KindNames ==
    Kinds = {"capability", "node", "edge", "template", "executor", "action", "package", "port",
             "presentation", "validator"}
  BY DEF Kinds, Body

LEMMA BodyOf ==
    Body["node"] = NodeProfileSpec /\ Body["edge"] = EdgeProfileSpec /\ Body["template"] = TemplateSpec
  BY DEF Body

LEMMA AliasedNames ==
    ASSUME TypeOK, NEW kind \in ProfileKind PROVE Aliased(kind) \subseteq Name
  BY DEF TypeOK, Packages, Range, Aliased, Aliases, Declaration

LEMMA RawTargetName ==
    ASSUME TypeOK, NEW kind \in ProfileKind, NEW a \in Aliased(kind)
    PROVE  RawTarget(kind, a) \in Name
  <1> DEFINE i == CHOOSE i \in Aliases(kind) : input[i].key = a
  <1>1. i \in Aliases(kind)
    BY DEF Aliased
  <1>2. i \in DOMAIN input /\ input[i].kind = "alias"
    BY <1>1 DEF Aliases
  <1>3. Declaration(input[i])
    BY <1>2 DEF TypeOK, Packages, Range
  <1>4. input[i].body \in AliasSpec
    BY <1>2, <1>3 DEF Declaration
  <1> QED
    BY <1>4 DEF RawTarget, AliasSpec

LEMMA CanonicalKey ==
    ASSUME TypeOK, NEW kind \in ProfileKind, NEW n
    PROVE  canonical(kind, n) \in Keys(kind) \cup {n}
  BY DEF TypeOK, PartialTo, canonical

LEMMA KeysNames ==
    ASSUME TypeOK, NEW kind \in Kinds PROVE Keys(kind) \subseteq Name
  BY DEF TypeOK, PartialTo, Keys

LEMMA CanonicalTyped ==
    ASSUME TypeOK, NEW names \in SUBSET (Name \cup {ANY, Root})
    PROVE  Canonical(names) \in SUBSET (Name \cup {ANY, Root})
  BY CanonicalKey, KeysNames, KindNames DEF Canonical, ProfileKind

LEMMA CanonicalEnds ==
    ASSUME TypeOK, NEW names \in SUBSET (Name \cup {ANY})
    PROVE  Canonical(names) \in SUBSET (Name \cup {ANY})
  BY CanonicalKey, KeysNames, KindNames DEF Canonical, ProfileKind

\* An alias is no key, so that looking up a name twice is looking it up once.
LEMMA CanonicalTwice ==
    ASSUME TypeOK, Aliased("node") \cap Keys("node") = {}, NEW names
    PROVE  Canonical(Canonical(names)) = Canonical(names)
  <1>1. DOMAIN alias["node"] \subseteq Aliased("node") /\ \A a \in DOMAIN alias["node"] : alias["node"][a] \in Keys("node")
    BY DEF TypeOK, PartialTo, ProfileKind
  <1>2. \A n : canonical("node", canonical("node", n)) = canonical("node", n)
    BY <1>1 DEF canonical
  <1> QED
    BY <1>2 DEF Canonical

-----------------------------------------------------------------------------
(* One more link.                                                          *)

LEMMA NearestLink ==
    ASSUME NEW lineage \in Seq(Name), NEW key \in Name, NEW own, NEW v, NEW default,
           Inherits(v, lineage, own, default)
    PROVE  Inherits(Override(own[key], v), Append(lineage, key), own, default)
  <1> DEFINE longer == Append(lineage, key)
             n == Len(lineage) + 1
  <1>1. /\ DOMAIN longer = DOMAIN lineage \cup {n} /\ longer[n] = key
        /\ \A i \in DOMAIN lineage : longer[i] = lineage[i] /\ i < n
        /\ n \in Nat /\ DOMAIN lineage \subseteq Nat
    BY Push
  <1> HIDE DEF longer, n
  <1>2. CASE own[key] # None
    <2>1. \A j \in DOMAIN longer : ~(j > n)
      BY <1>1
    <2> QED
      BY <1>1, <1>2, <2>1 DEF Inherits, Override, longer
  <1>3. CASE own[key] = None
    <2>1. Override(own[key], v) = v
      BY <1>3 DEF Override
    <2>2. CASE \A i \in DOMAIN lineage : own[lineage[i]] = None
      BY <1>1, <1>3, <2>1, <2>2 DEF Inherits, longer
    <2>3. CASE \E i \in DOMAIN lineage :
                 /\ own[lineage[i]] # None /\ v = own[lineage[i]]
                 /\ \A j \in DOMAIN lineage : j > i => own[lineage[j]] = None
      BY <1>1, <1>3, <2>1, <2>3 DEF Inherits, longer
    <2> QED
      BY <2>2, <2>3 DEF Inherits
  <1> QED
    BY <1>2, <1>3

LEMMA AncestryLink ==
    ASSUME TypeOK, NEW kind \in {"node", "edge"}, NEW key \in Keys(kind),
           NEW lineage \in Seq(Name),
           \/ lineage = <<>> /\ BaseKey(kind, key) = None
           \/ Ancestry(kind, BaseKey(kind, key), lineage)
    PROVE  Ancestry(kind, key, Append(lineage, key))
  <1> DEFINE longer == Append(lineage, key)
             n == Len(lineage) + 1
  <1>0. key \in Name
    BY KeysNames, KindNames
  <1>1. /\ DOMAIN longer = DOMAIN lineage \cup {n} /\ longer[n] = key
        /\ \A i \in DOMAIN lineage : longer[i] = lineage[i]
        /\ longer # <<>> /\ Last(longer) = key
        /\ DOMAIN lineage = 1..Len(lineage) /\ Len(lineage) \in Nat
    BY <1>0, Push
  <1> HIDE DEF longer
  <1>2. CASE lineage = <<>> /\ BaseKey(kind, key) = None
    <2>1. DOMAIN longer = {1} /\ longer[1] = key
      BY <1>1, <1>2
    <2> QED
      BY <1>1, <1>2, <2>1 DEF Ancestry, longer
  <1>3. CASE Ancestry(kind, BaseKey(kind, key), lineage)
    <2>1. Len(lineage) \in DOMAIN lineage /\ lineage[Len(lineage)] = BaseKey(kind, key)
      BY <1>1, <1>3 DEF Ancestry, Last
    <2>2. \A i \in DOMAIN lineage :
            longer[i] \in Keys(kind)
            /\ BaseKey(kind, longer[i]) = IF i = 1 THEN None ELSE longer[i - 1]
      <3> SUFFICES ASSUME NEW i \in DOMAIN lineage
                   PROVE  longer[i] \in Keys(kind)
                          /\ BaseKey(kind, longer[i]) = IF i = 1 THEN None ELSE longer[i - 1]
        OBVIOUS
      <3>1. lineage[i] \in Keys(kind) /\ BaseKey(kind, lineage[i]) = IF i = 1 THEN None ELSE lineage[i - 1]
        BY <1>3 DEF Ancestry
      <3>2. i # 1 => i - 1 \in DOMAIN lineage
        BY <1>1
      <3> QED
        BY <1>1, <3>1, <3>2
    <2>3. n # 1 /\ longer[n - 1] = BaseKey(kind, key)
      BY <1>1, <2>1
    <2> QED
      BY <1>1, <2>2, <2>3 DEF Ancestry, longer
  <1> QED
    BY <1>2, <1>3

\* Capabilities and requirements unite along a lineage.
LEMMA UnionLink ==
    ASSUME NEW lineage \in Seq(Name), NEW key \in Name, NEW f
    PROVE  UNION {f[Append(lineage, key)[i]] : i \in DOMAIN Append(lineage, key)}
             = (UNION {f[lineage[i]] : i \in DOMAIN lineage}) \cup f[key]
  <1> DEFINE longer == Append(lineage, key)
  <1>1. /\ DOMAIN longer = DOMAIN lineage \cup {Len(lineage) + 1}
        /\ longer[Len(lineage) + 1] = key
        /\ \A i \in DOMAIN lineage : longer[i] = lineage[i]
    BY Push
  <1> HIDE DEF longer
  <1>2. {f[longer[i]] : i \in DOMAIN longer} = {f[lineage[i]] : i \in DOMAIN lineage} \cup {f[key]}
    BY <1>1
  <1>3. UNION {f[longer[i]] : i \in DOMAIN longer}
          = (UNION {f[lineage[i]] : i \in DOMAIN lineage}) \cup f[key]
    <2> DEFINE parts == {f[lineage[i]] : i \in DOMAIN lineage}
               all == {f[longer[i]] : i \in DOMAIN longer}
    <2>1. all = parts \cup {f[key]}
      BY <1>2
    <2> HIDE DEF parts, all
    <2>2. UNION all = (UNION parts) \cup f[key]
      BY <2>1
    <2> QED
      BY <2>2 DEF parts, all
  <1> QED
    BY <1>3 DEF longer

\* Validators line up along a lineage.
LEMMA NothingAccumulates ==
    ASSUME NEW own PROVE Accumulates(<<>>, <<>>, own)
  <1> DEFINE none == <<>>
             place == [i \in DOMAIN none |-> i]
  <1>1. DOMAIN none = {}
    OBVIOUS
  <1> HIDE DEF none
  <1>2. place \in [DOMAIN none -> DOMAIN none] /\ Range(place) = {}
    BY <1>1 DEF Range
  <1> HIDE DEF place
  <1>3. Accumulates(none, none, own)
    BY <1>1, <1>2 DEF Accumulates
  <1> QED
    BY <1>3 DEF none

LEMMA AccumulateLink ==
    ASSUME NEW lineage \in Seq(Name), NEW key \in Name, NEW own, own[key] \in Opt(Name),
           NEW chain \in Seq(Name), Accumulates(chain, lineage, own)
    PROVE  Accumulates(Chain(chain, own[key]), Append(lineage, key), own)
  <1> DEFINE longer == Append(lineage, key)
             n == Len(lineage) + 1
             m == Len(chain) + 1
  <1>1. /\ DOMAIN longer = DOMAIN lineage \cup {n} /\ longer[n] = key
        /\ \A i \in DOMAIN lineage : longer[i] = lineage[i] /\ i < n /\ i \in Nat
        /\ n \in Nat
    BY Push
  <1>2. PICK place \in [DOMAIN chain -> DOMAIN lineage] :
            /\ \A i, j \in DOMAIN chain : i < j => place[i] < place[j]
            /\ \A i \in DOMAIN chain : chain[i] = own[lineage[place[i]]]
            /\ Range(place) = {p \in DOMAIN lineage : own[lineage[p]] # None}
    BY DEF Accumulates
  <1>3. \A i \in DOMAIN chain : i \in Nat /\ i < m
    OBVIOUS
  <1> HIDE DEF longer, n
  <1>4. CASE own[key] = None
    <2>1. place \in [DOMAIN chain -> DOMAIN longer]
      BY <1>1, <1>2
    <2>2. \A i \in DOMAIN chain : chain[i] = own[longer[place[i]]]
      BY <1>1, <1>2
    <2>3. Range(place) = {p \in DOMAIN longer : own[longer[p]] # None}
      BY <1>1, <1>2, <1>4
    <2>4. Accumulates(chain, longer, own)
      BY <1>2, <2>1, <2>2, <2>3 DEF Accumulates
    <2> QED
      BY <1>4, <2>4 DEF Chain, longer
  <1>5. CASE own[key] # None
    <2> DEFINE more == Append(chain, own[key])
               where == [i \in DOMAIN more |-> IF i = m THEN n ELSE place[i]]
    <2>1. own[key] \in Name
      BY <1>5 DEF Opt
    <2>2. /\ DOMAIN more = DOMAIN chain \cup {m} /\ more[m] = own[key]
          /\ \A i \in DOMAIN chain : more[i] = chain[i] /\ i # m
      BY <2>1, <1>3, Push
    <2> HIDE DEF more, m
    <2>3. /\ where \in [DOMAIN more -> DOMAIN longer] /\ where[m] = n
          /\ \A i \in DOMAIN chain : where[i] = place[i] /\ where[i] \in DOMAIN lineage
      BY <1>1, <1>2, <2>2
    <2> HIDE DEF where
    <2>4. \A i, j \in DOMAIN more : i < j => where[i] < where[j]
      <3> SUFFICES ASSUME NEW i \in DOMAIN more, NEW j \in DOMAIN more, i < j
                   PROVE  where[i] < where[j]
        OBVIOUS
      <3>1. CASE i \in DOMAIN chain /\ j \in DOMAIN chain
        BY <1>2, <2>3, <3>1
      <3>2. CASE i \in DOMAIN chain /\ j = m
        BY <1>1, <2>3, <3>2
      <3>3. i # m
        <4> SUFFICES ASSUME i = m PROVE FALSE
          OBVIOUS
        <4>1. m \in Nat
          BY DEF m
        <4> QED
          BY <1>3, <2>2, <4>1
      <3> QED
        BY <2>2, <3>1, <3>2, <3>3
    <2>5. \A i \in DOMAIN more : more[i] = own[longer[where[i]]]
      BY <1>1, <1>2, <2>2, <2>3
    <2>6. Range(where) = Range(place) \cup {n}
      <3>1. \A x : x \in Range(where) <=> \E i \in DOMAIN more : x = where[i]
        BY <2>3 DEF Range
      <3>2. \A x : x \in Range(place) <=> \E i \in DOMAIN chain : x = place[i]
        BY <1>2 DEF Range
      <3> QED
        BY <2>2, <2>3, <3>1, <3>2
    <2>7. Range(where) = {p \in DOMAIN longer : own[longer[p]] # None}
      BY <1>1, <1>2, <1>5, <2>6
    <2>8. Accumulates(more, longer, own)
      BY <2>3, <2>4, <2>5, <2>7 DEF Accumulates
    <2> QED
      BY <1>5, <2>8 DEF Chain, longer, more
  <1> QED
    BY <1>4, <1>5

-----------------------------------------------------------------------------
(* What visit() of a profile resolves it to.                               *)

LEMMA SpecTyped ==
    ASSUME TypeOK
    PROVE  /\ \A k \in Keys("node") : decl["node"][k] \in NodeProfileSpec
           /\ \A k \in Keys("edge") : decl["edge"][k] \in EdgeProfileSpec
           /\ \A k \in Keys("template") : decl["template"][k] \in TemplateSpec
  BY BodyOf, KindNames DEF TypeOK, PartialTo, Keys

\* The base visit() starts from.
LEMMA NodeBaseTyped ==
    ASSUME TypeOK
    PROVE  NodeBase \in ResolvedNode /\ \A k \in DOMAIN node : node[k] \in ResolvedNode
  BY DEF NodeBase, ResolvedNode, TypeOK, PartialTo, Opt

LEMMA ResolveNodeTyped ==
    ASSUME TypeOK, NEW key \in Name, NEW spec \in NodeProfileSpec, NEW base \in ResolvedNode
    PROVE  /\ ResolveNode(key, spec, base) \in ResolvedNode
           /\ ResolveNode(key, spec, base).lineage = Append(base.lineage, key)
           /\ ResolveNode(key, spec, base).capabilities = base.capabilities \cup spec.capabilities
           /\ ResolveNode(key, spec, base).presentation = Override(spec.presentation, base.presentation)
           /\ ResolveNode(key, spec, base).validator_chain = Chain(base.validator_chain, spec.validator)
           /\ ResolveNode(key, spec, base).allow_parents
                = Canonical(Override(spec.allow_parents, base.allow_parents))
  <1>1. /\ base.lineage \in Seq(Name) /\ base.capabilities \in SUBSET Name
        /\ base.validator_chain \in Seq(Name) /\ base.presentation \in Opt(Name)
        /\ base.allow_parents \in SUBSET (Name \cup {ANY, Root})
    BY DEF ResolvedNode
  <1>2. /\ spec.capabilities \in SUBSET Name /\ spec.validator \in Opt(Name)
        /\ spec.presentation \in Opt(Name)
        /\ spec.allow_parents \in Opt(SUBSET (Name \cup {ANY, Root}))
    BY DEF NodeProfileSpec
  <1>3. Append(base.lineage, key) \in Seq(Name)
    BY <1>1
  <1>4. Chain(base.validator_chain, spec.validator) \in Seq(Name)
    BY <1>1, <1>2 DEF Chain, Opt
  <1>5. Override(spec.presentation, base.presentation) \in Opt(Name)
    BY <1>1, <1>2 DEF Override
  <1>6. Override(spec.allow_parents, base.allow_parents) \in SUBSET (Name \cup {ANY, Root})
    BY <1>1, <1>2 DEF Override, Opt
  <1>7. Canonical(Override(spec.allow_parents, base.allow_parents)) \in SUBSET (Name \cup {ANY, Root})
    BY <1>6, CanonicalTyped
  <1> QED
    BY <1>1, <1>2, <1>3, <1>4, <1>5, <1>7 DEF ResolveNode, ResolvedNode

LEMMA EdgeBaseTyped ==
    ASSUME TypeOK
    PROVE  EdgeBase \in ResolvedEdge /\ \A k \in DOMAIN edge : edge[k] \in ResolvedEdge
  BY DEF EdgeBase, ResolvedEdge, TypeOK, PartialTo, Opt

LEMMA ResolveEdgeTyped ==
    ASSUME TypeOK, NEW key \in Name, NEW spec \in EdgeProfileSpec, NEW base \in ResolvedEdge
    PROVE  /\ ResolveEdge(key, spec, base) \in ResolvedEdge
           /\ ResolveEdge(key, spec, base).lineage = Append(base.lineage, key)
           /\ ResolveEdge(key, spec, base).capabilities = base.capabilities \cup spec.capabilities
           /\ ResolveEdge(key, spec, base).presentation = Override(spec.presentation, base.presentation)
           /\ ResolveEdge(key, spec, base).validator_chain = Chain(base.validator_chain, spec.validator)
           /\ ResolveEdge(key, spec, base).needs_ports = Override(spec.needs_ports, base.needs_ports)
           /\ \A s \in Side :
                /\ ResolveEdge(key, spec, base).required[s] = base.required[s] \cup spec.required[s]
                /\ ResolveEdge(key, spec, base).profiles[s]
                     = Canonical(Override(spec.profiles[s], base.profiles[s]))
                /\ ResolveEdge(key, spec, base).direction[s]
                     = Override(spec.direction[s], base.direction[s])
  <1>1. /\ base.lineage \in Seq(Name) /\ base.capabilities \in SUBSET Name
        /\ base.validator_chain \in Seq(Name) /\ base.presentation \in Opt(Name)
        /\ base.profiles \in [Side -> SUBSET (Name \cup {ANY})]
        /\ base.required \in [Side -> SUBSET Name] /\ base.needs_ports \in BOOLEAN
        /\ base.direction \in [Side -> Opt(PortDirection)]
    BY DEF ResolvedEdge
  <1>2. /\ spec.capabilities \in SUBSET Name /\ spec.validator \in Opt(Name)
        /\ spec.presentation \in Opt(Name)
        /\ spec.profiles \in [Side -> Opt(SUBSET (Name \cup {ANY}))]
        /\ spec.required \in [Side -> SUBSET Name] /\ spec.needs_ports \in Opt(BOOLEAN)
        /\ spec.direction \in [Side -> Opt(PortDirection)]
    BY DEF EdgeProfileSpec
  <1>3. Append(base.lineage, key) \in Seq(Name)
    BY <1>1
  <1>4. Chain(base.validator_chain, spec.validator) \in Seq(Name)
    BY <1>1, <1>2 DEF Chain, Opt
  <1>5. Override(spec.presentation, base.presentation) \in Opt(Name)
    BY <1>1, <1>2 DEF Override
  <1>6. [s \in Side |-> Canonical(Override(spec.profiles[s], base.profiles[s]))]
          \in [Side -> SUBSET (Name \cup {ANY})]
    <2> SUFFICES ASSUME NEW s \in Side
                 PROVE  Canonical(Override(spec.profiles[s], base.profiles[s])) \in SUBSET (Name \cup {ANY})
      OBVIOUS
    <2>1. Override(spec.profiles[s], base.profiles[s]) \in SUBSET (Name \cup {ANY})
      BY <1>1, <1>2 DEF Override, Opt
    <2> QED
      BY <2>1, CanonicalEnds
  <1>7. [s \in Side |-> base.required[s] \cup spec.required[s]] \in [Side -> SUBSET Name]
    BY <1>1, <1>2
  <1>8. Override(spec.needs_ports, base.needs_ports) \in BOOLEAN
    BY <1>1, <1>2 DEF Override, Opt
  <1>9. [s \in Side |-> Override(spec.direction[s], base.direction[s])] \in [Side -> Opt(PortDirection)]
    BY <1>1, <1>2 DEF Override, Opt
  <1>10. ResolveEdge(key, spec, base) \in ResolvedEdge
    BY <1>1, <1>2, <1>3, <1>4, <1>5, <1>6, <1>7, <1>8, <1>9 DEF ResolveEdge, ResolvedEdge
  <1> QED
    BY <1>10 DEF ResolveEdge

LEMMA CanonicalNothing == Canonical({}) = {} 
  BY DEF Canonical
LEMMA CanonicalANY ==
    ASSUME TypeOK PROVE Canonical({ANY}) = {ANY}
  BY AliasedNames, RegistryAssumption DEF Canonical, canonical, TypeOK, PartialTo, ProfileKind

\* A list of names that is inherited is canonical, and stays so.
LEMMA WrittenOver ==
    ASSUME TypeOK, Aliased("node") \cap Keys("node") = {},
           NEW names \in Opt(SUBSET (Name \cup {ANY, Root})), NEW inherited,
           Canonical(inherited) = inherited
    PROVE  Canonical(Override(names, inherited)) = Override(Written(names), inherited)
  <1>1. names # None => Canonical(names) # None
    BY CanonicalTyped, RegistryAssumption DEF Opt
  <1> QED
    BY <1>1 DEF Written, Override

LEMMA InheritedCanonical ==
    ASSUME TypeOK, Aliased("node") \cap Keys("node") = {}, NEW lineage, NEW own, NEW default, NEW v,
           Canonical(default) = default, Inherits(v, lineage, own, default),
           \A i \in DOMAIN lineage : own[lineage[i]] = None
                \/ \E names : own[lineage[i]] = Canonical(names)
    PROVE  Canonical(v) = v
  BY CanonicalTwice DEF Inherits

LEMMA NodeItemInherits ==
    ASSUME IInv, phase = "nodes", stack # <<>>, BaseReady("node", node)
    PROVE  NodeItem \in ResolvedNode /\ NodeInherits(Top, NodeItem) /\ Top \in Keys("node")
  <1> DEFINE spec == decl["node"]
             key == Top
             baseKey == BaseKey("node", Top)
             base == IF baseKey = None THEN NodeBase ELSE node[baseKey]
             parents == [n \in DOMAIN spec |-> Written(spec[n].allow_parents)]
             shown == [n \in DOMAIN spec |-> spec[n].presentation]
             checked == [n \in DOMAIN spec |-> spec[n].validator]
  <1>1. key \in Keys("node")
    BY Stack DEF IInv, TypeOK, Stacked, Top
  <1>2. key \in Name /\ spec[key] \in NodeProfileSpec /\ DOMAIN spec = Keys("node")
    BY <1>1, KeysNames, KindNames, SpecTyped DEF IInv, Keys
  <1>3. base \in ResolvedNode
    BY NodeBaseTyped DEF IInv, BaseReady, Opt
  <1>4. base.lineage \in Seq(Name) /\ NodeItem = ResolveNode(key, spec[key], base)
    BY <1>3 DEF ResolvedNode, NodeItem
  <1>5. Aliased("node") \cap Keys("node") = {}
    BY DEF IInv, Staged
  <1>6. \/ base.lineage = <<>> /\ baseKey = None
        \/ Ancestry("node", baseKey, base.lineage)
    BY DEF IInv, ResolvedIsInherited, NodeInherits, BaseReady, Opt, NodeBase
  <1>7. /\ base.capabilities = UNION {spec[base.lineage[i]].capabilities : i \in DOMAIN base.lineage}
        /\ Inherits(base.allow_parents, base.lineage, parents, {})
        /\ Inherits(base.presentation, base.lineage, shown, None)
        /\ Accumulates(base.validator_chain, base.lineage, checked)
    <2>1. CASE baseKey = None
      <3>1. /\ base.lineage = <<>> /\ base.capabilities = {} /\ base.allow_parents = {}
            /\ base.presentation = None /\ base.validator_chain = <<>>
        BY <2>1 DEF NodeBase
      <3>2. DOMAIN base.lineage = {}
        BY <3>1
      <3>3. Accumulates(base.validator_chain, base.lineage, checked)
        BY <3>1, NothingAccumulates
      <3> QED
        BY <3>1, <3>2, <3>3 DEF Inherits
    <2>2. CASE baseKey # None
      <3>1. baseKey \in DOMAIN node /\ base = node[baseKey]
        BY <2>2 DEF BaseReady, Opt
      <3> QED
        BY <3>1 DEF IInv, ResolvedIsInherited, NodeInherits
    <2> QED
      BY <2>1, <2>2
  <1>8. \A i \in DOMAIN base.lineage : base.lineage[i] \in DOMAIN spec
    <2>1. CASE base.lineage = <<>>
      BY <2>1
    <2>2. CASE Ancestry("node", baseKey, base.lineage)
      BY <2>2 DEF Ancestry, Keys
    <2> QED
      BY <1>6, <2>1, <2>2
  <1>9. /\ parents[key] = Written(spec[key].allow_parents) /\ shown[key] = spec[key].presentation
        /\ checked[key] = spec[key].validator
    BY <1>1, <1>2
  <1>10. Canonical(base.allow_parents) = base.allow_parents
    <2>1. \A i \in DOMAIN base.lineage : parents[base.lineage[i]] = None
            \/ \E names : parents[base.lineage[i]] = Canonical(names)
      BY <1>8 DEF Written
    <2>2. Inherits(base.allow_parents, base.lineage, parents, {}) /\ TypeOK
      BY <1>7 DEF IInv
    <2> HIDE DEF spec, key, baseKey, base, parents, shown, checked
    <2> QED
      <3> DEFINE nothing == {}
      <3>1. Canonical(nothing) = nothing /\ Inherits(base.allow_parents, base.lineage, parents, nothing)
        BY <2>2, CanonicalNothing
      <3> HIDE DEF nothing
      <3> QED
        BY <1>5, <2>1, <2>2, <3>1, InheritedCanonical
  <1> HIDE DEF spec, key, baseKey, base, parents, shown, checked
  <1>11. /\ NodeItem \in ResolvedNode
         /\ NodeItem.lineage = Append(base.lineage, key)
         /\ NodeItem.capabilities = base.capabilities \cup spec[key].capabilities
         /\ NodeItem.presentation = Override(spec[key].presentation, base.presentation)
         /\ NodeItem.validator_chain = Chain(base.validator_chain, spec[key].validator)
         /\ NodeItem.allow_parents = Canonical(Override(spec[key].allow_parents, base.allow_parents))
    BY <1>2, <1>3, <1>4, ResolveNodeTyped DEF IInv
  <1>12. spec[key].allow_parents \in Opt(SUBSET (Name \cup {ANY, Root}))
    BY <1>2 DEF NodeProfileSpec
  <1>13. Inherits(NodeItem.allow_parents, NodeItem.lineage, parents, {})
    <2>1. Inherits(Override(parents[key], base.allow_parents), Append(base.lineage, key), parents, {})
      BY <1>2, <1>4, <1>7, NearestLink
    <2>2. Canonical(Override(spec[key].allow_parents, base.allow_parents))
            = Override(Written(spec[key].allow_parents), base.allow_parents)
      BY <1>5, <1>10, <1>12, WrittenOver DEF IInv
    <2> QED
      BY <1>9, <1>11, <2>1, <2>2
  <1>14. Inherits(NodeItem.presentation, NodeItem.lineage, shown, None)
    BY <1>2, <1>4, <1>7, <1>9, <1>11, NearestLink
  <1>15. Ancestry("node", key, NodeItem.lineage)
    BY <1>1, <1>4, <1>6, <1>11, AncestryLink DEF IInv, baseKey, key
  <1>16. NodeItem.capabilities =
           UNION {spec[NodeItem.lineage[i]].capabilities : i \in DOMAIN NodeItem.lineage}
    <2> DEFINE f == [n \in DOMAIN spec |-> spec[n].capabilities]
    <2>1. f[key] = spec[key].capabilities
      BY <1>1, <1>2
    <2>2. UNION {f[base.lineage[i]] : i \in DOMAIN base.lineage} = base.capabilities
      BY <1>7, <1>8
    <2>3. \A i \in DOMAIN NodeItem.lineage : NodeItem.lineage[i] \in DOMAIN spec
      BY <1>2, <1>15 DEF Ancestry, Keys
    <2>4. UNION {f[NodeItem.lineage[i]] : i \in DOMAIN NodeItem.lineage}
            = UNION {spec[NodeItem.lineage[i]].capabilities : i \in DOMAIN NodeItem.lineage}
      BY <2>3
    <2> HIDE DEF f
    <2>5. UNION {f[NodeItem.lineage[i]] : i \in DOMAIN NodeItem.lineage}
            = (UNION {f[base.lineage[i]] : i \in DOMAIN base.lineage}) \cup f[key]
      BY <1>2, <1>4, <1>11, UnionLink
    <2> QED
      BY <1>11, <2>1, <2>2, <2>4, <2>5
  <1>17. Accumulates(NodeItem.validator_chain, NodeItem.lineage, checked)
    <2>1. base.validator_chain \in Seq(Name) /\ spec[key].validator \in Opt(Name)
      BY <1>2, <1>3 DEF ResolvedNode, NodeProfileSpec
    <2> QED
      BY <1>2, <1>4, <1>7, <1>9, <1>11, <2>1, AccumulateLink
  <1> QED
    BY <1>1, <1>11, <1>13, <1>14, <1>15, <1>16, <1>17
    DEF NodeInherits, spec, key, parents, shown, checked

LEMMA EdgeItemInherits ==
    ASSUME IInv, phase = "edges", stack # <<>>, BaseReady("edge", edge)
    PROVE  EdgeItem \in ResolvedEdge /\ EdgeInherits(Top, EdgeItem) /\ Top \in Keys("edge")
  <1> DEFINE spec == decl["edge"]
             key == Top
             baseKey == BaseKey("edge", Top)
             base == IF baseKey = None THEN EdgeBase ELSE edge[baseKey]
             shown == [n \in DOMAIN spec |-> spec[n].presentation]
             checked == [n \in DOMAIN spec |-> spec[n].validator]
             ported == [n \in DOMAIN spec |-> spec[n].needs_ports]
             listed(s) == [n \in DOMAIN spec |-> Written(spec[n].profiles[s])]
             directed(s) == [n \in DOMAIN spec |-> spec[n].direction[s]]
  <1>1. key \in Keys("edge")
    BY Stack DEF IInv, TypeOK, Stacked, Top
  <1>2. key \in Name /\ spec[key] \in EdgeProfileSpec /\ DOMAIN spec = Keys("edge")
    BY <1>1, KeysNames, KindNames, SpecTyped DEF IInv, Keys
  <1>3. base \in ResolvedEdge
    BY EdgeBaseTyped DEF IInv, BaseReady, Opt
  <1>4. base.lineage \in Seq(Name) /\ EdgeItem = ResolveEdge(key, spec[key], base)
    BY <1>3 DEF ResolvedEdge, EdgeItem
  <1>5. Aliased("node") \cap Keys("node") = {}
    BY DEF IInv, Staged
  <1>6. \/ base.lineage = <<>> /\ baseKey = None
        \/ Ancestry("edge", baseKey, base.lineage)
    BY DEF IInv, ResolvedIsInherited, EdgeInherits, BaseReady, Opt, EdgeBase
  <1>7. /\ base.capabilities = UNION {spec[base.lineage[i]].capabilities : i \in DOMAIN base.lineage}
        /\ Inherits(base.presentation, base.lineage, shown, None)
        /\ Accumulates(base.validator_chain, base.lineage, checked)
        /\ Inherits(base.needs_ports, base.lineage, ported, FALSE)
        /\ \A s \in Side :
            /\ base.required[s] = UNION {spec[base.lineage[i]].required[s] : i \in DOMAIN base.lineage}
            /\ Inherits(base.profiles[s], base.lineage, listed(s), {ANY})
            /\ Inherits(base.direction[s], base.lineage, directed(s), None)
    <2>1. CASE baseKey = None
      <3>1. /\ base.lineage = <<>> /\ base.needs_ports = FALSE
            /\ base.capabilities = {} /\ base.presentation = None /\ base.validator_chain = <<>>
            /\ \A s \in Side : base.required[s] = {} /\ base.profiles[s] = {ANY} /\ base.direction[s] = None
        BY <2>1 DEF EdgeBase
      <3>2. DOMAIN base.lineage = {}
        BY <3>1
      <3>3. Accumulates(base.validator_chain, base.lineage, checked)
        BY <3>1, NothingAccumulates
      <3> QED
        BY <3>1, <3>2, <3>3 DEF Inherits
    <2>2. CASE baseKey # None
      <3>1. baseKey \in DOMAIN edge /\ base = edge[baseKey]
        BY <2>2 DEF BaseReady, Opt
      <3>2. EdgeInherits(baseKey, base)
        BY <3>1 DEF IInv, ResolvedIsInherited
      <3> HIDE DEF base, baseKey
      <3> QED
        BY <3>2 DEF EdgeInherits
    <2> QED
      BY <2>1, <2>2
  <1>8. \A i \in DOMAIN base.lineage : base.lineage[i] \in DOMAIN spec
    <2>1. CASE base.lineage = <<>>
      BY <2>1
    <2>2. CASE Ancestry("edge", baseKey, base.lineage)
      BY <2>2 DEF Ancestry, Keys
    <2> QED
      BY <1>6, <2>1, <2>2
  <1>9. /\ ported[key] = spec[key].needs_ports /\ shown[key] = spec[key].presentation
        /\ checked[key] = spec[key].validator
        /\ \A s \in Side : listed(s)[key] = Written(spec[key].profiles[s])
                           /\ directed(s)[key] = spec[key].direction[s]
    BY <1>1, <1>2
  <1>10. \A s \in Side : \A i \in DOMAIN base.lineage : listed(s)[base.lineage[i]] = None
            \/ \E names : listed(s)[base.lineage[i]] = Canonical(names)
    BY <1>8 DEF Written
  <1>11. /\ EdgeItem \in ResolvedEdge
         /\ EdgeItem.lineage = Append(base.lineage, key)
         /\ EdgeItem.capabilities = base.capabilities \cup spec[key].capabilities
         /\ EdgeItem.presentation = Override(spec[key].presentation, base.presentation)
         /\ EdgeItem.validator_chain = Chain(base.validator_chain, spec[key].validator)
         /\ EdgeItem.needs_ports = Override(spec[key].needs_ports, base.needs_ports)
         /\ \A s \in Side :
              /\ EdgeItem.required[s] = base.required[s] \cup spec[key].required[s]
              /\ EdgeItem.profiles[s] = Canonical(Override(spec[key].profiles[s], base.profiles[s]))
              /\ EdgeItem.direction[s] = Override(spec[key].direction[s], base.direction[s])
    <2> HIDE DEF spec, key, base
    <2> QED
      BY <1>2, <1>3, <1>4, ResolveEdgeTyped DEF IInv
  <1>12. \A s \in Side : spec[key].profiles[s] \in Opt(SUBSET (Name \cup {ANY, Root}))
    BY <1>2 DEF EdgeProfileSpec, Opt
  <1>13. Ancestry("edge", key, EdgeItem.lineage)
    <2> HIDE DEF spec, base
    <2> QED
      BY <1>1, <1>4, <1>6, <1>11, AncestryLink DEF IInv
  <1> HIDE DEF spec, key, baseKey, base, shown, checked, ported, listed, directed
  <1>14. Inherits(EdgeItem.needs_ports, EdgeItem.lineage, ported, FALSE)
    <2> DEFINE no == FALSE
               own == base.needs_ports
               written == spec[key].needs_ports
    <2>1. Inherits(own, base.lineage, ported, no) /\ ported[key] = written
      BY <1>7, <1>9
    <2>2. EdgeItem.needs_ports = Override(written, own)
      BY <1>11
    <2> HIDE DEF no, own, written
    <2>3. Inherits(Override(ported[key], own), Append(base.lineage, key), ported, no)
      BY <1>2, <1>4, <2>1, NearestLink
    <2>4. Inherits(EdgeItem.needs_ports, EdgeItem.lineage, ported, no)
      BY <1>11, <2>1, <2>2, <2>3
    <2> QED
      BY <2>4 DEF no
  <1>15. ASSUME NEW s \in Side
         PROVE  /\ EdgeItem.required[s] =
                     UNION {spec[EdgeItem.lineage[i]].required[s] : i \in DOMAIN EdgeItem.lineage}
                /\ Inherits(EdgeItem.profiles[s], EdgeItem.lineage, listed(s), {ANY})
                /\ Inherits(EdgeItem.direction[s], EdgeItem.lineage, directed(s), None)
    <2>1. Inherits(EdgeItem.direction[s], EdgeItem.lineage, directed(s), None)
      BY <1>2, <1>4, <1>7, <1>9, <1>11, NearestLink
    <2>2. Inherits(EdgeItem.profiles[s], EdgeItem.lineage, listed(s), {ANY})
      <3> DEFINE any == {ANY}
      <3>1. Canonical(any) = any /\ Inherits(base.profiles[s], base.lineage, listed(s), any)
        BY <1>7, CanonicalANY DEF IInv
      <3> HIDE DEF any
      <3>2. Canonical(base.profiles[s]) = base.profiles[s]
        BY <1>5, <1>10, <3>1, InheritedCanonical DEF IInv
      <3>3. Inherits(Override(listed(s)[key], base.profiles[s]), Append(base.lineage, key), listed(s), any)
        BY <1>2, <1>4, <3>1, NearestLink
      <3>4. Canonical(Override(spec[key].profiles[s], base.profiles[s]))
              = Override(Written(spec[key].profiles[s]), base.profiles[s])
        BY <1>5, <1>12, <3>2, WrittenOver DEF IInv
      <3>5. Inherits(EdgeItem.profiles[s], EdgeItem.lineage, listed(s), any)
        BY <1>9, <1>11, <3>3, <3>4
      <3> QED
        BY <3>5 DEF any
    <2>3. EdgeItem.required[s] =
            UNION {spec[EdgeItem.lineage[i]].required[s] : i \in DOMAIN EdgeItem.lineage}
      <3> DEFINE f == [n \in DOMAIN spec |-> spec[n].required[s]]
      <3>1. f[key] = spec[key].required[s]
        BY <1>1, <1>2
      <3>2. UNION {f[base.lineage[i]] : i \in DOMAIN base.lineage} = base.required[s]
        <4>1. \A i \in DOMAIN base.lineage : f[base.lineage[i]] = spec[base.lineage[i]].required[s]
          BY <1>8
        <4> HIDE DEF f
        <4>2. {f[base.lineage[i]] : i \in DOMAIN base.lineage}
                = {spec[base.lineage[i]].required[s] : i \in DOMAIN base.lineage}
          BY <4>1
        <4> QED
          BY <1>7, <4>2
      <3>3. \A i \in DOMAIN EdgeItem.lineage : EdgeItem.lineage[i] \in DOMAIN spec
        BY <1>2, <1>13 DEF Ancestry, Keys
      <3>4. UNION {f[EdgeItem.lineage[i]] : i \in DOMAIN EdgeItem.lineage}
              = UNION {spec[EdgeItem.lineage[i]].required[s] : i \in DOMAIN EdgeItem.lineage}
        BY <3>3
      <3> HIDE DEF f
      <3>5. UNION {f[EdgeItem.lineage[i]] : i \in DOMAIN EdgeItem.lineage}
              = (UNION {f[base.lineage[i]] : i \in DOMAIN base.lineage}) \cup f[key]
        BY <1>2, <1>4, <1>11, UnionLink
      <3> QED
        BY <1>11, <3>1, <3>2, <3>4, <3>5
    <2> QED
      BY <2>1, <2>2, <2>3
  <1>16. EdgeItem.capabilities =
           UNION {spec[EdgeItem.lineage[i]].capabilities : i \in DOMAIN EdgeItem.lineage}
    <2> DEFINE f == [n \in DOMAIN spec |-> spec[n].capabilities]
    <2>1. f[key] = spec[key].capabilities
      BY <1>1, <1>2
    <2>2. UNION {f[base.lineage[i]] : i \in DOMAIN base.lineage} = base.capabilities
      <3>1. \A i \in DOMAIN base.lineage : f[base.lineage[i]] = spec[base.lineage[i]].capabilities
        BY <1>8
      <3> HIDE DEF f
      <3>2. {f[base.lineage[i]] : i \in DOMAIN base.lineage}
              = {spec[base.lineage[i]].capabilities : i \in DOMAIN base.lineage}
        BY <3>1
      <3> QED
        BY <1>7, <3>2
    <2>3. \A i \in DOMAIN EdgeItem.lineage : EdgeItem.lineage[i] \in DOMAIN spec
      BY <1>2, <1>13 DEF Ancestry, Keys
    <2>4. UNION {f[EdgeItem.lineage[i]] : i \in DOMAIN EdgeItem.lineage}
            = UNION {spec[EdgeItem.lineage[i]].capabilities : i \in DOMAIN EdgeItem.lineage}
      BY <2>3
    <2> HIDE DEF f
    <2>5. UNION {f[EdgeItem.lineage[i]] : i \in DOMAIN EdgeItem.lineage}
            = (UNION {f[base.lineage[i]] : i \in DOMAIN base.lineage}) \cup f[key]
      BY <1>2, <1>4, <1>11, UnionLink
    <2> QED
      BY <1>11, <2>1, <2>2, <2>4, <2>5
  <1>17. Inherits(EdgeItem.presentation, EdgeItem.lineage, shown, None)
    BY <1>2, <1>4, <1>7, <1>9, <1>11, NearestLink
  <1>18. Accumulates(EdgeItem.validator_chain, EdgeItem.lineage, checked)
    <2>1. base.validator_chain \in Seq(Name) /\ spec[key].validator \in Opt(Name)
      BY <1>2, <1>3 DEF ResolvedEdge, EdgeProfileSpec
    <2> QED
      BY <1>2, <1>4, <1>7, <1>9, <1>11, <2>1, AccumulateLink
  <1> QED
    BY <1>1, <1>11, <1>13, <1>14, <1>15, <1>16, <1>17, <1>18
    DEF EdgeInherits, spec, key, shown, checked, ported, listed, directed

-----------------------------------------------------------------------------
(* One step of build.                                                      *)

\* Nothing of the registry changes but where build is.
Same == UNCHANGED <<input, at, decl, alias, node, edge, template>>

LEMMA SameTyped ==
    ASSUME TypeOK, Same, phase' \in Phases, stack' \in Seq(Name) PROVE TypeOK'
  BY DEF TypeOK, Same, Keys, Aliased, Aliases

\* Declarations and aliases alone determine what is inherited.
LEMMA InheritedStays ==
    ASSUME ResolvedIsInherited, UNCHANGED <<decl, alias, node, edge>>
    PROVE  ResolvedIsInherited'
  <1>1. \A kind, k : BaseKey(kind, k)' = BaseKey(kind, k)
    BY DEF BaseKey, canonical
  <1>2. \A names : Written(names)' = Written(names)
    BY DEF Written, Canonical, canonical
  <1>3. \A kind, k, lineage : Ancestry(kind, k, lineage)' <=> Ancestry(kind, k, lineage)
    BY <1>1 DEF Ancestry, Keys
  <1>4. \A k, item : NodeInherits(k, item) => NodeInherits(k, item)'
    BY <1>2, <1>3 DEF NodeInherits
  <1>5. \A k, item : EdgeInherits(k, item) => EdgeInherits(k, item)'
    BY <1>2, <1>3 DEF EdgeInherits
  <1> QED
    BY <1>4, <1>5 DEF ResolvedIsInherited

LEMMA Phasing ==
    /\ DOMAIN Sequel = {"register", "node_aliases", "edge_aliases", "port_aliases", "nodes", "edges",
                        "templates", "actions"}
    /\ DOMAIN AliasesOf = {"node_aliases", "edge_aliases", "port_aliases"}
    /\ Sequel["register"] = "node_aliases" /\ Sequel["node_aliases"] = "edge_aliases"
    /\ Sequel["edge_aliases"] = "port_aliases" /\ Sequel["port_aliases"] = "nodes"
    /\ Sequel["nodes"] = "edges" /\ Sequel["edges"] = "templates"
    /\ Sequel["templates"] = "actions" /\ Sequel["actions"] = "built"
    /\ AliasesOf["node_aliases"] = "node" /\ AliasesOf["edge_aliases"] = "edge"
    /\ AliasesOf["port_aliases"] = "port"
  BY DEF Sequel, AliasesOf

LEMMA FailsStep ==
    ASSUME IInv, RegistryBuildError PROVE IInv'
  <1>1. Same /\ phase' = "failed" /\ stack' = stack
    BY DEF RegistryBuildError, Same
  <1>2. TypeOK'
    BY <1>1, SameTyped DEF IInv, TypeOK, Phases
  <1>3. Staged' /\ Stacked'
    BY <1>1, Phasing DEF Staged, Stacked, Resolving, Early
  <1>4. ResolvedIsInherited'
    BY <1>1, InheritedStays DEF IInv, Same
  <1> QED
    BY <1>2, <1>3, <1>4 DEF IInv

LEMMA AdvanceStep ==
    ASSUME IInv, Advance, stack = <<>>, phase \in DOMAIN Sequel,
           phase = "node_aliases" => Aliased("node") \cap Keys("node") = {}
    PROVE  IInv'
  <1>1. Same /\ phase' = Sequel[phase] /\ stack' = <<>>
    BY DEF Advance, Same
  <1>2. phase' \in Phases
    BY <1>1, Phasing DEF Phases
  <1>3. TypeOK'
    BY <1>1, <1>2, SameTyped DEF IInv
  <1>4. Keys("node")' = Keys("node") /\ Aliased("node")' = Aliased("node")
    BY <1>1 DEF Same, Keys, Aliased, Aliases
  <1>5. Staged'
    BY <1>1, <1>4, Phasing DEF IInv, Staged, Early, Same
  <1>6. Stacked'
    BY <1>1 DEF Stacked
  <1>7. ResolvedIsInherited'
    BY <1>1, InheritedStays DEF IInv, Same
  <1> QED
    BY <1>3, <1>5, <1>6, <1>7 DEF IInv

LEMMA CallStep ==
    ASSUME IInv, NEW n \in Name, Call(n),
           phase \in {"node_aliases", "edge_aliases", "port_aliases", "nodes", "edges"},
           \A kind \in ProfileKind : Resolving(kind) => n \in Aliased(kind),
           phase = "nodes" => n \in Keys("node"), phase = "edges" => n \in Keys("edge")
    PROVE  IInv'
  <1>1. Same /\ phase' = phase /\ stack' = Append(stack, n)
    BY DEF Call, Same
  <1>2. stack \in Seq(Name) /\ phase \in Phases
    BY DEF IInv, TypeOK
  <1>3. stack' \in Seq(Name) /\ \A i \in DOMAIN stack' : stack'[i] = n \/ \E j \in DOMAIN stack : stack'[i] = stack[j]
    BY <1>1, <1>2, Push
  <1>4. TypeOK'
    BY <1>1, <1>2, <1>3, SameTyped DEF IInv
  <1>5. \A kind : Keys(kind)' = Keys(kind) /\ Aliased(kind)' = Aliased(kind) /\ Resolving(kind)' = Resolving(kind)
    BY <1>1 DEF Same, Keys, Aliased, Aliases, Resolving
  <1>6. Staged'
    BY <1>1, <1>5 DEF IInv, Staged, Same
  <1>7. Stacked'
    BY <1>1, <1>3, <1>5 DEF IInv, Stacked
  <1>8. ResolvedIsInherited'
    BY <1>1, InheritedStays DEF IInv, Same
  <1> QED
    BY <1>4, <1>6, <1>7, <1>8 DEF IInv

LEMMA Given1 ==
    ASSUME TypeOK, NEW i \in DOMAIN input, input[i].kind # "alias"
    PROVE  input[i].kind \in Kinds /\ input[i].key \in Name /\ input[i].body \in Body[input[i].kind]
  <1>1. Declaration(input[i])
    BY DEF TypeOK, Packages, Range
  <1> QED
    BY <1>1 DEF Declaration

LEMMA RegisterStep ==
    ASSUME IInv, Register PROVE IInv'
  <1>0. phase = "register" /\ at \in DOMAIN input /\ at + 1 \in 1..(Len(input) + 1) /\ stack = <<>>
    BY DEF IInv, TypeOK, Packages, Register, Stacked
  <1>1. CASE RegistryBuildError
    BY <1>1, FailsStep
  <1>2. CASE at' = at + 1 /\ UNCHANGED <<input, phase, decl, alias, stack, node, edge, template>>
    <2>1. TypeOK'
      BY <1>0, <1>2 DEF IInv, TypeOK, Keys, Aliased, Aliases
    <2>2. Staged' /\ Stacked'
      BY <1>0, <1>2, Phasing DEF IInv, Staged, Stacked, Resolving, Early
    <2>3. ResolvedIsInherited'
      BY <1>2, InheritedStays DEF IInv
    <2> QED
      BY <2>1, <2>2, <2>3 DEF IInv
  <1>3. CASE /\ input[at].kind # "alias"
             /\ decl' = [decl EXCEPT ![input[at].kind] = With(@, input[at].key, input[at].body)]
             /\ at' = at + 1
             /\ UNCHANGED <<input, phase, alias, stack, node, edge, template>>
    <2> DEFINE d == input[at]
    <2>1. d.kind \in Kinds /\ d.key \in Name /\ d.body \in Body[d.kind]
      BY <1>0, <1>3, Given1 DEF IInv
    <2>2. decl' = [decl EXCEPT ![d.kind] = With(decl[d.kind], d.key, d.body)]
      BY <1>3
    <2> HIDE DEF d
    <2>3. DOMAIN decl' = Kinds /\ \A k \in Kinds : PartialTo(decl'[k], Name, Body[k]) /\ Keys(k) \subseteq Keys(k)'
      BY <2>1, <2>2 DEF IInv, TypeOK, PartialTo, With, Keys
    <2>4. \A k \in ProfileKind : k \in Kinds
      BY KindNames DEF ProfileKind
    <2>5. DOMAIN node = {} /\ DOMAIN edge = {}
      BY <1>0 DEF IInv, Staged, Early
    <2>6. PartialTo(template, Keys("template"), TemplateSpec)'
      BY <1>3, <2>3, KindNames DEF IInv, TypeOK, PartialTo
    <2>7. \A k \in ProfileKind : PartialTo(alias'[k], Aliased(k)', Keys(k)')
      BY <1>3, <2>3, <2>4 DEF IInv, TypeOK, PartialTo, Aliased, Aliases
    <2>8. TypeOK'
      BY <1>0, <1>3, <2>3, <2>5, <2>6, <2>7 DEF IInv, TypeOK, PartialTo
    <2>9. Staged' /\ Stacked'
      BY <1>0, <1>3, <2>5, Phasing DEF Staged, Stacked, Resolving, Early
    <2>10. ResolvedIsInherited'
      BY <1>3, <2>5 DEF ResolvedIsInherited
    <2> QED
      BY <2>8, <2>9, <2>10 DEF IInv
  <1> QED
    BY <1>1, <1>2, <1>3 DEF Register

LEMMA RegisteredStep ==
    ASSUME IInv, Registered PROVE IInv'
  BY AdvanceStep, Phasing DEF Registered, IInv, Stacked

LEMMA LeastOf ==
    ASSUME NEW S \in SUBSET Name, S # {} PROVE Min(S) \in S
  <1>1. S \subseteq Nat
    BY RegistryAssumption
  <1>2. \E x \in S : \A y \in S : ~ (<<y, x>> \in OpToRel(<, Nat))
    BY <1>1, WFMin, NatLessThanWellFounded, Zenon
  <1>3. PICK x \in S : \A y \in S : ~ (<<y, x>> \in OpToRel(<, Nat))
    BY <1>2, Zenon
  <1>4. \A y \in S : ~(y < x)
    BY <1>1, <1>3, Zenon DEF OpToRel
  <1>5. \A y \in S : x =< y
    BY <1>1, <1>4
  <1> QED
    BY <1>5 DEF Min

LEMMA ResolvingPhase ==
    ASSUME NEW kind \in ProfileKind, Resolving(kind)
    PROVE  /\ phase \in {"node_aliases", "edge_aliases", "port_aliases"}
           /\ \A other : Resolving(other) => other = kind
           /\ phase = "node_aliases" => kind = "node"
  BY Phasing DEF Resolving

LEMMA VisitAliasStep ==
    ASSUME IInv, NEW kind \in ProfileKind, VisitAlias(kind) PROVE IInv'
  <1> DEFINE target == RawTarget(kind, Top)
  <1>0. stack # <<>> /\ Resolving(kind) /\ TypeOK
    BY DEF VisitAlias, IInv
  <1>1. /\ phase \in {"node_aliases", "edge_aliases", "port_aliases"}
        /\ \A other : Resolving(other) => other = kind
    BY <1>0, ResolvingPhase
  <1>2. Top \in Aliased(kind) /\ Top \in Name
    BY <1>0, Stack DEF IInv, TypeOK, Stacked, Top
  <1>3. target \in Name
    BY <1>0, <1>2, RawTargetName
  <1>4. \/ RegistryBuildError
        \/ target \in Aliased(kind) /\ Call(target)
        \/ /\ Known(kind, target)
           /\ alias' = [alias EXCEPT ![kind] = With(@, Top, canonical(kind, target))]
           /\ stack' = Pop
           /\ UNCHANGED <<input, phase, at, decl, node, edge, template>>
    BY DEF VisitAlias
  <1> HIDE DEF target
  <1>5. CASE RegistryBuildError
    BY <1>5, FailsStep
  <1>6. CASE target \in Aliased(kind) /\ Call(target)
    BY <1>1, <1>3, <1>6, CallStep
  <1>7. CASE /\ Known(kind, target)
             /\ alias' = [alias EXCEPT ![kind] = With(@, Top, canonical(kind, target))]
             /\ stack' = Pop
             /\ UNCHANGED <<input, phase, at, decl, node, edge, template>>
    <2>1. canonical(kind, target) \in Keys(kind)
      BY <1>0, <1>7 DEF Known, canonical, TypeOK, PartialTo
    <2>2. /\ DOMAIN alias' = ProfileKind
          /\ \A k \in ProfileKind : PartialTo(alias'[k], Aliased(k), Keys(k))
      BY <1>0, <1>2, <1>7, <2>1 DEF TypeOK, PartialTo, With
    <2>3. /\ stack' \in Seq(Name)
          /\ \A i \in DOMAIN stack' : i \in DOMAIN stack /\ stack'[i] = stack[i]
      BY <1>0, <1>7, Stack DEF TypeOK, Pop
    <2>4. TypeOK'
      BY <1>0, <1>7, <2>2, <2>3 DEF TypeOK, Aliased, Aliases, Keys
    <2>5. DOMAIN node = {} /\ DOMAIN edge = {}
      BY <1>1 DEF IInv, Staged, Early
    <2>6. \A k : Keys(k)' = Keys(k) /\ Aliased(k)' = Aliased(k) /\ Resolving(k)' = Resolving(k)
      BY <1>7 DEF Keys, Aliased, Aliases, Resolving
    <2>7. Staged' /\ Stacked'
      BY <1>1, <1>7, <2>3, <2>6 DEF IInv, Staged, Stacked
    <2>8. ResolvedIsInherited'
      BY <1>7, <2>5 DEF ResolvedIsInherited
    <2> QED
      BY <2>4, <2>7, <2>8 DEF IInv
  <1> QED
    BY <1>4, <1>5, <1>6, <1>7

LEMMA ResolveAliasesStep ==
    ASSUME IInv, ResolveAliases PROVE IInv'
  <1> PICK kind \in ProfileKind :
        AliasesClash(kind) \/ StartAlias(kind) \/ VisitAlias(kind) \/ AliasesDone(kind)
    BY DEF ResolveAliases
  <1>1. CASE AliasesClash(kind)
    BY <1>1, FailsStep DEF AliasesClash
  <1>2. CASE StartAlias(kind)
    <2>1. PendingAliases(kind) \subseteq Name /\ PendingAliases(kind) \subseteq Aliased(kind)
      BY AliasedNames DEF PendingAliases, IInv
    <2>2. PICK n \in PendingAliases(kind) : Call(n)
      BY <1>2, <2>1, LeastOf DEF StartAlias
    <2> QED
      BY <1>2, <2>1, <2>2, CallStep, ResolvingPhase DEF StartAlias
  <1>3. CASE VisitAlias(kind)
    BY <1>3, VisitAliasStep
  <1>4. CASE AliasesDone(kind)
    <2>1. Resolving(kind) /\ stack = <<>> /\ Advance /\ Aliased(kind) \cap Keys(kind) = {}
      BY <1>4 DEF AliasesDone, Clash
    <2> QED
      BY <2>1, AdvanceStep, ResolvingPhase, Phasing
  <1> QED
    BY <1>1, <1>2, <1>3, <1>4

LEMMA StartProfileStep ==
    ASSUME IInv, NEW kind \in {"node", "edge"}, NEW done, DOMAIN done \subseteq Keys(kind),
           phase \in {"nodes", "edges"}, phase = "nodes" => kind = "node",
           phase = "edges" => kind = "edge",
           StartProfile(kind, done)
    PROVE  IInv'
  <1>1. Keys(kind) \ DOMAIN done # {} /\ Keys(kind) \subseteq Name
    BY KeysNames, KindNames DEF StartProfile, IInv
  <1>2. PICK n \in Keys(kind) : Call(n)
    BY <1>1, LeastOf DEF StartProfile
  <1> QED
    BY <1>1, <1>2, CallStep, Phasing DEF Resolving

LEMMA VisitBaseStep ==
    ASSUME IInv, NEW kind \in {"node", "edge"}, NEW done,
           phase \in {"nodes", "edges"}, phase = "nodes" => kind = "node",
           phase = "edges" => kind = "edge",
           VisitBase(kind, done)
    PROVE  IInv'
  <1>1. CASE RegistryBuildError
    BY <1>1, FailsStep
  <1>2. CASE ~RegistryBuildError
    <2>1. PICK n \in Keys(kind) : Call(n)
      BY <1>2 DEF VisitBase
    <2>2. n \in Name
      BY KeysNames, KindNames DEF IInv
    <2> QED
      BY <2>1, <2>2, CallStep, Phasing DEF Resolving
  <1> QED
    BY <1>1, <1>2

LEMMA FinishNodeStep ==
    ASSUME IInv, phase = "nodes", FinishNode PROVE IInv'
  <1>1. CASE RegistryBuildError
    BY <1>1, FailsStep
  <1>2. CASE /\ node' = With(node, Top, NodeItem)
             /\ stack' = Pop
             /\ UNCHANGED <<input, phase, at, decl, alias, edge, template>>
    <2>0. stack # <<>> /\ BaseReady("node", node) /\ TypeOK
      BY DEF FinishNode, IInv
    <2>1. NodeItem \in ResolvedNode /\ NodeInherits(Top, NodeItem) /\ Top \in Keys("node")
      BY <2>0, NodeItemInherits
    <2>2. /\ DOMAIN node' = DOMAIN node \cup {Top}
          /\ \A k \in DOMAIN node' : node'[k] = IF k = Top THEN NodeItem ELSE node[k]
      BY <1>2 DEF With
    <2>3. /\ stack' \in Seq(Name)
          /\ \A i \in DOMAIN stack' : i \in DOMAIN stack /\ stack'[i] = stack[i]
      BY <1>2, <2>0, Stack DEF TypeOK, Pop
    <2>4. PartialTo(node', Keys("node"), ResolvedNode)
      BY <2>0, <2>1, <2>2 DEF TypeOK, PartialTo
    <2>5. TypeOK'
      BY <1>2, <2>0, <2>3, <2>4 DEF TypeOK, Aliased, Aliases, Keys
    <2>6. \A k : Keys(k)' = Keys(k) /\ Aliased(k)' = Aliased(k) /\ ~Resolving(k)'
      BY <1>2, Phasing DEF Keys, Aliased, Aliases, Resolving
    <2>7. Staged' /\ Stacked'
      BY <1>2, <2>3, <2>6 DEF IInv, Staged, Stacked, Early
    <2>8. \A k \in DOMAIN node' : NodeInherits(k, node'[k])
      BY <2>1, <2>2 DEF IInv, ResolvedIsInherited
    <2>9. \A k, item : NodeInherits(k, item) => NodeInherits(k, item)'
      <3>1. \A kind, k : BaseKey(kind, k)' = BaseKey(kind, k)
        BY <1>2 DEF BaseKey, canonical
      <3>2. \A names : Written(names)' = Written(names)
        BY <1>2 DEF Written, Canonical, canonical
      <3>3. \A kind, k, lineage : Ancestry(kind, k, lineage)' <=> Ancestry(kind, k, lineage)
        BY <1>2, <3>1 DEF Ancestry, Keys
      <3> QED
        BY <1>2, <3>2, <3>3 DEF NodeInherits
    <2>10. DOMAIN edge' = {}
      BY <1>2 DEF IInv, Staged
    <2>11. ResolvedIsInherited'
      BY <2>8, <2>9, <2>10 DEF ResolvedIsInherited
    <2> QED
      BY <2>5, <2>7, <2>11 DEF IInv
  <1> QED
    BY <1>1, <1>2 DEF FinishNode

LEMMA FinishEdgeStep ==
    ASSUME IInv, phase = "edges", FinishEdge PROVE IInv'
  <1>1. CASE RegistryBuildError
    BY <1>1, FailsStep
  <1>2. CASE /\ edge' = With(edge, Top, EdgeItem)
             /\ stack' = Pop
             /\ UNCHANGED <<input, phase, at, decl, alias, node, template>>
    <2>0. stack # <<>> /\ BaseReady("edge", edge) /\ TypeOK
      BY DEF FinishEdge, IInv
    <2>1. EdgeItem \in ResolvedEdge /\ EdgeInherits(Top, EdgeItem) /\ Top \in Keys("edge")
      BY <2>0, EdgeItemInherits
    <2>2. /\ DOMAIN edge' = DOMAIN edge \cup {Top}
          /\ \A k \in DOMAIN edge' : edge'[k] = IF k = Top THEN EdgeItem ELSE edge[k]
      BY <1>2 DEF With
    <2>3. /\ stack' \in Seq(Name)
          /\ \A i \in DOMAIN stack' : i \in DOMAIN stack /\ stack'[i] = stack[i]
      BY <1>2, <2>0, Stack DEF TypeOK, Pop
    <2>4. PartialTo(edge', Keys("edge"), ResolvedEdge)
      BY <2>0, <2>1, <2>2 DEF TypeOK, PartialTo
    <2>5. TypeOK'
      BY <1>2, <2>0, <2>3, <2>4 DEF TypeOK, Aliased, Aliases, Keys
    <2>6. \A k : Keys(k)' = Keys(k) /\ Aliased(k)' = Aliased(k) /\ ~Resolving(k)'
      BY <1>2, Phasing DEF Keys, Aliased, Aliases, Resolving
    <2>7. Staged' /\ Stacked'
      BY <1>2, <2>3, <2>6 DEF IInv, Staged, Stacked, Early
    <2>8. /\ \A k \in DOMAIN edge' : EdgeInherits(k, edge'[k])
          /\ \A k \in DOMAIN node : NodeInherits(k, node[k])
      BY <2>1, <2>2 DEF IInv, ResolvedIsInherited
    <2>9. /\ \A k, item : NodeInherits(k, item) => NodeInherits(k, item)'
          /\ \A k, item : EdgeInherits(k, item) => EdgeInherits(k, item)'
      <3>1. \A kind, k : BaseKey(kind, k)' = BaseKey(kind, k)
        BY <1>2 DEF BaseKey, canonical
      <3>2. \A names : Written(names)' = Written(names)
        BY <1>2 DEF Written, Canonical, canonical
      <3>3. \A kind, k, lineage : Ancestry(kind, k, lineage)' <=> Ancestry(kind, k, lineage)
        BY <1>2, <3>1 DEF Ancestry, Keys
      <3>4. \A k, item : NodeInherits(k, item) => NodeInherits(k, item)'
        BY <1>2, <3>2, <3>3 DEF NodeInherits
      <3>5. \A k, item : EdgeInherits(k, item) => EdgeInherits(k, item)'
        BY <1>2, <3>2, <3>3 DEF EdgeInherits
      <3> QED
        BY <3>4, <3>5
    <2>10. ResolvedIsInherited'
      BY <1>2, <2>8, <2>9 DEF ResolvedIsInherited
    <2> QED
      BY <2>5, <2>7, <2>10 DEF IInv
  <1> QED
    BY <1>1, <1>2 DEF FinishEdge

LEMMA ResolveNodesStep ==
    ASSUME IInv, ResolveNodes PROVE IInv'
  <1>1. phase = "nodes" /\ DOMAIN node \subseteq Keys("node")
    BY DEF ResolveNodes, IInv, TypeOK, PartialTo
  <1>2. CASE ProfilesDone("node", node)
    BY <1>1, <1>2, AdvanceStep, Phasing DEF ProfilesDone
  <1>3. CASE StartProfile("node", node)
    BY <1>1, <1>3, StartProfileStep
  <1>4. CASE VisitBase("node", node)
    BY <1>1, <1>4, VisitBaseStep
  <1>5. CASE FinishNode
    BY <1>1, <1>5, FinishNodeStep
  <1> QED
    BY <1>2, <1>3, <1>4, <1>5 DEF ResolveNodes

LEMMA ResolveEdgesStep ==
    ASSUME IInv, ResolveEdges PROVE IInv'
  <1>1. phase = "edges" /\ DOMAIN edge \subseteq Keys("edge")
    BY DEF ResolveEdges, IInv, TypeOK, PartialTo
  <1>2. CASE ProfilesDone("edge", edge)
    BY <1>1, <1>2, AdvanceStep, Phasing DEF ProfilesDone
  <1>3. CASE StartProfile("edge", edge)
    BY <1>1, <1>3, StartProfileStep
  <1>4. CASE VisitBase("edge", edge)
    BY <1>1, <1>4, VisitBaseStep
  <1>5. CASE FinishEdge
    BY <1>1, <1>5, FinishEdgeStep
  <1> QED
    BY <1>2, <1>3, <1>4, <1>5 DEF ResolveEdges

LEMMA ResolveTemplateTyped ==
    ASSUME TypeOK, NEW spec \in TemplateSpec
    PROVE  LET item == ResolveTemplate(spec)
           IN  /\ item = [profile |-> canonical("node", spec.profile),
                          ports |-> {canonical("port", p) : p \in spec.ports}, json |-> spec.json]
               /\ item.profile = canonical("node", spec.profile)
               /\ item.ports = {canonical("port", p) : p \in spec.ports}
               /\ item.json = spec.json
  <1> DEFINE ports == {canonical("port", p) : p \in spec.ports}
             profile == canonical("node", spec.profile)
  <1>1. ResolveTemplate(spec) = [spec EXCEPT !.profile = profile, !.ports = ports]
    BY DEF TemplateSpec, ResolveTemplate
  <1> HIDE DEF ports, profile
  <1>2. ResolveTemplate(spec) = [profile |-> profile, ports |-> ports, json |-> spec.json]
    BY <1>1 DEF TemplateSpec
  <1> QED
    BY <1>2 DEF ports, profile

LEMMA ResolveTemplatesStep ==
    ASSUME IInv, ResolveTemplates PROVE IInv'
  <1>1. CASE RegistryBuildError
    BY <1>1, FailsStep
  <1>2. CASE /\ \A t \in Keys("template") : TemplateOk(decl["template"][t])
             /\ template' = [t \in Keys("template") |-> ResolveTemplate(decl["template"][t])]
             /\ phase' = Sequel[phase]
             /\ UNCHANGED <<input, at, decl, alias, stack, node, edge>>
    <2>0. phase = "templates" /\ phase' = "actions" /\ stack = <<>>
      BY <1>2, Phasing DEF ResolveTemplates, IInv, Stacked
    <2>1. DOMAIN node \subseteq Name /\ Keys("port") \subseteq Name
      BY KeysNames, KindNames DEF IInv, TypeOK, PartialTo
    <2>2. \A t \in Keys("template") : ResolveTemplate(decl["template"][t]) \in TemplateSpec
      <3> SUFFICES ASSUME NEW t \in Keys("template")
                   PROVE  ResolveTemplate(decl["template"][t]) \in TemplateSpec
        OBVIOUS
      <3>1. decl["template"][t] \in TemplateSpec /\ TypeOK /\ TemplateOk(decl["template"][t])
        BY <1>2, SpecTyped DEF IInv
      <3>2. \A spec \in TemplateSpec : TemplateOk(spec) =>
                /\ canonical("node", spec.profile) \in Name /\ spec.json \in BOOLEAN
                /\ {canonical("port", p) : p \in spec.ports} \in SUBSET Name
        BY <2>1 DEF TemplateOk, TemplateSpec
      <3> QED
        BY <3>1, <3>2, ResolveTemplateTyped DEF TemplateSpec
    <2>3. PartialTo(template', Keys("template"), TemplateSpec)
      BY <1>2, <2>2 DEF PartialTo
    <2>4. TypeOK'
      BY <1>2, <2>0, <2>3, Phasing DEF IInv, TypeOK, Aliased, Aliases, Keys, Phases
    <2>5. \A k : Keys(k)' = Keys(k) /\ Aliased(k)' = Aliased(k)
      BY <1>2 DEF Keys, Aliased, Aliases
    <2>6. Staged' /\ Stacked'
      BY <1>2, <2>0, <2>5, Phasing DEF IInv, Staged, Stacked, Early, Resolving
    <2>7. ResolvedIsInherited'
      BY <1>2, InheritedStays DEF IInv
    <2> QED
      BY <2>4, <2>6, <2>7 DEF IInv
  <1> QED
    BY <1>1, <1>2 DEF ResolveTemplates

LEMMA FinishStep ==
    ASSUME IInv, Finish PROVE IInv'
  <1>1. phase = "actions" /\ stack = <<>>
    BY DEF Finish, IInv, Stacked
  <1> QED
    BY <1>1, FailsStep, AdvanceStep, Phasing DEF Finish

-----------------------------------------------------------------------------
(* The invariant.                                                          *)

LEMMA Initially == Init => IInv
  <1> SUFFICES ASSUME Init PROVE IInv
    OBVIOUS
  <1>0. stack = <<>> /\ DOMAIN node = {} /\ DOMAIN edge = {} /\ DOMAIN template = {} /\ phase = "register"
    BY DEF Init
  <1>1. Packages(input)
    BY RegistryAssumption DEF Init
  <1>2. at \in 1..(Len(input) + 1)
    BY <1>1 DEF Init, Packages
  <1>3. DOMAIN decl = Kinds /\ \A k \in Kinds : PartialTo(decl[k], Name, Body[k])
    BY DEF Init, PartialTo
  <1>4. DOMAIN alias = ProfileKind /\ \A k \in ProfileKind : PartialTo(alias[k], Aliased(k), Keys(k))
    BY DEF Init, PartialTo
  <1>5. TypeOK
    BY <1>0, <1>1, <1>2, <1>3, <1>4, Phasing DEF TypeOK, PartialTo, Phases
  <1> QED
    BY <1>0, <1>5, Phasing DEF IInv, Staged, Stacked, Early, Resolving, ResolvedIsInherited

LEMMA Inductive == IInv /\ [Next]_vars => IInv'
  <1> SUFFICES ASSUME IInv, [Next]_vars PROVE IInv'
    OBVIOUS
  <1>1. CASE UNCHANGED vars
    <2>1. Same /\ UNCHANGED <<phase, stack>>
      BY <1>1 DEF vars, Same
    <2>2. TypeOK'
      BY <2>1, SameTyped DEF IInv, TypeOK
    <2>3. Staged' /\ Stacked'
      BY <2>1 DEF IInv, Staged, Stacked, Same, Keys, Aliased, Aliases, Resolving
    <2>4. ResolvedIsInherited'
      BY <2>1, InheritedStays DEF IInv, Same
    <2> QED
      BY <2>2, <2>3, <2>4 DEF IInv
  <1> QED
    BY <1>1, RegisterStep, RegisteredStep, ResolveAliasesStep, ResolveNodesStep, ResolveEdgesStep,
       ResolveTemplatesStep, FinishStep DEF Next

LEMMA Always == Spec => []IInv
  BY Initially, Inductive, PTL DEF Spec

(* Whatever the packages declare, build keeps declarations, aliases and     *)
(* resolved profiles well-formed: an alias is known by a declared key only. *)
THEOREM TypeCorrect == Spec => []TypeOK
  BY Always, PTL DEF IInv

(* Single inheritance (Registry.build): for any packages, however long the  *)
(* lineages and in whatever order visit() meets them, every resolved        *)
(* profile is its ancestry, flattened.                                      *)
THEOREM Inheritance == Spec => []ResolvedIsInherited
  BY Always, PTL DEF IInv

-----------------------------------------------------------------------------
(* How far build has come.                                                 *)

\* Every nonempty set of names has a step out of it.
Grounded(to, names) == \A S \in SUBSET names : S # {} => \E n \in S : to[n] \notin S
\* A stack of visit(): distinct names, not done, each called for the one before.
Trail(s, to, done) ==
    /\ \A i \in DOMAIN s : s[i] \notin done
    /\ \A i, j \in DOMAIN s : s[i] = s[j] => i = j
    /\ \A i \in DOMAIN s : i + 1 \in DOMAIN s => to[s[i]] = s[i + 1]

Targets(kind) == [a \in Aliased(kind) |-> RawTarget(kind, a)]
Bases(kind) == [k \in Keys(kind) |-> BaseKey(kind, k)]

\* The declarations read so far were accepted and are the dicts, one entry each.
Booked ==
    /\ \A i \in DOMAIN input : i < at => Accepted(input[i])
    /\ \A i \in DOMAIN input : i < at /\ input[i].kind # "alias" =>
          /\ input[i].key \in Keys(input[i].kind)
          /\ decl[input[i].kind][input[i].key] = input[i].body
    /\ \A kind \in Kinds : \A k \in Keys(kind) :
          \E i \in DOMAIN input : i < at /\ input[i].kind = kind /\ input[i].key = k
    /\ \A i, j \in DOMAIN input :
          i < at /\ j < at /\ input[i].kind # "alias" /\ input[i].kind = input[j].kind
          /\ input[i].key = input[j].key => i = j

\* A resolved alias leads to a key, along the targets declared.
AliasesLed(kind) ==
    /\ \A a \in DOMAIN alias[kind] :
        /\ Known(kind, RawTarget(kind, a))
        /\ alias[kind][a] = canonical(kind, RawTarget(kind, a))
    /\ Grounded(Targets(kind), DOMAIN alias[kind])

\* A resolved profile is made of its declaration and its base, and was checked.
NodeMade(k) ==
    LET base == BaseKey("node", k) IN
    /\ base \in Opt(DOMAIN node)
    /\ node[k] = ResolveNode(k, decl["node"][k], IF base = None THEN NodeBase ELSE node[base])
    /\ NodeOk(decl["node"][k], node[k])
    /\ node[k].capabilities \subseteq Keys("capability")
NodesMade ==
    (\A k \in DOMAIN node : NodeMade(k)) /\ Grounded(Bases("node"), DOMAIN node)
EdgeMade(k) ==
    LET base == BaseKey("edge", k) IN
    /\ base \in Opt(DOMAIN edge)
    /\ edge[k] = ResolveEdge(k, decl["edge"][k], IF base = None THEN EdgeBase ELSE edge[base])
    /\ EdgeOk(decl["edge"][k], edge[k])
    /\ \A s \in Side : edge[k].required[s] \subseteq Keys("capability")
EdgesMade ==
    (\A k \in DOMAIN edge : EdgeMade(k)) /\ Grounded(Bases("edge"), DOMAIN edge)

\* How far each phase has come.  Before[kind]: its aliases are still to come.
Before == [node |-> {"register"}, edge |-> {"register", "node_aliases"},
           port |-> {"register", "node_aliases", "edge_aliases"}]
\* kind has been through _resolve_aliases.
AliasesKnown(kind) == ~Clash(kind) /\ DOMAIN alias[kind] = Aliased(kind)
AliasesReached(kind) ==
    /\ phase \in Before[kind] => DOMAIN alias[kind] = {}
    /\ Resolving(kind) =>
        /\ Trail(stack, Targets(kind), DOMAIN alias[kind])
        /\ stack # <<>> \/ DOMAIN alias[kind] # {} => ~Clash(kind)
    /\ phase \notin Before[kind] /\ ~Resolving(kind) => AliasesKnown(kind)
ProfilesReached ==
    /\ phase = "nodes" => Trail(stack, Bases("node"), DOMAIN node)
    /\ phase \in {"edges", "templates", "actions", "built"} => DOMAIN node = Keys("node")
    /\ phase = "edges" => Trail(stack, Bases("edge"), DOMAIN edge)
    /\ phase \in {"templates", "actions", "built"} => DOMAIN edge = Keys("edge")
RestReached ==
    /\ phase \in {"actions", "built"} =>
        /\ \A t \in Keys("template") : TemplateOk(decl["template"][t])
        /\ template = [t \in Keys("template") |-> ResolveTemplate(decl["template"][t])]
    /\ phase = "built" =>
        /\ \A a \in Keys("action") : ActionOk(decl["action"][a])
        /\ \A t \in Keys("template") : decl["template"][t].json
Reached ==
    /\ phase # "register" => at > Len(input)
    /\ \A kind \in ProfileKind : AliasesReached(kind)
    /\ ProfilesReached /\ RestReached

Kept == Booked /\ (\A kind \in ProfileKind : AliasesLed(kind)) /\ NodesMade /\ EdgesMade
Made == phase # "failed" => Kept /\ Reached
\* The build only fails if the packages break a rule.
Refused == phase = "failed" => ~WellFormed
Decided == Made /\ Refused

-----------------------------------------------------------------------------
(* Steps between names that end.                                           *)

\* A new name that no step leads to, and that does not lead to itself.
LEMMA GroundedGrows ==
    ASSUME NEW to, NEW names, NEW k, Grounded(to, names), to[k] # k,
           \A n \in names : to[n] # k
    PROVE  Grounded(to, names \cup {k})
  <1> SUFFICES ASSUME NEW S \in SUBSET (names \cup {k}), S # {}
               PROVE  \E n \in S : to[n] \notin S
    BY DEF Grounded
  <1>1. CASE S \ {k} = {}
    <2>1. S = {k}
      BY <1>1
    <2> QED
      BY <2>1
  <1>2. CASE S \ {k} # {}
    <2>1. PICK n \in S \ {k} : to[n] \notin S \ {k}
      BY <1>2 DEF Grounded
    <2> QED
      BY <2>1
  <1> QED
    BY <1>1, <1>2

LEMMA GroundedSame ==
    ASSUME NEW to, NEW names, NEW other, Grounded(to, names), \A n \in names : other[n] = to[n]
    PROVE  Grounded(other, names)
  BY DEF Grounded

\* A call of what is already on the stack closes a cycle.
LEMMA CycleHasNoWayOut ==
    ASSUME NEW to, NEW done, NEW names, stack \in Seq(Name), stack # <<>>, Trail(stack, to, done),
           \A i \in DOMAIN stack : stack[i] \in names, OnStack(to[Top])
    PROVE  ~Grounded(to, names)
  <1>1. PICK first \in DOMAIN stack : stack[first] = to[Top]
    BY DEF OnStack, Contains
  <1>2. /\ DOMAIN stack = 1..Len(stack) /\ Len(stack) \in Nat /\ Top = stack[Len(stack)]
        /\ Len(stack) \in DOMAIN stack /\ first \in Nat /\ 1 <= first
    BY <1>1, Stack DEF Top
  <1> DEFINE S == {stack[i] : i \in first..Len(stack)}
  <1>3. S \in SUBSET names /\ S # {}
    BY <1>1, <1>2
  <1>4. ASSUME NEW n \in S PROVE to[n] \in S
    <2>1. PICK i \in first..Len(stack) : n = stack[i]
      OBVIOUS
    <2>2. CASE i = Len(stack)
      BY <1>1, <1>2, <2>1, <2>2
    <2>3. CASE i # Len(stack)
      <3>1. i \in DOMAIN stack /\ i + 1 \in DOMAIN stack /\ i + 1 \in first..Len(stack)
        <4>1. \A f, j, m \in Nat : 1 <= f /\ j \in f..m /\ j # m =>
                j \in 1..m /\ j + 1 \in 1..m /\ j + 1 \in f..m
          OBVIOUS
        <4>2. i \in Nat
          BY <1>2, <2>1
        <4> HIDE DEF S
        <4> QED
          BY <1>2, <2>1, <2>3, <4>1, <4>2, Zenon
      <3> QED
        BY <2>1, <3>1 DEF Trail
    <2> QED
      BY <2>2, <2>3
  <1> QED
    BY <1>3, <1>4 DEF Grounded

\* v is the value of an overridden field: a name's own, or that of its base.
Along(v, to, own, default, names) ==
    \A k \in names : v[k] = IF own[k] # None THEN own[k]
                            ELSE IF to[k] = None THEN default ELSE v[to[k]]

LEMMA AlongIsUnique ==
    ASSUME NEW to, NEW own, NEW default, NEW names, NEW some, None \notin names,
           Grounded(to, names), some \subseteq names,
           \A k \in some : to[k] \in Opt(some),
           NEW v, NEW w, Along(v, to, own, default, names), Along(w, to, own, default, some)
    PROVE  \A k \in some : v[k] = w[k]
  <1> DEFINE S == {k \in some : v[k] # w[k]}
  <1>1. S \in SUBSET names
    OBVIOUS
  <1>2. ASSUME S # {} PROVE FALSE
    <2>1. PICK k \in S : to[k] \notin S
      BY <1>1, <1>2 DEF Grounded
    <2>2. to[k] # None /\ own[k] = None => v[to[k]] = w[to[k]]
      BY <2>1 DEF Opt
    <2> QED
      BY <2>1, <2>2 DEF Along
  <1> QED
    BY <1>2

\* Such values exist: the names that can have one are all names.
LEMMA AlongExists ==
    ASSUME NEW to, NEW own, NEW Values, NEW default \in Values, NEW names, None \notin names,
           Grounded(to, names), \A k \in names : to[k] \in Opt(names),
           \A k \in names : own[k] \in Opt(Values)
    PROVE  \E v \in [names -> Values] : Along(v, to, own, default, names)
  <1> DEFINE Part(some) == /\ some \in SUBSET names /\ \A k \in some : to[k] \in Opt(some)
                           /\ \E v \in [some -> Values] : Along(v, to, own, default, some)
             all == {k \in names : \E some \in SUBSET names : Part(some) /\ k \in some}
             Value(k, x) == \E some \in SUBSET names : Part(some) /\ k \in some
                              /\ \E v \in [some -> Values] : Along(v, to, own, default, some) /\ x = v[k]
             u == [k \in all |-> CHOOSE x \in Values : Value(k, x)]
  <1>1. \A k \in all : u[k] \in Values /\ Value(k, u[k])
    <2> SUFFICES ASSUME NEW k \in all PROVE \E x \in Values : Value(k, x)
      OBVIOUS
    <2>1. PICK some \in SUBSET names : Part(some) /\ k \in some
      OBVIOUS
    <2>2. PICK v \in [some -> Values] : Along(v, to, own, default, some)
      BY <2>1
    <2>3. v[k] \in Values
      BY <2>1, <2>2
    <2> QED
      BY <2>1, <2>2, <2>3
  <1>2. ASSUME NEW A \in SUBSET names, NEW B \in SUBSET names, Part(A), Part(B),
               NEW v, Along(v, to, own, default, A), NEW w, Along(w, to, own, default, B),
               NEW k \in A, k \in B
        PROVE  v[k] = w[k]
    <2> DEFINE S == {n \in A \cap B : v[n] # w[n]}
    <2>1. ASSUME S # {} PROVE FALSE
      <3>1. S \in SUBSET names
        OBVIOUS
      <3>2. PICK n \in S : to[n] \notin S
        BY <2>1, <3>1 DEF Grounded
      <3>3. to[n] \in Opt(A) /\ to[n] \in Opt(B)
        BY <1>2
      <3>4. to[n] # None => v[to[n]] = w[to[n]]
        BY <3>2, <3>3 DEF Opt
      <3> QED
        BY <1>2, <3>2, <3>4 DEF Along
    <2> QED
      BY <1>2, <2>1
  <1> HIDE DEF u
  <1>3. ASSUME NEW k \in all
        PROVE  /\ to[k] \in Opt(all)
               /\ u[k] = IF own[k] # None THEN own[k]
                         ELSE IF to[k] = None THEN default ELSE u[to[k]]
    <2>1. PICK some \in SUBSET names : Part(some) /\ k \in some
            /\ \E v \in [some -> Values] : Along(v, to, own, default, some) /\ u[k] = v[k]
      BY <1>1
    <2>2. PICK v \in [some -> Values] : Along(v, to, own, default, some) /\ u[k] = v[k]
      BY <2>1
    <2>3. some \subseteq all /\ to[k] \in Opt(some)
      BY <2>1
    <2>4. to[k] # None => u[to[k]] = v[to[k]]
      <3> SUFFICES ASSUME to[k] # None PROVE u[to[k]] = v[to[k]]
        OBVIOUS
      <3>1. to[k] \in some /\ to[k] \in all
        BY <2>3 DEF Opt
      <3>2. PICK more \in SUBSET names : Part(more) /\ to[k] \in more
              /\ \E w \in [more -> Values] : Along(w, to, own, default, more) /\ u[to[k]] = w[to[k]]
        BY <1>1, <3>1
      <3>3. PICK w \in [more -> Values] : Along(w, to, own, default, more) /\ u[to[k]] = w[to[k]]
        BY <3>2
      <3> HIDE DEF Part, all, Value
      <3> QED
        BY <1>2, <2>1, <2>2, <3>1, <3>2, <3>3
    <2> HIDE DEF Part, all, Value
    <2> QED
      BY <2>1, <2>2, <2>3, <2>4 DEF Along, Opt
  <1>4. u \in [all -> Values] /\ Along(u, to, own, default, all)
    BY <1>1, <1>3 DEF Along, u
  <1>5. all \subseteq names
    OBVIOUS
  <1>6. ASSUME names \ all # {} PROVE FALSE
    <2>1. PICK k \in names \ all : to[k] \notin names \ all
      BY <1>6 DEF Grounded
    <2> DEFINE more == all \cup {k}
               w == [n \in more |-> IF n \in all THEN u[n]
                                    ELSE IF own[n] # None THEN own[n]
                                    ELSE IF to[n] = None THEN default ELSE u[to[n]]]
    <2>2. to[k] \in Opt(all)
      BY <2>1 DEF Opt
    <2>3. w \in [more -> Values]
      BY <1>4, <2>1, <2>2 DEF Opt
    <2>4. \A n \in more : to[n] \in Opt(all)
      BY <1>3, <2>2
    <2>5. Along(w, to, own, default, more)
      <3> SUFFICES ASSUME NEW n \in more
                   PROVE  w[n] = IF own[n] # None THEN own[n]
                                 ELSE IF to[n] = None THEN default ELSE w[to[n]]
        BY DEF Along
      <3>1. to[n] # None => to[n] \in all
        BY <2>4 DEF Opt
      <3> HIDE DEF all
      <3>2. to[n] # None => w[to[n]] = u[to[n]]
        BY <3>1
      <3> QED
        BY <1>3, <3>2
    <2>6. Part(more)
      BY <1>5, <2>1, <2>3, <2>4, <2>5 DEF Opt
    <2> QED
      BY <1>5, <2>1, <2>6
  <1> QED
    BY <1>4, <1>5, <1>6

-----------------------------------------------------------------------------
(* What the packages say and what build has made of them.                  *)

LEMMA Entries ==
    ASSUME TypeOK, NEW i \in DOMAIN input
    PROVE  /\ Declaration(input[i]) /\ i \in Nat /\ i <= Len(input) /\ Len(input) \in Nat
           /\ input[i].kind = "alias" \/ input[i].kind \in Kinds
  <1>1. Declaration(input[i])
    BY DEF TypeOK, Packages, Range
  <1>2. input \in Seq(Range(input))
    BY DEF TypeOK, Packages
  <1> QED
    BY <1>1, <1>2 DEF Declaration

LEMMA NoAliasKind == "alias" \notin Kinds
  BY KindNames

\* After the registering the dicts are the declarations.
LEMMA DictsAreDeclarations ==
    ASSUME TypeOK, Booked, at > Len(input)
    PROVE  /\ NamesTrimmed /\ CapabilitiesConsumed /\ NoDuplicate
           /\ \A kind \in Kinds : /\ Declared(kind) = Keys(kind)
                                  /\ \A k \in Keys(kind) : decl[kind][k] = SpecOf(kind, k)
  <1>1. \A i \in DOMAIN input : i < at
    BY Entries DEF Booked, TypeOK
  <1>2. NoDuplicate
    BY <1>1, NoAliasKind DEF Booked, NoDuplicate, Given
  <1>3. ASSUME NEW kind \in Kinds PROVE Declared(kind) = Keys(kind)
    BY <1>1, NoAliasKind DEF Booked, Declared, Given
  <1>4. ASSUME NEW kind \in Kinds, NEW k \in Keys(kind) PROVE decl[kind][k] = SpecOf(kind, k)
    <2> DEFINE i == CHOOSE i \in Given(kind) : input[i].key = k
    <2>1. i \in Given(kind) /\ input[i].key = k
      BY <1>3, <1>4 DEF Declared
    <2>2. i \in DOMAIN input /\ input[i].kind = kind /\ kind # "alias"
      BY <2>1, NoAliasKind DEF Given
    <2> HIDE DEF i
    <2>3. decl[kind][k] = input[i].body
      BY <1>1, <2>1, <2>2 DEF Booked
    <2> QED
      BY <2>3 DEF SpecOf, i
  <1>5. NamesTrimmed
    BY <1>1 DEF Booked, Accepted, NamesTrimmed
  <1>6. CapabilitiesConsumed
    <2> SUFFICES ASSUME NEW c \in Declared("capability")
                 PROVE  SpecOf("capability", c).consumers # {}
      BY DEF CapabilitiesConsumed
    <2> DEFINE i == CHOOSE i \in Given("capability") : input[i].key = c
    <2>1. i \in Given("capability")
      BY DEF Declared
    <2>2. Accepted(input[i]) /\ input[i].kind = "capability"
      BY <1>1, <2>1 DEF Booked, Given
    <2> QED
      BY <2>2 DEF Accepted, SpecOf
  <1> QED
    BY <1>2, <1>3, <1>4, <1>5, <1>6

\* The aliases of a kind that is through lead to keys, each as declared.
LEMMA AliasesMean ==
    ASSUME TypeOK, Booked, at > Len(input), NEW kind \in ProfileKind,
           AliasesLed(kind), AliasesKnown(kind)
    PROVE  AliasesLead(kind) /\ \A n : Means(kind, n) = canonical(kind, n)
  <1>0. kind \in Kinds
    BY KindNames DEF ProfileKind
  <1>1. Declared(kind) = Keys(kind)
    BY <1>0, DictsAreDeclarations
  <1>2. Aliased(kind) \cap Keys(kind) = {}
    BY DEF AliasesKnown, Clash
  <1>3. DOMAIN alias[kind] = Aliased(kind)
    BY DEF AliasesKnown
  <1>4. \A a \in Aliased(kind) :
          /\ alias[kind][a] \in Keys(kind)
          /\ RawTarget(kind, a) \in Keys(kind) \cup Aliased(kind)
          /\ alias[kind][a] = canonical(kind, RawTarget(kind, a))
          /\ Targets(kind)[a] = RawTarget(kind, a)
    BY <1>3 DEF AliasesLed, TypeOK, PartialTo, Known, Targets
  <1>5. Grounded(Targets(kind), Aliased(kind))
    BY <1>3 DEF AliasesLed
  <1>6. AliasesLead(kind)
    <2>1. \A i, j \in Aliases(kind) : input[i].key = input[j].key => i = j
      BY DEF AliasesKnown, Clash
    <2>2. \A S \in SUBSET Aliased(kind) : S # {} => \E n \in S : RawTarget(kind, n) \notin S
      BY <1>4, <1>5 DEF Grounded
    <2> QED
      BY <1>1, <1>2, <1>4, <2>1, <2>2 DEF AliasesLead, Leads
  <1> DEFINE Lands(c) == \A a \in Aliased(kind) :
                c[a] = IF RawTarget(kind, a) \in Declared(kind) THEN RawTarget(kind, a)
                       ELSE c[RawTarget(kind, a)]
  <1> DEFINE known == [a \in Aliased(kind) |-> alias[kind][a]]
  <1>7. known \in [Aliased(kind) -> Declared(kind)] /\ Lands(known)
    <2>1. \A a \in Aliased(kind) :
            alias[kind][a] = IF RawTarget(kind, a) \in Declared(kind) THEN RawTarget(kind, a)
                             ELSE alias[kind][RawTarget(kind, a)]
      BY <1>1, <1>2, <1>3, <1>4 DEF canonical
    <2>2. \A a \in Aliased(kind) : RawTarget(kind, a) \notin Declared(kind) => RawTarget(kind, a) \in Aliased(kind)
      BY <1>1, <1>4
    <2> QED
      BY <1>1, <1>4, <2>1, <2>2
  <1>8. Meaning(kind) \in [Aliased(kind) -> Declared(kind)] /\ Lands(Meaning(kind))
    BY <1>7 DEF Meaning
  <1>9. \A a \in Aliased(kind) : Meaning(kind)[a] = alias[kind][a]
    <2> DEFINE S == {a \in Aliased(kind) : Meaning(kind)[a] # alias[kind][a]}
    <2> SUFFICES ASSUME S # {} PROVE FALSE
      OBVIOUS
    <2>1. PICK a \in S : Targets(kind)[a] \notin S
      BY <1>5 DEF Grounded
    <2>2. RawTarget(kind, a) \notin S
      BY <1>4, <2>1
    <2> QED
      BY <1>1, <1>4, <1>7, <1>8, <2>1, <2>2
  <1>10. \A n : Means(kind, n) = canonical(kind, n)
    BY <1>3, <1>9 DEF Means, canonical
  <1> QED
    BY <1>6, <1>10

-----------------------------------------------------------------------------
(* Profiles.  All aliases are known when the first one is resolved.        *)

Settled ==
    /\ TypeOK /\ Booked /\ at > Len(input)
    /\ \A kind \in ProfileKind : AliasesLed(kind) /\ AliasesKnown(kind)

LEMMA SettledMeans ==
    ASSUME Settled
    PROVE  /\ \A kind \in Kinds : /\ Declared(kind) = Keys(kind)
                                  /\ \A k \in Keys(kind) : decl[kind][k] = SpecOf(kind, k)
           /\ NamesTrimmed /\ CapabilitiesConsumed /\ NoDuplicate
           /\ \A kind \in ProfileKind : /\ AliasesLead(kind)
                                        /\ \A n : Means(kind, n) = canonical(kind, n)
                                        /\ \A n : canonical(kind, n) \in Keys(kind) \cup {n}
                                        /\ \A n \in Keys(kind) : canonical(kind, n) = n
  <1>1. ASSUME NEW kind \in ProfileKind
        PROVE  \A n : canonical(kind, n) \in Keys(kind) \cup {n}
    BY CanonicalKey DEF Settled
  <1>2. ASSUME NEW kind \in ProfileKind, NEW n \in Keys(kind)
        PROVE  canonical(kind, n) = n
    BY DEF Settled, AliasesKnown, Clash, canonical
  <1>3. \A kind \in ProfileKind : AliasesLead(kind) /\ \A n : Means(kind, n) = canonical(kind, n)
    BY AliasesMean DEF Settled
  <1> QED
    BY <1>1, <1>2, <1>3, DictsAreDeclarations DEF Settled

LEMMA BasesMean ==
    ASSUME Settled, NEW kind \in {"node", "edge"}
    PROVE  /\ \A k \in Keys(kind) : BaseOf(kind, k) = BaseKey(kind, k) /\ Bases(kind)[k] = BaseKey(kind, k)
           /\ None \notin Keys(kind) /\ Declared(kind) = Keys(kind)
  <1>1. kind \in Kinds /\ kind \in ProfileKind
    BY KindNames DEF ProfileKind
  <1>2. None \notin Keys(kind)
    BY <1>1, KeysNames, RegistryAssumption DEF Settled
  <1> QED
    BY <1>1, <1>2, SettledMeans DEF BaseOf, BaseKey, Bases

\* An inheritance without cycles, said of the dicts.
LEMMA LineagesGrounded ==
    ASSUME Settled, NEW kind \in {"node", "edge"}
    PROVE  LineagesEnd(kind) <=> /\ Grounded(Bases(kind), Keys(kind))
                                 /\ \A k \in Keys(kind) : Bases(kind)[k] \in Opt(Keys(kind))
  <1>1. /\ \A k \in Keys(kind) : BaseOf(kind, k) = Bases(kind)[k]
        /\ Declared(kind) = Keys(kind)
    BY BasesMean
  <1>2. LineagesEnd(kind) <=>
          /\ \A k \in Keys(kind) : BaseOf(kind, k) \in Opt(Keys(kind))
          /\ \A S \in SUBSET Keys(kind) : S # {} => \E n \in S : BaseOf(kind, n) \notin S
    BY <1>1 DEF LineagesEnd, Leads
  <1>3. (\A k \in Keys(kind) : BaseOf(kind, k) \in Opt(Keys(kind)))
          <=> (\A k \in Keys(kind) : Bases(kind)[k] \in Opt(Keys(kind)))
    BY <1>1
  <1>4. (\A S \in SUBSET Keys(kind) : S # {} => \E n \in S : BaseOf(kind, n) \notin S)
          <=> Grounded(Bases(kind), Keys(kind))
    BY <1>1 DEF Grounded
  <1> QED
    BY <1>2, <1>3, <1>4

LEMMA NamesMean ==
    ASSUME Settled, NEW names, NEW more \in SUBSET {ANY, Root}
    PROVE  Canonical(names) \subseteq Keys("node") \cup more => AllMean(names)
  <1>1. Declared("node") = Keys("node") /\ \A n : Means("node", n) = canonical("node", n)
    BY SettledMeans, KindNames DEF ProfileKind
  <1> QED
    BY <1>1 DEF Canonical, AllMean

\* A node that made it refers to what is there.
LEMMA NodesAreWellFormed ==
    ASSUME Settled, NodesMade, DOMAIN node = Keys("node")
    PROVE  NodesWellFormed
  <1>1. /\ \A kind \in Kinds : /\ Declared(kind) = Keys(kind)
                               /\ \A k \in Keys(kind) : decl[kind][k] = SpecOf(kind, k)
        /\ "node" \in Kinds /\ "capability" \in Kinds /\ "validator" \in Kinds
        /\ "presentation" \in Kinds
    BY SettledMeans, KindNames
  <1>2. ASSUME NEW k \in Keys("node")
        PROVE  /\ Bases("node")[k] \in Opt(Keys("node"))
               /\ NodeOk(SpecOf("node", k), node[k])
               /\ node[k].presentation = SpecOf("node", k).presentation
                    \/ SpecOf("node", k).presentation = None
               /\ node[k].allow_parents = Canonical(SpecOf("node", k).allow_parents)
                    \/ SpecOf("node", k).allow_parents = None
    <2> DEFINE base == BaseKey("node", k)
               from == IF base = None THEN NodeBase ELSE node[base]
    <2>1. NodeMade(k) /\ decl["node"][k] = SpecOf("node", k)
      BY <1>1, <1>2 DEF NodesMade
    <2>2. base \in Opt(Keys("node")) /\ node[k] = ResolveNode(k, SpecOf("node", k), from)
          /\ NodeOk(SpecOf("node", k), node[k])
      BY <2>1 DEF NodeMade
    <2>3. Bases("node")[k] = base
      BY <1>2 DEF Bases
    <2> HIDE DEF base, from
    <2> QED
      BY <2>2, <2>3 DEF ResolveNode, Override
  <1>3. LineagesEnd("node")
    BY <1>2, LineagesGrounded DEF NodesMade
  <1>4. ReferencesKnown("node")
    BY <1>1, <1>2 DEF ReferencesKnown, NodeOk, PartsKnown, Opt
  <1>5. ASSUME NEW k \in Declared("node"), SpecOf("node", k).allow_parents # None
        PROVE  AllMean(SpecOf("node", k).allow_parents)
    <2>1. Canonical(SpecOf("node", k).allow_parents) \subseteq Keys("node") \cup {ANY, Root}
      BY <1>1, <1>2, <1>5 DEF NodeOk
    <2> QED
      BY <2>1, NamesMean
  <1> QED
    BY <1>3, <1>4, <1>5 DEF NodesWellFormed

\* What WellFormed says of fields, as functions of the keys.
Ported == [k \in Keys("edge") |-> decl["edge"][k].needs_ports]
Directed(s) == [k \in Keys("edge") |-> decl["edge"][k].direction[s]]
EffectivePorts ==
    LET ported(k) == SpecOf("edge", k).needs_ports IN Effective(BOOLEAN, ported, FALSE)
EffectiveDirection(s) ==
    LET directed(k) == SpecOf("edge", k).direction[s]
    IN  Effective(Opt(PortDirection), directed, None)

LEMMA EdgeFacts ==
    ASSUME Settled, LineagesEnd("edge")
    PROVE  /\ Declared("edge") = Keys("edge") /\ None \notin Keys("edge")
           /\ Grounded(Bases("edge"), Keys("edge"))
           /\ \A k \in Keys("edge") :
                /\ Bases("edge")[k] \in Opt(Keys("edge"))
                /\ BaseOf("edge", k) = Bases("edge")[k]
                /\ SpecOf("edge", k) = decl["edge"][k]
                /\ decl["edge"][k] \in EdgeProfileSpec
  BY SettledMeans, BasesMean, LineagesGrounded, SpecTyped, KindNames DEF Settled

LEMMA PortsAlong ==
    ASSUME Settled, LineagesEnd("edge")
    PROVE  Along(EffectivePorts, Bases("edge"), Ported, FALSE, Keys("edge"))
  <1> DEFINE no == FALSE
             values == BOOLEAN
             Right(v) == \A k \in Declared("edge") :
                v[k] = IF SpecOf("edge", k).needs_ports # None THEN SpecOf("edge", k).needs_ports
                       ELSE IF BaseOf("edge", k) = None THEN FALSE ELSE v[BaseOf("edge", k)]
  <1>1. no \in values
    OBVIOUS
  <1>2. \A k \in Keys("edge") : Ported[k] \in Opt(values) /\ Ported[k] = SpecOf("edge", k).needs_ports
    BY EdgeFacts DEF Ported, EdgeProfileSpec
  <1> HIDE DEF no, values
  <1>3. PICK v \in [Keys("edge") -> values] : Along(v, Bases("edge"), Ported, no, Keys("edge"))
    BY <1>1, <1>2, EdgeFacts, AlongExists
  <1>4. v \in [Declared("edge") -> BOOLEAN] /\ Right(v)
    BY <1>2, <1>3, EdgeFacts DEF Along, no, values
  <1>5. Right(EffectivePorts)
    BY <1>4, Zenon DEF EffectivePorts, Effective
  <1> QED
    BY <1>2, <1>5, EdgeFacts DEF Along

LEMMA DirectionAlong ==
    ASSUME Settled, LineagesEnd("edge"), NEW s \in Side
    PROVE  Along(EffectiveDirection(s), Bases("edge"), Directed(s), None, Keys("edge"))
  <1> DEFINE values == Opt(PortDirection)
             Right(v) == \A k \in Declared("edge") :
                v[k] = IF SpecOf("edge", k).direction[s] # None THEN SpecOf("edge", k).direction[s]
                       ELSE IF BaseOf("edge", k) = None THEN None ELSE v[BaseOf("edge", k)]
  <1>1. None \in values
    BY DEF Opt
  <1>2. \A k \in Keys("edge") :
          Directed(s)[k] \in Opt(values) /\ Directed(s)[k] = SpecOf("edge", k).direction[s]
    BY EdgeFacts DEF Directed, EdgeProfileSpec, Opt
  <1> HIDE DEF values
  <1>3. PICK v \in [Keys("edge") -> values] : Along(v, Bases("edge"), Directed(s), None, Keys("edge"))
    BY <1>1, <1>2, EdgeFacts, AlongExists
  <1>4. v \in [Declared("edge") -> Opt(PortDirection)] /\ Right(v)
    BY <1>2, <1>3, EdgeFacts DEF Along, values
  <1>5. Right(EffectiveDirection(s))
    BY <1>4, Zenon DEF EffectiveDirection, Effective
  <1> QED
    BY <1>2, <1>5, EdgeFacts DEF Along

\* The profile made of a base, field by field.
LEMMA EdgeFields ==
    ASSUME NEW k, NEW spec, NEW base, NEW item, item = ResolveEdge(k, spec, base)
    PROVE  /\ item.needs_ports = Override(spec.needs_ports, base.needs_ports)
           /\ item.presentation = Override(spec.presentation, base.presentation)
           /\ \A s \in Side :
                /\ item.required[s] = base.required[s] \cup spec.required[s]
                /\ item.profiles[s] = Canonical(Override(spec.profiles[s], base.profiles[s]))
                /\ item.direction[s] = Override(spec.direction[s], base.direction[s])
  BY DEF ResolveEdge

EdgeFrom(key) == IF key = None THEN EdgeBase ELSE edge[key]

LEMMA EdgePorts ==
    ASSUME NEW k \in Keys("edge"), NEW key, NEW item, NEW no, EdgeBase.needs_ports = no,
           item = ResolveEdge(k, decl["edge"][k], EdgeFrom(key))
    PROVE  item.needs_ports = IF Ported[k] # None THEN Ported[k]
                              ELSE IF key = None THEN no ELSE edge[key].needs_ports
  <1> DEFINE base == EdgeFrom(key)
             spec == decl["edge"][k]
  <1>1. Ported[k] = spec.needs_ports
    BY DEF Ported
  <1>2. (key = None => base.needs_ports = no) /\ (key # None => base = edge[key])
    BY DEF EdgeFrom
  <1> HIDE DEF base, spec
  <1>3. item.needs_ports = Override(spec.needs_ports, base.needs_ports)
    BY EdgeFields DEF base, spec
  <1> QED
    BY <1>1, <1>2, <1>3 DEF Override

LEMMA EdgeDirection ==
    ASSUME NEW k \in Keys("edge"), NEW key, NEW item, NEW s \in Side,
           item = ResolveEdge(k, decl["edge"][k], EdgeFrom(key))
    PROVE  item.direction[s] = IF Directed(s)[k] # None THEN Directed(s)[k]
                               ELSE IF key = None THEN None ELSE edge[key].direction[s]
  <1> DEFINE base == EdgeFrom(key)
             spec == decl["edge"][k]
  <1>1. Directed(s)[k] = spec.direction[s]
    BY DEF Directed
  <1>2. (key = None => base.direction[s] = None) /\ (key # None => base = edge[key])
    BY DEF EdgeFrom, EdgeBase
  <1> HIDE DEF base, spec
  <1>3. item.direction[s] = Override(spec.direction[s], base.direction[s])
    BY EdgeFields DEF base, spec
  <1> QED
    BY <1>1, <1>2, <1>3 DEF Override

\* As far as edges are resolved, their fields are those of the specification.
LEMMA EdgesFollow ==
    ASSUME Settled, LineagesEnd("edge"), EdgesMade
    PROVE  \A k \in DOMAIN edge :
             /\ edge[k].needs_ports = EffectivePorts[k]
             /\ \A s \in Side : edge[k].direction[s] = EffectiveDirection(s)[k]
  <1>1. DOMAIN edge \subseteq Keys("edge") /\ TypeOK
    BY DEF Settled, TypeOK, PartialTo
  <1>2. \A k \in DOMAIN edge :
          /\ BaseKey("edge", k) \in Opt(DOMAIN edge) /\ Bases("edge")[k] = BaseKey("edge", k)
          /\ edge[k] = ResolveEdge(k, decl["edge"][k], EdgeFrom(BaseKey("edge", k)))
    BY <1>1 DEF EdgesMade, EdgeMade, Bases, EdgeFrom
  <1>3. \A k \in DOMAIN edge : edge[k].needs_ports = EffectivePorts[k]
    <2> DEFINE no == FALSE
               w == [k \in DOMAIN edge |-> edge[k].needs_ports]
    <2>0. EdgeBase.needs_ports = no
      BY DEF EdgeBase
    <2>3. Along(EffectivePorts, Bases("edge"), Ported, no, Keys("edge"))
      BY PortsAlong
    <2> HIDE DEF no
    <2>1. ASSUME NEW k \in DOMAIN edge
          PROVE  edge[k].needs_ports = IF Ported[k] # None THEN Ported[k]
                          ELSE IF BaseKey("edge", k) = None THEN no
                          ELSE edge[BaseKey("edge", k)].needs_ports
      BY <1>1, <1>2, <2>0, EdgePorts
    <2>2. Along(w, Bases("edge"), Ported, no, DOMAIN edge)
      BY <1>2, <2>1 DEF Along, Opt
    <2> HIDE DEF w
    <2>4. \A k \in DOMAIN edge : EffectivePorts[k] = w[k]
      BY <1>1, <1>2, <2>2, <2>3, EdgeFacts, AlongIsUnique
    <2> QED
      BY <2>4 DEF w
  <1>4. ASSUME NEW s \in Side
        PROVE  \A k \in DOMAIN edge : edge[k].direction[s] = EffectiveDirection(s)[k]
    <2> DEFINE w == [k \in DOMAIN edge |-> edge[k].direction[s]]
    <2>1. ASSUME NEW k \in DOMAIN edge
          PROVE  edge[k].direction[s] = IF Directed(s)[k] # None THEN Directed(s)[k]
                          ELSE IF BaseKey("edge", k) = None THEN None
                          ELSE edge[BaseKey("edge", k)].direction[s]
      BY <1>1, <1>2, EdgeDirection
    <2>2. Along(w, Bases("edge"), Directed(s), None, DOMAIN edge)
      BY <1>2, <2>1 DEF Along, Opt
    <2>3. Along(EffectiveDirection(s), Bases("edge"), Directed(s), None, Keys("edge"))
      BY DirectionAlong
    <2> HIDE DEF w
    <2>4. \A k \in DOMAIN edge : EffectiveDirection(s)[k] = w[k]
      BY <1>1, <1>2, <2>2, <2>3, EdgeFacts, AlongIsUnique
    <2> QED
      BY <2>4 DEF w
  <1> QED
    BY <1>3, <1>4

\* needs_ports goes with a direction at both ends, in every edge profile.
PortsGoWithDirections ==
    \A k \in Keys("edge"), s \in Side : EffectivePorts[k] <=> EffectiveDirection(s)[k] # None

EdgesSpelledOut ==
    /\ LineagesEnd("edge") /\ ReferencesKnown("edge")
    /\ \A k \in Declared("edge"), s \in Side :
        /\ SpecOf("edge", k).required[s] \subseteq Declared("capability")
        /\ SpecOf("edge", k).profiles[s] # None => AllMean(SpecOf("edge", k).profiles[s])
    /\ \A s \in Side : \A k \in Declared("edge") :
          EffectivePorts[k] <=> EffectiveDirection(s)[k] # None

LEMMA EdgesWellFormedSpelled ==
    (EdgesWellFormed <=> EdgesSpelledOut) /\ (EdgesWellFormed' <=> EdgesSpelledOut')
  <1>1. EdgesWellFormed <=> EdgesSpelledOut
    BY Zenon DEF EdgesWellFormed, EdgesSpelledOut, EffectivePorts, EffectiveDirection
  <1>2. EdgesWellFormed' <=> EdgesSpelledOut'
    BY Zenon DEF EdgesWellFormed, EdgesSpelledOut, EffectivePorts, EffectiveDirection
  <1> QED
    BY <1>1, <1>2

LEMMA EdgesWellFormedSays ==
    ASSUME Settled
    PROVE  EdgesWellFormed <=>
             /\ LineagesEnd("edge") /\ ReferencesKnown("edge") /\ PortsGoWithDirections
             /\ \A k \in Keys("edge"), s \in Side :
                 /\ SpecOf("edge", k).required[s] \subseteq Keys("capability")
                 /\ SpecOf("edge", k).profiles[s] # None => AllMean(SpecOf("edge", k).profiles[s])
  <1>1. Declared("edge") = Keys("edge") /\ Declared("capability") = Keys("capability")
    BY SettledMeans, KindNames
  <1>2. (\A s \in Side : \A k \in Keys("edge") : EffectivePorts[k] <=> EffectiveDirection(s)[k] # None)
          <=> PortsGoWithDirections
    BY Zenon DEF PortsGoWithDirections
  <1> QED
    BY <1>1, <1>2, EdgesWellFormedSpelled DEF EdgesSpelledOut

LEMMA EdgesAreWellFormed ==
    ASSUME Settled, EdgesMade, DOMAIN edge = Keys("edge"), DOMAIN node = Keys("node")
    PROVE  EdgesWellFormed
  <1>1. /\ \A kind \in Kinds : /\ Declared(kind) = Keys(kind)
                               /\ \A k \in Keys(kind) : decl[kind][k] = SpecOf(kind, k)
        /\ "edge" \in Kinds /\ "capability" \in Kinds /\ "validator" \in Kinds
        /\ "presentation" \in Kinds
    BY SettledMeans, KindNames
  <1>2. ASSUME NEW k \in Keys("edge")
        PROVE  /\ Bases("edge")[k] \in Opt(Keys("edge"))
               /\ EdgeOk(SpecOf("edge", k), edge[k])
               /\ edge[k].presentation = SpecOf("edge", k).presentation
                    \/ SpecOf("edge", k).presentation = None
               /\ \A s \in Side : edge[k].profiles[s] = Canonical(SpecOf("edge", k).profiles[s])
                    \/ SpecOf("edge", k).profiles[s] = None
    <2> DEFINE base == BaseKey("edge", k)
               from == IF base = None THEN EdgeBase ELSE edge[base]
    <2>1. EdgeMade(k) /\ decl["edge"][k] = SpecOf("edge", k)
      BY <1>1, <1>2 DEF EdgesMade
    <2>2. base \in Opt(Keys("edge")) /\ edge[k] = ResolveEdge(k, SpecOf("edge", k), from)
          /\ EdgeOk(SpecOf("edge", k), edge[k])
      BY <2>1 DEF EdgeMade
    <2>3. Bases("edge")[k] = base
      BY <1>2 DEF Bases
    <2> HIDE DEF base, from
    <2> QED
      BY <2>2, <2>3 DEF ResolveEdge, Override
  <1>3. LineagesEnd("edge")
    BY <1>2, LineagesGrounded DEF EdgesMade
  <1>4. ReferencesKnown("edge")
    BY <1>1, <1>2 DEF ReferencesKnown, EdgeOk, PartsKnown, Opt
  <1>5. ASSUME NEW k \in Keys("edge"), NEW s \in Side
        PROVE  /\ SpecOf("edge", k).required[s] \subseteq Keys("capability")
               /\ SpecOf("edge", k).profiles[s] # None => AllMean(SpecOf("edge", k).profiles[s])
    <2>1. /\ SpecOf("edge", k).required[s] \subseteq Keys("capability")
          /\ edge[k].profiles[s] \subseteq Keys("node") \cup {ANY}
      BY <1>2, <1>5 DEF EdgeOk, EndpointProfilesKnown
    <2>2. SpecOf("edge", k).profiles[s] # None =>
            Canonical(SpecOf("edge", k).profiles[s]) \subseteq Keys("node") \cup {ANY}
      BY <1>2, <1>5, <2>1
    <2> QED
      BY <2>1, <2>2, NamesMean
  <1>6. PortsGoWithDirections
    <2> SUFFICES ASSUME NEW k \in Keys("edge"), NEW s \in Side
                 PROVE  EffectivePorts[k] <=> EffectiveDirection(s)[k] # None
      BY Zenon DEF PortsGoWithDirections
    <2>1. edge[k].needs_ports <=> edge[k].direction[s] # None
      BY <1>2 DEF EdgeOk
    <2>2. edge[k].needs_ports = EffectivePorts[k] /\ edge[k].direction[s] = EffectiveDirection(s)[k]
      BY <1>3, EdgesFollow
    <2> QED
      BY <2>1, <2>2
  <1> QED
    BY <1>3, <1>4, <1>5, <1>6, EdgesWellFormedSays

-----------------------------------------------------------------------------
(* Coherent packages pass the checks of visit(), and of what comes after.  *)

LEMMA ListedNamesKnown ==
    ASSUME Settled, NEW names, AllMean(names)
    PROVE  Canonical(names) \subseteq Keys("node") \cup {ANY, Root}
  <1>1. Declared("node") = Keys("node") /\ \A n : Means("node", n) = canonical("node", n)
    BY SettledMeans, KindNames DEF ProfileKind
  <1> QED
    BY <1>1 DEF Canonical, AllMean

\* Looking up what is known already changes nothing.
LEMMA KnownNamesStay ==
    ASSUME Settled, NEW names, names \subseteq Keys("node") \cup {ANY, Root}
    PROVE  Canonical(names) \subseteq names
  <1>1. \A n \in Keys("node") : canonical("node", n) = n
    BY SettledMeans DEF ProfileKind
  <1>2. canonical("node", ANY) = ANY /\ canonical("node", Root) = Root
    BY AliasedNames, RegistryAssumption DEF canonical, TypeOK, PartialTo, ProfileKind, Settled
  <1> QED
    BY <1>1, <1>2 DEF Canonical

LEMMA NodeFields ==
    ASSUME NEW k, NEW spec, NEW base, NEW item, item = ResolveNode(k, spec, base)
    PROVE  /\ item.capabilities = base.capabilities \cup spec.capabilities
           /\ item.presentation = Override(spec.presentation, base.presentation)
           /\ item.allow_parents = Canonical(Override(spec.allow_parents, base.allow_parents))
  BY DEF ResolveNode

LEMMA NodeChecksPass ==
    ASSUME Settled, NodesMade, NodesWellFormed, NEW k \in Keys("node"),
           BaseKey("node", k) \in Opt(DOMAIN node), NEW item,
           item = ResolveNode(k, decl["node"][k],
                    IF BaseKey("node", k) = None THEN NodeBase ELSE node[BaseKey("node", k)])
    PROVE  NodeOk(decl["node"][k], item)
  <1> DEFINE key == BaseKey("node", k)
             spec == decl["node"][k]
             base == IF key = None THEN NodeBase ELSE node[key]
  <1>1. /\ Declared("node") = Keys("node") /\ Declared("capability") = Keys("capability")
        /\ Declared("validator") = Keys("validator") /\ Declared("presentation") = Keys("presentation")
        /\ spec = SpecOf("node", k)
    BY SettledMeans, KindNames
  <1>2. /\ spec.capabilities \subseteq Keys("capability")
        /\ spec.validator \in Opt(Keys("validator"))
        /\ spec.presentation \in Opt(Keys("presentation"))
        /\ spec.allow_parents # None => AllMean(spec.allow_parents)
    BY <1>1 DEF NodesWellFormed, ReferencesKnown
  <1>3. /\ base.presentation \in Opt(Keys("presentation"))
        /\ base.allow_parents \subseteq Keys("node") \cup {ANY, Root}
    <2>1. CASE key = None
      BY <2>1 DEF NodeBase, Opt
    <2>2. CASE key # None
      <3>1. key \in DOMAIN node /\ base = node[key]
        BY <2>2 DEF Opt
      <3> HIDE DEF base, key
      <3>2. \E declared : NodeOk(declared, base)
        BY <3>1 DEF NodesMade, NodeMade
      <3> QED
        BY <3>2 DEF NodeOk, PartsKnown
    <2> QED
      BY <2>1, <2>2
  <1>4. item = ResolveNode(k, spec, base)
    OBVIOUS
  <1> HIDE DEF key, spec, base
  <1>5. /\ item.presentation = Override(spec.presentation, base.presentation)
        /\ item.allow_parents = Canonical(Override(spec.allow_parents, base.allow_parents))
    BY <1>4, NodeFields
  <1>6. item.allow_parents \subseteq Keys("node") \cup {ANY, Root}
    <2>1. CASE spec.allow_parents # None
      BY <1>2, <1>5, <2>1, ListedNamesKnown DEF Override
    <2>2. CASE spec.allow_parents = None
      <3>1. item.allow_parents = Canonical(base.allow_parents)
        BY <1>5, <2>2 DEF Override
      <3> QED
        BY <1>3, <3>1, KnownNamesStay
    <2> QED
      BY <2>1, <2>2
  <1>7. item.presentation \in Opt(Keys("presentation"))
    BY <1>2, <1>3, <1>5 DEF Override
  <1> QED
    BY <1>2, <1>6, <1>7 DEF NodeOk, PartsKnown, spec

LEMMA EdgeChecksPass ==
    ASSUME Settled, EdgesMade, EdgesWellFormed, DOMAIN node = Keys("node"), NEW k \in Keys("edge"),
           BaseKey("edge", k) \in Opt(DOMAIN edge), NEW item,
           item = ResolveEdge(k, decl["edge"][k],
                    IF BaseKey("edge", k) = None THEN EdgeBase ELSE edge[BaseKey("edge", k)])
    PROVE  EdgeOk(decl["edge"][k], item)
  <1> DEFINE key == BaseKey("edge", k)
             spec == decl["edge"][k]
  <1>1. /\ Declared("edge") = Keys("edge") /\ Declared("capability") = Keys("capability")
        /\ Declared("validator") = Keys("validator") /\ Declared("presentation") = Keys("presentation")
        /\ spec = SpecOf("edge", k) /\ TypeOK
    BY SettledMeans, KindNames DEF Settled
  <1>2. /\ spec.capabilities \subseteq Keys("capability")
        /\ spec.validator \in Opt(Keys("validator"))
        /\ spec.presentation \in Opt(Keys("presentation"))
    BY <1>1 DEF EdgesWellFormed, ReferencesKnown
  <1>3. \A s \in Side : /\ spec.required[s] \subseteq Keys("capability")
                        /\ spec.profiles[s] # None => AllMean(spec.profiles[s])
    BY <1>1, EdgesWellFormedSays
  <1>4. LineagesEnd("edge") /\ PortsGoWithDirections
    BY EdgesWellFormedSays
  <1>5. key # None =>
          /\ key \in DOMAIN edge /\ edge[key].presentation \in Opt(Keys("presentation"))
          /\ \A s \in Side : edge[key].profiles[s] \subseteq Keys("node") \cup {ANY}
    <2> SUFFICES ASSUME key # None
                 PROVE  /\ key \in DOMAIN edge /\ edge[key].presentation \in Opt(Keys("presentation"))
                        /\ \A s \in Side : edge[key].profiles[s] \subseteq Keys("node") \cup {ANY}
      OBVIOUS
    <2>1. key \in DOMAIN edge
      BY DEF Opt
    <2> HIDE DEF key
    <2>2. EdgeOk(decl["edge"][key], edge[key])
      BY <2>1 DEF EdgesMade, EdgeMade
    <2> QED
      BY <2>1, <2>2 DEF EdgeOk, PartsKnown, EndpointProfilesKnown
  <1>6. /\ item.presentation = Override(spec.presentation, EdgeFrom(key).presentation)
        /\ \A s \in Side :
             item.profiles[s] = Canonical(Override(spec.profiles[s], EdgeFrom(key).profiles[s]))
        /\ key = None => /\ EdgeFrom(key).presentation = None
                         /\ \A s \in Side : EdgeFrom(key).profiles[s] = {ANY}
        /\ key # None => EdgeFrom(key) = edge[key]
    <2>1. item = ResolveEdge(k, spec, EdgeFrom(key))
      BY DEF EdgeFrom
    <2> HIDE DEF key, spec
    <2>2. key = None => /\ EdgeFrom(key).presentation = None
                        /\ \A s \in Side : EdgeFrom(key).profiles[s] = {ANY}
      BY DEF EdgeFrom, EdgeBase
    <2>3. key # None => EdgeFrom(key) = edge[key]
      BY DEF EdgeFrom
    <2> QED
      BY <2>1, <2>2, <2>3, EdgeFields
  <1>7. item.presentation \in Opt(Keys("presentation"))
    BY <1>2, <1>5, <1>6 DEF Opt, Override
  <1>8. ASSUME NEW s \in Side PROVE item.profiles[s] \subseteq Keys("node") \cup {ANY}
    <2>1. CASE spec.profiles[s] # None
      <3>1. Canonical(spec.profiles[s]) \subseteq Keys("node") \cup {ANY, Root}
        BY <1>3, <2>1, ListedNamesKnown
      <3>2. spec.profiles[s] \in SUBSET (Name \cup {ANY})
        BY <1>1, <2>1, SpecTyped DEF EdgeProfileSpec, Opt
      <3>3. Canonical(spec.profiles[s]) \subseteq Name \cup {ANY} /\ Root \notin Name /\ ANY # Root
        BY <1>1, <3>2, CanonicalEnds, RegistryAssumption
      <3> HIDE DEF spec
      <3>4. item.profiles[s] = Canonical(spec.profiles[s])
        BY <1>6, <2>1 DEF Override
      <3> QED
        BY <3>1, <3>3, <3>4
    <2>2. CASE spec.profiles[s] = None /\ key = None
      <3>1. item.profiles[s] = Canonical({ANY})
        BY <1>6, <2>2 DEF Override
      <3> QED
        BY <1>1, <3>1, CanonicalANY
    <2>3. CASE spec.profiles[s] = None /\ key # None
      <3>1. item.profiles[s] = Canonical(edge[key].profiles[s])
        BY <1>6, <2>3 DEF Override
      <3> HIDE DEF key, spec
      <3>2. edge[key].profiles[s] \subseteq Keys("node") \cup {ANY}
        BY <1>5, <2>3
      <3> QED
        BY <3>1, <3>2, KnownNamesStay
    <2> QED
      BY <2>1, <2>2, <2>3
  <1>9. item.needs_ports = EffectivePorts[k]
    <2> DEFINE no == FALSE
    <2>1. EdgeBase.needs_ports = no /\ Along(EffectivePorts, Bases("edge"), Ported, no, Keys("edge"))
      BY <1>4, PortsAlong DEF EdgeBase
    <2> HIDE DEF no
    <2>2. item = ResolveEdge(k, decl["edge"][k], EdgeFrom(key)) /\ Bases("edge")[k] = key
      BY DEF EdgeFrom, Bases
    <2>3. key # None => edge[key].needs_ports = EffectivePorts[key]
      BY <1>4, <1>5, EdgesFollow
    <2> HIDE DEF key
    <2>4. item.needs_ports = IF Ported[k] # None THEN Ported[k]
                             ELSE IF key = None THEN no ELSE edge[key].needs_ports
      BY <2>1, <2>2, EdgePorts
    <2> QED
      BY <2>1, <2>2, <2>3, <2>4 DEF Along
  <1>10. ASSUME NEW s \in Side PROVE item.direction[s] = EffectiveDirection(s)[k]
    <2>1. item.direction[s] = IF Directed(s)[k] # None THEN Directed(s)[k]
                              ELSE IF key = None THEN None ELSE edge[key].direction[s]
      BY EdgeDirection DEF EdgeFrom
    <2>2. EffectiveDirection(s)[k] = IF Directed(s)[k] # None THEN Directed(s)[k]
                                     ELSE IF Bases("edge")[k] = None THEN None
                                     ELSE EffectiveDirection(s)[Bases("edge")[k]]
      BY <1>4, DirectionAlong, Zenon DEF Along
    <2>3. Bases("edge")[k] = key
      BY DEF Bases
    <2>4. key # None => edge[key].direction[s] = EffectiveDirection(s)[key]
      BY <1>4, <1>5, EdgesFollow
    <2> QED
      BY <2>1, <2>2, <2>3, <2>4, Zenon
  <1>11. \A s \in Side : item.needs_ports <=> item.direction[s] # None
    BY <1>4, <1>9, <1>10, Zenon DEF PortsGoWithDirections
  <1>12. PartsKnown(spec, item)
    BY <1>2, <1>7 DEF PartsKnown
  <1>13. EndpointProfilesKnown(item)
    BY <1>8 DEF EndpointProfilesKnown
  <1> HIDE DEF key
  <1> QED
    BY <1>3, <1>11, <1>12, <1>13, Zenon DEF EdgeOk, spec

LEMMA TemplatesWellFormedSays ==
    ASSUME Settled, DOMAIN node = Keys("node")
    PROVE  TemplatesWellFormed <=> \A t \in Keys("template") : TemplateOk(decl["template"][t])
  <1>1. /\ Declared("template") = Keys("template") /\ Declared("node") = Keys("node")
        /\ Declared("port") = Keys("port")
        /\ \A t \in Keys("template") : SpecOf("template", t) = decl["template"][t]
        /\ \A n : Means("node", n) = canonical("node", n) /\ Means("port", n) = canonical("port", n)
    BY SettledMeans, KindNames DEF ProfileKind
  <1> QED
    BY <1>1 DEF TemplatesWellFormed, TemplateOk

LEMMA ActionsWellFormedSays ==
    ASSUME Settled
    PROVE  ActionsWellFormed <=> \A a \in Keys("action") : ActionOk(decl["action"][a])
  <1>1. /\ Declared("action") = Keys("action") /\ Declared("capability") = Keys("capability")
        /\ Declared("executor") = Keys("executor")
        /\ \A a \in Keys("action") : SpecOf("action", a) = decl["action"][a]
        /\ \A c \in Keys("capability") : SpecOf("capability", c) = decl["capability"][c]
        /\ \A x \in Keys("executor") : SpecOf("executor", x) = decl["executor"][x]
    BY SettledMeans, KindNames
  <1>2. ASSUME NEW spec
        PROVE  (/\ \A c \in spec.capabilities :
                    c \in Declared("capability") /\ "action" \in SpecOf("capability", c).consumers
                /\ spec.executor \in Declared("executor")
                /\ SpecOf("executor", spec.executor) = spec.family)
               <=> ActionOk(spec)
    <2>1. (\A c \in spec.capabilities :
                c \in Declared("capability") /\ "action" \in SpecOf("capability", c).consumers)
            <=> /\ spec.capabilities \subseteq Keys("capability")
                /\ \A c \in spec.capabilities : "action" \in decl["capability"][c].consumers
      BY <1>1
    <2>2. (spec.executor \in Declared("executor") /\ SpecOf("executor", spec.executor) = spec.family)
            <=> spec.executor \in Keys("executor") /\ decl["executor"][spec.executor] = spec.family
      BY <1>1
    <2> QED
      BY <2>1, <2>2 DEF ActionOk
  <1> QED
    BY <1>1, <1>2 DEF ActionsWellFormed

LEMMA DefaultsAreJsonSays ==
    ASSUME Settled
    PROVE  DefaultsAreJson <=> \A t \in Keys("template") : decl["template"][t].json
  <1>1. /\ Declared("template") = Keys("template")
        /\ \A t \in Keys("template") : SpecOf("template", t) = decl["template"][t]
    BY SettledMeans, KindNames
  <1> QED
    BY <1>1 DEF DefaultsAreJson

\* A resolved template keeps its attributes.
LEMMA TemplateKeepsData ==
    ASSUME TypeOK, template = [t \in Keys("template") |-> ResolveTemplate(decl["template"][t])]
    PROVE  Describable <=> \A t \in Keys("template") : decl["template"][t].json
  <1>1. \A spec \in TemplateSpec : ResolveTemplate(spec).json = spec.json
    BY ResolveTemplateTyped
  <1> QED
    BY <1>1, SpecTyped DEF Describable

-----------------------------------------------------------------------------
(* What is built is coherent.                                              *)

LEMMA ProfilePhases ==
    ASSUME TypeOK, Made, phase \in {"nodes", "edges", "templates", "actions", "built"}
    PROVE  Settled
  <1>1. phase # "register" /\ phase # "failed"
        /\ \A kind \in ProfileKind : phase \notin Before[kind] /\ ~Resolving(kind)
    BY Phasing DEF Before, ProfileKind, Resolving
  <1> QED
    BY <1>1 DEF Made, Kept, Reached, AliasesReached, Settled

LEMMA BuiltIsWellFormed ==
    ASSUME TypeOK, Made, phase = "built" PROVE WellFormed
  <1>1. Settled /\ NodesMade /\ EdgesMade /\ ProfilesReached /\ RestReached
    BY ProfilePhases DEF Made, Kept, Reached
  <1>2. DOMAIN node = Keys("node") /\ DOMAIN edge = Keys("edge")
    BY <1>1 DEF ProfilesReached
  <1>3. NodesWellFormed /\ EdgesWellFormed
    BY <1>1, <1>2, NodesAreWellFormed, EdgesAreWellFormed
  <1>4. TemplatesWellFormed /\ ActionsWellFormed
    BY <1>1, <1>2, TemplatesWellFormedSays, ActionsWellFormedSays DEF RestReached
  <1>5. DefaultsAreJson
    BY <1>1, DefaultsAreJsonSays DEF RestReached
  <1> QED
    BY <1>1, <1>3, <1>4, <1>5, SettledMeans DEF WellFormed

LEMMA BuiltDoesNotDangle ==
    ASSUME TypeOK, Made PROVE NothingDangles
  <1> SUFFICES ASSUME phase = "built" PROVE NothingDangles
    BY DEF NothingDangles
  <1>1. Settled /\ NodesMade /\ EdgesMade /\ ProfilesReached /\ RestReached
    BY ProfilePhases DEF Made, Kept, Reached
  <1>2. DOMAIN node = Keys("node") /\ DOMAIN edge = Keys("edge")
    BY <1>1 DEF ProfilesReached
  <1>3. ASSUME NEW kind \in ProfileKind, NEW n \in Keys(kind) \cup Aliased(kind)
        PROVE  resolve_key(kind, n) \in Keys(kind)
    BY <1>1 DEF Settled, AliasesKnown, TypeOK, PartialTo, resolve_key
  <1>4. "node" \in ProfileKind /\ "edge" \in ProfileKind /\ "port" \in ProfileKind
    BY DEF ProfileKind
  <1>5. \A k \in DOMAIN node : /\ node[k].allow_parents \subseteq DOMAIN node \cup {ANY, Root}
                               /\ node[k].capabilities \subseteq Keys("capability")
    BY <1>1, <1>2 DEF NodesMade, NodeMade, NodeOk
  <1>6. \A k \in DOMAIN edge, s \in Side :
            /\ edge[k].profiles[s] \subseteq DOMAIN node \cup {ANY}
            /\ edge[k].required[s] \subseteq Keys("capability")
    BY <1>1 DEF EdgesMade, EdgeMade, EdgeOk, EndpointProfilesKnown
  <1>7. \A t \in Keys("template") :
            template[t].profile \in DOMAIN node /\ template[t].ports \subseteq Keys("port")
    <2> SUFFICES ASSUME NEW t \in Keys("template")
                 PROVE  template[t].profile \in DOMAIN node /\ template[t].ports \subseteq Keys("port")
      OBVIOUS
    <2>1. template[t] = ResolveTemplate(decl["template"][t]) /\ TemplateOk(decl["template"][t])
      BY <1>1 DEF RestReached
    <2>2. /\ template[t].profile = canonical("node", decl["template"][t].profile)
          /\ template[t].ports = {canonical("port", p) : p \in decl["template"][t].ports}
      BY <2>1, SpecTyped, ResolveTemplateTyped
    <2> QED
      BY <2>1, <2>2 DEF TemplateOk
  <1> QED
    BY <1>2, <1>3, <1>4, <1>5, <1>6, <1>7 DEF NothingDangles

-----------------------------------------------------------------------------
(* One step of build, once more.                                           *)

\* The rules are about the packages, which stay.
LEMMA RulesStay ==
    ASSUME UNCHANGED input PROVE WellFormed' <=> WellFormed
  <1>1. \A kind : Aliases(kind)' = Aliases(kind) /\ Given(kind)' = Given(kind)
    BY DEF Aliases, Given
  <1>2. \A kind : Aliased(kind)' = Aliased(kind) /\ Declared(kind)' = Declared(kind)
    BY <1>1 DEF Aliased, Declared
  <1>3. \A kind, a : RawTarget(kind, a)' = RawTarget(kind, a) /\ SpecOf(kind, a)' = SpecOf(kind, a)
    BY <1>1 DEF RawTarget, SpecOf
  <1>4. \A kind : Meaning(kind)' = Meaning(kind)
    BY <1>2, <1>3 DEF Meaning
  <1>5. \A kind, n : Means(kind, n)' = Means(kind, n)
    BY <1>2, <1>4 DEF Means
  <1>6. \A kind, n : BaseOf(kind, n)' = BaseOf(kind, n)
    BY <1>3, <1>5 DEF BaseOf
  <1>7. NoDuplicate' <=> NoDuplicate
    BY <1>1 DEF NoDuplicate
  <1>8. \A kind : AliasesLead(kind)' <=> AliasesLead(kind)
    BY <1>1, <1>2, <1>3 DEF AliasesLead, Leads
  <1>9. \A kind : LineagesEnd(kind)' <=> LineagesEnd(kind)
    BY <1>2, <1>6 DEF LineagesEnd, Leads
  <1>10. \A kind : ReferencesKnown(kind)' <=> ReferencesKnown(kind)
    BY <1>2, <1>3 DEF ReferencesKnown
  <1>11. \A names : AllMean(names)' <=> AllMean(names)
    BY <1>2, <1>5 DEF AllMean
  <1>12. NodesWellFormed' <=> NodesWellFormed
    BY <1>2, <1>3, <1>9, <1>10, <1>11 DEF NodesWellFormed
  <1>13. /\ EffectivePorts' = EffectivePorts
         /\ \A s : EffectiveDirection(s)' = EffectiveDirection(s)
    BY <1>2, <1>3, <1>6 DEF EffectivePorts, EffectiveDirection, Effective
  <1>14. EdgesWellFormed' <=> EdgesWellFormed
    <2>1. EdgesSpelledOut' <=> EdgesSpelledOut
      BY <1>2, <1>3, <1>9, <1>10, <1>11, <1>13 DEF EdgesSpelledOut
    <2> QED
      BY <2>1, EdgesWellFormedSpelled
  <1>15. TemplatesWellFormed' <=> TemplatesWellFormed
    BY <1>2, <1>3, <1>5 DEF TemplatesWellFormed
  <1>16. ActionsWellFormed' <=> ActionsWellFormed
    BY <1>2, <1>3 DEF ActionsWellFormed
  <1>17. NamesTrimmed' <=> NamesTrimmed
    BY DEF NamesTrimmed
  <1>18. CapabilitiesConsumed' <=> CapabilitiesConsumed
    BY <1>2, <1>3 DEF CapabilitiesConsumed
  <1>19. DefaultsAreJson' <=> DefaultsAreJson
    BY <1>2, <1>3 DEF DefaultsAreJson
  <1> QED
    BY <1>7, <1>8, <1>12, <1>14, <1>15, <1>16, <1>17, <1>18, <1>19 DEF WellFormed

\* Declarations and aliases alone say what names stand for.
LEMMA DictsStay ==
    ASSUME UNCHANGED <<input, decl, alias>>
    PROVE  /\ \A kind : /\ Keys(kind)' = Keys(kind) /\ Aliased(kind)' = Aliased(kind)
                        /\ Targets(kind)' = Targets(kind) /\ Bases(kind)' = Bases(kind)
                        /\ Clash(kind)' <=> Clash(kind)
                        /\ AliasesKnown(kind)' <=> AliasesKnown(kind)
           /\ \A kind, n : /\ RawTarget(kind, n)' = RawTarget(kind, n)
                           /\ Known(kind, n)' <=> Known(kind, n)
                           /\ canonical(kind, n)' = canonical(kind, n)
                           /\ BaseKey(kind, n)' = BaseKey(kind, n)
           /\ \A names : Canonical(names)' = Canonical(names)
  <1>1. \A kind : Keys(kind)' = Keys(kind) /\ Aliases(kind)' = Aliases(kind)
    BY DEF Keys, Aliases
  <1>2. \A kind : Aliased(kind)' = Aliased(kind)
    BY <1>1 DEF Aliased
  <1>3. \A kind, n : RawTarget(kind, n)' = RawTarget(kind, n)
    BY <1>1 DEF RawTarget
  <1>4. \A kind : Targets(kind)' = Targets(kind)
    BY <1>2, <1>3 DEF Targets
  <1>5. \A kind, n : canonical(kind, n)' = canonical(kind, n)
    BY DEF canonical
  <1>6. \A kind, n : BaseKey(kind, n)' = BaseKey(kind, n)
    BY <1>5 DEF BaseKey
  <1>7. \A kind : Bases(kind)' = Bases(kind)
    BY <1>1, <1>6 DEF Bases
  <1>8. \A kind : Clash(kind)' <=> Clash(kind)
    BY <1>1, <1>2 DEF Clash
  <1>9. \A kind : AliasesKnown(kind)' <=> AliasesKnown(kind)
    BY <1>2, <1>8 DEF AliasesKnown
  <1>10. \A kind, n : Known(kind, n)' <=> Known(kind, n)
    BY <1>1 DEF Known
  <1>11. \A names : Canonical(names)' = Canonical(names)
    BY <1>5 DEF Canonical
  <1> QED
    BY <1>1, <1>2, <1>3, <1>4, <1>5, <1>6, <1>7, <1>8, <1>9, <1>10, <1>11

\* What is made of a declaration, and its checks, depend on the dicts only.
LEMMA MakingStays ==
    ASSUME UNCHANGED <<input, decl, alias>>
    PROVE  /\ \A k, spec, base : /\ ResolveNode(k, spec, base)' = ResolveNode(k, spec, base)
                                 /\ ResolveEdge(k, spec, base)' = ResolveEdge(k, spec, base)
           /\ \A spec, item : /\ NodeOk(spec, item)' <=> NodeOk(spec, item)
                              /\ node' = node => (EdgeOk(spec, item)' <=> EdgeOk(spec, item))
                              /\ node' = node => (TemplateOk(spec)' <=> TemplateOk(spec))
                              /\ ResolveTemplate(spec)' = ResolveTemplate(spec)
                              /\ ActionOk(spec)' <=> ActionOk(spec)
  <1>1. \A kind : Keys(kind)' = Keys(kind)
    BY DEF Keys
  <1>2. \A kind, n : canonical(kind, n)' = canonical(kind, n)
    BY DEF canonical
  <1>3. \A names : Canonical(names)' = Canonical(names)
    BY <1>2 DEF Canonical
  <1>4. \A k, spec, base : ResolveNode(k, spec, base)' = ResolveNode(k, spec, base)
    BY <1>3 DEF ResolveNode
  <1>5. \A k, spec, base : ResolveEdge(k, spec, base)' = ResolveEdge(k, spec, base)
    BY <1>3 DEF ResolveEdge
  <1>6. \A spec, item : PartsKnown(spec, item)' <=> PartsKnown(spec, item)
    BY <1>1 DEF PartsKnown
  <1>7. \A spec, item : NodeOk(spec, item)' <=> NodeOk(spec, item)
    BY <1>1, <1>6 DEF NodeOk
  <1>8. ASSUME node' = node
        PROVE  \A spec, item : EdgeOk(spec, item)' <=> EdgeOk(spec, item)
    <2>1. \A item : EndpointProfilesKnown(item)' <=> EndpointProfilesKnown(item)
      BY <1>8 DEF EndpointProfilesKnown
    <2> QED
      BY <1>1, <1>6, <2>1 DEF EdgeOk
  <1>9. node' = node => \A spec : TemplateOk(spec)' <=> TemplateOk(spec)
    BY <1>1, <1>2 DEF TemplateOk
  <1>10. \A spec : ResolveTemplate(spec)' = ResolveTemplate(spec)
    BY <1>2 DEF ResolveTemplate
  <1>11. \A spec : ActionOk(spec)' <=> ActionOk(spec)
    BY <1>1 DEF ActionOk
  <1> QED
    BY <1>4, <1>5, <1>7, <1>8, <1>9, <1>10, <1>11

LEMMA NodesStay ==
    ASSUME NodesMade, UNCHANGED <<input, decl, alias, node>> PROVE NodesMade'
  <1>1. ASSUME NEW k \in DOMAIN node PROVE NodeMade(k)'
    <2>1. NodeMade(k)
      BY DEF NodesMade
    <2>2. BaseKey("node", k)' = BaseKey("node", k) /\ Keys("capability")' = Keys("capability")
      BY DictsStay
    <2> QED
      BY <2>1, <2>2, MakingStays DEF NodeMade
  <1>2. Bases("node")' = Bases("node")
    BY DictsStay
  <1> QED
    BY <1>1, <1>2 DEF NodesMade

LEMMA EdgesStay ==
    ASSUME EdgesMade, UNCHANGED <<input, decl, alias, node, edge>> PROVE EdgesMade'
  <1>1. ASSUME NEW k \in DOMAIN edge PROVE EdgeMade(k)'
    <2>1. EdgeMade(k)
      BY DEF EdgesMade
    <2>2. BaseKey("edge", k)' = BaseKey("edge", k) /\ Keys("capability")' = Keys("capability")
      BY DictsStay
    <2> QED
      BY <2>1, <2>2, MakingStays DEF EdgeMade
  <1>2. Bases("edge")' = Bases("edge")
    BY DictsStay
  <1> QED
    BY <1>1, <1>2 DEF EdgesMade

LEMMA AliasesStay ==
    ASSUME NEW kind, AliasesLed(kind), UNCHANGED <<input, decl, alias>> PROVE AliasesLed(kind)'
  BY DictsStay DEF AliasesLed

LEMMA BooksStay ==
    ASSUME Booked, UNCHANGED <<input, at, decl, alias>> PROVE Booked'
  BY DictsStay DEF Booked

LEMMA KeptStays ==
    ASSUME Kept, UNCHANGED <<input, at, decl, alias, node, edge>> PROVE Kept'
  BY NodesStay, EdgesStay, AliasesStay, BooksStay DEF Kept

\* What a step that only moves on has to show.
LEMMA ReachedMoves ==
    ASSUME Reached, phase # "register" \/ at > Len(input),
           UNCHANGED <<input, at, decl, alias, node, edge>>,
           \A kind \in ProfileKind :
              /\ phase' \in Before[kind] => phase \in Before[kind]
              /\ Resolving(kind)' =>
                    /\ Trail(stack', Targets(kind), DOMAIN alias[kind])
                    /\ stack' # <<>> \/ DOMAIN alias[kind] # {} => ~Clash(kind)
              /\ phase' \notin Before[kind] /\ ~Resolving(kind)' => AliasesKnown(kind),
           phase' = "nodes" => Trail(stack', Bases("node"), DOMAIN node),
           phase' \in {"edges", "templates", "actions", "built"} => DOMAIN node = Keys("node"),
           phase' = "edges" => Trail(stack', Bases("edge"), DOMAIN edge),
           phase' \in {"templates", "actions", "built"} => DOMAIN edge = Keys("edge"),
           phase' \in {"actions", "built"} =>
              /\ \A t \in Keys("template") : TemplateOk(decl["template"][t])
              /\ template' = [t \in Keys("template") |-> ResolveTemplate(decl["template"][t])],
           phase' = "built" => \A a \in Keys("action") : ActionOk(decl["action"][a]),
           phase' = "built" => \A t \in Keys("template") : decl["template"][t].json
    PROVE  Reached'
  <1>1. at' > Len(input')
    BY DEF Reached
  <1>2. ASSUME NEW kind \in ProfileKind PROVE AliasesReached(kind)'
    <2>1. phase' \in Before[kind] => DOMAIN alias'[kind] = {}
      BY DEF Reached, AliasesReached
    <2>2. /\ Targets(kind)' = Targets(kind)
          /\ Clash(kind)' <=> Clash(kind)
          /\ AliasesKnown(kind)' <=> AliasesKnown(kind)
      BY DictsStay
    <2>3. /\ Resolving(kind)' =>
                /\ Trail(stack', Targets(kind), DOMAIN alias[kind])
                /\ stack' # <<>> \/ DOMAIN alias[kind] # {} => ~Clash(kind)
          /\ phase' \notin Before[kind] /\ ~Resolving(kind)' => AliasesKnown(kind)
      OBVIOUS
    <2>4. /\ Resolving(kind)' =>
                /\ Trail(stack', Targets(kind)', DOMAIN alias'[kind])
                /\ stack' # <<>> \/ DOMAIN alias'[kind] # {} => ~Clash(kind)'
          /\ phase' \notin Before[kind] /\ ~Resolving(kind)' => AliasesKnown(kind)'
      BY <2>2, <2>3
    <2> QED
      BY <2>1, <2>4 DEF AliasesReached, Before
  <1>3. ProfilesReached'
    BY DictsStay DEF ProfilesReached
  <1>4. RestReached'
    BY DictsStay, MakingStays DEF RestReached
  <1> QED
    BY <1>1, <1>2, <1>3, <1>4 DEF Reached

LEMMA TrailGrows ==
    ASSUME NEW s \in Seq(Name), NEW n \in Name, NEW to, NEW done, Trail(s, to, done), n \notin done,
           ~Contains(s, n), s # <<>> => to[Last(s)] = n
    PROVE  Trail(Append(s, n), to, done)
  <1> DEFINE longer == Append(s, n)
  <1>1. /\ DOMAIN longer = DOMAIN s \cup {Len(s) + 1} /\ longer[Len(s) + 1] = n
        /\ \A i \in DOMAIN s : longer[i] = s[i] /\ i \in Nat /\ i <= Len(s)
        /\ Len(s) \in Nat
    BY Push
  <1>2. \A i \in DOMAIN s : s[i] # n
    BY DEF Contains
  <1> HIDE DEF longer
  <1>3. ASSUME NEW i \in DOMAIN longer, i + 1 \in DOMAIN longer PROVE to[longer[i]] = longer[i + 1]
    <2>1. i \in DOMAIN s
      BY <1>1, <1>3
    <2>2. CASE i + 1 \in DOMAIN s
      BY <1>1, <2>1, <2>2 DEF Trail
    <2>3. CASE i + 1 = Len(s) + 1
      <3>1. i = Len(s) /\ s # <<>>
        BY <1>1, <2>1, <2>3
      <3> QED
        BY <1>1, <2>1, <2>3, <3>1 DEF Last
    <2> QED
      BY <1>1, <1>3, <2>2, <2>3
  <1>4. \A i \in DOMAIN longer : longer[i] \notin done
    BY <1>1 DEF Trail
  <1>5. \A i, j \in DOMAIN longer : longer[i] = longer[j] => i = j
    BY <1>1, <1>2 DEF Trail
  <1> QED
    BY <1>3, <1>4, <1>5 DEF Trail, longer

LEMMA TrailPops ==
    ASSUME NEW s \in Seq(Name), s # <<>>, NEW to, NEW done, Trail(s, to, done)
    PROVE  Trail(Front(s), to, done \cup {Last(s)}) /\ Last(s) \notin done
  <1>1. /\ Len(s) \in DOMAIN s /\ Last(s) = s[Len(s)]
        /\ \A i \in DOMAIN Front(s) : i \in DOMAIN s /\ Front(s)[i] = s[i]
    BY Stack
  <1>2. \A i \in DOMAIN Front(s) : i # Len(s)
    BY DEF Front
  <1> DEFINE rest == Front(s)
             top == Last(s)
  <1> HIDE DEF rest, top
  <1>3. /\ Len(s) \in DOMAIN s /\ top = s[Len(s)]
        /\ \A i \in DOMAIN rest : i \in DOMAIN s /\ rest[i] = s[i] /\ i # Len(s)
    BY <1>1, <1>2 DEF rest, top
  <1>4. Trail(rest, to, done \cup {top}) /\ top \notin done
    BY <1>3 DEF Trail
  <1> QED
    BY <1>4 DEF rest, top

LEMMA FailsDecided ==
    ASSUME RegistryBuildError, ~WellFormed PROVE Decided'
  <1>1. phase' = "failed" /\ UNCHANGED input
    BY DEF RegistryBuildError
  <1> QED
    BY <1>1, RulesStay DEF Decided, Made, Refused

\* Before any alias is resolved there is little to keep.
LEMMA EarlyDecided ==
    ASSUME Booked', phase' = "register", DOMAIN node' = {}, DOMAIN edge' = {},
           \A kind \in ProfileKind : DOMAIN alias'[kind] = {}
    PROVE  Decided'
  <1>1. \A kind \in ProfileKind : AliasesLed(kind)'
    BY DEF AliasesLed, Grounded
  <1>2. NodesMade' /\ EdgesMade'
    BY DEF NodesMade, EdgesMade, Grounded
  <1>3. \A kind \in ProfileKind : AliasesReached(kind)'
    BY Phasing DEF AliasesReached, Before, ProfileKind, Resolving
  <1>4. ProfilesReached' /\ RestReached'
    BY DEF ProfilesReached, RestReached
  <1> QED
    BY <1>1, <1>2, <1>3, <1>4 DEF Decided, Made, Refused, Kept, Reached

LEMMA RegisterDecides ==
    ASSUME IInv, Made, Register PROVE Decided'
  <1>0. phase = "register" /\ at \in DOMAIN input /\ at \in Nat /\ TypeOK
    BY DEF IInv, TypeOK, Packages, Register
  <1>1. Booked /\ DOMAIN node = {} /\ DOMAIN edge = {}
    BY <1>0 DEF Made, Kept, IInv, Staged, Early
  <1>2. \A kind \in ProfileKind : DOMAIN alias[kind] = {}
    BY <1>0 DEF Made, Reached, AliasesReached, Before, ProfileKind
  <1>3. \A i \in DOMAIN input : i \in Nat /\ (i < at + 1 <=> i < at \/ i = at)
    BY <1>0, Entries
  <1>7. CASE ~Accepted(input[at]) /\ RegistryBuildError
    <2>1. ~NamesTrimmed \/ ~CapabilitiesConsumed \/ ~NoDuplicate
      <3> SUFFICES ASSUME NamesTrimmed, NoDuplicate PROVE ~CapabilitiesConsumed
        OBVIOUS
      <3>1. input[at].kind = "capability" /\ input[at].body.consumers = {}
        BY <1>0, <1>7 DEF Accepted, NamesTrimmed
      <3>2. at \in Given("capability") /\ input[at].key \in Declared("capability")
        BY <1>0, <3>1 DEF Given, Declared
      <3>3. SpecOf("capability", input[at].key) = input[at].body
        <4> DEFINE i == CHOOSE i \in Given("capability") : input[i].key = input[at].key
        <4>1. i \in Given("capability") /\ input[i].key = input[at].key
          BY <3>2
        <4> HIDE DEF i
        <4>2. i = at
          BY <3>2, <4>1, KindNames DEF NoDuplicate
        <4> QED
          BY <4>2 DEF SpecOf, i
      <3> QED
        BY <3>1, <3>2, <3>3 DEF CapabilitiesConsumed
    <2> QED
      BY <1>7, <2>1, FailsDecided DEF WellFormed
  <1>8. Accepted(input[at]) => \A i \in DOMAIN input : i < at + 1 => Accepted(input[i])
    BY <1>1, <1>3 DEF Booked
  <1>9. \A d : Accepted(d)' <=> Accepted(d)
    BY DEF Accepted
  <1>4. CASE /\ Accepted(input[at]) /\ input[at].kind = "alias" /\ at' = at + 1
             /\ UNCHANGED <<input, phase, decl, alias, stack, node, edge, template>>
    <2>1. \A kind : Keys(kind)' = Keys(kind)
      BY <1>4 DEF Keys
    <2>2. Booked'
      <3>1. \A i \in DOMAIN input : i < at + 1 /\ input[i].kind # "alias" => i < at
        BY <1>3, <1>4
      <3>2. \A i \in DOMAIN input : i < at => i < at + 1
        BY <1>3
      <3> HIDE <1>0, <1>3
      <3> QED
        BY <1>1, <1>4, <1>8, <1>9, <2>1, <3>1, <3>2 DEF Booked
    <2> QED
      BY <1>0, <1>1, <1>2, <1>4, <2>2, EarlyDecided
  <1>5. CASE /\ Accepted(input[at]) /\ input[at].kind # "alias"
             /\ input[at].key \notin Keys(input[at].kind)
             /\ decl' = [decl EXCEPT ![input[at].kind] = With(@, input[at].key, input[at].body)]
             /\ at' = at + 1
             /\ UNCHANGED <<input, phase, alias, stack, node, edge, template>>
    <2> DEFINE d == input[at]
    <2>1. d.kind \in Kinds /\ DOMAIN decl = Kinds
      BY <1>0, <1>5, Given1 DEF TypeOK
    <2>2. \A kind \in Kinds : Keys(kind)' = IF kind = d.kind THEN Keys(kind) \cup {d.key} ELSE Keys(kind)
      BY <1>5, <2>1 DEF Keys, With
    <2>3. /\ decl'[d.kind][d.key] = d.body
          /\ \A kind \in Kinds : \A k \in Keys(kind) : ~(kind = d.kind /\ k = d.key) =>
                decl'[kind][k] = decl[kind][k]
      BY <1>5, <2>1 DEF Keys, With
    <2>4. d.key \notin Keys(d.kind) /\ d.kind # "alias" /\ input' = input /\ at' = at + 1 /\ d = input[at]
      BY <1>5
    <2> HIDE DEF d
    <2>5. \A i \in DOMAIN input : i < at /\ input[i].kind # "alias" =>
            /\ input[i].kind \in Kinds /\ input[i].key \in Keys(input[i].kind)
            /\ decl[input[i].kind][input[i].key] = input[i].body
            /\ ~(input[i].kind = d.kind /\ input[i].key = d.key)
      BY <1>0, <1>1, <2>4, Entries DEF Booked
    <2>6. \A i \in DOMAIN input : i < at' /\ input[i].kind # "alias" =>
            /\ input[i].key \in Keys(input[i].kind)'
            /\ decl'[input[i].kind][input[i].key] = input[i].body
      <3> SUFFICES ASSUME NEW i \in DOMAIN input, i < at', input[i].kind # "alias"
                   PROVE  /\ input[i].key \in Keys(input[i].kind)'
                          /\ decl'[input[i].kind][input[i].key] = input[i].body
        OBVIOUS
      <3>1. CASE i = at
        BY <2>1, <2>2, <2>3, <2>4, <3>1
      <3>2. CASE i < at
        <4>1. /\ input[i].kind \in Kinds /\ input[i].key \in Keys(input[i].kind)
              /\ decl[input[i].kind][input[i].key] = input[i].body
              /\ ~(input[i].kind = d.kind /\ input[i].key = d.key)
          BY <2>5, <3>2
        <4>2. \A kind \in Kinds : \A k \in Keys(kind) : k \in Keys(kind)'
          BY <2>2
        <4>3. input[i].key \in Keys(input[i].kind)'
          BY <2>4, <4>1, <4>2
        <4> QED
          BY <2>3, <4>1, <4>3
      <3> QED
        BY <1>3, <2>4, <3>1, <3>2
    <2>7. \A kind \in Kinds : \A k \in Keys(kind)' :
            \E i \in DOMAIN input : i < at' /\ input[i].kind = kind /\ input[i].key = k
      BY <1>0, <1>1, <1>3, <2>2, <2>4 DEF Booked
    <2>8. \A i, j \in DOMAIN input :
            i < at' /\ j < at' /\ input[i].kind # "alias" /\ input[i].kind = input[j].kind
            /\ input[i].key = input[j].key => i = j
      <3> SUFFICES ASSUME NEW i \in DOMAIN input, NEW j \in DOMAIN input, i < at', j < at',
                          input[i].kind # "alias", input[i].kind = input[j].kind,
                          input[i].key = input[j].key
                   PROVE  i = j
        OBVIOUS
      <3>1. (i < at \/ i = at) /\ (j < at \/ j = at)
        BY <1>3, <2>4
      <3>2. CASE i < at /\ j < at
        BY <1>1, <3>2 DEF Booked
      <3>3. CASE i = at /\ j < at
        BY <2>4, <2>5, <3>3
      <3>4. CASE i < at /\ j = at
        BY <2>4, <2>5, <3>4
      <3> QED
        BY <3>1, <3>2, <3>3, <3>4
    <2>9. Booked'
      BY <1>5, <1>8, <1>9, <2>4, <2>6, <2>7, <2>8 DEF Booked
    <2> QED
      BY <1>0, <1>1, <1>2, <1>5, <2>9, EarlyDecided
  <1>6. CASE input[at].kind # "alias" /\ input[at].key \in Keys(input[at].kind) /\ RegistryBuildError
    <2>1. input[at].kind \in Kinds
      BY <1>0, <1>6, Given1
    <2>2. PICK i \in DOMAIN input : i < at /\ input[i].kind = input[at].kind /\ input[i].key = input[at].key
      BY <1>1, <1>6, <2>1 DEF Booked
    <2>3. i # at
      BY <1>3, <2>2
    <2>4. ~NoDuplicate
      BY <1>0, <2>1, <2>2, <2>3 DEF NoDuplicate, Given
    <2> QED
      BY <1>6, <2>4, FailsDecided DEF WellFormed
  <1> QED
    BY <1>4, <1>5, <1>6, <1>7 DEF Register

-----------------------------------------------------------------------------
(* Steps that move on and make nothing.                                    *)

LEMMA MovesDecided ==
    ASSUME Made, phase # "failed", phase' # "failed", Reached',
           UNCHANGED <<input, at, decl, alias, node, edge>>
    PROVE  Decided'
  BY KeptStays DEF Made, Decided, Refused

LEMMA TrailStarts ==
    ASSUME NEW to, NEW done PROVE Trail(<<>>, to, done)
  BY DEF Trail

LEMMA TrailOfOne ==
    ASSUME NEW to, NEW done, NEW n, n \notin done PROVE Trail(Append(<<>>, n), to, done)
  <1>1. DOMAIN Append(<<>>, n) = {1} /\ Append(<<>>, n)[1] = n
    OBVIOUS
  <1> QED
    BY <1>1 DEF Trail

LEMMA RegisteredDecides ==
    ASSUME IInv, Made, Registered PROVE Decided'
  <1>1. /\ phase = "register" /\ phase' = "node_aliases" /\ stack' = <<>> /\ at > Len(input)
        /\ UNCHANGED <<input, at, decl, alias, node, edge>>
    BY Phasing DEF Registered, Advance, IInv, Stacked
  <1>2. \A kind \in ProfileKind : DOMAIN alias[kind] = {}
    BY <1>1 DEF Made, Reached, AliasesReached, Before, ProfileKind
  <1>3. \A kind \in ProfileKind : Resolving(kind)' <=> kind = "node"
    BY <1>1, Phasing DEF Resolving
  <1>4. Reached'
    BY <1>1, <1>2, <1>3, TrailStarts, ReachedMoves DEF Made, Before, ProfileKind
  <1> QED
    BY <1>1, <1>4, MovesDecided

LEMMA AliasesDoneDecides ==
    ASSUME IInv, Made, NEW kind \in ProfileKind, AliasesDone(kind) PROVE Decided'
  <1>1. /\ Resolving(kind) /\ phase \in {"node_aliases", "edge_aliases", "port_aliases"}
        /\ phase' = Sequel[phase] /\ stack' = <<>>
        /\ UNCHANGED <<input, at, decl, alias, node, edge>>
    BY ResolvingPhase DEF AliasesDone, Advance
  <1>2. AliasesKnown(kind)
    BY DEF AliasesDone, PendingAliases, IInv, TypeOK, PartialTo, AliasesKnown
  <1>3. \A other \in ProfileKind :
          /\ phase \in Before[other] => DOMAIN alias[other] = {}
          /\ phase \notin Before[other] /\ other # kind => AliasesKnown(other)
    BY <1>1, ResolvingPhase DEF Made, Reached, AliasesReached
  <1>4. \A other \in ProfileKind :
          /\ phase' \in Before[other] => phase \in Before[other]
          /\ Resolving(other)' => phase \in Before[other]
          /\ phase' \notin Before[other] /\ ~Resolving(other)' => phase \notin Before[other]
    BY <1>1, Phasing DEF Before, ProfileKind, Resolving
  <1>5. \A other \in ProfileKind :
          /\ phase' \in Before[other] => phase \in Before[other]
          /\ Resolving(other)' =>
                /\ Trail(stack', Targets(other), DOMAIN alias[other])
                /\ stack' # <<>> \/ DOMAIN alias[other] # {} => ~Clash(other)
          /\ phase' \notin Before[other] /\ ~Resolving(other)' => AliasesKnown(other)
    BY <1>1, <1>2, <1>3, <1>4, TrailStarts
  <1>6. phase' \in {"edge_aliases", "port_aliases", "nodes"}
    BY <1>1, Phasing
  <1>7. Reached'
    BY <1>1, <1>5, <1>6, TrailStarts, ReachedMoves DEF Made
  <1> QED
    BY <1>1, <1>6, <1>7, MovesDecided

LEMMA ProfilesDoneDecides ==
    ASSUME IInv, Made, NEW kind \in {"node", "edge"}, NEW done, ProfilesDone(kind, done),
           \/ phase = "nodes" /\ kind = "node" /\ done = node
           \/ phase = "edges" /\ kind = "edge" /\ done = edge
    PROVE  Decided'
  <1>1. /\ phase' = Sequel[phase] /\ stack' = <<>> /\ Keys(kind) = DOMAIN done
        /\ UNCHANGED <<input, at, decl, alias, node, edge>>
    BY DEF ProfilesDone, Advance
  <1>2. \/ phase = "nodes" /\ phase' = "edges"
        \/ phase = "edges" /\ phase' = "templates"
    <2>1. phase = "nodes" \/ phase = "edges"
      OBVIOUS
    <2> QED
      BY <1>1, <2>1, Phasing, Zenon
  <1>3. \A other \in ProfileKind : AliasesKnown(other) /\ ~Resolving(other)'
    BY <1>2, Phasing DEF Made, Reached, AliasesReached, Before, ProfileKind, Resolving
  <1>4. Reached /\ phase # "failed" /\ (phase = "edges" => DOMAIN node = Keys("node"))
    BY <1>2 DEF Made, Reached, ProfilesReached
  <1>5. Reached'
    BY <1>1, <1>2, <1>3, <1>4, TrailStarts, ReachedMoves DEF Before, ProfileKind
  <1> QED
    BY <1>1, <1>2, <1>5, MovesDecided

LEMMA CallDecides ==
    ASSUME Made, NEW n, Call(n),
           phase \in {"node_aliases", "edge_aliases", "port_aliases", "nodes", "edges"},
           \A kind \in ProfileKind : Resolving(kind) =>
              ~Clash(kind) /\ Trail(Append(stack, n), Targets(kind), DOMAIN alias[kind]),
           phase = "nodes" => Trail(Append(stack, n), Bases("node"), DOMAIN node),
           phase = "edges" => Trail(Append(stack, n), Bases("edge"), DOMAIN edge)
    PROVE  Decided'
  <1>1. stack' = Append(stack, n) /\ UNCHANGED <<input, phase, at, decl, alias, node, edge, template>>
    BY DEF Call
  <1>2. Reached /\ phase # "failed"
    BY DEF Made
  <1>3. \A kind \in ProfileKind : Resolving(kind)' <=> Resolving(kind)
    BY <1>1 DEF Resolving
  <1>4. \A kind \in ProfileKind :
          phase \notin Before[kind] /\ ~Resolving(kind) => AliasesKnown(kind)
    BY <1>2 DEF Reached, AliasesReached
  <1>5. phase = "edges" => DOMAIN node = Keys("node")
    BY <1>2 DEF Reached, ProfilesReached
  <1>6. Reached'
    BY <1>1, <1>2, <1>3, <1>4, <1>5, ReachedMoves
  <1> QED
    BY <1>1, <1>2, <1>6, MovesDecided

LEMMA StartAliasDecides ==
    ASSUME IInv, Made, NEW kind \in ProfileKind, StartAlias(kind) PROVE Decided'
  <1>1. Resolving(kind) /\ ~Clash(kind) /\ stack = <<>> /\ PendingAliases(kind) # {}
    BY DEF StartAlias
  <1>2. PendingAliases(kind) \subseteq Name
    BY AliasedNames DEF PendingAliases, IInv
  <1>3. PICK n \in PendingAliases(kind) : Call(n)
    BY <1>1, <1>2, LeastOf DEF StartAlias
  <1>4. Trail(Append(stack, n), Targets(kind), DOMAIN alias[kind])
    BY <1>1, <1>3, TrailOfOne DEF PendingAliases
  <1> QED
    BY <1>1, <1>3, <1>4, CallDecides, ResolvingPhase

LEMMA StartProfileDecides ==
    ASSUME IInv, Made, NEW kind \in {"node", "edge"}, NEW done, StartProfile(kind, done),
           \/ phase = "nodes" /\ kind = "node" /\ done = node
           \/ phase = "edges" /\ kind = "edge" /\ done = edge
    PROVE  Decided'
  <1>1. stack = <<>> /\ Keys(kind) \ DOMAIN done # {} /\ Keys(kind) \subseteq Name
    BY KeysNames, KindNames DEF StartProfile, IInv, TypeOK, PartialTo
  <1>2. PICK n \in Keys(kind) \ DOMAIN done : Call(n)
    BY <1>1, LeastOf DEF StartProfile
  <1>3. Trail(Append(stack, n), Bases(kind), DOMAIN done)
    BY <1>1, <1>2, TrailOfOne
  <1> QED
    BY <1>2, <1>3, CallDecides, Phasing DEF Resolving

LEMMA TemplatesDecide ==
    ASSUME IInv, Made, ResolveTemplates PROVE Decided'
  <1>1. phase = "templates" /\ stack = <<>>
    BY DEF ResolveTemplates, IInv, Stacked
  <1>2. Settled /\ DOMAIN node = Keys("node") /\ DOMAIN edge = Keys("edge") /\ Reached
    BY <1>1, ProfilePhases DEF IInv, Made, Reached, ProfilesReached
  <1>3. CASE RegistryBuildError /\ \E t \in Keys("template") : ~TemplateOk(decl["template"][t])
    BY <1>2, <1>3, TemplatesWellFormedSays, FailsDecided DEF WellFormed
  <1>4. CASE /\ \A t \in Keys("template") : TemplateOk(decl["template"][t])
             /\ template' = [t \in Keys("template") |-> ResolveTemplate(decl["template"][t])]
             /\ phase' = Sequel[phase]
             /\ UNCHANGED <<input, at, decl, alias, stack, node, edge>>
    <2>1. phase' = "actions"
      BY <1>1, <1>4, Phasing
    <2>2. \A kind \in ProfileKind : AliasesKnown(kind) /\ ~Resolving(kind)'
      BY <1>2, <2>1, Phasing DEF Settled, Resolving
    <2>3. Reached'
      BY <1>1, <1>2, <1>4, <2>1, <2>2, ReachedMoves DEF Before, ProfileKind
    <2> QED
      BY <1>1, <1>4, <2>1, <2>3, MovesDecided
  <1> QED
    BY <1>3, <1>4 DEF ResolveTemplates

LEMMA ActionsDecide ==
    ASSUME IInv, Made, Finish PROVE Decided'
  <1>1. phase = "actions" /\ stack = <<>>
    BY DEF Finish, IInv, Stacked
  <1>2. Settled /\ DOMAIN node = Keys("node") /\ DOMAIN edge = Keys("edge") /\ Reached
    BY <1>1, ProfilePhases DEF IInv, Made, Reached, ProfilesReached
  <1>3. CASE RegistryBuildError /\ ~Finishable
    <2>1. ActionsWellFormed => \A a \in Keys("action") : ActionOk(decl["action"][a])
      BY <1>2, ActionsWellFormedSays
    <2>2. DefaultsAreJson => Describable
      BY <1>1, <1>2, DefaultsAreJsonSays, TemplateKeepsData DEF IInv, Reached, RestReached
    <2> QED
      BY <1>3, <2>1, <2>2, FailsDecided DEF WellFormed, Finishable
  <1>4. CASE Finishable /\ Advance
    <2>1. phase' = "built" /\ UNCHANGED <<input, at, decl, alias, stack, node, edge, template>>
      BY <1>1, <1>4, Phasing DEF Advance
    <2>2. \A kind \in ProfileKind : AliasesKnown(kind) /\ ~Resolving(kind)'
      BY <1>2, <2>1, Phasing DEF Settled, Resolving
    <2>3. /\ \A t \in Keys("template") : TemplateOk(decl["template"][t])
          /\ template = [t \in Keys("template") |-> ResolveTemplate(decl["template"][t])]
      BY <1>1, <1>2 DEF Reached, RestReached
    <2>5. /\ \A a \in Keys("action") : ActionOk(decl["action"][a])
          /\ \A t \in Keys("template") : decl["template"][t].json
      BY <1>4, <2>3, TemplateKeepsData DEF IInv, Finishable
    <2>4. Reached'
      BY <1>1, <1>2, <2>1, <2>2, <2>3, <2>5, ReachedMoves DEF Before, ProfileKind
    <2> QED
      BY <1>1, <2>1, <2>4, MovesDecided
  <1> QED
    BY <1>3, <1>4 DEF Finish

-----------------------------------------------------------------------------
(* visit() of an alias.                                                    *)

LEMMA AliasesClashDecides ==
    ASSUME IInv, Made, NEW kind \in ProfileKind, AliasesClash(kind) PROVE Decided'
  <1>1. Clash(kind) /\ RegistryBuildError /\ phase # "register" /\ phase # "failed"
    BY ResolvingPhase DEF AliasesClash
  <1>2. TypeOK /\ Booked /\ at > Len(input) /\ kind \in Kinds
    BY <1>1, KindNames DEF IInv, Made, Kept, Reached, ProfileKind
  <1>3. Declared(kind) = Keys(kind)
    BY <1>2, DictsAreDeclarations
  <1>4. ~AliasesLead(kind)
    BY <1>1, <1>3 DEF Clash, AliasesLead
  <1> QED
    BY <1>1, <1>4, FailsDecided DEF WellFormed

\* What is on the stack of visit() when it goes on.
LEMMA VisitedAlias ==
    ASSUME IInv, Made, NEW kind \in ProfileKind, VisitAlias(kind)
    PROVE  /\ stack \in Seq(Name) /\ stack # <<>> /\ Top \in Aliased(kind) /\ Top \in Name
           /\ phase \in {"node_aliases", "edge_aliases", "port_aliases"}
           /\ \A other \in ProfileKind : Resolving(other) <=> other = kind
           /\ \A i \in DOMAIN stack : stack[i] \in Aliased(kind)
           /\ Targets(kind)[Top] = RawTarget(kind, Top) /\ RawTarget(kind, Top) \in Name
           /\ Trail(stack, Targets(kind), DOMAIN alias[kind]) /\ ~Clash(kind)
           /\ Kept /\ Reached /\ TypeOK
  <1>1. stack \in Seq(Name) /\ stack # <<>> /\ Resolving(kind) /\ TypeOK
    BY DEF VisitAlias, IInv, TypeOK
  <1>2. /\ phase \in {"node_aliases", "edge_aliases", "port_aliases"}
        /\ \A other \in ProfileKind : Resolving(other) <=> other = kind
    BY <1>1, ResolvingPhase
  <1>3. \A i \in DOMAIN stack : stack[i] \in Aliased(kind)
    BY <1>1 DEF IInv, Stacked
  <1>4. Top \in Aliased(kind) /\ Top \in Name
    BY <1>1, <1>3, Stack DEF Top
  <1>5. Targets(kind)[Top] = RawTarget(kind, Top) /\ RawTarget(kind, Top) \in Name
    BY <1>1, <1>4, RawTargetName DEF Targets
  <1>6. Kept /\ Reached
    BY <1>2 DEF Made
  <1>7. Trail(stack, Targets(kind), DOMAIN alias[kind]) /\ ~Clash(kind)
    BY <1>1, <1>6 DEF Reached, AliasesReached
  <1> QED
    BY <1>1, <1>2, <1>3, <1>4, <1>5, <1>6, <1>7

LEMMA AliasCalls ==
    ASSUME IInv, Made, NEW kind \in ProfileKind, VisitAlias(kind),
           ~Known(kind, RawTarget(kind, Top)), ~OnStack(RawTarget(kind, Top)),
           Call(RawTarget(kind, Top))
    PROVE  Decided'
  <1> DEFINE n == RawTarget(kind, Top)
  <1>1. n \notin DOMAIN alias[kind] /\ n \in Name /\ ~Contains(stack, n)
    BY VisitedAlias DEF Known, OnStack
  <1>2. Targets(kind)[Last(stack)] = n
    BY VisitedAlias DEF Top
  <1> HIDE DEF n
  <1>3. Trail(Append(stack, n), Targets(kind), DOMAIN alias[kind])
    BY <1>1, <1>2, VisitedAlias, TrailGrows
  <1>4. Call(n)
    BY DEF n
  <1>5. phase # "nodes" /\ phase # "edges"
    BY VisitedAlias
  <1> QED
    BY <1>3, <1>4, <1>5, CallDecides, VisitedAlias

\* An unknown target, or one in progress, is against the rules.
LEMMA AliasFails ==
    ASSUME IInv, Made, NEW kind \in ProfileKind, VisitAlias(kind),
           ~Known(kind, RawTarget(kind, Top)),
           RawTarget(kind, Top) \notin Aliased(kind) \/ OnStack(RawTarget(kind, Top))
    PROVE  ~WellFormed
  <1>1. Booked /\ at > Len(input) /\ kind \in Kinds
    BY VisitedAlias, KindNames DEF Kept, Reached, ProfileKind
  <1>2. Declared(kind) = Keys(kind)
    BY <1>1, VisitedAlias, DictsAreDeclarations
  <1>3. CASE RawTarget(kind, Top) \notin Aliased(kind)
    <2>1. RawTarget(kind, Top) \notin Declared(kind) \cup Aliased(kind) /\ Top \in Aliased(kind)
      BY <1>2, <1>3, VisitedAlias DEF Known
    <2> QED
      BY <2>1 DEF WellFormed, AliasesLead
  <1>4. CASE OnStack(RawTarget(kind, Top))
    <2>1. ~Grounded(Targets(kind), Aliased(kind))
      BY <1>4, VisitedAlias, CycleHasNoWayOut
    <2>2. ~AliasesLead(kind)
      BY <2>1 DEF AliasesLead, Leads, Grounded, Targets
    <2> QED
      BY <2>2 DEF WellFormed
  <1> QED
    BY <1>3, <1>4

LEMMA AliasFinishes ==
    ASSUME IInv, Made, NEW kind \in ProfileKind, VisitAlias(kind),
           Known(kind, RawTarget(kind, Top)),
           alias' = [alias EXCEPT ![kind] = With(@, Top, canonical(kind, RawTarget(kind, Top)))],
           stack' = Pop, UNCHANGED <<input, phase, at, decl, node, edge, template>>
    PROVE  Decided'
  <1> DEFINE top == Top
             target == RawTarget(kind, Top)
             done == DOMAIN alias[kind]
  <1>1. /\ Trail(stack', Targets(kind), done \cup {top}) /\ top \notin done
        /\ top \in Aliased(kind)
    BY VisitedAlias, TrailPops DEF Pop, Top
  <1>2. /\ \A other : Keys(other)' = Keys(other) /\ Aliased(other)' = Aliased(other)
        /\ \A other : Targets(other)' = Targets(other) /\ (Clash(other)' <=> Clash(other))
        /\ \A other, a : RawTarget(other, a)' = RawTarget(other, a)
    BY DEF Keys, Aliased, Aliases, Targets, RawTarget, Clash
  <1>3. DOMAIN alias = ProfileKind
    BY VisitedAlias DEF TypeOK
  <1>4. /\ DOMAIN alias'[kind] = done \cup {top}
        /\ alias'[kind][top] = canonical(kind, target)
        /\ \A a \in done : alias'[kind][a] = alias[kind][a]
        /\ \A other \in ProfileKind : other # kind => alias'[other] = alias[other]
    BY <1>1, <1>3 DEF With
  <1>5. Aliased(kind) \cap Keys(kind) = {} /\ Known(kind, target)
    BY VisitedAlias DEF Clash
  <1>6. target # top
    BY <1>1, <1>5 DEF Known
  <1>7. AliasesLed(kind) /\ Targets(kind)[top] = target
    BY VisitedAlias DEF Kept
  <1>8. done \subseteq Aliased(kind)
    BY VisitedAlias DEF TypeOK, PartialTo
  <1> HIDE DEF top, target, done
  <1>9. \A n : Known(kind, n) => Known(kind, n)' /\ canonical(kind, n)' = canonical(kind, n)
    <2>1. \A n : Known(kind, n) => n # top
      BY <1>1, <1>5 DEF Known, done
    <2> QED
      BY <1>2, <1>4, <2>1 DEF Known, canonical, done
  <1>10. \A a \in DOMAIN alias'[kind] :
          /\ Known(kind, RawTarget(kind, a))'
          /\ alias'[kind][a] = canonical(kind, RawTarget(kind, a))'
    <2>1. \A a \in done : /\ Known(kind, RawTarget(kind, a))
                          /\ alias[kind][a] = canonical(kind, RawTarget(kind, a))
      BY <1>7 DEF AliasesLed, done
    <2>2. target = RawTarget(kind, top)
      BY DEF target, top
    <2>3. \A a \in DOMAIN alias'[kind] :
            /\ Known(kind, RawTarget(kind, a))
            /\ alias'[kind][a] = canonical(kind, RawTarget(kind, a))
      BY <1>4, <1>5, <2>1, <2>2
    <2> QED
      BY <1>2, <1>9, <2>3
  <1>11. Grounded(Targets(kind), done \cup {top})
    <2>1. \A a \in done : Targets(kind)[a] # top
      <3>1. \A a \in done : Known(kind, RawTarget(kind, a)) /\ Targets(kind)[a] = RawTarget(kind, a)
        BY <1>7, <1>8 DEF AliasesLed, Targets, done
      <3> QED
        BY <1>1, <1>5, <3>1 DEF Known, done
    <2> QED
      BY <1>6, <1>7, <2>1, GroundedGrows DEF AliasesLed, done
  <1>12. AliasesLed(kind)'
    BY <1>2, <1>4, <1>10, <1>11 DEF AliasesLed
  <1>13. ASSUME NEW other \in ProfileKind, other # kind PROVE AliasesLed(other)'
    <2>1. \A n : (Known(other, n)' <=> Known(other, n)) /\ canonical(other, n)' = canonical(other, n)
      BY <1>2, <1>4, <1>13 DEF Known, canonical
    <2>2. AliasesLed(other)
      BY VisitedAlias DEF Kept
    <2> QED
      BY <1>2, <1>4, <1>13, <2>1, <2>2 DEF AliasesLed
  <1>14. NodesMade' /\ EdgesMade'
    <2>1. DOMAIN node = {} /\ DOMAIN edge = {}
      BY VisitedAlias DEF IInv, Staged, Early
    <2> QED
      BY <2>1 DEF NodesMade, EdgesMade, Grounded
  <1>15. Booked'
    BY <1>2, VisitedAlias DEF Kept, Booked
  <1>16. Kept'
    BY <1>12, <1>13, <1>14, <1>15 DEF Kept
  <1>17. phase \notin Before[kind] /\ \A other \in ProfileKind : Resolving(other)' <=> other = kind
    <2>1. Resolving(kind) /\ \A other \in ProfileKind : Resolving(other) <=> other = kind
      BY VisitedAlias
    <2> QED
      BY <2>1, Phasing DEF Resolving, Before, ProfileKind
  <1>18. AliasesReached(kind)'
    BY <1>1, <1>2, <1>4, <1>17, VisitedAlias DEF AliasesReached, Before
  <1>19. ASSUME NEW other \in ProfileKind, other # kind PROVE AliasesReached(other)'
    <2>1. AliasesReached(other) /\ ~Resolving(other)'
      BY <1>17, <1>19, VisitedAlias DEF Reached
    <2>2. ~Resolving(other)
      BY <1>19, VisitedAlias
    <2>3. AliasesKnown(other)' <=> AliasesKnown(other)
      BY <1>2, <1>4, <1>19 DEF AliasesKnown
    <2> QED
      BY <1>4, <1>19, <2>1, <2>2, <2>3 DEF AliasesReached, Before
  <1>20. phase' \in {"node_aliases", "edge_aliases", "port_aliases"} /\ at' > Len(input')
    BY VisitedAlias DEF Reached
  <1>21. Reached'
    BY <1>18, <1>19, <1>20 DEF Reached, ProfilesReached, RestReached
  <1> QED
    BY <1>16, <1>20, <1>21 DEF Decided, Made, Refused

LEMMA AliasesDecide ==
    ASSUME IInv, Made, ResolveAliases PROVE Decided'
  <1> PICK kind \in ProfileKind :
        AliasesClash(kind) \/ StartAlias(kind) \/ VisitAlias(kind) \/ AliasesDone(kind)
    BY DEF ResolveAliases
  <1>1. CASE VisitAlias(kind)
    <2> DEFINE target == RawTarget(kind, Top)
    <2>1. CASE /\ Known(kind, target)
               /\ alias' = [alias EXCEPT ![kind] = With(@, Top, canonical(kind, target))]
               /\ stack' = Pop
               /\ UNCHANGED <<input, phase, at, decl, node, edge, template>>
      BY <1>1, <2>1, AliasFinishes
    <2>2. CASE ~Known(kind, target) /\ ~OnStack(target) /\ Call(target)
      BY <1>1, <2>2, AliasCalls
    <2>3. CASE ~Known(kind, target) /\ (target \notin Aliased(kind) \/ OnStack(target))
               /\ RegistryBuildError
      BY <1>1, <2>3, AliasFails, FailsDecided
    <2> QED
      BY <1>1, <2>1, <2>2, <2>3 DEF VisitAlias
  <1> QED
    BY <1>1, AliasesClashDecides, StartAliasDecides, AliasesDoneDecides

-----------------------------------------------------------------------------
(* visit() of a profile.                                                   *)

\* What is on the stack of visit() when it goes on.
LEMMA VisitedProfile ==
    ASSUME IInv, Made, NEW kind \in {"node", "edge"}, NEW done, stack # <<>>,
           \/ phase = "nodes" /\ kind = "node" /\ done = node
           \/ phase = "edges" /\ kind = "edge" /\ done = edge
    PROVE  /\ stack \in Seq(Name) /\ Top \in Keys(kind) /\ Top \in Name
           /\ \A i \in DOMAIN stack : stack[i] \in Keys(kind)
           /\ Trail(stack, Bases(kind), DOMAIN done) /\ Bases(kind)[Top] = BaseKey(kind, Top)
           /\ DOMAIN done \subseteq Keys(kind) /\ None \notin Keys(kind)
           /\ Settled /\ Kept /\ Reached /\ phase \in {"nodes", "edges"}
           /\ (kind = "edge" => DOMAIN node = Keys("node"))
  <1>1. stack \in Seq(Name) /\ phase \in {"nodes", "edges"} /\ Settled /\ Kept /\ Reached
    BY ProfilePhases DEF IInv, TypeOK, Made
  <1>2. \A i \in DOMAIN stack : stack[i] \in Keys(kind)
    BY DEF IInv, Stacked
  <1>3. Top \in Keys(kind) /\ Top \in Name
    BY <1>1, <1>2, Stack DEF Top
  <1>4. Trail(stack, Bases(kind), DOMAIN done) /\ (kind = "edge" => DOMAIN node = Keys("node"))
    BY <1>1 DEF Reached, ProfilesReached
  <1>5. Bases(kind)[Top] = BaseKey(kind, Top)
    BY <1>3 DEF Bases
  <1>6. DOMAIN done \subseteq Keys(kind)
    BY DEF IInv, TypeOK, PartialTo
  <1>7. None \notin Keys(kind)
    BY KeysNames, KindNames, RegistryAssumption DEF IInv
  <1> QED
    BY <1>1, <1>2, <1>3, <1>4, <1>5, <1>6, <1>7

LEMMA BaseCalls ==
    ASSUME IInv, Made, NEW kind \in {"node", "edge"}, NEW done, stack # <<>>,
           \/ phase = "nodes" /\ kind = "node" /\ done = node
           \/ phase = "edges" /\ kind = "edge" /\ done = edge,
           ~BaseReady(kind, done), BaseKey(kind, Top) \in Keys(kind),
           ~OnStack(BaseKey(kind, Top)), Call(BaseKey(kind, Top))
    PROVE  Decided'
  <1> DEFINE n == BaseKey(kind, Top)
  <1>1. n \notin DOMAIN done /\ n \in Name /\ ~Contains(stack, n) /\ Call(n)
    BY KeysNames, KindNames DEF BaseReady, OnStack, Opt, IInv
  <1>2. Bases(kind)[Last(stack)] = n
    BY VisitedProfile DEF Top
  <1> HIDE DEF n
  <1>3. stack \in Seq(Name) /\ Trail(stack, Bases(kind), DOMAIN done)
    BY VisitedProfile
  <1>4. Trail(Append(stack, n), Bases(kind), DOMAIN done)
    BY <1>1, <1>2, <1>3, TrailGrows
  <1> QED
    BY <1>1, <1>4, CallDecides, Phasing DEF Resolving

\* An unknown base, or one in progress, is against the rules.
LEMMA BaseFails ==
    ASSUME IInv, Made, NEW kind \in {"node", "edge"}, NEW done, stack # <<>>,
           \/ phase = "nodes" /\ kind = "node" /\ done = node
           \/ phase = "edges" /\ kind = "edge" /\ done = edge,
           ~BaseReady(kind, done), BaseKey(kind, Top) \notin Keys(kind) \/ OnStack(BaseKey(kind, Top))
    PROVE  ~WellFormed
  <1>1. Settled /\ Top \in Keys(kind) /\ Bases(kind)[Top] = BaseKey(kind, Top)
    BY VisitedProfile
  <1>2. CASE BaseKey(kind, Top) \notin Keys(kind)
    <2>1. Bases(kind)[Top] \notin Opt(Keys(kind))
      BY <1>1, <1>2 DEF BaseReady, Opt
    <2> QED
      BY <1>1, <2>1, LineagesGrounded DEF WellFormed, NodesWellFormed, EdgesWellFormed
  <1>3. CASE OnStack(BaseKey(kind, Top))
    <2>1. ~Grounded(Bases(kind), Keys(kind))
      BY <1>1, <1>3, VisitedProfile, CycleHasNoWayOut
    <2> QED
      BY <1>1, <2>1, LineagesGrounded DEF WellFormed, NodesWellFormed, EdgesWellFormed
  <1> QED
    BY <1>2, <1>3

LEMMA VisitBaseDecides ==
    ASSUME IInv, Made, NEW kind \in {"node", "edge"}, NEW done, VisitBase(kind, done),
           \/ phase = "nodes" /\ kind = "node" /\ done = node
           \/ phase = "edges" /\ kind = "edge" /\ done = edge
    PROVE  Decided'
  BY BaseCalls, BaseFails, FailsDecided DEF VisitBase

\* One more profile with a base that is made: no base leads to it.
LEMMA BasesGrow ==
    ASSUME IInv, Made, NEW kind \in {"node", "edge"}, NEW done, stack # <<>>,
           \/ phase = "nodes" /\ kind = "node" /\ done = node
           \/ phase = "edges" /\ kind = "edge" /\ done = edge,
           BaseReady(kind, done), \A k \in DOMAIN done : BaseKey(kind, k) \in Opt(DOMAIN done),
           Grounded(Bases(kind), DOMAIN done)
    PROVE  /\ Grounded(Bases(kind), DOMAIN done \cup {Top}) /\ Top \notin DOMAIN done
           /\ Trail(Pop, Bases(kind), DOMAIN done \cup {Top})
           /\ BaseKey(kind, Top) # Top /\ \A k \in DOMAIN done : BaseKey(kind, k) # Top
  <1>1. Top \notin DOMAIN done /\ Trail(Pop, Bases(kind), DOMAIN done \cup {Top})
    BY VisitedProfile, TrailPops DEF Top, Pop
  <1>2. Top # None
    BY VisitedProfile
  <1>3. BaseKey(kind, Top) # Top /\ \A k \in DOMAIN done : BaseKey(kind, k) # Top
    BY <1>1, <1>2 DEF BaseReady, Opt
  <1>4. /\ Bases(kind)[Top] = BaseKey(kind, Top)
        /\ \A k \in DOMAIN done : Bases(kind)[k] = BaseKey(kind, k)
    BY VisitedProfile DEF Bases
  <1>5. Grounded(Bases(kind), DOMAIN done \cup {Top})
    BY <1>3, <1>4, GroundedGrows
  <1> QED
    BY <1>1, <1>3, <1>5

LEMMA NodeFinishes ==
    ASSUME IInv, Made, phase = "nodes", stack # <<>>, BaseReady("node", node),
           NodeOk(decl["node"][Top], NodeItem), node' = With(node, Top, NodeItem), stack' = Pop,
           UNCHANGED <<input, phase, at, decl, alias, edge, template>>
    PROVE  Decided'
  <1> DEFINE top == Top
             item == NodeItem
  <1>1. /\ Settled /\ Kept /\ Reached /\ NodesMade /\ top \in Keys("node")
        /\ \A k \in DOMAIN node : NodeMade(k)
    BY VisitedProfile DEF Kept, NodesMade
  <1>2. /\ Grounded(Bases("node"), DOMAIN node \cup {top}) /\ top \notin DOMAIN node
        /\ Trail(stack', Bases("node"), DOMAIN node \cup {top})
        /\ BaseKey("node", top) # top /\ \A k \in DOMAIN node : BaseKey("node", k) # top
    BY <1>1, BasesGrow DEF NodesMade, NodeMade
  <1>3. /\ DOMAIN node' = DOMAIN node \cup {top} /\ node'[top] = item
        /\ \A k \in DOMAIN node : node'[k] = node[k]
    BY <1>2 DEF With
  <1>4. /\ BaseKey("node", top) \in Opt(DOMAIN node)
        /\ item = ResolveNode(top, decl["node"][top],
                    IF BaseKey("node", top) = None THEN NodeBase ELSE node[BaseKey("node", top)])
    BY DEF BaseReady, NodeItem
  <1>5. NodeOk(decl["node"][top], item)
    OBVIOUS
  <1>6. None \notin DOMAIN node
    BY VisitedProfile
  <1>7. item.capabilities \subseteq Keys("capability")
    <2> DEFINE base == IF BaseKey("node", top) = None THEN NodeBase ELSE node[BaseKey("node", top)]
    <2>1. item.capabilities = base.capabilities \cup decl["node"][top].capabilities
      BY <1>4, NodeFields
    <2>2. decl["node"][top].capabilities \subseteq Keys("capability")
      BY <1>5 DEF NodeOk, PartsKnown
    <2>3. base.capabilities \subseteq Keys("capability")
      BY <1>1, <1>4 DEF NodeMade, NodeBase, Opt
    <2> QED
      BY <2>1, <2>2, <2>3
  <1> HIDE DEF top, item
  <1>8. ASSUME NEW k \in DOMAIN node' PROVE NodeMade(k)'
    <2>1. /\ \A key : BaseKey("node", key)' = BaseKey("node", key)
          /\ Keys("capability")' = Keys("capability")
          /\ \A key, spec, base : ResolveNode(key, spec, base)' = ResolveNode(key, spec, base)
          /\ \A spec, made : NodeOk(spec, made)' <=> NodeOk(spec, made)
      BY DictsStay, MakingStays
    <2>2. /\ BaseKey("node", k) \in Opt(DOMAIN node)
          /\ node'[k] = ResolveNode(k, decl["node"][k],
                    IF BaseKey("node", k) = None THEN NodeBase ELSE node[BaseKey("node", k)])
          /\ NodeOk(decl["node"][k], node'[k])
          /\ node'[k].capabilities \subseteq Keys("capability")
      <3>1. CASE k = top
        BY <1>3, <1>4, <1>5, <1>7, <3>1
      <3>2. CASE k \in DOMAIN node
        <4>1. NodeMade(k) /\ node'[k] = node[k]
          BY <1>1, <1>3, <3>2
        <4> QED
          BY <4>1 DEF NodeMade
      <3> QED
        BY <1>3, <3>1, <3>2
    <2>3. BaseKey("node", k) # None => node'[BaseKey("node", k)] = node[BaseKey("node", k)]
      BY <1>3, <2>2 DEF Opt
    <2>4. BaseKey("node", k) \in Opt(DOMAIN node')
      BY <1>3, <2>2 DEF Opt
    <2>5. node'[k] = ResolveNode(k, decl["node"][k],
                    IF BaseKey("node", k) = None THEN NodeBase ELSE node'[BaseKey("node", k)])
      BY <2>2, <2>3
    <2>6. ResolveNode(k, decl["node"][k],
                      IF BaseKey("node", k) = None THEN NodeBase ELSE node[BaseKey("node", k)])'
            = ResolveNode(k, decl["node"][k],
                    IF BaseKey("node", k) = None THEN NodeBase ELSE node'[BaseKey("node", k)])
      BY <2>1 DEF NodeBase
    <2>7. NodeOk(decl["node"][k], node[k])'
      BY <2>1, <2>2
    <2> QED
      BY <2>1, <2>2, <2>4, <2>5, <2>6, <2>7 DEF NodeMade
  <1>9. NodesMade'
    BY <1>2, <1>3, <1>8, DictsStay DEF NodesMade
  <1>10. EdgesMade'
    <2>1. DOMAIN edge = {}
      BY DEF IInv, Staged
    <2> QED
      BY <2>1 DEF EdgesMade, Grounded
  <1>11. Kept'
    BY <1>1, <1>9, <1>10, AliasesStay, BooksStay DEF Kept
  <1>12. \A kind \in ProfileKind : AliasesReached(kind)'
    BY <1>1, DictsStay, Phasing DEF Settled, AliasesReached, Before, ProfileKind, Resolving
  <1>13. ProfilesReached' /\ RestReached'
    BY <1>2, <1>3, DictsStay DEF ProfilesReached, RestReached
  <1>14. Reached'
    BY <1>1, <1>12, <1>13 DEF Reached
  <1> QED
    BY <1>11, <1>14 DEF Decided, Made, Refused

LEMMA NodesDecide ==
    ASSUME IInv, Made, ResolveNodes PROVE Decided'
  <1>1. phase = "nodes"
    BY DEF ResolveNodes
  <1>2. CASE FinishNode
    <2>1. stack # <<>> /\ BaseReady("node", node)
      BY <1>2 DEF FinishNode
    <2>2. CASE ~NodeOk(decl["node"][Top], NodeItem) /\ RegistryBuildError
      <3>1. Settled /\ NodesMade /\ Top \in Keys("node")
        BY <1>1, <2>1, VisitedProfile DEF Kept
      <3>2. ~NodesWellFormed
        BY <2>1, <2>2, <3>1, NodeChecksPass DEF BaseReady, NodeItem
      <3> QED
        BY <2>2, <3>2, FailsDecided DEF WellFormed
    <2> QED
      BY <1>1, <1>2, <2>1, <2>2, NodeFinishes DEF FinishNode
  <1> QED
    BY <1>1, <1>2, StartProfileDecides, VisitBaseDecides, ProfilesDoneDecides DEF ResolveNodes

LEMMA EdgeFinishes ==
    ASSUME IInv, Made, phase = "edges", stack # <<>>, BaseReady("edge", edge),
           EdgeOk(decl["edge"][Top], EdgeItem), edge' = With(edge, Top, EdgeItem), stack' = Pop,
           UNCHANGED <<input, phase, at, decl, alias, node, template>>
    PROVE  Decided'
  <1> DEFINE top == Top
             item == EdgeItem
  <1>1. /\ Settled /\ Kept /\ Reached /\ EdgesMade /\ top \in Keys("edge")
        /\ DOMAIN node = Keys("node") /\ \A k \in DOMAIN edge : EdgeMade(k)
    BY VisitedProfile DEF Kept, EdgesMade
  <1>2. /\ Grounded(Bases("edge"), DOMAIN edge \cup {top}) /\ top \notin DOMAIN edge
        /\ Trail(stack', Bases("edge"), DOMAIN edge \cup {top})
        /\ BaseKey("edge", top) # top /\ \A k \in DOMAIN edge : BaseKey("edge", k) # top
    BY <1>1, BasesGrow DEF EdgesMade, EdgeMade
  <1>3. /\ DOMAIN edge' = DOMAIN edge \cup {top} /\ edge'[top] = item
        /\ \A k \in DOMAIN edge : edge'[k] = edge[k]
    BY <1>2 DEF With
  <1>4. /\ BaseKey("edge", top) \in Opt(DOMAIN edge)
        /\ item = ResolveEdge(top, decl["edge"][top],
                    IF BaseKey("edge", top) = None THEN EdgeBase ELSE edge[BaseKey("edge", top)])
    BY DEF BaseReady, EdgeItem
  <1>5. EdgeOk(decl["edge"][top], item)
    OBVIOUS
  <1>6. None \notin DOMAIN edge
    BY VisitedProfile
  <1>7. ASSUME NEW s \in Side PROVE item.required[s] \subseteq Keys("capability")
    <2> DEFINE base == IF BaseKey("edge", top) = None THEN EdgeBase ELSE edge[BaseKey("edge", top)]
    <2>1. item.required[s] = base.required[s] \cup decl["edge"][top].required[s]
      BY <1>4, EdgeFields
    <2>2. decl["edge"][top].required[s] \subseteq Keys("capability")
      BY <1>5 DEF EdgeOk
    <2>3. base.required[s] \subseteq Keys("capability")
      <3>1. EdgeBase.required[s] = {}
        BY DEF EdgeBase
      <3> QED
        BY <1>1, <1>4, <3>1 DEF EdgeMade, Opt
    <2> QED
      BY <2>1, <2>2, <2>3
  <1> HIDE DEF top, item
  <1>8. ASSUME NEW k \in DOMAIN edge' PROVE EdgeMade(k)'
    <2>1. /\ \A key : BaseKey("edge", key)' = BaseKey("edge", key)
          /\ Keys("capability")' = Keys("capability")
          /\ \A key, spec, base : ResolveEdge(key, spec, base)' = ResolveEdge(key, spec, base)
          /\ \A spec, made : EdgeOk(spec, made)' <=> EdgeOk(spec, made)
      BY DictsStay, MakingStays
    <2>2. /\ BaseKey("edge", k) \in Opt(DOMAIN edge)
          /\ edge'[k] = ResolveEdge(k, decl["edge"][k],
                    IF BaseKey("edge", k) = None THEN EdgeBase ELSE edge[BaseKey("edge", k)])
          /\ EdgeOk(decl["edge"][k], edge'[k])
          /\ \A s \in Side : edge'[k].required[s] \subseteq Keys("capability")
      <3>1. CASE k = top
        BY <1>3, <1>4, <1>5, <1>7, <3>1
      <3>2. CASE k \in DOMAIN edge
        <4>1. EdgeMade(k) /\ edge'[k] = edge[k]
          BY <1>1, <1>3, <3>2
        <4> QED
          BY <4>1 DEF EdgeMade
      <3> QED
        BY <1>3, <3>1, <3>2
    <2>3. BaseKey("edge", k) # None => edge'[BaseKey("edge", k)] = edge[BaseKey("edge", k)]
      BY <1>3, <2>2 DEF Opt
    <2>4. BaseKey("edge", k) \in Opt(DOMAIN edge')
      BY <1>3, <2>2 DEF Opt
    <2>5. edge'[k] = ResolveEdge(k, decl["edge"][k],
                    IF BaseKey("edge", k) = None THEN EdgeBase ELSE edge'[BaseKey("edge", k)])
      BY <2>2, <2>3
    <2>6. ResolveEdge(k, decl["edge"][k],
                      IF BaseKey("edge", k) = None THEN EdgeBase ELSE edge[BaseKey("edge", k)])'
            = ResolveEdge(k, decl["edge"][k],
                    IF BaseKey("edge", k) = None THEN EdgeBase ELSE edge'[BaseKey("edge", k)])
      BY <2>1 DEF EdgeBase
    <2>7. EdgeOk(decl["edge"][k], edge[k])'
      BY <2>1, <2>2
    <2> QED
      BY <2>1, <2>2, <2>4, <2>5, <2>6, <2>7 DEF EdgeMade
  <1>9. EdgesMade'
    BY <1>2, <1>3, <1>8, DictsStay DEF EdgesMade
  <1>10. Kept'
    BY <1>1, <1>9, NodesStay, AliasesStay, BooksStay DEF Kept
  <1>11. \A kind \in ProfileKind : AliasesReached(kind)'
    BY <1>1, DictsStay, Phasing DEF Settled, AliasesReached, Before, ProfileKind, Resolving
  <1>12. ProfilesReached' /\ RestReached'
    BY <1>1, <1>2, <1>3, DictsStay DEF ProfilesReached, RestReached
  <1>13. Reached'
    BY <1>1, <1>11, <1>12 DEF Reached
  <1> QED
    BY <1>10, <1>13 DEF Decided, Made, Refused

LEMMA EdgesDecide ==
    ASSUME IInv, Made, ResolveEdges PROVE Decided'
  <1>1. phase = "edges"
    BY DEF ResolveEdges
  <1>2. CASE FinishEdge
    <2>1. stack # <<>> /\ BaseReady("edge", edge)
      BY <1>2 DEF FinishEdge
    <2>2. CASE ~EdgeOk(decl["edge"][Top], EdgeItem) /\ RegistryBuildError
      <3>1. Settled /\ EdgesMade /\ Top \in Keys("edge") /\ DOMAIN node = Keys("node")
        BY <1>1, <2>1, VisitedProfile DEF Kept
      <3>2. ~EdgesWellFormed
        BY <2>1, <2>2, <3>1, EdgeChecksPass DEF BaseReady, EdgeItem
      <3> QED
        BY <2>2, <3>2, FailsDecided DEF WellFormed
    <2> QED
      BY <1>1, <1>2, <2>1, <2>2, EdgeFinishes DEF FinishEdge
  <1> QED
    BY <1>1, <1>2, StartProfileDecides, VisitBaseDecides, ProfilesDoneDecides DEF ResolveEdges

-----------------------------------------------------------------------------
(* What build decides.                                                     *)

LEMMA DecidedFirst == Init => Decided
  <1> SUFFICES ASSUME Init PROVE Decided
    OBVIOUS
  <1>1. /\ phase = "register" /\ at = 1 /\ DOMAIN node = {} /\ DOMAIN edge = {}
        /\ \A kind \in ProfileKind : DOMAIN alias[kind] = {}
        /\ \A kind \in Kinds : Keys(kind) = {}
    BY DEF Init, Keys
  <1>2. \A i \in DOMAIN input : ~(i < 1)
    BY RegistryAssumption DEF Init, Packages
  <1>3. Booked
    BY <1>1, <1>2 DEF Booked
  <1>4. \A kind \in ProfileKind : AliasesLed(kind)
    BY <1>1 DEF AliasesLed, Grounded
  <1>5. NodesMade /\ EdgesMade
    BY <1>1 DEF NodesMade, EdgesMade, Grounded
  <1>6. Reached
    BY <1>1, Phasing DEF Reached, AliasesReached, ProfilesReached, RestReached, Before, ProfileKind,
       Resolving
  <1> QED
    BY <1>1, <1>3, <1>4, <1>5, <1>6 DEF Decided, Made, Refused, Kept

LEMMA DecidedNext == IInv /\ Decided /\ [Next]_vars => Decided'
  <1> SUFFICES ASSUME IInv, Decided, [Next]_vars PROVE Decided'
    OBVIOUS
  <1>1. CASE UNCHANGED vars
    <2>1. UNCHANGED <<input, phase, at, decl, alias, stack, node, edge, template>>
      BY <1>1 DEF vars
    <2>2. CASE phase = "failed"
      BY <2>1, <2>2, RulesStay DEF Decided, Made, Refused
    <2>3. CASE phase # "failed"
      <3>1. Made /\ Reached
        BY <2>3 DEF Decided, Made
      <3>2. /\ AliasesReached("node")' /\ AliasesReached("edge")' /\ AliasesReached("port")'
        BY <2>1, <3>1, DictsStay DEF Reached, AliasesReached, Resolving, ProfileKind
      <3>3. ProfilesReached'
        BY <2>1, <3>1, DictsStay DEF Reached, ProfilesReached
      <3>4. RestReached'
        BY <2>1, <3>1, DictsStay, MakingStays DEF Reached, RestReached
      <3>5. Reached'
        BY <2>1, <3>1, <3>2, <3>3, <3>4 DEF Reached, ProfileKind
      <3> QED
        BY <2>1, <2>3, <3>1, <3>5, MovesDecided
    <2> QED
      BY <2>2, <2>3
  <1>2. CASE Next
    <2>1. Made
      BY DEF Decided
    <2> QED
      BY <1>2, <2>1, RegisterDecides, RegisteredDecides, AliasesDecide, NodesDecide, EdgesDecide,
         TemplatesDecide, ActionsDecide DEF Next
  <1> QED
    BY <1>1, <1>2

(* Registry.build decides rightly: for any packages, with chains of bases   *)
(* and of aliases of any length and cycles of any shape, it ends in a       *)
(* registry only if the packages are coherent, and then no lookup ends      *)
(* nowhere; and it only fails if they break a rule.                         *)
THEOREM Decides == Spec => []BuildDecides
  <1>1. Spec => []Decided
    BY Always, DecidedFirst, DecidedNext, PTL DEF Spec
  <1>2. IInv /\ Decided => BuildDecides
    BY BuiltIsWellFormed, BuiltDoesNotDangle DEF IInv, Decided, Refused, BuildDecides
  <1> QED
    BY <1>1, <1>2, Always, PTL

-----------------------------------------------------------------------------
(* Build ends.                                                             *)

\* The calls in progress are for distinct names, none of them resolved.
OpenVisits ==
    /\ phase \in Visited =>
        /\ \A i \in DOMAIN stack : stack[i] \in Unresolved(phase)
        /\ \A i, j \in DOMAIN stack : stack[i] = stack[j] => i = j
    /\ phase \in {"register", "templates", "actions", "built"} => stack = <<>>

LEMMA VisitedPhases ==
    /\ Visited = {"node_aliases", "edge_aliases", "port_aliases", "nodes", "edges"}
    /\ Phases = Visited \cup {"register", "templates", "actions", "built", "failed"}
  BY Phasing DEF Visited, Phases

LEMMA VisitsAreOpen ==
    ASSUME IInv, Decided PROVE OpenVisits
  <1>1. phase \in {"register", "templates", "actions", "built"} => stack = <<>>
    BY DEF IInv, Stacked
  <1>2. ASSUME phase \in DOMAIN AliasesOf
        PROVE  /\ \A i \in DOMAIN stack : stack[i] \in Unresolved(phase)
               /\ \A i, j \in DOMAIN stack : stack[i] = stack[j] => i = j
    <2> DEFINE kind == AliasesOf[phase]
    <2>1. Resolving(kind) /\ kind \in ProfileKind /\ phase # "nodes" /\ phase # "edges" /\ phase # "failed"
      BY <1>2, Phasing DEF Resolving, ProfileKind
    <2>2. Trail(stack, Targets(kind), DOMAIN alias[kind])
      BY <2>1 DEF Decided, Made, Reached, AliasesReached
    <2>3. \A i \in DOMAIN stack : stack[i] \in Aliased(kind)
      BY <2>1 DEF IInv, Stacked
    <2>4. Unresolved(phase) = Aliased(kind) \ DOMAIN alias[kind]
      BY <2>1 DEF Unresolved, PendingAliases
    <2> QED
      BY <2>2, <2>3, <2>4 DEF Trail
  <1>3. ASSUME phase \in {"nodes", "edges"}
        PROVE  /\ \A i \in DOMAIN stack : stack[i] \in Unresolved(phase)
               /\ \A i, j \in DOMAIN stack : stack[i] = stack[j] => i = j
    <2>1. Made /\ Settled /\ ProfilesReached
      BY <1>3, ProfilePhases DEF IInv, Decided, Made, Reached
    <2>2. Declared("node") = Keys("node") /\ Declared("edge") = Keys("edge")
      BY <2>1, SettledMeans, KindNames
    <2>3. CASE phase = "nodes"
      BY <2>1, <2>2, <2>3 DEF IInv, Stacked, ProfilesReached, Trail, Unresolved
    <2>4. CASE phase = "edges"
      BY <2>1, <2>2, <2>4 DEF IInv, Stacked, ProfilesReached, Trail, Unresolved
    <2> QED
      BY <1>3, <2>3, <2>4
  <1> QED
    BY <1>1, <1>2, <1>3, Phasing, VisitedPhases DEF OpenVisits

\* There are finitely many names to resolve.
LEMMA OpenMembers ==
    ASSUME NEW p, NEW n PROVE <<p, n>> \in Open <=> p \in Visited /\ n \in Unresolved(p)
  BY DEF Open

LEMMA OpenIsFinite ==
    ASSUME TypeOK PROVE IsFiniteSet(Open)
  <1> DEFINE keys == {input[i].key : i \in DOMAIN input}
             key == [i \in DOMAIN input |-> input[i].key]
  <1>1. Len(input) \in Nat /\ DOMAIN input = 1..Len(input)
    BY DEF TypeOK, Packages
  <1>2. IsFiniteSet(DOMAIN input)
    BY <1>1, FS_Interval
  <1>3. key \in Surjection(DOMAIN input, keys)
    BY DEF Surjection
  <1>4. IsFiniteSet(keys)
    BY <1>2, <1>3, FS_Surjection
  <1>5. IsFiniteSet(Visited)
    <2>1. IsFiniteSet({"node_aliases"})
      BY FS_Singleton
    <2>2. IsFiniteSet({"node_aliases"} \cup {"edge_aliases"})
      BY <2>1, FS_AddElement
    <2>3. IsFiniteSet({"node_aliases", "edge_aliases"} \cup {"port_aliases"})
      BY <2>2, FS_AddElement
    <2>4. IsFiniteSet({"node_aliases", "edge_aliases", "port_aliases"} \cup {"nodes"})
      BY <2>3, FS_AddElement
    <2>5. IsFiniteSet({"node_aliases", "edge_aliases", "port_aliases", "nodes"} \cup {"edges"})
      BY <2>4, FS_AddElement
    <2>6. {"node_aliases", "edge_aliases", "port_aliases", "nodes"} \cup {"edges"} = Visited
      BY VisitedPhases
    <2> QED
      BY <2>5, <2>6
  <1>6. IsFiniteSet(Visited \X keys)
    BY <1>4, <1>5, FS_Product
  <1>7. \A p : Unresolved(p) \subseteq keys
    BY DEF Unresolved, PendingAliases, Aliased, Aliases, Declared, Given
  <1> HIDE DEF keys
  <1>8. Open \in SUBSET (Visited \X keys)
    BY <1>7 DEF Open
  <1> QED
    BY <1>6, <1>8, FS_Subset

\* The parts of Work are natural numbers.
Counts ==
    /\ IsFiniteSet(Open) /\ IsFiniteSet(Open \ Begun)
    /\ Cardinality(Open) \in Nat /\ Cardinality(Open \ Begun) \in Nat
    /\ StepsLeft[phase] \in Nat /\ (phase # "failed" => StepsLeft[phase] > 0)
    /\ at \in Nat /\ Len(input) \in Nat /\ at <= Len(input) + 1

LEMMA WorkIsCounted ==
    ASSUME TypeOK PROVE Counts /\ Work \in Nat
  <1>1. IsFiniteSet(Open) /\ IsFiniteSet(Open \ Begun)
    BY OpenIsFinite, FS_Subset
  <1>2. Cardinality(Open) \in Nat /\ Cardinality(Open \ Begun) \in Nat
    BY <1>1, FS_CardinalityType
  <1>3. StepsLeft[phase] \in Nat /\ (phase # "failed" => StepsLeft[phase] > 0)
    <2>1. phase \in {"register", "node_aliases", "edge_aliases", "port_aliases", "nodes", "edges",
                     "templates", "actions", "built", "failed"}
      BY VisitedPhases DEF TypeOK
    <2> QED
      BY <2>1 DEF StepsLeft
  <1>4. at \in Nat /\ Len(input) \in Nat /\ at <= Len(input) + 1
    BY DEF TypeOK, Packages
  <1> QED
    BY <1>1, <1>2, <1>3, <1>4 DEF Counts, Work

\* What a step has to lower.
LEMMA LowersWork ==
    ASSUME Counts, Counts', phase # "failed", phase' # "failed", UNCHANGED input,
           StepsLeft[phase'] <= StepsLeft[phase], at' >= at,
           Cardinality(Open') <= Cardinality(Open),
           Cardinality(Open' \ Begun') <= Cardinality(Open \ Begun),
           \/ StepsLeft[phase'] < StepsLeft[phase] \/ at' > at
           \/ Cardinality(Open') < Cardinality(Open)
           \/ Cardinality(Open' \ Begun') < Cardinality(Open \ Begun)
    PROVE  Work' < Work
  <1> DEFINE steps == StepsLeft[phase]
             steps1 == StepsLeft[phase']
             all == Cardinality(Open)
             all1 == Cardinality(Open')
             fresh == Cardinality(Open \ Begun)
             fresh1 == Cardinality(Open' \ Begun')
             n == Len(input)
             at1 == at'
  <1>1. steps \in Nat /\ all \in Nat /\ fresh \in Nat /\ at \in Nat /\ n \in Nat
    BY DEF Counts
  <1>2. steps1 \in Nat /\ all1 \in Nat /\ fresh1 \in Nat /\ at1 \in Nat
    BY DEF Counts, StepsLeft
  <1>3. Work = steps + (n + 1 - at) + all + fresh /\ Work' = steps1 + (n + 1 - at1) + all1 + fresh1
    BY DEF Work, StepsLeft
  <1>4. /\ steps1 <= steps /\ at1 >= at /\ all1 <= all /\ fresh1 <= fresh
        /\ steps1 < steps \/ at1 > at \/ all1 < all \/ fresh1 < fresh
    OBVIOUS
  <1> HIDE DEF steps, steps1, all, all1, fresh, fresh1, n, at1
  <1>5. steps1 + (n + 1 - at1) + all1 + fresh1 < steps + (n + 1 - at) + all + fresh
    BY <1>1, <1>2, <1>4
  <1> QED
    BY <1>3, <1>5

-----------------------------------------------------------------------------
LEMMA FailingEndsWork ==
    ASSUME Counts, phase # "failed", RegistryBuildError PROVE Work' < Work
  <1>1. Work' = 0
    BY DEF RegistryBuildError, Work
  <1>2. Work > 0
    BY DEF Counts, Work
  <1> QED
    BY <1>1, <1>2

LEMMA OpenStays ==
    ASSUME UNCHANGED <<input, alias, node, edge>> PROVE Open' = Open
  <1>1. \A kind : Aliased(kind)' = Aliased(kind) /\ Declared(kind)' = Declared(kind)
    BY DEF Aliased, Aliases, Declared, Given
  <1>2. \A p : Unresolved(p)' = Unresolved(p)
    BY <1>1 DEF Unresolved, PendingAliases, AliasesOf
  <1> QED
    BY <1>2 DEF Open, Visited, AliasesOf

LEMMA NoneBegun ==
    ASSUME stack = <<>> PROVE Begun = {}
  BY DEF Begun, Range

LEMMA NoneBegunNext ==
    ASSUME stack' = <<>> PROVE Begun' = {}
  BY DEF Begun, Range

LEMMA MovingOnLowersWork ==
    ASSUME Counts, Counts', stack = <<>>, phase \in DOMAIN Sequel, phase' = Sequel[phase],
           UNCHANGED <<input, at, alias, stack, node, edge>>
    PROVE  Work' < Work
  <1>1. Open' = Open /\ Begun = {} /\ Begun' = {}
    BY OpenStays, NoneBegun, NoneBegunNext
  <1>2. StepsLeft[phase'] < StepsLeft[phase] /\ phase # "failed" /\ phase' # "failed"
    BY DEF Sequel, StepsLeft
  <1>3. Cardinality(Open) \in Nat /\ Cardinality(Open \ Begun) \in Nat /\ at \in Nat
        /\ StepsLeft[phase] \in Nat /\ StepsLeft[phase'] \in Nat
    BY DEF Counts, StepsLeft
  <1>4. /\ Cardinality(Open') <= Cardinality(Open) /\ at' >= at
        /\ Cardinality(Open' \ Begun') <= Cardinality(Open \ Begun)
        /\ StepsLeft[phase'] <= StepsLeft[phase]
    BY <1>1, <1>2, <1>3
  <1> QED
    BY <1>2, <1>4, LowersWork

LEMMA ReadingLowersWork ==
    ASSUME Counts, Counts', phase = "register", at' = at + 1,
           UNCHANGED <<input, phase, alias, stack, node, edge>>
    PROVE  Work' < Work
  <1>1. Open' = Open /\ Begun' = Begun
    BY OpenStays DEF Begun
  <1>2. Cardinality(Open) \in Nat /\ Cardinality(Open \ Begun) \in Nat /\ at \in Nat
        /\ StepsLeft[phase] \in Nat
    BY DEF Counts
  <1>3. /\ Cardinality(Open') <= Cardinality(Open) /\ at' >= at /\ at' > at
        /\ Cardinality(Open' \ Begun') <= Cardinality(Open \ Begun)
        /\ StepsLeft[phase'] <= StepsLeft[phase]
    BY <1>1, <1>2
  <1> QED
    BY <1>3, LowersWork

\* A call begins a name that was not begun.
LEMMA CallLowersWork ==
    ASSUME Counts, Counts', OpenVisits', stack \in Seq(Name), phase \in Visited, NEW n \in Name, Call(n)
    PROVE  Work' < Work
  <1>1. /\ stack' = Append(stack, n) /\ phase' = phase /\ Open' = Open
        /\ UNCHANGED <<input, at, alias, node, edge>> /\ phase # "failed"
    BY OpenStays, VisitedPhases DEF Call
  <1>2. /\ DOMAIN stack' = DOMAIN stack \cup {Len(stack) + 1} /\ stack'[Len(stack) + 1] = n
        /\ \A i \in DOMAIN stack : stack'[i] = stack[i] /\ i < Len(stack) + 1
    BY <1>1, Push
  <1>3. /\ \A i \in DOMAIN stack' : stack'[i] \in Unresolved(phase)'
        /\ \A i, j \in DOMAIN stack' : stack'[i] = stack'[j] => i = j
    BY <1>1, VisitedPhases DEF OpenVisits
  <1>4. <<phase, n>> \in Open
    <2>1. Unresolved(phase)' = Unresolved(phase)
      BY <1>1 DEF Unresolved, PendingAliases, Aliased, Aliases, Declared, Given, AliasesOf
    <2> QED
      BY <1>2, <1>3, <2>1, OpenMembers
  <1>5. n \notin Range(stack)
    <2> SUFFICES ASSUME NEW i \in DOMAIN stack, stack[i] = n PROVE FALSE
      BY DEF Range
    <2>1. i = Len(stack) + 1
      BY <1>2, <1>3
    <2> QED
      BY <1>2, <2>1
  <1>6. Range(stack') = Range(stack) \cup {n}
    BY <1>2 DEF Range
  <1>7. Begun' = Begun \cup {<<phase, n>>} /\ <<phase, n>> \notin Begun
    <2>1. Range(stack)' = Range(stack')
      BY DEF Range
    <2> QED
      BY <1>1, <1>5, <1>6, <2>1 DEF Begun
  <1>8. Open' \ Begun' = (Open \ Begun) \ {<<phase, n>>} /\ <<phase, n>> \in Open \ Begun
    BY <1>1, <1>4, <1>7
  <1>9. Cardinality(Open' \ Begun') = Cardinality(Open \ Begun) - 1
    BY <1>8, FS_RemoveElement DEF Counts
  <1>10. Cardinality(Open) \in Nat /\ Cardinality(Open \ Begun) \in Nat /\ at \in Nat
         /\ StepsLeft[phase] \in Nat
    BY DEF Counts
  <1>11. /\ Cardinality(Open') <= Cardinality(Open) /\ at' >= at
         /\ Cardinality(Open' \ Begun') < Cardinality(Open \ Begun)
         /\ Cardinality(Open' \ Begun') <= Cardinality(Open \ Begun)
         /\ StepsLeft[phase'] <= StepsLeft[phase]
    BY <1>1, <1>9, <1>10
  <1> QED
    BY <1>1, <1>11, LowersWork

\* A return resolves a name that was begun.
LEMMA ReturnLowersWork ==
    ASSUME Counts, Counts', OpenVisits, stack \in Seq(Name), stack # <<>>, phase \in Visited,
           stack' = Pop, UNCHANGED <<input, at, phase>>,
           \A p \in Visited : Unresolved(p)' = IF p = phase THEN Unresolved(p) \ {Top} ELSE Unresolved(p)
    PROVE  Work' < Work
  <1>1. /\ Len(stack) \in DOMAIN stack /\ Top = stack[Len(stack)] /\ Len(stack) \in Nat
        /\ stack' = Front(stack) /\ DOMAIN Front(stack) = 1..(Len(stack) - 1)
        /\ DOMAIN stack = 1..Len(stack)
        /\ \A i \in DOMAIN Front(stack) : Front(stack)[i] = stack[i]
    BY Stack DEF Top, Pop, Front
  <1>2. /\ \A i \in DOMAIN stack : stack[i] \in Unresolved(phase)
        /\ \A i, j \in DOMAIN stack : stack[i] = stack[j] => i = j
    BY DEF OpenVisits
  <1>3. Range(stack') = Range(stack) \ {Top} /\ Top \in Range(stack)
    BY <1>1, <1>2 DEF Range
  <1>4. <<phase, Top>> \in Open
    BY <1>1, <1>2, OpenMembers
  <1>5. Open' = Open \ {<<phase, Top>>}
    BY DEF Open, Visited, AliasesOf
  <1>6. Begun' = Begun \ {<<phase, Top>>}
    <2>1. Range(stack)' = Range(stack')
      BY DEF Range
    <2> QED
      BY <1>3, <2>1 DEF Begun
  <1>7. <<phase, Top>> \in Begun
    BY <1>3 DEF Begun
  <1>8. Cardinality(Open' \ Begun') = Cardinality(Open \ Begun)
    <2>1. Open' \ Begun' = Open \ Begun
      BY <1>5, <1>6, <1>7
    <2> QED
      BY <2>1
  <1>9. Cardinality(Open') = Cardinality(Open) - 1
    BY <1>4, <1>5, FS_RemoveElement DEF Counts
  <1>10. Cardinality(Open) \in Nat /\ Cardinality(Open \ Begun) \in Nat /\ at \in Nat
         /\ StepsLeft[phase] \in Nat
    BY DEF Counts
  <1>11. /\ Cardinality(Open') < Cardinality(Open) /\ at' >= at
         /\ Cardinality(Open') <= Cardinality(Open)
         /\ Cardinality(Open' \ Begun') <= Cardinality(Open \ Begun)
         /\ StepsLeft[phase'] <= StepsLeft[phase]
    BY <1>8, <1>9, <1>10
  <1>12. phase # "failed"
    BY VisitedPhases
  <1> QED
    BY <1>11, <1>12, LowersWork

-----------------------------------------------------------------------------
LEMMA ReadsLowerWork ==
    ASSUME Counts, Counts', OpenVisits, Register \/ Registered PROVE Work' < Work
  <1>1. phase = "register" /\ stack = <<>> /\ phase # "failed"
    BY DEF Register, Registered, OpenVisits
  <1>2. CASE Registered
    BY <1>1, <1>2, MovingOnLowersWork, Phasing DEF Registered, Advance
  <1>3. CASE Register
    <2>1. CASE RegistryBuildError
      BY <1>1, <2>1, FailingEndsWork
    <2>2. CASE at' = at + 1 /\ UNCHANGED <<input, phase, alias, stack, node, edge>>
      BY <1>1, <2>2, ReadingLowersWork
    <2> QED
      BY <1>3, <2>1, <2>2 DEF Register
  <1> QED
    BY <1>2, <1>3

LEMMA AliasesLowerWork ==
    ASSUME TypeOK, Counts, Counts', OpenVisits, OpenVisits', ResolveAliases PROVE Work' < Work
  <1>1. PICK kind \in ProfileKind :
            AliasesClash(kind) \/ StartAlias(kind) \/ VisitAlias(kind) \/ AliasesDone(kind)
    BY DEF ResolveAliases
  <1>2. /\ Resolving(kind) /\ phase \in Visited /\ phase \in DOMAIN Sequel /\ phase # "failed"
        /\ phase \in DOMAIN AliasesOf /\ kind = AliasesOf[phase]
        /\ phase # "nodes" /\ phase # "edges"
        /\ stack \in Seq(Name)
    BY <1>1, Phasing, VisitedPhases
    DEF AliasesClash, StartAlias, VisitAlias, AliasesDone, Resolving, TypeOK
  <1>3. CASE RegistryBuildError
    BY <1>2, <1>3, FailingEndsWork
  <1>4. CASE AliasesDone(kind)
    BY <1>2, <1>4, MovingOnLowersWork DEF AliasesDone, Advance
  <1>5. CASE StartAlias(kind)
    <2>1. PendingAliases(kind) # {} /\ PendingAliases(kind) \in SUBSET Name
      BY <1>5, AliasedNames DEF StartAlias, PendingAliases
    <2>2. Min(PendingAliases(kind)) \in Name /\ Call(Min(PendingAliases(kind)))
      BY <1>5, <2>1, LeastOf DEF StartAlias
    <2> QED
      BY <1>2, <2>2, CallLowersWork
  <1>6. CASE VisitAlias(kind)
    <2> DEFINE target == RawTarget(kind, Top)
    <2>0. stack # <<>>
      BY <1>6 DEF VisitAlias
    <2>1. CASE Call(target) /\ target \in Aliased(kind)
      <3>1. target \in Name
        BY <2>1, AliasedNames
      <3> QED
        BY <1>2, <2>1, <3>1, CallLowersWork
    <2>2. CASE /\ alias' = [alias EXCEPT ![kind] = With(@, Top, canonical(kind, target))]
               /\ stack' = Pop
               /\ UNCHANGED <<input, phase, at, decl, node, edge, template>>
      <3>1. DOMAIN alias = ProfileKind
        BY DEF TypeOK
      <3>2. \A k \in ProfileKind :
                DOMAIN alias'[k] = IF k = kind THEN DOMAIN alias[k] \cup {Top} ELSE DOMAIN alias[k]
        BY <2>2, <3>1 DEF With
      <3>3. \A k : Aliased(k)' = Aliased(k) /\ Declared(k)' = Declared(k)
        BY <2>2 DEF Aliased, Aliases, Declared, Given
      <3>4. \A k \in ProfileKind :
                PendingAliases(k)' = IF k = kind THEN PendingAliases(k) \ {Top} ELSE PendingAliases(k)
        BY <3>2, <3>3 DEF PendingAliases
      <3>5. ASSUME NEW p \in Visited
            PROVE  Unresolved(p)' = IF p = phase THEN Unresolved(p) \ {Top} ELSE Unresolved(p)
        <4>1. CASE p \in DOMAIN AliasesOf
          <5>1. AliasesOf[p] \in ProfileKind /\ p # "nodes" /\ p # "edges"
                /\ (AliasesOf[p] = kind <=> p = phase)
            BY <1>2, <4>1, Phasing DEF ProfileKind
          <5>2. Unresolved(p) = PendingAliases(AliasesOf[p]) /\ Unresolved(p)' = PendingAliases(AliasesOf[p])'
            BY <5>1 DEF Unresolved, AliasesOf
          <5> QED
            BY <3>4, <5>1, <5>2
        <4>2. CASE p \in {"nodes", "edges"}
          BY <1>2, <2>2, <3>3, <4>2 DEF Unresolved
        <4> QED
          BY <4>1, <4>2 DEF Visited
      <3> QED
        BY <1>2, <2>0, <2>2, <3>5, ReturnLowersWork
    <2> QED
      BY <1>3, <1>6, <2>1, <2>2 DEF VisitAlias
  <1> QED
    BY <1>1, <1>3, <1>4, <1>5, <1>6 DEF AliasesClash

\* The calls of _resolve_nodes and _resolve_edges.
LEMMA ProfileCallsLowerWork ==
    ASSUME TypeOK, Counts, Counts', OpenVisits', NEW kind \in {"node", "edge"}, NEW done,
           phase \in {"nodes", "edges"}, DOMAIN done \subseteq Keys(kind),
           \/ StartProfile(kind, done) \/ VisitBase(kind, done) \/ ProfilesDone(kind, done)
    PROVE  Work' < Work
  <1>1. /\ phase \in Visited /\ phase \in DOMAIN Sequel /\ phase # "failed"
        /\ stack \in Seq(Name) /\ Keys(kind) \subseteq Name
    BY Phasing, VisitedPhases, KeysNames, KindNames DEF TypeOK
  <1>2. CASE ProfilesDone(kind, done)
    BY <1>1, <1>2, MovingOnLowersWork DEF ProfilesDone, Advance
  <1>3. CASE StartProfile(kind, done)
    <2>1. Keys(kind) \ DOMAIN done \in SUBSET Name
      BY <1>1
    <2>2. CASE Keys(kind) \ DOMAIN done # {}
      <3>1. Min(Keys(kind) \ DOMAIN done) \in Name /\ Call(Min(Keys(kind) \ DOMAIN done))
        BY <1>3, <2>1, <2>2, LeastOf DEF StartProfile
      <3> QED
        BY <1>1, <3>1, CallLowersWork
    <2> QED
      BY <1>3, <2>2 DEF StartProfile
  <1>4. CASE VisitBase(kind, done)
    <2>1. CASE RegistryBuildError
      BY <1>1, <2>1, FailingEndsWork
    <2>2. CASE BaseKey(kind, Top) \in Keys(kind) /\ Call(BaseKey(kind, Top))
      <3>1. BaseKey(kind, Top) \in Name
        BY <1>1, <2>2
      <3> QED
        BY <1>1, <2>2, <3>1, CallLowersWork
    <2> QED
      BY <1>4, <2>1, <2>2 DEF VisitBase
  <1> QED
    BY <1>2, <1>3, <1>4

LEMMA NodesLowerWork ==
    ASSUME TypeOK, Counts, Counts', OpenVisits, OpenVisits', ResolveNodes PROVE Work' < Work
  <1>1. /\ phase = "nodes" /\ phase \in Visited /\ phase # "failed" /\ stack \in Seq(Name)
        /\ DOMAIN node \subseteq Keys("node")
    BY VisitedPhases DEF ResolveNodes, TypeOK, PartialTo
  <1>2. CASE StartProfile("node", node) \/ VisitBase("node", node) \/ ProfilesDone("node", node)
    BY <1>1, <1>2, ProfileCallsLowerWork
  <1>3. CASE FinishNode
    <2>1. CASE RegistryBuildError
      BY <1>1, <2>1, FailingEndsWork
    <2>2. CASE /\ node' = With(node, Top, NodeItem) /\ stack' = Pop
               /\ UNCHANGED <<input, phase, at, decl, alias, edge, template>>
      <3>1. DOMAIN node' = DOMAIN node \cup {Top} /\ stack # <<>>
        BY <1>3, <2>2 DEF With, FinishNode
      <3>2. \A k : Aliased(k)' = Aliased(k) /\ Declared(k)' = Declared(k)
        BY <2>2 DEF Aliased, Aliases, Declared, Given
      <3>3. ASSUME NEW p \in Visited
            PROVE  Unresolved(p)' = IF p = phase THEN Unresolved(p) \ {Top} ELSE Unresolved(p)
        BY <1>1, <2>2, <3>1, <3>2 DEF Unresolved, PendingAliases, AliasesOf
      <3> QED
        BY <1>1, <2>2, <3>1, <3>3, ReturnLowersWork
    <2> QED
      BY <1>3, <2>1, <2>2 DEF FinishNode
  <1> QED
    BY <1>2, <1>3 DEF ResolveNodes

LEMMA EdgesLowerWork ==
    ASSUME TypeOK, Counts, Counts', OpenVisits, OpenVisits', ResolveEdges PROVE Work' < Work
  <1>1. /\ phase = "edges" /\ phase \in Visited /\ phase # "failed" /\ stack \in Seq(Name)
        /\ DOMAIN edge \subseteq Keys("edge")
    BY VisitedPhases DEF ResolveEdges, TypeOK, PartialTo
  <1>2. CASE StartProfile("edge", edge) \/ VisitBase("edge", edge) \/ ProfilesDone("edge", edge)
    BY <1>1, <1>2, ProfileCallsLowerWork
  <1>3. CASE FinishEdge
    <2>1. CASE RegistryBuildError
      BY <1>1, <2>1, FailingEndsWork
    <2>2. CASE /\ edge' = With(edge, Top, EdgeItem) /\ stack' = Pop
               /\ UNCHANGED <<input, phase, at, decl, alias, node, template>>
      <3>1. DOMAIN edge' = DOMAIN edge \cup {Top} /\ stack # <<>>
        BY <1>3, <2>2 DEF With, FinishEdge
      <3>2. \A k : Aliased(k)' = Aliased(k) /\ Declared(k)' = Declared(k)
        BY <2>2 DEF Aliased, Aliases, Declared, Given
      <3>3. ASSUME NEW p \in Visited
            PROVE  Unresolved(p)' = IF p = phase THEN Unresolved(p) \ {Top} ELSE Unresolved(p)
        BY <1>1, <2>2, <3>1, <3>2 DEF Unresolved, PendingAliases, AliasesOf
      <3> QED
        BY <1>1, <2>2, <3>1, <3>3, ReturnLowersWork
    <2> QED
      BY <1>3, <2>1, <2>2 DEF FinishEdge
  <1> QED
    BY <1>2, <1>3 DEF ResolveEdges

LEMMA RestLowersWork ==
    ASSUME Counts, Counts', OpenVisits, ResolveTemplates \/ Finish PROVE Work' < Work
  <1>1. phase \in {"templates", "actions"} /\ stack = <<>> /\ phase \in DOMAIN Sequel /\ phase # "failed"
    BY Phasing DEF ResolveTemplates, Finish, OpenVisits
  <1>2. CASE RegistryBuildError
    BY <1>1, <1>2, FailingEndsWork
  <1>3. CASE phase' = Sequel[phase] /\ UNCHANGED <<input, at, alias, stack, node, edge>>
    BY <1>1, <1>3, MovingOnLowersWork
  <1> QED
    BY <1>2, <1>3 DEF ResolveTemplates, Finish, Advance

LEMMA EachStepLowersWork ==
    ASSUME TypeOK, Counts, Counts', OpenVisits, OpenVisits', [Next]_vars PROVE [Work' < Work]_vars
  <1>1. CASE Next
    BY <1>1, ReadsLowerWork, AliasesLowerWork, NodesLowerWork, EdgesLowerWork, RestLowersWork DEF Next
  <1> QED
    BY <1>1

(* Work, a natural number, goes down at each step of Registry.build: for    *)
(* any packages, with cycles of any length through bases and aliases, its   *)
(* recursion comes to an end after at most as many steps as Work counts     *)
(* when it starts.                                                          *)
THEOREM Terminates == Spec => EveryStepCounts /\ [](Work \in Nat)
  <1>1. Spec => []Decided
    BY Always, DecidedFirst, DecidedNext, PTL DEF Spec
  <1>2. IInv /\ Decided => TypeOK /\ OpenVisits /\ Counts /\ Work \in Nat
    BY VisitsAreOpen, WorkIsCounted DEF IInv
  <1>3. TypeOK /\ Counts /\ Counts' /\ OpenVisits /\ OpenVisits' /\ [Next]_vars => [Work' < Work]_vars
    BY EachStepLowersWork
  <1> QED
    BY <1>1, <1>2, <1>3, Always, PTL DEF Spec, EveryStepCounts
=============================================================================
