----------------------------- MODULE MCRegistry -----------------------------
(* Three families of packages: node profiles with aliases, edge profiles on  *)
(* fixed nodes, and templates and actions on fixed profiles.                 *)
EXTENDS Registry

MCName == 0..6    \* 1..3 are keys, 4..6 aliases; 0 is no trimmed string
MCUntrimmed == {0}

Declare(kind, key, body) == [kind |-> kind, key |-> key, body |-> body]
Alias(of, key, target) == Declare("alias", key, [of |-> of, target |-> target])
Assets ==
    <<Declare("package", 1, None), Declare("capability", 1, [consumers |-> {"action", "validation"}]),
      Declare("capability", 2, [consumers |-> {"context"}]), Declare("presentation", 1, None),
      Declare("presentation", 2, None), Declare("validator", 1, None),
      Declare("validator", 2, None), Declare("port", 1, None),
      Declare("executor", 1, "GraphCommand")>>

Node(extends, capabilities, validator, presentation, parents) ==
    [extends |-> extends, capabilities |-> capabilities, validator |-> validator,
     presentation |-> presentation, allow_parents |-> parents]
NodeVariants ==
    {Node(None, {1}, 1, 1, {Root, 4}), Node(4, {2}, 2, None, None),
     Node(2, {}, None, 2, {5, 2}), Node(3, {}, None, None, {ANY}), Node(5, {1}, 1, None, {}),
     Node(1, {}, 2, None, None), Node(0, {}, None, None, None), Node(None, {3}, None, None, None)}
NodeFamily ==
    {Assets \o <<Alias("node", 4, a), Alias("node", 5, b)>>
            \o <<Declare("node", 3, z), Declare("node", 2, y), Declare("node", 1, x)>> :
        a \in 1..5, b \in {0, 1, 2, 4, 5}, x, y, z \in NodeVariants}

Model == <<Declare("node", 1, Node(None, {1}, None, None, {Root})),
           Declare("node", 2, Node(1, {2}, None, 1, None)), Alias("node", 4, 2)>>
Ends(x, y) == [s \in Side |-> IF s = "source" THEN x ELSE y]
Edge(extends, capabilities, validator, presentation, profiles, required, ports, direction) ==
    [extends |-> extends, capabilities |-> capabilities, validator |-> validator,
     presentation |-> presentation, profiles |-> profiles, required |-> required,
     needs_ports |-> ports, direction |-> direction]
EdgeVariants ==
    {Edge(x, p[3], p[4], IF n = None THEN None ELSE IF n THEN 1 ELSE 2, p[1], p[2], n, d) :
        x \in {None, 1, 2, 5},
        p \in {<<Ends(None, None), Ends({}, {1}), {1}, 1>>,
               <<Ends({4}, None), Ends({}, {}), {2}, 2>>,
               <<Ends({1}, {3}), Ends({2}, {}), {}, None>>},
        n \in {None, TRUE, FALSE},
        d \in {Ends(None, None), Ends("out", "in"), Ends("out", None)}}
EdgeFamily ==
    {Assets \o Model
            \o <<Declare("edge", 1, x), Alias("edge", 5, a), Declare("edge", 2, y)>> :
        a \in 1..2, x, y \in EdgeVariants}

Rest(profile, port, json, capability, executor, family, more) ==
    Assets \o Model
        \o <<Alias("port", 6, 1),
             Declare("template", 1, [profile |-> profile, ports |-> {port}, json |-> json]),
             Declare("action", 1, [capabilities |-> {capability}, executor |-> executor,
                                   family |-> family]), more>>
RestFamily ==
    {Rest(p, q, j, c, e, f, more) :
        p \in {1, 3, 4}, q \in {1, 2, 6}, j \in BOOLEAN, c \in {1, 2, 3}, e \in {1, 2},
        f \in {"GraphCommand", "SessionCommand"},
        more \in {Declare("package", 2, None), Declare("package", 1, None),
                  Declare("node", 1, Node(None, {}, None, None, None)), Declare("port", 1, None),
                  Declare("node", 4, Node(None, {}, None, None, None)), Alias("node", 4, 2),
                  Alias("port", 4, 2), Alias("node", 5, 1), Alias("node", 0, 1),
                  Declare("package", 0, None), Declare("capability", 3, [consumers |-> {}])}}

MCInputs == NodeFamily \cup EdgeFamily \cup RestFamily
=============================================================================
