------------------------------- MODULE MCPlan -------------------------------
(* Two callers; a small plan with each way lids may collide.                  *)
EXTENDS Plan

Hyp(lid, to) == [lid |-> lid, addresses |-> to]
Exp(lid, to) == [lid |-> lid, tests |-> to]
Edge(source, target) == [source |-> source, target |-> target]
Empty == [s \in PlanBlock |-> IF s = "escalate" THEN FALSE ELSE <<>>]
Block(sections) == sections @@ Empty

MCT == <<"t1", "t2", "t3", "t4", "t5", "t6", "t7", "t8">>
MCBlocks ==
    {Block([new_claims |-> <<"a">>, questions |-> <<"b">>, hypotheses |-> <<Hyp("h", "b")>>,
            experiments |-> <<Exp("x", "h")>>, tasks |-> <<NoLid, "t1", NoLid>>,
            escalate |-> TRUE]),
     Block([experiments |-> <<Exp("t1", "s"), Exp("y", "s")>>,
            tasks |-> <<NoLid, "z", NoLid>>, verdicts |-> <<"s">>]),
     Block([new_claims |-> <<"a">>, edges |-> <<Edge("s", "a")>>]),
     Block([questions |-> <<"escalate">>, escalate |-> TRUE]),
     Block([new_claims |-> <<"a">>, hypotheses |-> <<Hyp("h", "a")>>])}

Twins == Permutations(Callers)
=============================================================================
