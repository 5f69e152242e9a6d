------------------------------ MODULE MCKernel ------------------------------
(* Kernel on a small project: a container type and a leaf type. *)
EXTENDS Kernel, TLC

MCNodeTypes == {"module", "leaf"}
MCRootTypes == {"module"}
MCAcceptsParent == {<<"module", "module">>, <<"leaf", "module">>}
MCEndpoints ==
    [contains  |-> {"module"} \X MCNodeTypes,
     data_flow |-> MCNodeTypes \X MCNodeTypes,
     refines   |-> {<<"leaf", "module">>}]

MCModuleOnly == {<<"module", "module">>}
MCModuleEnds == [contains |-> {<<"module", "module">>}, data_flow |-> {<<"module", "module">>}]

Symmetry ==
    Permutations(NodeIds) \cup Permutations(PortIds) \cup Permutations(EdgeIds)
      \cup Permutations(Names) \cup Permutations(PortNames) \cup Permutations(AttrKeys)
=============================================================================
