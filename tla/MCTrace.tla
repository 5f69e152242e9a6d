------------------------------ MODULE MCTrace ------------------------------
(* Trace of a model with a container of two modules beside a third. *)
EXTENDS Trace, TLC
MCModules == {<<"a">>, <<"a", "x">>, <<"a", "y">>, <<"b">>}
\* Only the input's address is known apart.
Symmetry == Permutations(Addr \ {Input})
=============================================================================
