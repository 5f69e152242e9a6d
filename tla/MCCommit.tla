------------------------------ MODULE MCCommit ------------------------------
(* Commit on two entity files: both created, one removed while the other is updated. *)
EXTENDS Commit, TLC

CONSTANTS f, g, a, b

MCFiles == {f, g}
MCVals == {a, b}
MCPatches == {f :> a @@ g :> a, f :> Absent @@ g :> b}
=============================================================================
