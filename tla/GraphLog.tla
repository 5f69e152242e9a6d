------------------------------ MODULE GraphLog ------------------------------
(***************************************************************************)
(* What the kernel promises of the project graph: a sequence of versions,  *)
(* each made from the one before it by exactly one logged event.  The      *)
(* promise covers the runs in which writers take turns and none dies       *)
(* (`calm`); about the others it says nothing.                             *)
(***************************************************************************)
EXTENDS Naturals, Sequences

CONSTANTS Files, Vals, Absent

VARIABLES version, content, log, calm

vars == <<version, content, log, calm>>

Deltas == UNION {[S -> Vals \cup {Absent}] : S \in SUBSET Files}

Changed(old, delta) == [f \in Files |-> IF f \in DOMAIN delta THEN delta[f] ELSE old[f]]

Init ==
    /\ version = 0
    /\ content = [f \in Files |-> Absent]
    /\ log = <<>>
    /\ calm = TRUE

Publish ==
    /\ calm /\ calm' = TRUE
    /\ version' = version + 1
    /\ \E delta \in Deltas :
          /\ content' = Changed(content, delta)
          /\ log' = Append(log, [version |-> version', delta |-> delta])

Next == Publish \/ calm' = FALSE

Spec == Init /\ [][Next]_vars
=============================================================================
