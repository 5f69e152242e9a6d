----------------------------- MODULE MCSession -----------------------------
(* Session with two message handlers and one context bundle. *)
EXTENDS Session, TLC
=============================================================================
