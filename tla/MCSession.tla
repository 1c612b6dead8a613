----------------------------- MODULE MCSession -----------------------------
(***************************************************************************)
(* Session for model checking: its constants are plain values.             *)
(***************************************************************************)
EXTENDS Session
=============================================================================
