----------------------------- MODULE MCSession -----------------------------
(***************************************************************************)
(* Session with at most two plays, so that a session can follow another    *)
(* one in its slot; startup may time out after two polls instead of 500,   *)
(* and the kernel serves two messages a round instead of ten.              *)
(***************************************************************************)
EXTENDS Session
=============================================================================
