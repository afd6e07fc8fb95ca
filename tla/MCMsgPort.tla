------------------------------ MODULE MCMsgPort ------------------------------
(***************************************************************************)
(* The small instance of MsgPort: two threads, two ports that both want    *)
(* the one name, and two messages (MCMsgPort.cfg).                         *)
(***************************************************************************)
EXTENDS MsgPort
=============================================================================
