----------------------------- MODULE MCMsgPool -----------------------------
(***************************************************************************)
(* A small instance of MsgPool for TLC.                                    *)
(***************************************************************************)
EXTENDS MsgPool
=============================================================================
