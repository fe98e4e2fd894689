----------------------------- MODULE MCMsgQueue -----------------------------
(***************************************************************************)
(* A small outgoing queue for TLC: two reader threads and the Tox thread.  *)
(***************************************************************************)
EXTENDS MsgQueue

CONSTANTS w1, w2

MCWriters == {w1, w2}
=============================================================================
