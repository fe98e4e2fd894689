------------------------------ MODULE MCTunnel ------------------------------
(***************************************************************************)
(* A small tunnel for TLC.                                                 *)
(***************************************************************************)
EXTENDS Tunnel

MCConns == 1..2
MCOne == 1..1
MCFds == 0..3
=============================================================================
