----------------------------- MODULE MCSession -----------------------------
(***************************************************************************)
(* Two peers for TLC.  They are alike.                                     *)
(***************************************************************************)
EXTENDS Session

CONSTANTS a, b

MCPeers == {a, b}
=============================================================================
