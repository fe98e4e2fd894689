----------------------------- MODULE MCLossless -----------------------------
(***************************************************************************)
(* Two peers for TLC, of which one has messages to send.                   *)
(***************************************************************************)
EXTENDS Lossless

CONSTANTS near, far

MCPeers == {near, far}
MCMsgs == [p \in MCPeers |-> IF p = near THEN 3 ELSE 1]
MCNonce == [p \in MCPeers |-> IF p = near THEN 4 ELSE 2]

\* GapsReadBack for rings that are longer than those of the run.
ASSUME LongRings ==
  \A n \in 0..6 : \A ring \in [1..n -> BOOLEAN], room \in 0..3 :
    ReadBack(n, {i \in 1..n : ~ ring[i]}, Encode(ring, room), room, n + 1)
=============================================================================
