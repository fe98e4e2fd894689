---------------------------- MODULE MCHandshake ----------------------------
(***************************************************************************)
(* The two programs for TLC, and messages around the lengths at which the  *)
(* second byte of a length begins to count, up to a full buffer.           *)
(***************************************************************************)
EXTENDS Handshake

MCDatas == {[i \in 1..n |-> (i * 7) % Byte] :
              n \in {0, 1, 255, 256, 257, 511, 1024}}

\* Whatever two programs send each other is read as it was meant
\* (pack_msg_bin, unpack_msg_bin).
ASSUME ReadAsSent == ReadAsMeant({"uuid"}, MCDatas)
=============================================================================
