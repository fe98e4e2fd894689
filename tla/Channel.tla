------------------------------ MODULE Channel -------------------------------
(***************************************************************************)
(* What an established connection of net_crypto.c promises for lossless    *)
(* packets: in each direction the other peer is given every message that   *)
(* was accepted, once and in the order they were accepted, and no more     *)
(* than Size accepted messages are ever outstanding.                       *)
(***************************************************************************)
EXTENDS Integers, Sequences

CONSTANTS Peers,       \* the two ends of the connection
          Size         \* CRYPTO_PACKET_BUFFER_SIZE

VARIABLES accepted,    \* how many messages each peer has handed over: they
                       \* are 1, 2, 3, ...
          got          \* the messages each peer was given, oldest first

vars == <<accepted, got>>

Other(p) == CHOOSE q \in Peers : q # p

Outstanding(p) == accepted[p] - Len(got[Other(p)])

Init == /\ accepted = [p \in Peers |-> 0]
        /\ got = [p \in Peers |-> <<>>]

Accept(p) == /\ Outstanding(p) < Size
             /\ accepted' = [accepted EXCEPT ![p] = @ + 1]
             /\ UNCHANGED got

\* The peer is given the next n messages of the other one.
Give(q, n) ==
  /\ n <= Outstanding(Other(q))
  /\ got' = [got EXCEPT ![q] = @ \o [i \in 1..n |-> Len(@) + i]]
  /\ UNCHANGED accepted

Next == \E p \in Peers : Accept(p) \/ \E n \in 1..Size : Give(p, n)

Spec == Init /\ [][Next]_vars
=============================================================================
