------------------------------ MODULE Presence ------------------------------
(***************************************************************************)
(* What the Tox core promises of two friends: each sees the other one as   *)
(* online or not, and while both do they are linked, so that what one      *)
(* sends the other is given.  A peer may see the other one as online when  *)
(* it is gone; what it sends then is lost.                                 *)
(***************************************************************************)
CONSTANTS Peers        \* the two friends

VARIABLES linked,      \* the peers have a connection in common
          online       \* who sees the other peer as online

vars == <<linked, online>>

Init == linked = FALSE /\ online = [p \in Peers |-> FALSE]

Begin == /\ ~ linked
         /\ linked' = TRUE
         /\ UNCHANGED online

\* p sees the other peer, which can be gone unless it sees p.
ComeOnline(p) == /\ ~ online[p]
                 /\ linked \/ \A q \in Peers : ~ online[q]
                 /\ online' = [online EXCEPT ![p] = TRUE]
                 /\ UNCHANGED linked

\* p gives the connection up.
End(p) == /\ linked \/ online[p]
          /\ linked' = FALSE
          /\ online' = [online EXCEPT ![p] = FALSE]

Next == Begin \/ \E p \in Peers : ComeOnline(p) \/ End(p)

Spec == Init /\ [][Next]_vars
=============================================================================
