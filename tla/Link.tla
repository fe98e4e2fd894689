-------------------------------- MODULE Link --------------------------------
(***************************************************************************)
(* What BurstLink promises to the applications it connects: every TCP      *)
(* connection accepted by the requesting side is as good as one to the     *)
(* target.  Each end gets what the other end wrote, in order, and is       *)
(* closed only when its own application ended the stream, when the target  *)
(* refused the connection, or when the other application ended the stream  *)
(* and everything it wrote has been delivered.                             *)
(*                                                                         *)
(* That is the promise as long as the two programs stay connected.  When   *)
(* their session ends, connections may lose messages: from then on their   *)
(* streams may have holes and they may be closed at any time, but pieces   *)
(* are still given once, in order, and to the right application.           *)
(***************************************************************************)
EXTENDS Integers, Sequences

CONSTANT Conns           \* the connections

Sides == {"C", "S"}      \* the requesting and the serving side
Peer(s) == IF s = "C" THEN "S" ELSE "C"

VARIABLES wrote,         \* how much each application has written
          fin,           \* the applications that ended their stream
          out,           \* what each application was given
          shut,          \* the connections closed towards the application
          refused,       \* the connections the target refused
          lost           \* the connections that lost a message

vars == <<wrote, fin, out, shut, refused, lost>>

Init == /\ wrote = [s \in Sides |-> [k \in Conns |-> 0]]
        /\ fin = [s \in Sides |-> {}]
        /\ out = [s \in Sides |-> [k \in Conns |-> <<>>]]
        /\ shut = [s \in Sides |-> {}]
        /\ refused = {}
        /\ lost = {}

Write(s, k) == /\ k \notin fin[s]
               /\ wrote' = [wrote EXCEPT ![s][k] = @ + 1]
               /\ UNCHANGED <<fin, out, shut, refused, lost>>

End(s, k) == /\ k \notin fin[s]
             /\ fin' = [fin EXCEPT ![s] = @ \cup {k}]
             /\ UNCHANGED <<wrote, out, shut, refused, lost>>

Refuse(k) == /\ out["C"][k] = <<>> /\ out["S"][k] = <<>>
             /\ refused' = refused \cup {k}
             /\ UNCHANGED <<wrote, fin, out, shut, lost>>

\* Messages of the connections K are lost.
Lose(K) == /\ lost' = lost \cup K
           /\ UNCHANGED <<wrote, fin, out, shut, refused>>

\* How far the other application's stream was given to this one.
Given(s, k) == IF out[s][k] = <<>> THEN 0 ELSE out[s][k][Len(out[s][k])][2]

\* A piece of the other application's stream arrives: the next one.
Deliver(s, k) ==
  \E i \in Given(s, k) + 1..wrote[Peer(s)][k] :
    /\ k \notin shut[s] \cup refused
    /\ i = Given(s, k) + 1 \/ k \in lost
    /\ out' = [out EXCEPT ![s][k] = Append(@, <<k, i>>)]
    /\ UNCHANGED <<wrote, fin, shut, refused, lost>>

Delivered(s, k) == Given(s, k) = wrote[Peer(s)][k]

Close(s, k) == /\ k \notin shut[s]
               /\ \/ k \in fin[s] \cup refused \cup lost
                  \/ k \in fin[Peer(s)] /\ Delivered(s, k)
               /\ shut' = [shut EXCEPT ![s] = @ \cup {k}]
               /\ UNCHANGED <<wrote, fin, out, refused, lost>>

Next == \/ \E K \in SUBSET Conns : Lose(K)
        \/ \E k \in Conns : \/ Refuse(k)
                            \/ \E s \in Sides : \/ Write(s, k)
                                                \/ End(s, k)
                                                \/ Deliver(s, k)
                                                \/ Close(s, k)

Spec == Init /\ [][Next]_vars
=============================================================================
