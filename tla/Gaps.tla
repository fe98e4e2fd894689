-------------------------------- MODULE Gaps --------------------------------
(***************************************************************************)
(* The bytes of a request packet (toxcore/net_crypto.c), which tell the    *)
(* sender of lossless packets which of them are missing.  A byte is the    *)
(* distance from the last packet that was told of to the next missing one; *)
(* 0 stands for Gap packets none of which is missing.                      *)
(***************************************************************************)
EXTENDS Integers, Sequences

CONSTANT Gap          \* 255, the greatest distance a byte can hold

ASSUME GapAssumption == Gap \in Nat \ {0}

\* One turn of the loop of generate_request_packet: the next packet, if there
\* is room for another byte.
Tell(told, held, room) ==
  CASE Len(told.bytes) = room -> told
    [] Len(told.bytes) < room /\ ~ held ->
         [bytes |-> Append(told.bytes, told.n), n |-> 1]
    [] Len(told.bytes) < room /\ held /\ told.n = Gap ->
         [bytes |-> Append(told.bytes, 0), n |-> 1]
    [] OTHER -> [told EXCEPT !.n = @ + 1]

\* The state of that loop after each packet of a ring of packets that are held
\* or missing.
Told(ring, room) ==
  LET told[i \in 0..Len(ring)] ==
        IF i = 0 THEN [bytes |-> <<>>, n |-> 1]
        ELSE Tell(told[i - 1], ring[i], room)
  IN told

\* generate_request_packet
Encode(ring, room) == Told(ring, room)[Len(ring)].bytes

\* One turn of the loop of handle_request_packet: what becomes of the next
\* packet of the sender.
Mark(heard) ==
  IF heard.bytes = <<>>
  THEN [mark |-> "kept", bytes |-> <<>>, n |-> heard.n]
  ELSE LET missing == heard.n = Head(heard.bytes)
           rest == IF missing THEN Tail(heard.bytes) ELSE heard.bytes
           full == ~ missing /\ heard.n = Gap
       IN [mark |-> IF missing THEN "again" ELSE "received",
           bytes |-> IF full THEN Tail(rest) ELSE rest,
           n |-> IF missing \/ full THEN 1 ELSE heard.n + 1]

\* The state of that loop after each packet of a sending ring of length count.
Heard(bytes, count) ==
  LET heard[i \in 0..count] ==
        IF i = 0 THEN [mark |-> "kept", bytes |-> bytes, n |-> 1]
        ELSE Mark(heard[i - 1])
  IN heard

\* handle_request_packet
Decode(bytes, count) ==
  LET heard == Heard(bytes, count) IN [i \in 1..count |-> heard[i].mark]

-----------------------------------------------------------------------------
\* What the other peer, whose ring has length count, reads of a request packet
\* for a ring of length n with these holes: the packets to be sent again are
\* missing, all of them or, if the packet is full, the oldest ones, and only
\* packets that are held are forgotten.
ReadBack(n, holes, bytes, room, count) ==
  LET marks == Decode(bytes, count)
      again == {i \in DOMAIN marks : marks[i] = "again"}
      forgotten == {i \in DOMAIN marks : marks[i] = "received"}
  IN /\ again \subseteq holes
     /\ forgotten \subseteq 1..n \ holes
     /\ again = holes \/ Len(bytes) = room
     /\ \A i \in again, j \in holes : j < i => j \in again
=============================================================================
