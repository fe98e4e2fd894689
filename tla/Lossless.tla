------------------------------ MODULE Lossless ------------------------------
(***************************************************************************)
(* The lossless packets of an established connection of the Tox core       *)
(* (toxcore/net_crypto.c), which carry every message of the two programs.  *)
(* Packets can be lost, duplicated and reordered by the network.  Each     *)
(* peer numbers its messages, keeps them in a ring (send_array) until the  *)
(* other peer is known to have them, and keeps what came too early in      *)
(* another ring (recv_array).  Every packet says where the receiving ring  *)
(* of its sender starts; a request packet also says which packets are      *)
(* missing there, and those are sent again.  Packets are encrypted with a  *)
(* nonce that counts them, of which only the low bytes are sent.           *)
(*                                                                         *)
(* A message is its ordinal, a packet number is an integer modulo Numbers  *)
(* and a nonce one modulo Nonces.  Numbers start at First, which is 0 in a *)
(* new connection; any First is a state in which everything was            *)
(* acknowledged.                                                           *)
(***************************************************************************)
EXTENDS Integers, FiniteSetsExt, SequencesExt, Gaps

CONSTANTS Peers,       \* the two ends of the connection
          Size,        \* CRYPTO_PACKET_BUFFER_SIZE
          Numbers,     \* 2^32, the packet numbers
          Threshold,   \* DATA_NUM_THRESHOLD: the two bytes of the nonce that
                       \* are sent count modulo 3 * Threshold + 1
          Nonces,      \* 2^192, the nonces
          MaxListed,   \* how many bytes fit in a request packet
          First,       \* the first packet number
          Chaos,       \* the network duplicates and reorders packets
          MaxMsgs,     \* bound: messages each peer has to send
          MaxNonce,    \* bound: packets each peer sends
          MaxFlight,   \* bound: packets on their way to a peer
          MaxLost,     \* bound: packets lost or not sent
          Empty        \* an empty slot

Window == 3 * Threshold + 1

\* A packet of the send ring: its message, and whether it is to be sent again.
Sent == [msg : Nat, wait : BOOLEAN]

ASSUME ConstantsAssumption ==
  /\ IsFiniteSet(Peers) /\ Cardinality(Peers) = 2
  /\ {Size, Threshold, MaxListed, MaxFlight} \subseteq Nat \ {0}
  /\ {Numbers, Nonces} \subseteq Nat \ {0}
  /\ MaxMsgs \in [Peers -> Nat]
  /\ MaxNonce \in [Peers -> Nat] /\ MaxLost \in Nat
  /\ Numbers % Size = 0 /\ Numbers >= 2 * Size + Window
  /\ Numbers > (2 * Threshold + 1) * Size
  /\ First \in 0..Numbers - 1
  /\ Nonces % Window = 0
  /\ \A p \in Peers : MaxNonce[p] + Window <= Nonces
  /\ Chaos \in BOOLEAN
  /\ Empty \notin Nat \cup Sent

Other(p) == CHOOSE q \in Peers : q # p

VARIABLES send,        \* send_array: start, end and slots
          recv,        \* recv_array
          sentNonce, recvNonce,
          newest,      \* the nonce after the newest one decrypted
          speed,       \* maximum_speed_reached
          net,         \* the packets on their way to a peer
          lost,        \* how many packets were lost or not sent
          accepted,    \* how many messages a peer has handed over
          got          \* the messages a peer was given

nonceVars == <<recvNonce, newest>>
vars == <<send, recv, sentNonce, nonceVars, speed, net, lost, accepted, got>>

NoPackets == [start |-> First, end |-> First,
              slot |-> [i \in 0..Size - 1 |-> Empty]]

Init == /\ send = [p \in Peers |-> NoPackets]
        /\ recv = [p \in Peers |-> NoPackets]
        /\ sentNonce = [p \in Peers |-> 0]
        /\ recvNonce = [p \in Peers |-> 0]
        /\ newest = [p \in Peers |-> 0]
        /\ speed = [p \in Peers |-> FALSE]
        /\ net = [p \in Peers |-> <<>>]
        /\ lost = 0
        /\ accepted = [p \in Peers |-> 0]
        /\ got = [p \in Peers |-> <<>>]

-----------------------------------------------------------------------------
(* The rings.                                                              *)

Wrap(n) == n % Numbers

\* num_packets_array
Count(a) == Wrap(a.end - a.start)

\* The slot of the packet that is i places after the start.
At(a, i) == (a.start + i) % Size

\* add_data_to_buffer takes packet n.
Takes(a, n) == /\ Wrap(n - a.start) <= Size
               /\ a.slot[n % Size] = Empty

\* Mutant: the end does not wrap around.
PutOver(a, n, m) == [a EXCEPT !.slot[n % Size] = m,
                              !.end = IF Wrap(n - a.start) >= Count(a)
                                      THEN n + 1 ELSE @]

Put(a, n, m) == [a EXCEPT !.slot[n % Size] = m,
                          !.end = IF Wrap(n - a.start) >= Count(a)
                                  THEN Wrap(n + 1) ELSE @]

\* get_data_pointer finds packet n.
Holds(a, n) == /\ Wrap(a.end - n) <= Count(a)
               /\ Wrap(n - a.start) < Count(a)
               /\ a.slot[n % Size] # Empty

\* How many packets read_data_beg_buffer takes out, called until it fails.
Ready(a) == Max({k \in 0..Min({Count(a), Size}) :
                   \A i \in 0..k - 1 : a.slot[At(a, i)] # Empty})

\* The first k packets are taken out, by clear_buffer_until and by
\* read_data_beg_buffer.
DropFirst(a, k) ==
  [a EXCEPT !.start = Wrap(@ + k),
            !.slot = [j \in DOMAIN @ |->
                        IF \E i \in 0..k - 1 : At(a, i) = j
                        THEN Empty ELSE @[j]]]

\* clear_buffer_until fails for packet n.
CannotClear(a, n) == \/ Wrap(a.end - n) >= Count(a)
                     \/ Wrap(n - a.start) > Count(a)

\* Mutant: a request packet does not tell the end of the other ring.
EndStays(a, n) == a

\* set_buffer_end
SetEnd(a, n) == IF Wrap(n - a.start) > Size \/ Wrap(n - a.end) > Size
                THEN a ELSE [a EXCEPT !.end = n]

\* Mutant: the ring is read from its first slot.
HeldFromZero(a) == [i \in 1..Count(a) |-> a.slot[(i - 1) % Size] # Empty]

\* A helper: the packets from the start to the end, held or missing.
Held(a) == [i \in 1..Count(a) |-> a.slot[At(a, i - 1)] # Empty]

\* The request packet: which packets of the ring are missing.
Missing(a) == Encode(Held(a), MaxListed)

\* The slot of a packet that the other peer told of.
Marked(slot, mark) ==
  CASE slot = Empty \/ mark = "kept" -> slot
    [] slot # Empty /\ mark = "again" -> [slot EXCEPT !.wait = TRUE]
    [] slot # Empty /\ mark = "received" -> Empty

\* Mutant: everything that is not told of is taken for received.
DropUnlisted(a, bytes) ==
  LET marks == Decode(bytes, Count(a))
  IN [a EXCEPT !.slot = [j \in DOMAIN @ |->
        LET i == (j - a.start) % Size
        IN IF i >= Count(a) \/ bytes = <<>> THEN @[j]
           ELSE Marked(@[j], IF marks[i + 1] = "again" THEN "again"
                             ELSE "received")]]

\* handle_request_packet: up to the last packet told of, those are to be sent
\* again and the others were received.
MarkMissing(a, bytes) ==
  LET marks == Decode(bytes, Count(a))
  IN [a EXCEPT !.slot = [j \in DOMAIN @ |->
        LET i == (j - a.start) % Size
        IN IF i >= Count(a) THEN @[j] ELSE Marked(@[j], marks[i + 1])]]

-----------------------------------------------------------------------------
(* Sending.  send_data_packet uses up a nonce whether or not the packet    *)
(* leaves; a packet says where the sender's own receiving ring starts.     *)

Packet(p, k, num, body) == [nonce |-> (sentNonce[p] + k) % Nonces,
                            ack |-> recv[p].start, num |-> num, body |-> body]

\* Of the packets tried the ones in "out" leave.
Transmit(p, tried, out) ==
  /\ sentNonce[p] + tried <= MaxNonce[p]
  /\ Len(net[Other(p)]) + Len(out) <= MaxFlight
  /\ lost + tried - Len(out) <= MaxLost
  /\ sentNonce' = [sentNonce EXCEPT ![p] = (@ + tried) % Nonces]
  /\ net' = [net EXCEPT ![Other(p)] = @ \o out]
  /\ lost' = lost + tried - Len(out)

\* The newest packet could not be sent and was not requested since.
Unsent(p) == LET n == Wrap(send[p].end - 1)
             IN /\ speed[p]
                /\ Holds(send[p], n)
                /\ send[p].slot[n % Size].wait

\* The packet for packet n of the send ring, the k-th one sent.
Copy(p, k, n) == Packet(p, k, n, [data |-> send[p].slot[n % Size].msg])

\* A helper: the newest packet is sent and no longer waits.
Resent(p) == IF Unsent(p)
             THEN [send[p] EXCEPT
                     !.slot[Wrap(send[p].end - 1) % Size].wait = FALSE]
             ELSE send[p]

Again(p) == IF Unsent(p) THEN <<Copy(p, 0, Wrap(send[p].end - 1))>> ELSE <<>>

\* send_lossless_packet has to send the newest packet first and cannot: only
\* a nonce is used up.
WriteBlocked(p) ==
  /\ Unsent(p)
  /\ sentNonce[p] < MaxNonce[p]
  /\ sentNonce' = [sentNonce EXCEPT ![p] = (@ + 1) % Nonces]
  /\ UNCHANGED <<send, recv, nonceVars, speed, net, lost, accepted, got>>

\* It can, but the ring is full.
WriteFull(p) == /\ Unsent(p)
                /\ Count(send[p]) >= Size
                /\ send' = [send EXCEPT ![p] = Resent(p)]
                /\ Transmit(p, 1, Again(p))
                /\ UNCHANGED <<recv, nonceVars, speed, accepted, got>>

\* write_cryptpacket accepts a message; its packet leaves or has to wait.
Write(p, leaves) ==
  /\ Count(send[p]) < Size
  /\ accepted[p] < MaxMsgs[p]
  /\ LET m == accepted[p] + 1
         n == send[p].end
         again == Again(p)
         new == <<Packet(p, Len(again), n, [data |-> m])>>
     IN /\ send' = [send EXCEPT ![p] =
                      [Resent(p) EXCEPT !.slot[n % Size] =
                                          [msg |-> m, wait |-> ~ leaves],
                                        !.end = Wrap(n + 1)]]
        /\ Transmit(p, Len(again) + 1, again \o (IF leaves THEN new ELSE <<>>))
  /\ speed' = [speed EXCEPT ![p] = ~ leaves]
  /\ accepted' = [accepted EXCEPT ![p] = @ + 1]
  /\ UNCHANGED <<recv, nonceVars, got>>

\* send_request_packet
SendRequest(p) ==
  /\ LET body == [missing |-> Missing(recv[p])]
     IN Transmit(p, 1, <<Packet(p, 0, send[p].end, body)>>)
  /\ UNCHANGED <<send, recv, nonceVars, speed, accepted, got>>

Waiting(p) == {i \in 0..Count(send[p]) - 1 :
                 LET s == send[p].slot[At(send[p], i)] IN s # Empty /\ s.wait}

\* send_requested_packets sends the oldest packets that wait, as many as the
\* rate of the connection allows.
SendRequested(p, n) ==
  /\ \E places \in [1..n -> Waiting(p)] :
       /\ \A k, l \in 1..n : k < l => places[k] < places[l]
       /\ \A i \in Waiting(p) :
            i < places[n] => \E k \in 1..n : places[k] = i
       /\ Transmit(p, n, [k \in 1..n |->
                            Copy(p, k - 1, Wrap(send[p].start + places[k]))])
       /\ send' = [send EXCEPT ![p].slot = [j \in DOMAIN @ |->
                     IF \E k \in 1..n : At(send[p], places[k]) = j
                     THEN [@[j] EXCEPT !.wait = FALSE] ELSE @[j]]]
  /\ UNCHANGED <<recv, nonceVars, speed, accepted, got>>

-----------------------------------------------------------------------------
(* Receiving: handle_data_packet and handle_data_packet_helper.            *)

\* How far the nonce is ahead of the last known one, from its low bytes.
Ahead(q, packet) == (packet.nonce - recvNonce[q]) % Window

\* The packet can be decrypted with the nonce that gives.
Opens(q, packet) == (recvNonce[q] + Ahead(q, packet)) % Nonces = packet.nonce

\* A helper: the newest nonce decrypted, for NeverDeaf.
Newer(q, packet) ==
  IF Ahead(q, packet) >= (newest[q] - recvNonce[q]) % Nonces
  THEN [newest EXCEPT ![q] = (packet.nonce + 1) % Nonces] ELSE newest

\* Mutant: the known nonce never moves.
NonceStays(q, packet) == newest' = Newer(q, packet) /\ UNCHANGED recvNonce

\* The known nonce follows when the packet is far ahead.
NonceFollows(q, packet) ==
  /\ newest' = Newer(q, packet)
  /\ recvNonce' = IF Ahead(q, packet) > 2 * Threshold
                  THEN [recvNonce EXCEPT ![q] = (@ + Threshold) % Nonces]
                  ELSE recvNonce

\* Mutant: an overtaken packet is believed.
BelievesAck(q, packet) == FALSE

\* What the packet says of the other receiving ring cannot be true.
BadAck(q, packet) == /\ packet.ack # send[q].start
                     /\ CannotClear(send[q], packet.ack)

\* The send ring once the packets before packet.ack are known to be received.
Acked(q, packet) == DropFirst(send[q], Wrap(packet.ack - send[q].start))

\* A packet of another time.
Reject(q, packet) ==
  /\ ~ Opens(q, packet)
  /\ UNCHANGED <<send, recv, nonceVars, got>>

\* A packet that was overtaken by a newer one.
Late(q, packet) ==
  /\ Opens(q, packet)
  /\ NonceFollows(q, packet)
  /\ BadAck(q, packet)
  /\ UNCHANGED <<send, recv, got>>

Fresh(q, packet) == Opens(q, packet) /\ ~ BadAck(q, packet)

OnRequest(q, packet) ==
  /\ Fresh(q, packet)
  /\ "missing" \in DOMAIN packet.body
  /\ NonceFollows(q, packet)
  /\ send' = [send EXCEPT ![q] = MarkMissing(Acked(q, packet),
                                             packet.body.missing)]
  /\ recv' = [recv EXCEPT ![q] = SetEnd(@, packet.num)]
  /\ UNCHANGED got

\* Mutant: a packet goes to the program as soon as it comes.
OnDataEager(q, packet) ==
  /\ Fresh(q, packet)
  /\ "data" \in DOMAIN packet.body
  /\ NonceFollows(q, packet)
  /\ send' = [send EXCEPT ![q] = Acked(q, packet)]
  /\ IF Takes(recv[q], packet.num)
     THEN /\ got' = [got EXCEPT ![q] = Append(@, packet.body.data)]
          /\ recv' = [recv EXCEPT ![q] =
               DropFirst(Put(@, packet.num, packet.body.data),
                         Ready(Put(@, packet.num, packet.body.data)))]
     ELSE UNCHANGED <<recv, got>>

\* A message that is new is kept, and what is in order goes to the program.
OnData(q, packet) ==
  /\ Fresh(q, packet)
  /\ "data" \in DOMAIN packet.body
  /\ NonceFollows(q, packet)
  /\ send' = [send EXCEPT ![q] = Acked(q, packet)]
  /\ IF Takes(recv[q], packet.num)
     THEN LET ring == Put(recv[q], packet.num, packet.body.data)
              k == Ready(ring)
          IN /\ got' = [got EXCEPT ![q] =
                          @ \o [i \in 1..k |-> ring.slot[At(ring, i - 1)]]]
             /\ recv' = [recv EXCEPT ![q] = DropFirst(ring, k)]
     ELSE UNCHANGED <<recv, got>>

\* A packet arrives: the oldest one, or any one and perhaps not for the last
\* time.
Receive(q) ==
  \E i \in DOMAIN net[q], kept \in {FALSE, Chaos} :
    /\ Chaos \/ i = 1
    /\ net' = IF kept THEN net ELSE [net EXCEPT ![q] = RemoveAt(@, i)]
    /\ LET packet == net[q][i]
       IN \/ Reject(q, packet)
          \/ Late(q, packet)
          \/ OnRequest(q, packet)
          \/ OnData(q, packet)
    /\ UNCHANGED <<sentNonce, speed, lost, accepted>>

\* The network loses a packet.
Lose(q) ==
  \E i \in DOMAIN net[q] :
    /\ lost < MaxLost
    /\ lost' = lost + 1
    /\ net' = [net EXCEPT ![q] = RemoveAt(@, i)]
    /\ UNCHANGED <<send, recv, sentNonce, nonceVars, speed, accepted, got>>

-----------------------------------------------------------------------------
Next == \E p \in Peers : \/ \E leaves \in BOOLEAN : Write(p, leaves)
                         \/ WriteBlocked(p)
                         \/ WriteFull(p)
                         \/ SendRequest(p)
                         \/ \E n \in 1..Size : SendRequested(p, n)
                         \/ Receive(p)
                         \/ Lose(p)

Spec == Init /\ [][Next]_vars

-----------------------------------------------------------------------------
(* Properties.                                                             *)

\* Rings of S, and packets.
RingsOf(S) == [start : 0..Numbers - 1, end : 0..Numbers - 1,
               slot : [0..Size - 1 -> S \cup {Empty}]]

Packets == [nonce : 0..Nonces - 1, ack : 0..Numbers - 1,
            num : 0..Numbers - 1,
            body : [data : Nat] \cup [missing : Seq(Nat)]]

\* The types of the variables.
TypeOK ==
  /\ send \in [Peers -> RingsOf(Sent)]
  /\ recv \in [Peers -> RingsOf(Nat)]
  /\ net \in [Peers -> Seq(Packets)]
  /\ got \in [Peers -> Seq(Nat)]
  /\ sentNonce \in [Peers -> 0..Nonces - 1]
  /\ recvNonce \in [Peers -> 0..Nonces - 1]
  /\ newest \in [Peers -> 0..Nonces - 1]
  /\ speed \in [Peers -> BOOLEAN]
  /\ lost \in 0..MaxLost
  /\ accepted \in [Peers -> Nat]

Messages(a) == {a.slot[j] : j \in DOMAIN a.slot} \ {Empty}

\* A message that was accepted and not yet given to the other program is in
\* one of the two rings: handle_request_packet and clear_buffer_until forget
\* only what the other peer has.
NothingLost ==
  \A p \in Peers : \A m \in Len(got[Other(p)]) + 1..accepted[p] :
    \/ \E s \in Messages(send[p]) : s.msg = m
    \/ m \in Messages(recv[Other(p)])

\* The two rings of a direction stay on each other although the numbers wrap
\* around: sender's start <= receiver's start <= receiver's end <= sender's
\* end, and there are never more than Size packets from the first to the last.
RingsOverlap ==
  \A p \in Peers :
    LET s == send[p]
        r == recv[Other(p)]
    IN /\ Count(s) <= Size
       /\ Wrap(r.start - s.start) <= Wrap(r.end - s.start)
       /\ Wrap(r.end - s.start) <= Count(s)

\* The known nonce is never ahead of the newest packet that was decrypted and
\* never so far behind that the low bytes of a nonce do not tell which one it
\* is: fewer than Threshold packets lost in a row do not make a peer deaf.
NeverDeaf ==
  \A q \in Peers : (newest[q] - recvNonce[q]) % Nonces <= 2 * Threshold + 1

\* One round trip without loss heals the connection, whatever was lost before:
\* once q heard how far p has sent (a request packet of p) and p heard what q
\* misses (a request packet of q), the oldest message that q misses waits at
\* p to be sent again and q has room for it.
OneRoundHeals ==
  \A p \in Peers :
    LET q == Other(p)
        r == SetEnd(recv[q], send[p].end)
        s == MarkMissing(DropFirst(send[p], Wrap(r.start - send[p].start)),
                         Missing(r))
    IN accepted[p] > Len(got[q]) =>
         /\ r.start = send[p].start \/ ~ CannotClear(send[p], r.start)
         /\ Holds(s, r.start)
         /\ s.slot[r.start % Size].wait
         /\ Takes(r, r.start)

\* What a request packet says is what the other peer, which may have sent more
\* by then, reads: the packets to be sent again are missing, all of them or the
\* oldest ones, and only packets that were received are forgotten.
GapsReadBack ==
  \A p \in Peers :
    LET r == recv[p]
        holes == {i \in 1..Count(r) : r.slot[At(r, i - 1)] = Empty}
    IN ReadBack(Count(r), holes, Missing(r), MaxListed,
                Wrap(send[Other(p)].end - r.start))

Promise == INSTANCE Channel

\* Over any network the peers are given what Channel promises: every message
\* once, in the order write_cryptpacket accepted them.
ImplementsChannel == Promise!Spec

=============================================================================
