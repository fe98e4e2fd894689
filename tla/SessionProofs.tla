--------------------------- MODULE SessionProofs ---------------------------
(***************************************************************************)
(* The invariants of the connections of two peers, for any number of       *)
(* tries, of packets on their way, of starts and of faults, and that they  *)
(* give what Presence promises.  IInv is the inductive invariant: it says  *)
(* what the packets on their way have to do with the connections of their  *)
(* sender and of their receiver.                                           *)
(***************************************************************************)
EXTENDS Session, FiniteSetTheorems, SequenceTheorems, TLAPS

\* p can read data.
Ready(p) == conn[p].status \in {"unconfirmed", "established"}

\* Behind a packet of the session there are only packets of that session.
Ordered(seq, session) ==
  \A i, j \in DOMAIN seq :
    i < j /\ SessionOf(seq[i]) = session => SessionOf(seq[j]) \in {0, session}

\* Every handshake is one of the session.
Shakes(seq, session) ==
  \A i \in DOMAIN seq : seq[i].kind = "handshake" => seq[i].session = session

\* There is a data packet for the session.
HasData(seq, session) ==
  \E i \in DOMAIN seq : seq[i].kind = "data" /\ seq[i].to = session

\* No packet is one of the session.
Unused(seq, session) == \A i \in DOMAIN seq : SessionOf(seq[i]) # session

\* What the parts of a connection have to do with each other and with the
\* status of the friend.
Fine(c, status) ==
  /\ c.status = "none" => c = NoConnection
  /\ c.status # "none" => c.session \in Sessions
  /\ c.status \in {"unconfirmed", "established"} => c.peer \in Sessions
  /\ c.temp # Nothing => /\ c.temp.kind \in {"request", "handshake"}
                         /\ SessionOf(c.temp) = c.session
  /\ c.status = "established" => c.temp = Nothing
  /\ status = "online" <=> c.status = "established"

ConnOK == \A p \in Peers : Fine(conn[p], friend[p])

\* What p sends in its present session comes after all that it sent before.
InOrder ==
  stale \/ \A p \in Peers :
             conn[p].status # "none" => Ordered(net[Other(p)], conn[p].session)

\* p has learned the present session of the other peer: it has it, or has
\* sent data to it.
Heard(p) ==
  /\ conn[Other(p)].status # "none"
  /\ \/ Ready(p) /\ conn[p].peer = conn[Other(p)].session
     \/ HasData(net[Other(p)], conn[Other(p)].session)
     \/ conn[Other(p)].status = "established"

\* Who has learned the present session of the other peer is not told of an
\* earlier one any more.
HeardOK ==
  stale \/ \A p \in Peers :
             Heard(p) => /\ Shakes(net[p], conn[Other(p)].session)
                         /\ Ready(p) => conn[p].peer = conn[Other(p)].session

IInv == TypeOK /\ ConnOK /\ InOrder /\ HeardOK

-----------------------------------------------------------------------------
(* Peers, packets and sequences of packets.                                *)

\* There are two peers, each the other one of the other.
LEMMA TwoPeers ==
  /\ \A p \in Peers : /\ Other(p) \in Peers /\ Other(p) # p
                      /\ Other(Other(p)) = p
                      /\ \A q \in Peers : q = p \/ q = Other(p)
  /\ Peers # {}
<1>1. ASSUME NEW p \in Peers PROVE \E q : Peers \ {p} = {q}
  <2>1. IsFiniteSet(Peers \ {p}) /\ Cardinality(Peers \ {p}) = 1
    BY ConstantsAssumption, FS_RemoveElement
  <2> QED BY <2>1, FS_Singleton
<1>2. ASSUME NEW p \in Peers
      PROVE  /\ Other(p) \in Peers /\ Other(p) # p
             /\ \A q \in Peers : q = p \/ q = Other(p)
  <2>1. PICK q : Peers \ {p} = {q}
    BY <1>1
  <2> QED BY <2>1 DEF Other
<1>3. Peers # {}
  BY ConstantsAssumption, FS_EmptySet
<1> QED BY <1>2, <1>3

\* A packet is one of a session, or a response.
LEMMA SessionOfPacket ==
  ASSUME NEW packet \in Packets
  PROVE  /\ SessionOf(packet) \in Sessions \cup {0}
         /\ packet.kind = "handshake" => SessionOf(packet) = packet.session
         /\ packet.kind = "handshake" => packet.session # 0
         /\ packet.kind \in {"data", "kill"} =>
              SessionOf(packet) = packet.from /\ packet.to \in Sessions
         /\ packet.kind = "response" => SessionOf(packet) = 0
BY ConstantsAssumption DEF Packets, SessionOf, Sessions

\* What a packet that is handled leaves behind.
LEMMA TailFacts ==
  ASSUME NEW seq \in Seq(Packets), seq # <<>>, NEW session
  PROVE  /\ Tail(seq) \in Seq(Packets) /\ Len(Tail(seq)) = Len(seq) - 1
         /\ Head(seq) \in Packets
         /\ Ordered(seq, session) => Ordered(Tail(seq), session)
         /\ Shakes(seq, session) => Shakes(Tail(seq), session)
         /\ Shakes(seq, session) /\ Head(seq).kind = "handshake" =>
              Head(seq).session = session
         /\ HasData(Tail(seq), session) => HasData(seq, session)
         /\ Head(seq).kind = "data" /\ Head(seq).to = session =>
              HasData(seq, session)
         /\ Unused(seq, session) => Unused(Tail(seq), session)
<1> DEFINE t == Tail(seq)
<1>1. /\ t \in Seq(Packets) /\ Len(t) = Len(seq) - 1 /\ Head(seq) \in Packets
      /\ DOMAIN t = 1..Len(t) /\ DOMAIN seq = 1..Len(seq) /\ Len(seq) \in Nat
      /\ Head(seq) = seq[1] /\ 1 \in DOMAIN seq
      /\ \A i \in DOMAIN t : t[i] = seq[i + 1] /\ i + 1 \in DOMAIN seq
  BY HeadTailProperties, LenProperties
<1> HIDE DEF t
<1>2. Ordered(seq, session) => Ordered(t, session)
  BY <1>1 DEF Ordered
<1> QED BY <1>1, <1>2 DEF Shakes, HasData, Unused, t

\* What a packet that is sent adds.
LEMMA AppendFacts ==
  ASSUME NEW seq \in Seq(Packets), NEW packet \in Packets, NEW session
  PROVE  /\ Append(seq, packet) \in Seq(Packets)
         /\ Len(Append(seq, packet)) = Len(seq) + 1
         /\ Ordered(seq, session) /\ SessionOf(packet) \in {0, session} =>
              Ordered(Append(seq, packet), session)
         /\ Shakes(seq, session) =>
              \/ Shakes(Append(seq, packet), session)
              \/ packet.kind = "handshake" /\ packet.session # session
         /\ HasData(Append(seq, packet), session) =>
              \/ HasData(seq, session)
              \/ packet.kind = "data" /\ packet.to = session
         /\ Unused(seq, session) /\ SessionOf(packet) # session =>
              Unused(Append(seq, packet), session)
<1> DEFINE longer == Append(seq, packet)
<1>1. /\ longer \in Seq(Packets) /\ Len(longer) = Len(seq) + 1
      /\ DOMAIN longer = 1..Len(seq) + 1 /\ DOMAIN seq = 1..Len(seq)
      /\ Len(seq) \in Nat
      /\ \A i \in DOMAIN seq : longer[i] = seq[i]
      /\ longer[Len(seq) + 1] = packet
  BY AppendProperties, LenProperties
<1> HIDE DEF longer
<1>2. \A i \in DOMAIN longer :
        \/ i \in DOMAIN seq /\ longer[i] = seq[i]
        \/ longer[i] = packet /\ \A j \in DOMAIN longer : ~ i < j
  BY <1>1
<1>3. Ordered(seq, session) /\ SessionOf(packet) \in {0, session} =>
        Ordered(longer, session)
  BY <1>2 DEF Ordered
<1>4. Shakes(seq, session) =>
        \/ Shakes(longer, session)
        \/ packet.kind = "handshake" /\ packet.session # session
  BY <1>2 DEF Shakes
<1>5. HasData(longer, session) =>
        \/ HasData(seq, session)
        \/ packet.kind = "data" /\ packet.to = session
  BY <1>2 DEF HasData
<1>6. Unused(seq, session) /\ SessionOf(packet) # session =>
        Unused(longer, session)
  BY <1>2 DEF Unused
<1> QED BY <1>1, <1>3, <1>4, <1>5, <1>6 DEF longer

\* Behind the handshake of a session there are only handshakes of that session.
LEMMA OnlyShakes ==
  ASSUME NEW seq \in Seq(Packets), seq # <<>>, NEW session \in Sessions,
         Ordered(seq, session), SessionOf(Head(seq)) = session
  PROVE  Shakes(Tail(seq), session)
<1>1. /\ DOMAIN seq = 1..Len(seq) /\ Len(seq) \in Nat /\ Head(seq) = seq[1]
      /\ DOMAIN Tail(seq) = 1..(Len(seq) - 1)
      /\ \A i \in DOMAIN Tail(seq) : Tail(seq)[i] = seq[i + 1]
  BY HeadTailProperties, LenProperties
<1>2. SUFFICES ASSUME NEW i \in DOMAIN Tail(seq),
                      Tail(seq)[i].kind = "handshake"
               PROVE  Tail(seq)[i].session = session
  BY DEF Shakes
<1>3. 1 \in DOMAIN seq /\ i + 1 \in DOMAIN seq /\ 1 < i + 1
  BY <1>1
<1>4. SessionOf(seq[i + 1]) \in {0, session}
  BY <1>1, <1>3 DEF Ordered
<1>5. seq[i + 1] \in Packets
  BY <1>1, <1>3, ElementOfSeq
<1> QED BY <1>1, <1>2, <1>4, <1>5, SessionOfPacket

\* A sequence with no packet of the session is in order.
LEMMA UnusedIsOrdered ==
  ASSUME NEW seq, NEW session, Unused(seq, session)
  PROVE  Ordered(seq, session)
BY DEF Unused, Ordered

\* No more numbers come out of a sequence than it has packets.
LEMMA FewNumbers ==
  ASSUME NEW seq \in Seq(Packets), NEW f, f \in [DOMAIN seq -> Int]
  PROVE  LET numbers == {f[i] : i \in DOMAIN seq}
         IN IsFiniteSet(numbers) /\ Cardinality(numbers) <= Len(seq)
            /\ Cardinality(numbers) \in Nat
<1> DEFINE numbers == {f[i] : i \in DOMAIN seq}
<1>1. Len(seq) \in Nat /\ DOMAIN seq = 1..Len(seq)
  BY LenProperties
<1>2. IsFiniteSet(1..Len(seq)) /\ Cardinality(1..Len(seq)) = Len(seq)
  <2>1. 1 \in Int /\ Len(seq) \in Int
    BY <1>1
  <2>2. /\ IsFiniteSet(1..Len(seq))
        /\ Cardinality(1..Len(seq)) =
             IF 1 > Len(seq) THEN 0 ELSE Len(seq) - 1 + 1
    BY <2>1, FS_Interval
  <2> QED BY <1>1, <2>2
<1>3. f \in Surjection(DOMAIN seq, numbers)
  BY DEF Surjection
<1>4. IsFiniteSet(numbers) /\ Cardinality(numbers) <= Len(seq)
  BY <1>1, <1>2, <1>3, FS_Surjection
<1>5. Cardinality(numbers) \in Nat
  BY <1>4, FS_CardinalityType
<1> QED BY <1>4, <1>5

\* There is a session number that nothing refers to: what refers to one is the
\* other peer and the packets on their way, and that is fewer than the numbers.
LEMMA SomeFree ==
  ASSUME TypeOK, NEW p \in Peers
  PROVE  \E session \in Sessions : session \notin Used(p)
<1> DEFINE there == net[Other(p)]
           here == net[p]
           sent == [i \in DOMAIN there |-> SessionOf(there[i])]
           named == [i \in DOMAIN here |-> NamedBy(here[i])]
           Sent == {sent[i] : i \in DOMAIN there}
           Named == {named[i] : i \in DOMAIN here}
           one == {conn[Other(p)].peer}
<1>1. /\ there \in Seq(Packets) /\ here \in Seq(Packets)
      /\ Len(here) + Len(there) <= MaxFlight
      /\ Len(here) \in Nat /\ Len(there) \in Nat
  BY TwoPeers, LenProperties DEF TypeOK
<1>2. sent \in [DOMAIN there -> Int] /\ named \in [DOMAIN here -> Int]
  <2>1. \A packet \in Packets : SessionOf(packet) \in Int
    BY SessionOfPacket DEF Sessions
  <2>2. \A packet \in Packets : NamedBy(packet) \in Int
    BY ConstantsAssumption DEF Packets, NamedBy, Sessions
  <2> QED BY <1>1, <2>1, <2>2, ElementOfSeq, LenProperties
<1>3. /\ IsFiniteSet(Sent) /\ Cardinality(Sent) <= Len(there)
      /\ IsFiniteSet(Named) /\ Cardinality(Named) <= Len(here)
      /\ Cardinality(Sent) \in Nat /\ Cardinality(Named) \in Nat
  BY <1>1, <1>2, FewNumbers
<1>4. IsFiniteSet(one) /\ Cardinality(one) = 1
  BY FS_Singleton
<1>5. Used(p) = (one \cup Sent) \cup Named
  BY DEF Used
<1> HIDE DEF one, Sent, Named, sent, named, here, there
<1>6. IsFiniteSet(one \cup Sent) /\ Cardinality(one \cup Sent) <= 1 + Len(there)
  <2>1. Cardinality(one \cap Sent) \in Nat
    BY <1>4, FS_Subset, FS_CardinalityType
  <2>2. /\ IsFiniteSet(one \cup Sent)
        /\ Cardinality(one \cup Sent) =
             Cardinality(one) + Cardinality(Sent) - Cardinality(one \cap Sent)
    BY <1>3, <1>4, FS_Union
  <2> QED BY <1>1, <1>3, <1>4, <2>1, <2>2
<1>7. /\ IsFiniteSet(Used(p)) /\ Cardinality(Used(p)) <= MaxFlight + 1
      /\ Cardinality(Used(p)) \in Nat
  <2>1. Cardinality((one \cup Sent) \cap Named) \in Nat
    BY <1>6, FS_Subset, FS_CardinalityType
  <2>2. Cardinality(one \cup Sent) \in Nat
    BY <1>6, FS_CardinalityType
  <2>3. /\ IsFiniteSet(Used(p))
        /\ Cardinality(Used(p)) = Cardinality(one \cup Sent)
             + Cardinality(Named) - Cardinality((one \cup Sent) \cap Named)
    BY <1>3, <1>5, <1>6, FS_Union
  <2>4. Cardinality(Used(p)) <= MaxFlight + 1
    BY <1>1, <1>3, <1>6, <2>1, <2>2, <2>3, ConstantsAssumption
  <2> QED BY <2>3, <2>4, FS_CardinalityType
<1>8. IsFiniteSet(Sessions) /\ Cardinality(Sessions) = MaxFlight + 2
  <2>1. MaxFlight + 2 \in Int /\ 1 \in Int /\ ~ 1 > MaxFlight + 2
    BY ConstantsAssumption
  <2> QED BY <2>1, FS_Interval, ConstantsAssumption DEF Sessions
<1>9. ~ Sessions \subseteq Used(p)
  BY <1>7, <1>8, FS_Subset, ConstantsAssumption
<1> QED BY <1>9

\* A new session has a number that nothing refers to.
LEMMA FreshFacts ==
  ASSUME TypeOK, NEW p \in Peers
  PROVE  /\ FreshSession(p) \in Sessions
         /\ FreshSession(p) # conn[Other(p)].peer
         /\ Unused(net[Other(p)], FreshSession(p))
         /\ ~ HasData(net[p], FreshSession(p))
<1>1. FreshSession(p) \in Sessions /\ FreshSession(p) \notin Used(p)
  BY SomeFree DEF FreshSession
<1>2. ASSUME NEW i \in DOMAIN net[p], net[p][i].kind = "data"
      PROVE  net[p][i].to \in Used(p)
  BY <1>2 DEF Used, NamedBy
<1>3. ASSUME NEW i \in DOMAIN net[Other(p)]
      PROVE  SessionOf(net[Other(p)][i]) \in Used(p)
  BY DEF Used
<1> QED BY <1>1, <1>2, <1>3 DEF Used, Unused, HasData

-----------------------------------------------------------------------------
(* What every step but a disturbance of the network is like.               *)

\* p adds nothing to what is on its way, or a packet of its present session
\* that tells the other peer no other one, and data only where it has a key.
SendsRightly(p) ==
  \/ net'[Other(p)] = net[Other(p)]
  \/ \E packet \in Packets :
       /\ net'[Other(p)] = Append(net[Other(p)], packet)
       /\ \/ conn'[p].status = "none"
          \/ SessionOf(packet) \in {0, conn'[p].session}
       /\ packet.kind = "handshake" =>
            conn'[p].status # "none" /\ packet.session = conn'[p].session
       /\ packet.kind = "data" => Ready(p) /\ packet.to = conn[p].peer

\* The connection of p is keyed by the handshake that p handles.
IsKeyed(p) == /\ net[p] # <<>> /\ net'[p] = Tail(net[p])
              /\ Head(net[p]).kind = "handshake"
              /\ conn'[p].peer = Head(net[p]).session

Move(p) ==
  /\ stale' = stale /\ conn'[Other(p)] = conn[Other(p)]
  /\ friend'[Other(p)] = friend[Other(p)]
  /\ net'[p] = net[p] \/ (net[p] # <<>> /\ net'[p] = Tail(net[p]))
  /\ SendsRightly(p)
  /\ \/ conn'[p].status = "none"
     \/ conn[p].status = "none" /\ conn'[p].session = FreshSession(p)
     \/ conn[p].status # "none" /\ conn'[p].session = conn[p].session
  /\ (Ready(p))' => \/ Ready(p) /\ conn'[p].peer = conn[p].peer
                    \/ IsKeyed(p)
  /\ conn'[p].status = "established" =>
       /\ Ready(p) /\ conn'[p].peer = conn[p].peer
       /\ \/ conn[p].status = "established"
          \/ HasData(net[p], conn[p].session)
  /\ conn[p].status = "established" =>
       conn'[p].status \in {"none", "established"}

\* Such a step keeps the packets in order.
LEMMA MoveKeepsOrder ==
  ASSUME IInv, NEW p \in Peers, Move(p) PROVE InOrder'
<1> DEFINE q == Other(p)
<1> SUFFICES ASSUME ~ stale', NEW r \in Peers, conn'[r].status # "none"
             PROVE  Ordered(net'[Other(r)], conn'[r].session)
  BY DEF InOrder
<1>1. /\ q \in Peers /\ q # p /\ Other(q) = p /\ r \in {p, q}
      /\ net[p] \in Seq(Packets) /\ net[q] \in Seq(Packets) /\ ~ stale
  BY TwoPeers DEF IInv, TypeOK, Move
<1>2. CASE r = q
  <2>1. Ordered(net[p], conn[q].session)
    BY <1>1, <1>2 DEF IInv, InOrder, Move
  <2> QED BY <1>1, <1>2, <2>1, TailFacts DEF Move
<1>3. CASE r = p
  <2>1. CASE conn[p].status = "none" /\ conn'[p].session = FreshSession(p)
    <3>1. Unused(net[q], conn'[p].session)
      BY <1>1, <2>1, FreshFacts DEF IInv
    <3>2. CASE net'[q] = net[q]
      BY <1>1, <1>3, <3>1, UnusedIsOrdered, <3>2
    <3>3. CASE net'[q] # net[q]
      <4>1. PICK packet \in Packets :
              /\ net'[q] = Append(net[q], packet)
              /\ \/ conn'[p].status = "none"
                 \/ SessionOf(packet) \in {0, conn'[p].session}
        BY <3>3 DEF Move, SendsRightly
      <4> QED BY <1>1, <1>3, <3>1, UnusedIsOrdered, <4>1, AppendFacts
    <3> QED BY <3>2, <3>3
  <2>2. CASE conn[p].status # "none" /\ conn'[p].session = conn[p].session
    <3>1. Ordered(net[q], conn'[p].session)
      BY <1>1, <2>2 DEF IInv, InOrder
    <3>2. CASE net'[q] = net[q]
      BY <1>1, <1>3, <3>1, <3>2
    <3>3. CASE net'[q] # net[q]
      <4>1. PICK packet \in Packets :
              /\ net'[q] = Append(net[q], packet)
              /\ \/ conn'[p].status = "none"
                 \/ SessionOf(packet) \in {0, conn'[p].session}
        BY <3>3 DEF Move, SendsRightly
      <4> QED BY <1>1, <1>3, <3>1, <4>1, AppendFacts
    <3> QED BY <3>2, <3>3
  <2> QED BY <1>3, <2>1, <2>2 DEF Move
<1> QED BY <1>1, <1>2, <1>3

\* Such a step lets nobody forget what it has learned of the other peer.
LEMMA MoveKeepsHeard ==
  ASSUME IInv, NEW p \in Peers, Move(p) PROVE HeardOK'
<1> DEFINE q == Other(p)
<1> SUFFICES ASSUME ~ stale', NEW r \in Peers, Heard(r)'
             PROVE  /\ Shakes(net'[r], conn'[Other(r)].session)
                    /\ (Ready(r))' => conn'[r].peer = conn'[Other(r)].session
  BY DEF HeardOK
<1>1. /\ q \in Peers /\ q # p /\ Other(q) = p /\ r \in {p, q}
      /\ net[p] \in Seq(Packets) /\ net[q] \in Seq(Packets) /\ ~ stale
      /\ conn'[q] = conn[q]
  BY TwoPeers DEF IInv, TypeOK, Move
<1>2. CASE r = q
  <2>1. conn'[p].status # "none"
    BY <1>1, <1>2 DEF Heard
  <2>2. ASSUME conn[p].status = "none", conn'[p].session = FreshSession(p)
        PROVE FALSE
    <3>1. /\ conn[q].peer # conn'[p].session
          /\ ~ HasData(net[p], conn'[p].session)
      BY <2>2, FreshFacts DEF IInv
    <3>2. ~ HasData(net'[p], conn'[p].session)
      BY <1>1, <3>1, TailFacts DEF Move
    <3>3. conn'[p].status # "established"
      BY <2>2 DEF Move, Ready
    <3> QED BY <1>1, <1>2, <3>1, <3>2, <3>3 DEF Heard, Ready
  <2>3. conn[p].status # "none" /\ conn'[p].session = conn[p].session
    BY <2>1, <2>2 DEF Move
  <2>4. Heard(q)
    <3>1. HasData(net'[p], conn[p].session) => HasData(net[p], conn[p].session)
      BY <1>1, TailFacts DEF Move
    <3>2. conn'[p].status = "established" =>
            \/ conn[p].status = "established"
            \/ HasData(net[p], conn[p].session)
      BY DEF Move
    <3> QED BY <1>1, <1>2, <2>3, <3>1, <3>2 DEF Heard, Ready
  <2>5. /\ Shakes(net[q], conn[p].session)
        /\ Ready(q) => conn[q].peer = conn[p].session
    BY <1>1, <2>4 DEF IInv, HeardOK
  <2>6. Shakes(net'[q], conn[p].session)
    <3>1. CASE net'[q] = net[q]
      BY <1>1, <2>3, <2>5, <3>1
    <3>2. CASE net'[q] # net[q]
      <4>1. PICK packet \in Packets :
              /\ net'[q] = Append(net[q], packet)
              /\ packet.kind = "handshake" =>
                   packet.session = conn'[p].session
        BY <3>2 DEF Move, SendsRightly
      <4> QED BY <1>1, <2>3, <2>5, <4>1, AppendFacts
    <3> QED BY <3>1, <3>2
  <2> QED BY <1>1, <1>2, <2>3, <2>5, <2>6 DEF Ready
<1>3. CASE r = p
  <2>1. conn[q].status # "none"
    BY <1>1, <1>3 DEF Heard
  <2>2. conn[q].session \in Sessions /\ conn[q].session # 0
    BY <1>1, <2>1, ConstantsAssumption DEF IInv, ConnOK, Fine, Sessions
  <2>3. ASSUME Heard(p)
        PROVE  /\ Shakes(net'[p], conn[q].session)
               /\ (Ready(p))' => conn'[p].peer = conn[q].session
    <3>1. /\ Shakes(net[p], conn[q].session)
          /\ Ready(p) => conn[p].peer = conn[q].session
      BY <1>1, <2>3 DEF IInv, HeardOK
    <3>2. Shakes(net'[p], conn[q].session)
      BY <1>1, <3>1, TailFacts DEF Move
    <3>3. IsKeyed(p) => conn'[p].peer = conn[q].session
      BY <1>1, <3>1, TailFacts DEF IsKeyed
    <3> QED BY <3>1, <3>2, <3>3 DEF Move
  <2>4. ASSUME ~ Heard(p)
        PROVE  /\ IsKeyed(p)
               /\ conn'[p].peer = conn[q].session
    <3>1. ~ HasData(net[q], conn[q].session) /\ conn[q].status # "established"
      BY <1>1, <2>1, <2>4 DEF Heard
    <3>2. ~ (Ready(p) /\ conn[p].peer = conn[q].session)
      BY <1>1, <2>1, <2>4 DEF Heard
    <3>3. ~ HasData(net'[q], conn[q].session)
      <4>1. CASE net'[q] = net[q]
        BY <1>1, <3>1, <3>2, <4>1
      <4>2. CASE net'[q] # net[q]
        <5>1. PICK packet \in Packets :
                /\ net'[q] = Append(net[q], packet)
                /\ packet.kind = "data" =>
                     Ready(p) /\ packet.to = conn[p].peer
          BY <4>2 DEF Move, SendsRightly
        <5> QED BY <1>1, <3>1, <3>2, <5>1, AppendFacts
      <4> QED BY <4>1, <4>2
    <3>4. (Ready(p))' /\ conn'[p].peer = conn[q].session
      BY <1>1, <1>3, <3>1, <3>3 DEF Heard
    <3> QED BY <3>2, <3>4 DEF Move
  <2>5. ASSUME IsKeyed(p), conn'[p].peer = conn[q].session
        PROVE  Shakes(net'[p], conn[q].session)
    <3>1. Ordered(net[p], conn[q].session)
      BY <1>1, <2>1 DEF IInv, InOrder
    <3>2. SessionOf(Head(net[p])) = conn[q].session
      BY <1>1, <2>5, SessionOfPacket, TailFacts DEF IsKeyed
    <3> QED BY <1>1, <2>2, <2>5, <3>1, <3>2, OnlyShakes DEF IsKeyed
  <2> QED BY <1>1, <1>3, <2>3, <2>4, <2>5
<1> QED BY <1>1, <1>2, <1>3

-----------------------------------------------------------------------------
(* The actions.                                                            *)

\* What is sent or handled is still a sequence of packets, and not too many.
LEMMA NetTypes ==
  ASSUME TypeOK, NEW p \in Peers, NEW packet \in Packets
  PROVE  LET q == Other(p)
             Right == /\ net' \in [Peers -> Seq(Packets)]
                      /\ \A r \in Peers :
                           Len(net'[r]) + Len(net'[Other(r)]) <= MaxFlight
         IN /\ Send(p, packet) =>
                 /\ Right /\ net'[p] = net[p]
                 /\ net'[q] = net[q] \/ net'[q] = Append(net[q], packet)
            /\ net[p] # <<>> /\ Handled(p) =>
                 Right /\ net'[p] = Tail(net[p]) /\ net'[q] = net[q]
            /\ net[p] # <<>> /\ Answered(p, packet) =>
                 /\ Right /\ net'[p] = Tail(net[p])
                 /\ net'[q] = Append(net[q], packet)
<1> DEFINE q == Other(p)
           Right == /\ net' \in [Peers -> Seq(Packets)]
                    /\ Len(net'[p]) + Len(net'[q]) <= MaxFlight
<1>1. /\ q \in Peers /\ q # p /\ Other(q) = p
      /\ \A r \in Peers : r = p \/ r = q
  BY TwoPeers
<1>2. /\ net \in [Peers -> Seq(Packets)]
      /\ net[p] \in Seq(Packets) /\ net[q] \in Seq(Packets)
      /\ Len(net[p]) + Len(net[q]) <= MaxFlight
      /\ Len(net[p]) \in Nat /\ Len(net[q]) \in Nat
  BY <1>1, LenProperties DEF TypeOK
<1>3. Append(net[q], packet) \in Seq(Packets)
      /\ Len(Append(net[q], packet)) = Len(net[q]) + 1
  BY <1>2, AppendProperties
<1>4. net[p] # <<>> => /\ Tail(net[p]) \in Seq(Packets)
                       /\ Len(Tail(net[p])) = Len(net[p]) - 1
  BY <1>2, HeadTailProperties
<1>5. Right => \A r \in Peers :
                 Len(net'[r]) + Len(net'[Other(r)]) <= MaxFlight
  <2>1. ASSUME Right PROVE Len(net'[p]) \in Nat /\ Len(net'[q]) \in Nat
    BY <1>1, <2>1, LenProperties
  <2>2. ASSUME Right, NEW r \in Peers
        PROVE  Len(net'[r]) + Len(net'[Other(r)]) <= MaxFlight
    <3>1. r = p \/ (r = q /\ Other(r) = p)
      BY <1>1
    <3>2. CASE r = p
      BY <2>2, <3>2
    <3>3. CASE r = q /\ Other(r) = p
      BY <2>1, <2>2, <3>3
    <3> QED BY <3>1, <3>2, <3>3
  <2> QED BY <2>2
<1>6. ASSUME Send(p, packet)
      PROVE  /\ Right /\ net'[p] = net[p]
             /\ net'[q] = net[q] \/ net'[q] = Append(net[q], packet)
  <2>1. CASE Room
    <3>1. Len(net[p]) + Len(net[q]) < MaxFlight
      BY <2>1 DEF Room
    <3>2. net' = [net EXCEPT ![q] = Append(net[q], packet)]
      BY <1>6, <2>1 DEF Send
    <3>3. net'[p] = net[p] /\ net'[q] = Append(net[q], packet)
      BY <1>1, <1>2, <3>2
    <3>4. net' \in [Peers -> Seq(Packets)]
      BY <1>1, <1>2, <1>3, <3>2
    <3> QED BY <1>2, <1>3, <3>1, <3>3, <3>4, ConstantsAssumption
  <2>2. CASE ~ Room
    BY <1>1, <1>2, <1>6, <2>2 DEF Send
  <2> QED BY <2>1, <2>2
<1>7. ASSUME net[p] # <<>>, Handled(p)
      PROVE  Right /\ net'[p] = Tail(net[p]) /\ net'[q] = net[q]
  <2>1. net' = [net EXCEPT ![p] = Tail(net[p])]
    BY <1>7 DEF Handled
  <2>2. net'[p] = Tail(net[p]) /\ net'[q] = net[q]
    BY <1>1, <1>2, <2>1
  <2>3. net' \in [Peers -> Seq(Packets)]
    BY <1>1, <1>2, <1>4, <1>7, <2>1
  <2> QED BY <1>2, <1>4, <1>7, <2>2, <2>3, ConstantsAssumption
<1>8. ASSUME net[p] # <<>>, Answered(p, packet)
      PROVE  /\ Right /\ net'[p] = Tail(net[p])
             /\ net'[q] = Append(net[q], packet)
  <2>1. net'[p] = Tail(net[p]) /\ net'[q] = Append(net[q], packet)
    BY <1>1, <1>8 DEF Answered
  <2>2. net' \in [Peers -> Seq(Packets)]
    BY <1>1, <1>2, <1>3, <1>4, <1>8 DEF Answered
  <2> QED BY <1>2, <1>3, <1>4, <1>8, <2>1, <2>2, ConstantsAssumption
<1> QED BY <1>5, <1>6, <1>7, <1>8

\* What most steps leave alone keeps its type.
LEMMA Unchanged ==
  ASSUME IInv
  PROVE  /\ UNCHANGED <<boot, last, faults>> =>
              /\ boot' \in [Peers -> Boots] /\ last' \in Peers \cup {Nothing}
              /\ faults' \in 0..MaxFaults
         /\ UNCHANGED net =>
              /\ net' \in [Peers -> Seq(Packets)]
              /\ \A r \in Peers :
                   Len(net'[r]) + Len(net'[Other(r)]) <= MaxFlight
BY DEF IInv, TypeOK

\* What a step of one peer has to show.
LEMMA StepKeepsIInv ==
  ASSUME IInv, NEW p \in Peers, Move(p),
         NEW c \in Connections, conn' = [conn EXCEPT ![p] = c],
         NEW f \in {"confirmed", "online"}, friend' = [friend EXCEPT ![p] = f],
         Fine(c, f),
         boot' \in [Peers -> Boots], last' \in Peers \cup {Nothing},
         faults' \in 0..MaxFaults,
         net' \in [Peers -> Seq(Packets)],
         \A r \in Peers : Len(net'[r]) + Len(net'[Other(r)]) <= MaxFlight
  PROVE  IInv'
<1>1. TypeOK'
  BY DEF IInv, TypeOK, Move
<1>2. ConnOK'
  <2>1. ASSUME NEW r \in Peers PROVE Fine(conn'[r], friend'[r])
    <3>1. CASE r = p
      BY <3>1 DEF IInv, TypeOK
    <3>2. CASE r # p
      BY <3>2 DEF IInv, TypeOK, ConnOK
    <3> QED BY <3>1, <3>2
  <2> QED BY <2>1 DEF ConnOK, Fine, NoConnection, SessionOf
<1> QED BY <1>1, <1>2, MoveKeepsOrder, MoveKeepsHeard DEF IInv

\* The fields of a connection.
LEMMA ConnectionFacts ==
  ASSUME IInv, NEW p \in Peers
  PROVE  /\ conn[p] \in Connections /\ Fine(conn[p], friend[p])
         /\ conn[p].session \in Sessions \cup {0}
         /\ conn[p].temp \in {Nothing} \cup Packets
         /\ conn[p].tries \in 0..Tries
         /\ boot[p] \in Boots /\ friend[p] \in {"confirmed", "online"}
BY DEF IInv, TypeOK, ConnOK, Connections

\* The fields of a connection, one by one.
LEMMA Retyped ==
  ASSUME NEW c \in Connections
  PROVE  /\ \A v \in {"none", "requesting", "sent", "unconfirmed",
                      "established"} : [c EXCEPT !.status = v] \in Connections
         /\ \A v \in Sessions : [c EXCEPT !.session = v] \in Connections
         /\ \A v \in Sessions : [c EXCEPT !.peer = v] \in Connections
         /\ \A v \in Boots : [c EXCEPT !.key = v] \in Connections
         /\ \A v \in {Nothing} \cup Packets :
              [c EXCEPT !.temp = v] \in Connections
         /\ \A v \in 0..Tries : [c EXCEPT !.tries = v] \in Connections
         /\ [c EXCEPT !.killed = TRUE] \in Connections
<1>1. \A v \in Boots : v \in 0..MaxBoots
  BY ConstantsAssumption DEF Boots
<1>2. \A v \in Boots : [c EXCEPT !.key = v] \in Connections
  BY <1>1 DEF Connections
<1>3. \A v \in 0..Tries : [c EXCEPT !.tries = v] \in Connections
  BY DEF Connections
<1>4. \A v \in {Nothing} \cup Packets : [c EXCEPT !.temp = v] \in Connections
  BY DEF Connections
<1>5. /\ \A v \in Sessions : [c EXCEPT !.session = v] \in Connections
      /\ \A v \in Sessions : [c EXCEPT !.peer = v] \in Connections
  BY DEF Connections
<1>6. [c EXCEPT !.killed = TRUE] \in Connections
  BY DEF Connections
<1>7. \A v \in {"none", "requesting", "sent", "unconfirmed", "established"} :
        [c EXCEPT !.status = v] \in Connections
  BY DEF Connections
<1> QED BY <1>2, <1>3, <1>4, <1>5, <1>6, <1>7

\* Who has no connection is not online.
LEMMA NoConnectionFacts ==
  /\ NoConnection \in Connections /\ Fine(NoConnection, "confirmed")
  /\ NoConnection.status = "none" /\ NoConnection.temp = Nothing
BY ConstantsAssumption DEF NoConnection, Connections, Fine

\* The two peers start with no connection and nothing on its way.
LEMMA InitIInv == ASSUME Init PROVE IInv
<1>1. /\ conn \in [Peers -> Connections]
      /\ \A p \in Peers : conn[p] = NoConnection
  BY NoConnectionFacts DEF Init
<1>2. net \in [Peers -> Seq(Packets)] /\ \A p \in Peers : net[p] = <<>>
  BY EmptySeq DEF Init
<1>3. Len(<<>>) = 0
  BY EmptySeq
<1>4. \A p \in Peers : Len(net[p]) + Len(net[Other(p)]) <= MaxFlight
  BY <1>2, <1>3, TwoPeers, ConstantsAssumption
<1>5. boot \in [Peers -> Boots] /\ faults \in 0..MaxFaults
  BY ConstantsAssumption DEF Init, Boots
<1>6. TypeOK
  BY <1>1, <1>2, <1>4, <1>5 DEF Init, TypeOK
<1>7. ConnOK
  BY <1>1, NoConnectionFacts DEF Init, ConnOK
<1>8. InOrder /\ HeardOK
  BY <1>1, TwoPeers, NoConnectionFacts DEF InOrder, HeardOK, Heard
<1> QED BY <1>6, <1>7, <1>8 DEF IInv

\* A new connection has a session that nothing refers to.
LEMMA NewConnectionKeepsIInv ==
  ASSUME IInv, NEW p \in Peers, NewConnection(p) PROVE IInv' /\ Move(p)
<1> DEFINE c == [NoConnection EXCEPT !.status = "requesting",
                                     !.session = FreshSession(p)]
<1>1. FreshSession(p) \in Sessions
  BY FreshFacts DEF IInv
<1>2. /\ c \in Connections /\ c.status = "requesting" /\ c.temp = Nothing
      /\ c.session = FreshSession(p)
  <2>1. [NoConnection EXCEPT !.status = "requesting"] \in Connections
    BY NoConnectionFacts, Retyped
  <2>2. c \in Connections
    BY <1>1, <2>1, Retyped
  <2> QED BY <2>2, NoConnectionFacts DEF Connections
<1>3. Fine(c, "confirmed")
  BY <1>1, <1>2 DEF Fine
<1>4. conn' = [conn EXCEPT ![p] = c]
  BY DEF NewConnection
<1>5. friend' = [friend EXCEPT ![p] = "confirmed"]
  BY DEF NewConnection, IInv, TypeOK
<1> HIDE DEF c
<1>6. Move(p)
  BY <1>2, <1>4, <1>5, TwoPeers
     DEF NewConnection, IInv, TypeOK, Move, SendsRightly, Ready
<1> QED BY <1>2, <1>3, <1>4, <1>5, <1>6, Unchanged, StepKeepsIInv
        DEF NewConnection

\* A cookie request is one of the present session.
LEMMA LearnKeyKeepsIInv ==
  ASSUME IInv, NEW p \in Peers, LearnKey(p) PROVE IInv' /\ Move(p)
<1> DEFINE key == boot[Other(p)]
           asked == Request(conn[p].session, key)
           c == IF conn[p].status = "requesting"
                THEN [conn[p] EXCEPT !.key = key, !.tries = 0, !.temp = asked]
                ELSE [conn[p] EXCEPT !.key = key]
<1>1. conn[p].session \in Sessions /\ key \in Boots /\ 0 \in 0..Tries
  BY TwoPeers, ConnectionFacts, ConstantsAssumption DEF LearnKey, Fine
<1>2. /\ asked \in Packets /\ asked.kind = "request"
      /\ SessionOf(asked) = conn[p].session
  BY <1>1 DEF Request, Packets, SessionOf
<1> HIDE DEF key, asked
<1>3. /\ c \in Connections /\ c.status = conn[p].status
      /\ c.session = conn[p].session /\ c.peer = conn[p].peer
      /\ c.temp = conn[p].temp \/ (c.temp = asked /\ c.status = "requesting")
  <2>1. [conn[p] EXCEPT !.key = key] \in Connections
    BY <1>1, ConnectionFacts, Retyped
  <2>2. [[conn[p] EXCEPT !.key = key] EXCEPT !.tries = 0] \in Connections
    BY <1>1, <2>1, Retyped
  <2>3. [[[conn[p] EXCEPT !.key = key]
                    EXCEPT !.tries = 0] EXCEPT !.temp = asked] \in Connections
    BY <1>2, <2>2, Retyped
  <2>4. c \in Connections
    BY <2>1, <2>3
  <2> QED BY <2>4, ConnectionFacts DEF Connections
<1>4. conn' = [conn EXCEPT ![p] = c]
  BY DEF LearnKey, key, asked
<1>5. friend' = [friend EXCEPT ![p] = friend[p]]
  BY DEF LearnKey, IInv, TypeOK
<1> HIDE DEF c
<1>6. Fine(c, friend[p])
  BY <1>1, <1>2, <1>3, ConnectionFacts DEF Fine, LearnKey
<1>7. Move(p)
  BY <1>3, <1>4, <1>5, TwoPeers
     DEF LearnKey, IInv, TypeOK, Move, SendsRightly, Ready
<1>8. UNCHANGED <<boot, last, net, faults>>
  BY DEF LearnKey
<1>9. friend[p] \in {"confirmed", "online"}
  BY ConnectionFacts
<1> QED BY <1>3, <1>4, <1>5, <1>6, <1>7, <1>8, <1>9, Unchanged, StepKeepsIInv

\* A step that leaves the connection and the status of p alone.
LEMMA IdleKeepsIInv ==
  ASSUME IInv, NEW p \in Peers, UNCHANGED <<conn, friend, boot, last, stale>>,
         faults' \in 0..MaxFaults,
         net' \in [Peers -> Seq(Packets)],
         \A r \in Peers : Len(net'[r]) + Len(net'[Other(r)]) <= MaxFlight,
         net'[p] = net[p] \/ (net[p] # <<>> /\ net'[p] = Tail(net[p])),
         SendsRightly(p)
  PROVE  IInv' /\ Move(p)
<1>1. Move(p)
  BY ConnectionFacts DEF Move, Ready, Fine, NoConnection
<1>2. conn' = [conn EXCEPT ![p] = conn[p]]
  BY DEF IInv, TypeOK
<1>3. friend' = [friend EXCEPT ![p] = friend[p]]
  BY DEF IInv, TypeOK
<1>4. boot' \in [Peers -> Boots] /\ last' \in Peers \cup {Nothing}
  BY DEF IInv, TypeOK
<1>5. /\ conn[p] \in Connections /\ Fine(conn[p], friend[p])
      /\ friend[p] \in {"confirmed", "online"}
  BY ConnectionFacts
<1> QED BY <1>1, <1>2, <1>3, <1>4, <1>5, StepKeepsIInv

-----------------------------------------------------------------------------
(* Sending what is repeated, and data.                                     *)

\* A step that changes the connection of p but not its status.
LEMMA SameStatusKeepsIInv ==
  ASSUME IInv, NEW p \in Peers, Move(p), friend' = friend,
         NEW c \in Connections, conn' = [conn EXCEPT ![p] = c],
         Fine(c, friend[p]),
         boot' \in [Peers -> Boots], last' \in Peers \cup {Nothing},
         faults' \in 0..MaxFaults,
         net' \in [Peers -> Seq(Packets)],
         \A r \in Peers : Len(net'[r]) + Len(net'[Other(r)]) <= MaxFlight
  PROVE  IInv'
<1>1. friend' = [friend EXCEPT ![p] = friend[p]]
  BY DEF IInv, TypeOK
<1>2. friend[p] \in {"confirmed", "online"}
  BY ConnectionFacts
<1> QED BY <1>1, <1>2, StepKeepsIInv

\* What is repeated is a packet of the present session.
LEMMA SendTempFacts ==
  ASSUME IInv, NEW p \in Peers, conn[p].temp # Nothing, Send(p, conn[p].temp),
         NEW t \in 0..Tries, conn' = [conn EXCEPT ![p].tries = t],
         UNCHANGED <<friend, boot, stale>>, last' \in Peers \cup {Nothing},
         faults' \in 0..MaxFaults
  PROVE  IInv' /\ Move(p)
<1> DEFINE c == [conn[p] EXCEPT !.tries = t]
           packet == conn[p].temp
<1>1. packet \in Packets /\ Fine(conn[p], friend[p])
  BY ConnectionFacts
<1>2. /\ c \in Connections /\ c.status = conn[p].status
      /\ c.session = conn[p].session /\ c.peer = conn[p].peer
      /\ c.temp = conn[p].temp
  <2>1. conn[p] \in Connections
    BY ConnectionFacts
  <2>2. c \in Connections
    BY <2>1, Retyped
  <2> QED BY <2>1, <2>2 DEF Connections
<1>3. conn' = [conn EXCEPT ![p] = c]
  OBVIOUS
<1>4. friend' = [friend EXCEPT ![p] = friend[p]]
  BY DEF IInv, TypeOK
<1>5. /\ net' \in [Peers -> Seq(Packets)]
      /\ \A r \in Peers : Len(net'[r]) + Len(net'[Other(r)]) <= MaxFlight
      /\ net'[p] = net[p]
      /\ \/ net'[Other(p)] = net[Other(p)]
         \/ net'[Other(p)] = Append(net[Other(p)], packet)
  BY <1>1, NetTypes DEF IInv
<1> HIDE DEF c, packet
<1>6. /\ conn'[p] = c /\ conn'[Other(p)] = conn[Other(p)]
      /\ friend'[Other(p)] = friend[Other(p)]
  BY <1>3, <1>4, TwoPeers DEF IInv, TypeOK
<1>7. Fine(c, friend[p]) /\ c.status # "none"
  BY <1>1, <1>2, NoConnectionFacts DEF Fine
<1>8. /\ packet.kind \in {"request", "handshake"}
      /\ SessionOf(packet) = c.session
      /\ packet.kind = "handshake" => packet.session = c.session
  BY <1>1, <1>2, SessionOfPacket DEF Fine, packet
<1>9. SendsRightly(p)
  BY <1>1, <1>5, <1>6, <1>7, <1>8 DEF SendsRightly
<1>10. Move(p)
  BY <1>2, <1>5, <1>6, <1>7, <1>9 DEF Move, Ready
<1>11. boot' \in [Peers -> Boots] /\ friend[p] \in {"confirmed", "online"}
  BY ConnectionFacts DEF IInv, TypeOK
<1>12. IInv'
  BY <1>2, <1>3, <1>4, <1>5, <1>7, <1>10, <1>11, SameStatusKeepsIInv
<1> QED BY <1>10, <1>12

\* The first time, at once.
LEMMA SendTempKeepsIInv ==
  ASSUME IInv, NEW p \in Peers, SendTemp(p) PROVE IInv' /\ Move(p)
<1>1. /\ conn[p].temp # Nothing /\ Send(p, conn[p].temp)
      /\ conn' = [conn EXCEPT ![p].tries = 1]
      /\ UNCHANGED <<friend, boot, last, faults, stale>>
  BY DEF SendTemp
<1>2. 1 \in 0..Tries
  BY ConstantsAssumption
<1> QED BY <1>1, <1>2, SendTempFacts, Unchanged

\* Every half second, up to the number of tries.
LEMMA SendTempAgainKeepsIInv ==
  ASSUME IInv, NEW p \in Peers, SendTempAgain(p) PROVE IInv' /\ Move(p)
<1>1. /\ conn[p].temp # Nothing /\ Send(p, conn[p].temp)
      /\ conn' = [conn EXCEPT ![p].tries = conn[p].tries + 1]
      /\ UNCHANGED <<friend, boot, stale>>
      /\ last' \in Peers \cup {Nothing}
  BY DEF SendTempAgain
<1>2. conn[p].tries + 1 \in 0..Tries
  BY ConstantsAssumption DEF SendTempAgain
<1>3. faults' \in 0..MaxFaults
  BY ConstantsAssumption DEF SendTempAgain, Fault, IInv, TypeOK
<1> QED BY <1>1, <1>2, <1>3, SendTempFacts

\* Data goes to who has the keys of both sessions.
LEMMA SendDataKeepsIInv ==
  ASSUME IInv, NEW p \in Peers, SendData(p) PROVE IInv' /\ Move(p)
<1> DEFINE packet == Message(p, "data")
<1>1. Ready(p) /\ conn[p].status # "none"
  BY DEF SendData, Ready
<1>2. conn[p].session \in Sessions /\ conn[p].peer \in Sessions
  BY <1>1, ConnectionFacts DEF Ready, Fine
<1>3. /\ packet \in Packets /\ packet.kind = "data"
      /\ SessionOf(packet) = conn[p].session /\ packet.to = conn[p].peer
  BY <1>2 DEF Message, Packets, SessionOf
<1>4. /\ net' \in [Peers -> Seq(Packets)]
      /\ \A r \in Peers : Len(net'[r]) + Len(net'[Other(r)]) <= MaxFlight
      /\ net'[p] = net[p]
      /\ \/ net'[Other(p)] = net[Other(p)]
         \/ net'[Other(p)] = Append(net[Other(p)], packet)
  BY <1>3, NetTypes DEF IInv, SendData
<1>5. UNCHANGED <<conn, friend, boot, last, faults, stale>>
  BY DEF SendData
<1> HIDE DEF packet
<1>6. SendsRightly(p)
  BY <1>1, <1>3, <1>4, <1>5 DEF SendsRightly
<1> QED BY <1>4, <1>5, <1>6, Unchanged, IdleKeepsIInv

-----------------------------------------------------------------------------
(* Ending a connection.                                                    *)

\* What p leaves behind belongs to no session of p any more.
LEMMA EndKeepsIInv ==
  ASSUME IInv, NEW p \in Peers, conn' = [conn EXCEPT ![p] = NoConnection],
         friend' = [friend EXCEPT ![p] = "confirmed"], UNCHANGED stale,
         \/ UNCHANGED net
         \/ conn[p].status = "established" /\ Send(p, Message(p, "kill")),
         boot' \in [Peers -> Boots], last' \in Peers \cup {Nothing},
         faults' \in 0..MaxFaults
  PROVE  IInv' /\ Move(p)
<1> DEFINE packet == Message(p, "kill")
<1>1. /\ conn'[p].status = "none" /\ conn'[Other(p)] = conn[Other(p)]
      /\ friend'[Other(p)] = friend[Other(p)]
  BY TwoPeers, NoConnectionFacts DEF IInv, TypeOK
<1>2. /\ net' \in [Peers -> Seq(Packets)] /\ net'[p] = net[p]
      /\ \A r \in Peers : Len(net'[r]) + Len(net'[Other(r)]) <= MaxFlight
      /\ SendsRightly(p)
  <2>1. CASE UNCHANGED net
    BY <2>1, Unchanged DEF SendsRightly
  <2>2. CASE conn[p].status = "established" /\ Send(p, packet)
    <3>1. conn[p].session \in Sessions /\ conn[p].peer \in Sessions
      BY <2>2, ConnectionFacts DEF Fine
    <3>2. packet \in Packets /\ packet.kind = "kill"
      BY <3>1 DEF Message, Packets
    <3>3. /\ net' \in [Peers -> Seq(Packets)] /\ net'[p] = net[p]
          /\ \A r \in Peers : Len(net'[r]) + Len(net'[Other(r)]) <= MaxFlight
          /\ \/ net'[Other(p)] = net[Other(p)]
             \/ net'[Other(p)] = Append(net[Other(p)], packet)
      BY <2>2, <3>2, NetTypes DEF IInv
    <3> HIDE DEF packet
    <3> QED BY <1>1, <3>2, <3>3 DEF SendsRightly
  <2> QED BY <2>1, <2>2
<1>3. Move(p)
  BY <1>1, <1>2 DEF Move, Ready
<1> QED BY <1>2, <1>3, NoConnectionFacts, StepKeepsIInv

\* Nothing is left of a connection that is killed, and the friend is offline.
LEMMA KillFacts ==
  ASSUME IInv, NEW p \in Peers, Kill(p), Offline(p)
  PROVE  /\ conn' = [conn EXCEPT ![p] = NoConnection]
         /\ friend' = [friend EXCEPT ![p] = "confirmed"]
         /\ \/ UNCHANGED net
            \/ conn[p].status = "established" /\ Send(p, Message(p, "kill"))
<1>1. friend \in [Peers -> {"confirmed", "online"}]
  BY DEF IInv, TypeOK
<1> QED BY <1>1 DEF Kill, Offline

\* A kill packet of the other peer ends a connection.
LEMMA KillKilledKeepsIInv ==
  ASSUME IInv, NEW p \in Peers, KillKilled(p) PROVE IInv' /\ Move(p)
<1>1. Kill(p) /\ Offline(p) /\ UNCHANGED <<boot, last, stale>>
  BY DEF KillKilled
<1>2. boot' \in [Peers -> Boots] /\ last' \in Peers \cup {Nothing}
  BY <1>1 DEF IInv, TypeOK
<1>3. faults' \in 0..MaxFaults
  BY ConstantsAssumption DEF KillKilled, Fault, IInv, TypeOK
<1> QED BY <1>1, <1>2, <1>3, KillFacts, EndKeepsIInv

\* So does the last try,
LEMMA KillTimedoutKeepsIInv ==
  ASSUME IInv, NEW p \in Peers, KillTimedout(p) PROVE IInv' /\ Move(p)
<1>1. Kill(p) /\ Offline(p) /\ UNCHANGED <<boot, last, stale>>
  BY DEF KillTimedout
<1>2. boot' \in [Peers -> Boots] /\ last' \in Peers \cup {Nothing}
  BY <1>1 DEF IInv, TypeOK
<1>3. faults' \in 0..MaxFaults
  BY ConstantsAssumption DEF KillTimedout, Fault, IInv, TypeOK
<1> QED BY <1>1, <1>2, <1>3, KillFacts, EndKeepsIInv

\* the silence of the other peer,
LEMMA PingTimeoutKeepsIInv ==
  ASSUME IInv, NEW p \in Peers, PingTimeout(p) PROVE IInv' /\ Move(p)
<1>1. Kill(p) /\ Offline(p) /\ UNCHANGED <<boot, last, stale>>
  BY DEF PingTimeout
<1>2. boot' \in [Peers -> Boots] /\ last' \in Peers \cup {Nothing}
  BY <1>1 DEF IInv, TypeOK
<1>3. faults' \in 0..MaxFaults
  BY ConstantsAssumption DEF PingTimeout, Fault, IInv, TypeOK
<1> QED BY <1>1, <1>2, <1>3, KillFacts, EndKeepsIInv

\* and the end of the program.
LEMMA RestartKeepsIInv ==
  ASSUME IInv, NEW p \in Peers, Restart(p) PROVE IInv' /\ Move(p)
<1>1. /\ conn' = [conn EXCEPT ![p] = NoConnection]
      /\ friend' = [friend EXCEPT ![p] = "confirmed"]
      /\ UNCHANGED <<last, net, stale>>
  BY DEF Restart
<1>2. boot[p] \in Boots /\ boot[p] < MaxBoots
      /\ boot' = [boot EXCEPT ![p] = boot[p] + 1]
  BY ConnectionFacts DEF Restart
<1>3. boot[p] + 1 \in Boots
  BY <1>2, ConstantsAssumption DEF Boots
<1>4. boot' \in [Peers -> Boots] /\ last' \in Peers \cup {Nothing}
  BY <1>1, <1>2, <1>3 DEF IInv, TypeOK
<1>5. faults' \in 0..MaxFaults
  BY ConstantsAssumption DEF Restart, Fault, IInv, TypeOK
<1> QED BY <1>1, <1>4, <1>5, EndKeepsIInv

-----------------------------------------------------------------------------
(* Receiving a packet.                                                     *)

\* The fields of a packet.
LEMMA PacketFacts ==
  ASSUME NEW packet \in Packets
  PROVE  /\ packet.kind \in {"request", "response"} =>
              packet.number \in Sessions /\ packet.key \in Boots
         /\ packet.kind = "response" => packet.cookie \in Boots
         /\ packet.kind = "handshake" =>
              /\ packet.session \in Sessions /\ packet.boot \in Boots
              /\ packet.cookie \in Boots
BY DEF Packets

\* A handshake is one of its session.
LEMMA HandshakeFacts ==
  ASSUME IInv, NEW p \in Peers, NEW session \in Sessions, NEW cookie \in Boots
  PROVE  /\ Handshake(p, session, cookie) \in Packets
         /\ Handshake(p, session, cookie).kind = "handshake"
         /\ Handshake(p, session, cookie).session = session
         /\ SessionOf(Handshake(p, session, cookie)) = session
<1>1. boot[p] \in Boots
  BY ConnectionFacts
<1> QED BY <1>1 DEF Handshake, Packets, SessionOf

\* What create_send_handshake changes of a connection.
LEMMA WithHandshakeFacts ==
  ASSUME IInv, NEW p \in Peers, NEW c \in Connections, c.session \in Sessions,
         NEW cookie \in Boots
  PROVE  LET d == WithHandshake(p, c, cookie)
         IN /\ d \in Connections /\ d.status = c.status
            /\ d.session = c.session /\ d.peer = c.peer
            /\ d.temp = Handshake(p, c.session, cookie)
<1> DEFINE shake == Handshake(p, c.session, cookie)
<1>1. shake \in {Nothing} \cup Packets
  BY HandshakeFacts
<1> HIDE DEF shake
<1>2. [c EXCEPT !.temp = shake] \in Connections
  BY <1>1, Retyped
<1>3. 1 \in 0..Tries
  BY ConstantsAssumption
<1>4. [[c EXCEPT !.temp = shake] EXCEPT !.tries = 1] \in Connections
  BY <1>2, <1>3, Retyped
<1>5. WithHandshake(p, c, cookie) = [c EXCEPT !.temp = shake, !.tries = 1]
  BY DEF WithHandshake, shake
<1> QED BY <1>4, <1>5 DEF Connections, shake

\* What the handshake of the other peer changes of a connection.
LEMMA KeyedFacts ==
  ASSUME NEW c \in Connections, NEW packet \in Packets,
         packet.kind = "handshake"
  PROVE  LET d == Keyed(c, packet)
         IN /\ d \in Connections /\ d.status = "unconfirmed"
            /\ d.session = c.session /\ d.peer = packet.session
            /\ d.temp = c.temp
<1>1. packet.session \in Sessions /\ packet.boot \in Boots
  BY PacketFacts
<1>2. [c EXCEPT !.status = "unconfirmed"] \in Connections
  BY Retyped
<1>3. [[c EXCEPT !.status = "unconfirmed"] EXCEPT !.peer = packet.session]
        \in Connections
  BY <1>1, <1>2, Retyped
<1>4. Keyed(c, packet) \in Connections
  BY <1>1, <1>3, Retyped DEF Keyed
<1> QED BY <1>4 DEF Keyed, Connections

\* The first packet on its way is one, and what its receipt leaves alone.
LEMMA FirstPacket ==
  ASSUME IInv, NEW p \in Peers, net[p] # <<>>
  PROVE  Head(net[p]) \in Packets
BY HeadTailProperties DEF IInv, TypeOK

\* A request is answered, whatever connection there is.
LEMMA OnRequestKeepsIInv ==
  ASSUME IInv, NEW p \in Peers, net[p] # <<>>, OnRequest(p, Head(net[p])),
         UNCHANGED <<boot, last, faults, stale>>
  PROVE  IInv' /\ Move(p)
<1> DEFINE packet == Head(net[p])
           answer == [kind |-> "response", number |-> packet.number,
                      key |-> packet.key, cookie |-> boot[p]]
<1>1. answer \in Packets /\ answer.kind = "response" /\ SessionOf(answer) = 0
  <2>1. packet.number \in Sessions /\ packet.key \in Boots
    BY FirstPacket, PacketFacts DEF OnRequest
  <2>2. boot[p] \in Boots
    BY ConnectionFacts
  <2> QED BY <2>1, <2>2 DEF Packets, SessionOf
<1>2. Answered(p, answer) /\ UNCHANGED <<conn, friend>>
  BY DEF OnRequest
<1> HIDE DEF answer
<1>3. /\ net' \in [Peers -> Seq(Packets)]
      /\ \A r \in Peers : Len(net'[r]) + Len(net'[Other(r)]) <= MaxFlight
      /\ net'[p] = Tail(net[p])
      /\ net'[Other(p)] = Append(net[Other(p)], answer)
  BY <1>1, <1>2, NetTypes DEF IInv
<1>4. SendsRightly(p)
  BY <1>1, <1>3 DEF SendsRightly
<1> QED BY <1>2, <1>3, <1>4, Unchanged, IdleKeepsIInv

\* Who has the cookie sends a handshake of the session it asked for.
LEMMA OnResponseKeepsIInv ==
  ASSUME IInv, NEW p \in Peers, net[p] # <<>>, OnResponse(p, Head(net[p])),
         UNCHANGED <<boot, last, faults, stale>>
  PROVE  IInv' /\ Move(p)
<1> DEFINE packet == Head(net[p])
           b == [conn[p] EXCEPT !.status = "sent"]
           c == WithHandshake(p, b, packet.cookie)
           answer == Handshake(p, b.session, packet.cookie)
<1>1. conn[p].status = "requesting" /\ packet.cookie \in Boots
  BY FirstPacket, PacketFacts DEF OnResponse, Expected
<1>2. conn[p] \in Connections /\ Fine(conn[p], friend[p])
      /\ conn[p].session \in Sessions
  BY <1>1, ConnectionFacts DEF Fine
<1>3. /\ b \in Connections /\ b.status = "sent"
      /\ b.session = conn[p].session
  BY <1>2, Retyped DEF Connections
<1>4. conn' = [conn EXCEPT ![p] = c] /\ Answered(p, answer) /\ UNCHANGED friend
  BY DEF OnResponse
<1> HIDE DEF b
<1>5. /\ c \in Connections /\ c.status = "sent"
      /\ c.session = conn[p].session /\ c.temp = answer
  BY <1>1, <1>2, <1>3, WithHandshakeFacts
<1>6. /\ answer \in Packets /\ answer.kind = "handshake"
      /\ answer.session = c.session /\ SessionOf(answer) = c.session
  BY <1>1, <1>2, <1>3, <1>5, HandshakeFacts
<1> HIDE DEF c, answer
<1>7. Fine(c, friend[p]) /\ friend[p] \in {"confirmed", "online"}
  BY <1>1, <1>2, <1>5, <1>6, ConnectionFacts DEF Fine
<1>8. /\ net' \in [Peers -> Seq(Packets)]
      /\ \A r \in Peers : Len(net'[r]) + Len(net'[Other(r)]) <= MaxFlight
      /\ net'[p] = Tail(net[p])
      /\ net'[Other(p)] = Append(net[Other(p)], answer)
  BY <1>4, <1>6, NetTypes DEF IInv
<1>9. /\ conn'[p] = c /\ conn'[Other(p)] = conn[Other(p)]
      /\ friend'[Other(p)] = friend[Other(p)]
  BY <1>4, TwoPeers DEF IInv, TypeOK
<1>10. SendsRightly(p)
  BY <1>5, <1>6, <1>8, <1>9 DEF SendsRightly
<1>11. Move(p)
  BY <1>1, <1>5, <1>8, <1>9, <1>10 DEF Move, Ready
<1>12. friend' = [friend EXCEPT ![p] = friend[p]]
  BY <1>4 DEF IInv, TypeOK
<1> QED BY <1>4, <1>5, <1>7, <1>8, <1>11, <1>12, Unchanged, StepKeepsIInv

\* Who is told the session of the other peer tells it its own.
LEMMA OnHandshakeKeepsIInv ==
  ASSUME IInv, NEW p \in Peers, net[p] # <<>>, OnHandshake(p, Head(net[p])),
         UNCHANGED <<boot, last, faults, stale>>
  PROVE  IInv' /\ Move(p)
<1> DEFINE packet == Head(net[p])
           b == Keyed(conn[p], packet)
           c == WithHandshake(p, b, packet.boot)
           answer == Handshake(p, b.session, packet.boot)
<1>1. /\ conn[p].status \in {"requesting", "sent"}
      /\ packet \in Packets /\ packet.kind = "handshake"
      /\ packet.boot \in Boots /\ packet.session \in Sessions
  BY FirstPacket, PacketFacts DEF OnHandshake, Valid
<1>2. conn[p] \in Connections /\ Fine(conn[p], friend[p])
      /\ conn[p].session \in Sessions
  BY <1>1, ConnectionFacts DEF Fine
<1>3. /\ b \in Connections /\ b.status = "unconfirmed"
      /\ b.session = conn[p].session /\ b.peer = packet.session
  BY <1>1, <1>2, KeyedFacts
<1>4. conn' = [conn EXCEPT ![p] = c] /\ Answered(p, answer) /\ UNCHANGED friend
  BY <1>3 DEF OnHandshake
<1> HIDE DEF b
<1>5. /\ c \in Connections /\ c.status = "unconfirmed"
      /\ c.session = conn[p].session /\ c.temp = answer
      /\ c.peer = packet.session
  BY <1>1, <1>2, <1>3, WithHandshakeFacts
<1>6. /\ answer \in Packets /\ answer.kind = "handshake"
      /\ answer.session = c.session /\ SessionOf(answer) = c.session
  BY <1>1, <1>2, <1>3, <1>5, HandshakeFacts
<1> HIDE DEF c, answer
<1>7. Fine(c, friend[p]) /\ friend[p] \in {"confirmed", "online"}
  BY <1>1, <1>2, <1>5, <1>6, ConnectionFacts DEF Fine
<1>8. /\ net' \in [Peers -> Seq(Packets)]
      /\ \A r \in Peers : Len(net'[r]) + Len(net'[Other(r)]) <= MaxFlight
      /\ net'[p] = Tail(net[p])
      /\ net'[Other(p)] = Append(net[Other(p)], answer)
  BY <1>4, <1>6, NetTypes DEF IInv
<1>9. /\ conn'[p] = c /\ conn'[Other(p)] = conn[Other(p)]
      /\ friend'[Other(p)] = friend[Other(p)]
  BY <1>4, TwoPeers DEF IInv, TypeOK
<1>10. SendsRightly(p)
  BY <1>5, <1>6, <1>8, <1>9 DEF SendsRightly
<1>11. Move(p)
  BY <1>1, <1>5, <1>8, <1>9, <1>10 DEF Move, IsKeyed
<1>12. friend' = [friend EXCEPT ![p] = friend[p]]
  BY <1>4 DEF IInv, TypeOK
<1> QED BY <1>4, <1>5, <1>7, <1>8, <1>11, <1>12, Unchanged, StepKeepsIInv

\* The same without an answer.
LEMMA OnHandshakeAgainKeepsIInv ==
  ASSUME IInv, NEW p \in Peers, net[p] # <<>>,
         OnHandshakeAgain(p, Head(net[p])),
         UNCHANGED <<boot, last, faults, stale>>
  PROVE  IInv' /\ Move(p)
<1> DEFINE packet == Head(net[p])
           c == Keyed(conn[p], packet)
<1>1. /\ conn[p].status \in {"sent", "unconfirmed"}
      /\ packet \in Packets /\ packet.kind = "handshake"
      /\ packet.session \in Sessions
  BY FirstPacket, PacketFacts DEF OnHandshakeAgain, Valid
<1>2. conn[p] \in Connections /\ Fine(conn[p], friend[p])
      /\ conn[p].session \in Sessions
  BY <1>1, ConnectionFacts DEF Fine
<1>3. /\ c \in Connections /\ c.status = "unconfirmed"
      /\ c.session = conn[p].session /\ c.peer = packet.session
      /\ c.temp = conn[p].temp
  BY <1>1, <1>2, KeyedFacts
<1>4. conn' = [conn EXCEPT ![p] = c] /\ Handled(p) /\ UNCHANGED friend
  BY DEF OnHandshakeAgain
<1> HIDE DEF c
<1>5. Fine(c, friend[p]) /\ friend[p] \in {"confirmed", "online"}
  BY <1>1, <1>2, <1>3, ConnectionFacts DEF Fine
<1>6. /\ net' \in [Peers -> Seq(Packets)]
      /\ \A r \in Peers : Len(net'[r]) + Len(net'[Other(r)]) <= MaxFlight
      /\ net'[p] = Tail(net[p]) /\ net'[Other(p)] = net[Other(p)]
  BY <1>1, <1>4, NetTypes DEF IInv
<1>7. /\ conn'[p] = c /\ conn'[Other(p)] = conn[Other(p)]
      /\ friend'[Other(p)] = friend[Other(p)]
  BY <1>4, TwoPeers DEF IInv, TypeOK
<1>8. Move(p)
  BY <1>1, <1>3, <1>6, <1>7 DEF Move, IsKeyed, SendsRightly
<1>9. friend' = [friend EXCEPT ![p] = friend[p]]
  BY <1>4 DEF IInv, TypeOK
<1> QED BY <1>3, <1>4, <1>5, <1>6, <1>8, <1>9, Unchanged, StepKeepsIInv

\* A connection that p accepts has a session that nothing refers to.
LEMMA OnHandshakeNewKeepsIInv ==
  ASSUME IInv, NEW p \in Peers, net[p] # <<>>, OnHandshakeNew(p, Head(net[p])),
         UNCHANGED <<boot, last, faults, stale>>
  PROVE  IInv' /\ Move(p)
<1> DEFINE packet == Head(net[p])
           a == [NoConnection EXCEPT !.session = FreshSession(p)]
           b == Keyed(a, packet)
           c == WithHandshake(p, b, packet.boot)
           answer == Handshake(p, b.session, packet.boot)
<1>1. /\ conn[p].status = "none" /\ FreshSession(p) \in Sessions
      /\ packet \in Packets /\ packet.kind = "handshake"
      /\ packet.boot \in Boots /\ packet.session \in Sessions
  BY FirstPacket, PacketFacts, FreshFacts DEF OnHandshakeNew, Valid, IInv
<1>2. a \in Connections /\ a.session = FreshSession(p)
  <2>1. a \in Connections
    BY <1>1, NoConnectionFacts, Retyped
  <2> QED BY <2>1, NoConnectionFacts DEF Connections
<1>3. /\ conn' = [conn EXCEPT ![p] = c] /\ Answered(p, answer)
      /\ friend' = [friend EXCEPT ![p] = "confirmed"]
  BY DEF OnHandshakeNew
<1> HIDE DEF a
<1>4. /\ b \in Connections /\ b.status = "unconfirmed"
      /\ b.session = FreshSession(p) /\ b.peer = packet.session
  BY <1>1, <1>2, KeyedFacts
<1> HIDE DEF b
<1>5. /\ c \in Connections /\ c.status = "unconfirmed"
      /\ c.session = FreshSession(p) /\ c.temp = answer
      /\ c.peer = packet.session
  BY <1>1, <1>4, WithHandshakeFacts
<1>6. /\ answer \in Packets /\ answer.kind = "handshake"
      /\ answer.session = c.session /\ SessionOf(answer) = c.session
  BY <1>1, <1>4, <1>5, HandshakeFacts
<1> HIDE DEF c, answer
<1>7. Fine(c, "confirmed")
  BY <1>1, <1>5, <1>6 DEF Fine
<1>8. /\ net' \in [Peers -> Seq(Packets)]
      /\ \A r \in Peers : Len(net'[r]) + Len(net'[Other(r)]) <= MaxFlight
      /\ net'[p] = Tail(net[p])
      /\ net'[Other(p)] = Append(net[Other(p)], answer)
  BY <1>3, <1>6, NetTypes DEF IInv
<1>9. /\ conn'[p] = c /\ conn'[Other(p)] = conn[Other(p)]
      /\ friend'[Other(p)] = friend[Other(p)]
  BY <1>3, TwoPeers DEF IInv, TypeOK
<1>10. SendsRightly(p)
  BY <1>5, <1>6, <1>8, <1>9 DEF SendsRightly
<1>11. Move(p)
  BY <1>1, <1>5, <1>8, <1>9, <1>10 DEF Move, IsKeyed
<1> QED BY <1>3, <1>5, <1>7, <1>8, <1>11, Unchanged, StepKeepsIInv

\* Who gives p data has the present session of p.
LEMMA OnDataKeepsIInv ==
  ASSUME IInv, NEW p \in Peers, net[p] # <<>>, OnData(p, Head(net[p])),
         UNCHANGED <<boot, last, faults, stale>>
  PROVE  IInv' /\ Move(p)
<1> DEFINE packet == Head(net[p])
           c == [conn[p] EXCEPT !.status = "established", !.temp = Nothing,
                                !.tries = 0]
<1>1. /\ packet \in Packets /\ packet.kind = "data" /\ Ready(p)
      /\ packet.to = conn[p].session
  BY FirstPacket DEF OnData, Opens, Ready
<1>2. conn[p] \in Connections /\ Fine(conn[p], friend[p])
  BY ConnectionFacts
<1>3. /\ c \in Connections /\ c.status = "established" /\ c.temp = Nothing
      /\ c.session = conn[p].session /\ c.peer = conn[p].peer
  <2>1. [conn[p] EXCEPT !.status = "established"] \in Connections
    BY <1>2, Retyped
  <2>2. [[conn[p] EXCEPT !.status = "established"] EXCEPT !.temp = Nothing]
          \in Connections
    BY <2>1, Retyped
  <2>3. 0 \in 0..Tries
    BY ConstantsAssumption
  <2>4. c \in Connections
    BY <2>2, <2>3, Retyped
  <2> QED BY <1>2, <2>4 DEF Connections
<1>4. /\ conn' = [conn EXCEPT ![p] = c] /\ Handled(p)
      /\ friend' = [friend EXCEPT ![p] = "online"]
  BY DEF OnData
<1> HIDE DEF c
<1>5. Fine(c, "online")
  BY <1>1, <1>2, <1>3 DEF Fine, Ready
<1>6. /\ net' \in [Peers -> Seq(Packets)]
      /\ \A r \in Peers : Len(net'[r]) + Len(net'[Other(r)]) <= MaxFlight
      /\ net'[p] = Tail(net[p]) /\ net'[Other(p)] = net[Other(p)]
  BY <1>1, <1>4, NetTypes DEF IInv
<1>7. /\ conn'[p] = c /\ conn'[Other(p)] = conn[Other(p)]
      /\ friend'[Other(p)] = friend[Other(p)]
  BY <1>4, TwoPeers DEF IInv, TypeOK
<1>8. HasData(net[p], conn[p].session) /\ conn[p].status # "none"
  BY <1>1, TailFacts DEF IInv, TypeOK, Ready
<1>9. Move(p)
  BY <1>1, <1>3, <1>6, <1>7, <1>8 DEF Move, Ready, SendsRightly
<1> QED BY <1>3, <1>4, <1>5, <1>6, <1>9, Unchanged, StepKeepsIInv

\* A kill packet is noted; it ends nothing yet.
LEMMA OnKillKeepsIInv ==
  ASSUME IInv, NEW p \in Peers, net[p] # <<>>, OnKill(p, Head(net[p])),
         UNCHANGED <<boot, last, faults, stale>>
  PROVE  IInv' /\ Move(p)
<1> DEFINE c == [conn[p] EXCEPT !.killed = TRUE]
<1>1. Ready(p) /\ Head(net[p]) \in Packets
  BY FirstPacket DEF OnKill, Opens, Ready
<1>2. conn[p] \in Connections /\ Fine(conn[p], friend[p])
      /\ friend[p] \in {"confirmed", "online"}
  BY ConnectionFacts
<1>3. /\ c \in Connections /\ c.status = conn[p].status
      /\ c.temp = conn[p].temp
      /\ c.session = conn[p].session /\ c.peer = conn[p].peer
  <2>1. c \in Connections
    BY <1>2, Retyped
  <2> QED BY <1>2, <2>1 DEF Connections
<1>4. conn' = [conn EXCEPT ![p] = c] /\ Handled(p) /\ UNCHANGED friend
  BY DEF OnKill
<1> HIDE DEF c
<1>5. Fine(c, friend[p])
  BY <1>1, <1>2, <1>3 DEF Fine, Ready
<1>6. /\ net' \in [Peers -> Seq(Packets)]
      /\ \A r \in Peers : Len(net'[r]) + Len(net'[Other(r)]) <= MaxFlight
      /\ net'[p] = Tail(net[p]) /\ net'[Other(p)] = net[Other(p)]
  BY <1>1, <1>4, NetTypes DEF IInv
<1>7. /\ conn'[p] = c /\ conn'[Other(p)] = conn[Other(p)]
      /\ friend'[Other(p)] = friend[Other(p)]
  BY <1>4, TwoPeers DEF IInv, TypeOK
<1>8. Move(p)
  BY <1>1, <1>3, <1>6, <1>7 DEF Move, Ready, SendsRightly
<1>9. friend' = [friend EXCEPT ![p] = friend[p]]
  BY <1>4 DEF IInv, TypeOK
<1> QED BY <1>2, <1>3, <1>4, <1>5, <1>6, <1>8, <1>9, Unchanged, StepKeepsIInv

\* A packet that is of no use is dropped.
LEMMA IgnoreKeepsIInv ==
  ASSUME IInv, NEW p \in Peers, net[p] # <<>>, Ignore(p, Head(net[p])),
         UNCHANGED <<boot, last, faults, stale>>
  PROVE  IInv' /\ Move(p)
<1>1. Handled(p) /\ UNCHANGED <<conn, friend>> /\ Head(net[p]) \in Packets
  BY FirstPacket DEF Ignore
<1>2. /\ net' \in [Peers -> Seq(Packets)]
      /\ \A r \in Peers : Len(net'[r]) + Len(net'[Other(r)]) <= MaxFlight
      /\ net'[p] = Tail(net[p]) /\ net'[Other(p)] = net[Other(p)]
  BY <1>1, NetTypes DEF IInv
<1>3. SendsRightly(p)
  BY <1>2 DEF SendsRightly
<1> QED BY <1>1, <1>2, <1>3, Unchanged, IdleKeepsIInv

\* Every packet keeps the invariant, whatever state its receiver is in.
LEMMA ReceiveKeepsIInv ==
  ASSUME IInv, NEW p \in Peers, Receive(p) PROVE IInv' /\ Move(p)
<1>1. net[p] # <<>> /\ UNCHANGED <<boot, last, faults, stale>>
  BY DEF Receive
<1> QED BY <1>1, OnRequestKeepsIInv, OnResponseKeepsIInv, OnHandshakeKeepsIInv,
           OnHandshakeAgainKeepsIInv, OnHandshakeNewKeepsIInv, OnDataKeepsIInv,
           OnKillKeepsIInv, IgnoreKeepsIInv DEF Receive

-----------------------------------------------------------------------------
(* The network.                                                            *)

\* Unless a packet has outlived its connection, putting the first packet for a
\* peer behind the others leaves them in order.
LEMMA DelayedInOrder ==
  ASSUME NEW seq \in Seq(Packets), seq # <<>>, NEW rest \in Seq(Packets),
         NEW session \in Sessions, Ordered(seq, session),
         rest = seq \/ rest = Tail(seq),
         \/ SessionOf(Head(seq)) = 0
         \/ \A i \in DOMAIN seq :
              SessionOf(seq[i]) \in {0, SessionOf(Head(seq))}
  PROVE  Ordered(Append(rest, Head(seq)), session)
<1>1. Head(seq) \in Packets /\ Ordered(rest, session)
  BY TailFacts
<1>2. CASE SessionOf(Head(seq)) \in {0, session}
  BY <1>1, <1>2, AppendFacts
<1>3. CASE SessionOf(Head(seq)) \notin {0, session}
  <2>1. Unused(seq, session)
    BY <1>3, ConstantsAssumption DEF Unused, Sessions
  <2>2. Unused(Tail(seq), session)
    BY <2>1, TailFacts
  <2>3. Unused(Append(rest, Head(seq)), session)
    <3>1. Unused(rest, session)
      BY <2>1, <2>2
    <3> QED BY <1>1, <1>3, <3>1, AppendFacts
  <2> QED BY <2>3, UnusedIsOrdered
<1> QED BY <1>2, <1>3

\* The network does not make up packets, and it puts them out of order only
\* when one outlives its connection.
LEMMA DisturbKeepsIInv ==
  ASSUME IInv, NEW p \in Peers, Disturb(p)
  PROVE  IInv' /\ UNCHANGED <<conn, friend>>
<1> DEFINE q == Other(p)
           first == Head(net[p])
<1>1. /\ net[p] # <<>> /\ UNCHANGED <<conn, friend, boot, last>>
      /\ \/ Handled(p) /\ UNCHANGED stale
         \/ /\ \/ Room /\ net' = [net EXCEPT ![p] = Append(net[p], first)]
               \/ net' = [net EXCEPT ![p] = Append(Tail(net[p]), first)]
            /\ Overtaken(p)
  BY DEF Disturb
<1>2. /\ q \in Peers /\ q # p /\ Other(q) = p
      /\ \A r \in Peers : r \in {p, q}
      /\ net[p] \in Seq(Packets) /\ net[q] \in Seq(Packets)
      /\ first \in Packets
  BY <1>1, TwoPeers, FirstPacket DEF IInv, TypeOK
<1>3. faults' \in 0..MaxFaults
  BY ConstantsAssumption DEF Disturb, Fault, IInv, TypeOK
<1>4. CASE Handled(p) /\ UNCHANGED stale
  <2>1. /\ net' \in [Peers -> Seq(Packets)]
        /\ \A r \in Peers : Len(net'[r]) + Len(net'[Other(r)]) <= MaxFlight
        /\ net'[p] = Tail(net[p]) /\ net'[q] = net[q]
    BY <1>1, <1>2, <1>4, NetTypes DEF IInv
  <2>2. SendsRightly(p)
    BY <2>1 DEF SendsRightly
  <2> QED BY <1>1, <1>3, <1>4, <2>1, <2>2, IdleKeepsIInv
<1>5. ASSUME NEW rest \in Seq(Packets), rest = net[p] \/ rest = Tail(net[p]),
             net' = [net EXCEPT ![p] = Append(rest, first)], Overtaken(p),
             Len(rest) + Len(net[q]) < MaxFlight
      PROVE  IInv'
  <2>1. /\ net'[p] = Append(rest, first) /\ net'[q] = net[q]
        /\ net' \in [Peers -> Seq(Packets)] /\ Len(net'[p]) = Len(rest) + 1
    BY <1>2, <1>5, AppendFacts DEF IInv, TypeOK
  <2>2. Len(rest) \in Nat /\ Len(net[q]) \in Nat
    BY <1>2, LenProperties
  <2>3. \A r \in Peers : Len(net'[r]) + Len(net'[Other(r)]) <= MaxFlight
    <3>1. /\ Len(net'[p]) = Len(rest) + 1 /\ Len(net'[q]) = Len(net[q])
          /\ Len(rest) + Len(net[q]) < MaxFlight /\ MaxFlight \in Nat
      BY <1>5, <2>1, ConstantsAssumption
    <3>2. /\ Len(net'[p]) + Len(net'[q]) <= MaxFlight
          /\ Len(net'[q]) + Len(net'[p]) <= MaxFlight
      <4> DEFINE a == Len(net'[p])
                 b == Len(net'[q])
                 n == Len(rest)
                 m == Len(net[q])
      <4>1. n \in Nat /\ m \in Nat /\ a = n + 1 /\ b = m /\ n + m < MaxFlight
        BY <2>2, <3>1
      <4> HIDE DEF a, b, n, m
      <4>2. a + b <= MaxFlight /\ b + a <= MaxFlight
        BY <3>1, <4>1
      <4> QED BY <4>2 DEF a, b
    <3> QED BY <1>2, <3>2
  <2>4. stale' \in BOOLEAN /\ (stale => stale')
    <3>1. \E late \in BOOLEAN : stale' = (stale \/ late)
      BY <1>5 DEF Overtaken
    <3>2. stale \in BOOLEAN
      BY DEF IInv, TypeOK
    <3> QED BY <3>1, <3>2
  <2>5. TypeOK'
    BY <1>1, <1>3, <2>1, <2>3, <2>4 DEF IInv, TypeOK
  <2>6. ConnOK'
    BY <1>1 DEF IInv, ConnOK, Fine, NoConnection, SessionOf
  <2>7. ASSUME ~ stale'
        PROVE  \/ SessionOf(first) = 0
               \/ \A i \in DOMAIN net[p] :
                    SessionOf(net[p][i]) \in {0, SessionOf(first)}
    BY <1>5, <2>7 DEF Overtaken
  <2>8. InOrder'
    <3> SUFFICES ASSUME ~ stale', NEW r \in Peers, conn[r].status # "none"
                 PROVE  Ordered(net'[Other(r)], conn[r].session)
      BY <1>1 DEF InOrder
    <3>1. /\ conn[r].session \in Sessions
          /\ Ordered(net[Other(r)], conn[r].session)
      BY <2>4, ConnectionFacts DEF Fine, IInv, InOrder
    <3>2. CASE r = p
      BY <2>1, <3>1, <3>2
    <3>3. CASE r = q
      BY <1>1, <1>2, <1>5, <2>1, <2>7, <3>1, <3>3, DelayedInOrder
    <3> QED BY <1>2, <3>2, <3>3
  <2>9. HeardOK'
    <3> SUFFICES ASSUME ~ stale', NEW r \in Peers, Heard(r)'
                 PROVE  /\ Shakes(net'[r], conn[Other(r)].session)
                        /\ Ready(r) => conn[r].peer = conn[Other(r)].session
      BY <1>1 DEF HeardOK, Ready
    <3>1. \A session : HasData(net'[p], session) => HasData(net[p], session)
      <4>1. ASSUME NEW session, HasData(Append(rest, first), session)
            PROVE  HasData(net[p], session)
        <5>1. \/ HasData(rest, session)
              \/ first.kind = "data" /\ first.to = session
          BY <1>2, <1>5, <4>1, AppendFacts
        <5>2. HasData(rest, session) => HasData(net[p], session)
          <6>1. HasData(Tail(net[p]), session) => HasData(net[p], session)
            BY <1>1, <1>2, TailFacts
          <6> QED BY <1>5, <6>1
        <5>3. first.kind = "data" /\ first.to = session =>
                HasData(net[p], session)
          BY <1>1, <1>2, TailFacts
        <5> QED BY <5>1, <5>2, <5>3
      <4> QED BY <2>1, <4>1
    <3>2. Heard(r)
      BY <1>1, <1>2, <2>1, <3>1 DEF Heard, Ready
    <3>3. /\ Shakes(net[r], conn[Other(r)].session)
          /\ Ready(r) => conn[r].peer = conn[Other(r)].session
      BY <2>4, <3>2 DEF IInv, HeardOK
    <3>4. ASSUME r = p PROVE Shakes(net'[p], conn[q].session)
      <4>1. /\ Shakes(rest, conn[q].session)
            /\ first.kind = "handshake" => first.session = conn[q].session
        <5> DEFINE session == conn[q].session
        <5>1. Shakes(net[p], session)
          BY <3>3, <3>4
        <5> HIDE DEF session
        <5>2. Shakes(rest, session)
          <6>1. Shakes(Tail(net[p]), session)
            BY <1>1, <1>2, <5>1, TailFacts
          <6> QED BY <1>5, <5>1, <6>1
        <5>3. first.kind = "handshake" => first.session = session
          BY <1>1, <1>2, <5>1, TailFacts
        <5> QED BY <5>2, <5>3 DEF session
      <4> QED BY <1>2, <1>5, <2>1, <4>1, AppendFacts
    <3> QED BY <1>2, <2>1, <3>3, <3>4
  <2> QED BY <2>5, <2>6, <2>8, <2>9 DEF IInv
<1>6. CASE /\ Room /\ Overtaken(p)
           /\ net' = [net EXCEPT ![p] = Append(net[p], first)]
  <2>1. Len(net[p]) + Len(net[q]) < MaxFlight
    BY <1>6 DEF Room
  <2> QED BY <1>1, <1>2, <1>5, <1>6, <2>1
<1>7. CASE /\ Overtaken(p)
           /\ net' = [net EXCEPT ![p] = Append(Tail(net[p]), first)]
  <2>1. /\ Tail(net[p]) \in Seq(Packets)
        /\ Len(Tail(net[p])) + Len(net[q]) < MaxFlight
    <3>1. /\ Tail(net[p]) \in Seq(Packets)
          /\ Len(Tail(net[p])) = Len(net[p]) - 1
      BY <1>1, <1>2, TailFacts
    <3>2. Len(net[p]) + Len(net[q]) <= MaxFlight
      BY DEF IInv, TypeOK
    <3>3. Len(net[p]) \in Nat /\ Len(net[q]) \in Nat /\ MaxFlight \in Nat
      BY <1>2, LenProperties, ConstantsAssumption
    <3> DEFINE n == Len(net[p])
               m == Len(net[q])
               k == Len(Tail(net[p]))
    <3>4. k = n - 1 /\ n + m <= MaxFlight /\ n \in Nat /\ m \in Nat
      BY <3>1, <3>2, <3>3
    <3> HIDE DEF n, m, k
    <3>5. k + m < MaxFlight
      BY <3>3, <3>4
    <3> QED BY <3>1, <3>5 DEF k, m
  <2> QED BY <1>1, <1>5, <1>7, <2>1
<1> QED BY <1>1, <1>4, <1>6, <1>7

-----------------------------------------------------------------------------
(* The theorems.                                                           *)

\* Every step is one of a peer, or a disturbance.
LEMMA NextKeepsIInv ==
  ASSUME IInv, Next
  PROVE  IInv' /\ (UNCHANGED <<conn, friend>> \/ \E p \in Peers : Move(p))
<1> PICK p \in Peers : \/ NewConnection(p) \/ LearnKey(p) \/ SendTemp(p)
                       \/ SendTempAgain(p) \/ Receive(p) \/ Disturb(p)
                       \/ SendData(p) \/ KillKilled(p) \/ KillTimedout(p)
                       \/ PingTimeout(p) \/ Restart(p)
  BY DEF Next
<1>1. CASE NewConnection(p) \/ LearnKey(p)
  BY <1>1, NewConnectionKeepsIInv, LearnKeyKeepsIInv
<1>2. CASE SendTemp(p) \/ SendTempAgain(p) \/ SendData(p)
  BY <1>2, SendTempKeepsIInv, SendTempAgainKeepsIInv, SendDataKeepsIInv
<1>3. CASE Receive(p)
  BY <1>3, ReceiveKeepsIInv
<1>4. CASE Disturb(p)
  BY <1>4, DisturbKeepsIInv
<1>5. CASE KillKilled(p) \/ KillTimedout(p)
  BY <1>5, KillKilledKeepsIInv, KillTimedoutKeepsIInv
<1>6. CASE PingTimeout(p) \/ Restart(p)
  BY <1>6, PingTimeoutKeepsIInv, RestartKeepsIInv
<1> QED BY <1>1, <1>2, <1>3, <1>4, <1>5, <1>6

\* A step of neither peer.
LEMMA StutterKeepsIInv == ASSUME IInv, UNCHANGED vars PROVE IInv'
<1>1. TypeOK'
  BY DEF IInv, TypeOK, vars
<1>2. conn' = conn /\ friend' = friend /\ net' = net /\ stale' = stale
  BY DEF vars
<1>3. ConnOK'
  BY <1>2 DEF IInv, ConnOK
<1>4. InOrder'
  BY <1>2 DEF IInv, InOrder
<1>5. HeardOK'
  BY <1>2 DEF IInv, HeardOK, Heard, Ready
<1> QED BY <1>1, <1>3, <1>4, <1>5 DEF IInv

\* IInv holds in every state of the two peers.
THEOREM Invariance == Spec => []IInv
<1>1. Init => IInv
  BY InitIInv
<1>2. IInv /\ [Next]_vars => IInv'
  BY NextKeepsIInv, StutterKeepsIInv
<1> QED BY <1>1, <1>2, PTL DEF Spec

\* The types of the variables; a peer never runs out of session numbers.
THEOREM TypeCorrect == Spec => []TypeOK
<1>1. IInv => TypeOK
  BY DEF IInv
<1> QED BY <1>1, Invariance, PTL

\* The status of a friend in Messenger.c is that of its connection in
\* net_crypto.c, through handshakes, kills, time-outs and restarts.
THEOREM StatusesAgree == Spec => []MessengerAgrees
<1>1. IInv => MessengerAgrees
  BY DEF IInv, ConnOK, Fine, MessengerAgrees
<1> QED BY <1>1, Invariance, PTL

\* Unless a packet outlived its connection, two established connections have
\* each other's sessions (handle_packet_connection,
\* handle_new_connection_handshake): both peers have learned the present
\* session of the other one.
LEMMA EstablishedTogether ==
  ASSUME IInv, ~ stale, NEW p \in Peers, conn[Other(p)].status = "established",
         Ready(p)
  PROVE  conn[p].peer = conn[Other(p)].session
<1>1. Heard(p)
  BY DEF Heard
<1> QED BY <1>1 DEF IInv, HeardOK

\* Two peers that are both online have one connection in common.
THEOREM OnlineIsTogether == Spec => []OnlineTogether
<1>1. ASSUME IInv PROVE OnlineTogether
  <2> SUFFICES ASSUME \A p \in Peers : friend[p] = "online", ~ stale
               PROVE  Mutual
    BY DEF OnlineTogether
  <2>1. \A p \in Peers : conn[p].status = "established"
    BY <1>1 DEF IInv, ConnOK, Fine
  <2>2. ASSUME NEW p \in Peers
        PROVE  Ready(p) /\ conn[p].peer = conn[Other(p)].session
    BY <1>1, <2>1, TwoPeers, EstablishedTogether DEF Ready
  <2> QED BY <2>2 DEF Mutual, Ready
<1> QED BY <1>1, Invariance, PTL


-----------------------------------------------------------------------------
(* The connections give what Presence promises.                            *)

\* Who is online, as Presence sees it.
Online == [p \in Peers |-> friend[p] = "online"]

\* A step that changes neither who is online nor whether the peers have a
\* connection in common.
LEMMA MapStutter ==
  ASSUME Mutual' <=> Mutual, Online' = Online
  PROVE  [Promise!Next]_(Promise!vars)
BY DEF Promise!vars, Online, Mutual

\* A step after which the peers have a connection in common.
LEMMA MapBegin ==
  ASSUME ~ Mutual, Mutual', Online' = Online
  PROVE  [Promise!Next]_(Promise!vars)
BY DEF Promise!Next, Promise!Begin, Online, Mutual

\* A step by which p gives the connection up.
LEMMA MapEnd ==
  ASSUME NEW p \in Peers, Mutual \/ friend[p] = "online", ~ Mutual',
         friend' = [friend EXCEPT ![p] = "confirmed"],
         friend \in [Peers -> {"confirmed", "online"}]
  PROVE  [Promise!Next]_(Promise!vars)
<1>1. Online' = [Online EXCEPT ![p] = FALSE]
  BY DEF Online
<1>2. Promise!End(p)
  BY <1>1 DEF Promise!End, Online, Mutual
<1> QED BY <1>2 DEF Promise!Next

\* A step by which p comes online.
LEMMA MapComeOnline ==
  ASSUME NEW p \in Peers, Mutual' <=> Mutual, friend[p] # "online",
         Mutual \/ friend[Other(p)] # "online",
         friend' = [friend EXCEPT ![p] = "online"],
         friend \in [Peers -> {"confirmed", "online"}]
  PROVE  [Promise!Next]_(Promise!vars)
<1>1. Online' = [Online EXCEPT ![p] = TRUE]
  BY DEF Online
<1>2. Mutual \/ \A q \in Peers : ~ Online[q]
  BY TwoPeers DEF Online
<1>3. Promise!ComeOnline(p)
  BY <1>1, <1>2 DEF Promise!ComeOnline, Online, Mutual
<1> QED BY <1>3 DEF Promise!Next

\* The peers have a connection in common when each has the session of the
\* other one.
LEMMA MutualFacts ==
  ASSUME NEW p \in Peers
  PROVE  Mutual <=> /\ Ready(p) /\ conn[p].peer = conn[Other(p)].session
                    /\ Ready(Other(p)) /\ conn[Other(p)].peer = conn[p].session
BY TwoPeers DEF Mutual, Ready

\* The same of the next state.
LEMMA MutualNext ==
  ASSUME NEW p \in Peers
  PROVE  Mutual' <=>
           /\ (Ready(p))' /\ conn'[p].peer = conn'[Other(p)].session
           /\ (Ready(Other(p)))' /\ conn'[Other(p)].peer = conn'[p].session
BY TwoPeers DEF Mutual, Ready

\* Every step of a peer is one of Presence: when nothing has outlived its
\* connection, a peer that comes online has been heard by the other one, and a
\* peer that is online keeps its connection until it gives it up.
LEMMA MoveMaps ==
  ASSUME IInv, IInv', NEW p \in Peers, Move(p), ~ stale'
  PROVE  [Promise!Next]_(Promise!vars)
<1> DEFINE q == Other(p)
<1>1. /\ q \in Peers /\ q # p /\ Other(q) = p /\ ~ stale
      /\ conn'[q] = conn[q] /\ friend'[q] = friend[q]
      /\ \A r \in Peers : r = p \/ r = q
  BY TwoPeers DEF Move
<1>2. /\ friend \in [Peers -> {"confirmed", "online"}]
      /\ friend' \in [Peers -> {"confirmed", "online"}]
      /\ \A r \in Peers :
           friend[r] = "online" <=> conn[r].status = "established"
      /\ friend'[p] = "online" <=> conn'[p].status = "established"
  BY DEF IInv, TypeOK, ConnOK, Fine
<1>3. friend' = [friend EXCEPT ![p] = friend'[p]]
  BY <1>1, <1>2
<1>4. Mutual <=> /\ Ready(p) /\ conn[p].peer = conn[q].session
                 /\ Ready(q) /\ conn[q].peer = conn[p].session
  BY MutualFacts
<1>5. Mutual' <=> /\ (Ready(p))' /\ conn'[p].peer = conn[q].session
                  /\ Ready(q) /\ conn[q].peer = conn'[p].session
  BY <1>1, MutualNext DEF Ready
<1>6. ASSUME conn'[p].status = "established"
      PROVE  (Mutual' <=> Mutual) /\ Ready(p)
  <2>1. Ready(p) /\ (Ready(p))' /\ conn'[p].peer = conn[p].peer
    BY <1>6 DEF Move, Ready
  <2>2. conn'[p].session = conn[p].session
    BY <1>6, <2>1 DEF Move, Ready
  <2> QED BY <1>4, <1>5, <2>1, <2>2
<1>7. CASE friend'[p] = friend[p]
  <2>1. Online' = Online
    BY <1>1, <1>7 DEF Online
  <2>2. CASE Mutual' <=> Mutual
    BY <2>1, <2>2, MapStutter
  <2>3. CASE ~ Mutual /\ Mutual'
    BY <2>1, <2>3, MapBegin
  <2>4. CASE Mutual /\ ~ Mutual'
    <3>1. friend'[p] = "confirmed"
      BY <1>2, <1>6, <2>4
    <3> QED BY <1>2, <1>3, <2>4, <3>1, MapEnd
  <2> QED BY <2>2, <2>3, <2>4
<1>8. CASE friend[p] = "online" /\ friend'[p] # "online"
  <2>1. conn'[p].status = "none"
    BY <1>2, <1>8 DEF Move
  <2>2. ~ Mutual' /\ friend'[p] = "confirmed"
    BY <1>2, <1>5, <1>8, <2>1 DEF Ready
  <2> QED BY <1>2, <1>3, <1>8, <2>2, MapEnd
<1>9. CASE friend[p] # "online" /\ friend'[p] = "online"
  <2>1. /\ conn'[p].status = "established" /\ conn[p].status # "established"
        /\ Ready(p) /\ (Mutual' <=> Mutual)
    BY <1>2, <1>6, <1>9
  <2>2. HasData(net[p], conn[p].session)
    BY <2>1 DEF Move
  <2>3. Heard(q)
    BY <1>1, <2>1, <2>2 DEF Heard, Ready
  <2>4. friend[q] = "online" => Mutual
    <3>1. SUFFICES ASSUME friend[q] = "online" PROVE Mutual
      OBVIOUS
    <3>2. Ready(q) /\ conn[p].peer = conn[q].session
      BY <1>1, <1>2, <2>1, <3>1, EstablishedTogether DEF Ready
    <3>3. conn[q].peer = conn[p].session
      BY <1>1, <2>3, <3>2 DEF IInv, HeardOK
    <3> QED BY <1>4, <2>1, <3>2, <3>3
  <2> QED BY <1>2, <1>3, <1>9, <2>1, <2>4, MapComeOnline
<1>10. /\ friend[p] \in {"confirmed", "online"}
       /\ friend'[p] \in {"confirmed", "online"}
  BY <1>2
<1> QED BY <1>7, <1>8, <1>9, <1>10

\* The two peers implement Presence, as long as no packet outlives its
\* connection: the initial state maps to an initial state, and every step of
\* the handshakes and of the friend list to a step of Presence or to a stutter.
THEOREM Implementation == Spec => ImplementsPresence
<1>1. Init => Promise!Init
  <2> SUFFICES ASSUME Init PROVE Promise!Init
    OBVIOUS
  <2>1. PICK p \in Peers : TRUE
    BY TwoPeers
  <2>2. conn[p].status = "none"
    BY NoConnectionFacts DEF Init
  <2>3. ~ Mutual
    BY <2>2 DEF Mutual
  <2>4. Online = [r \in Peers |-> FALSE]
    BY DEF Init, Online
  <2> QED BY <2>3, <2>4 DEF Promise!Init, Online, Mutual
<1>2. IInv /\ IInv' /\ [Next]_vars =>
        [stale' \/ [Promise!Next]_(Promise!vars)]_vars
  <2> SUFFICES ASSUME IInv, IInv', Next, ~ stale'
               PROVE  [Promise!Next]_(Promise!vars)
    OBVIOUS
  <2>1. CASE UNCHANGED <<conn, friend>>
    <3>1. (Mutual' <=> Mutual) /\ Online' = Online
      BY <2>1 DEF Mutual, Online
    <3> QED BY <3>1, MapStutter
  <2>2. CASE \E p \in Peers : Move(p)
    BY <2>2, MoveMaps
  <2> QED BY <2>1, <2>2, NextKeepsIInv
<1> QED BY <1>1, <1>2, Invariance, PTL DEF Spec, ImplementsPresence
=============================================================================
