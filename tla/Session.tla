------------------------------ MODULE Session ------------------------------
(***************************************************************************)
(* How two peers that are friends become and stay connected in the Tox     *)
(* core: the handshake of encrypted connections (toxcore/net_crypto.c) and *)
(* the status of a friend (toxcore/Messenger.c).                           *)
(*                                                                         *)
(* A peer first asks for a cookie, which shows that it owns its address,   *)
(* and sends a handshake that carries the cookie, the key of its new       *)
(* session and a cookie for the other peer.  Who has the session key of    *)
(* the other peer can read and send data; the first data packet read       *)
(* confirms the connection and brings the friend online.                   *)
(*                                                                         *)
(* A peer that restarts has a new DHT key (its boot) and the friend list   *)
(* of its data file.  A session key is a number that nothing in the system *)
(* uses yet; a packet that cannot be decrypted is ignored.                 *)
(***************************************************************************)
EXTENDS Integers, Sequences, FiniteSets

CONSTANTS Peers,       \* the two programs
          Tries,       \* MAX_NUM_SENDPACKET_TRIES
          MaxFlight,   \* bound: packets on their way
          MaxBoots,    \* bound: how often a peer is started
          MaxFaults,   \* bound: restarts, packets lost, duplicated or
                       \* overtaken, and hasty time-outs
          Nothing      \* no packet

ASSUME ConstantsAssumption ==
  /\ IsFiniteSet(Peers) /\ Cardinality(Peers) = 2
  /\ {Tries, MaxFlight, MaxBoots} \subseteq Nat \ {0}
  /\ MaxFaults \in Nat

Other(p) == CHOOSE q \in Peers : q # p

VARIABLES conn,        \* the Crypto_Connection of a peer for the other one
          friend,      \* the status of the other peer in the friend list
          boot,        \* how often a peer was started
          last,        \* the peer whose half second ran out last
          net,         \* packets on their way to a peer
          faults,      \* how many faults there were
          stale        \* a packet outlived its connection: it was delayed
                       \* until its sender had a new one

vars == <<conn, friend, boot, last, net, faults, stale>>

NoConnection == [status |-> "none", session |-> 0, peer |-> 0, key |-> 0,
                 temp |-> Nothing, tries |-> 0, killed |-> FALSE]

Init == /\ conn = [p \in Peers |-> NoConnection]
        /\ friend = [p \in Peers |-> "confirmed"]
        /\ boot = [p \in Peers |-> 1]
        /\ last = Nothing
        /\ net = [p \in Peers |-> <<>>]
        /\ faults = 0
        /\ stale = FALSE

-----------------------------------------------------------------------------
(* Faults, packets and sessions.                                           *)

\* What is not free is one of the faults.
Fault(free) == /\ free \/ faults < MaxFaults
               /\ faults' = IF free THEN faults ELSE faults + 1

Room == \A p \in Peers : Len(net[p]) + Len(net[Other(p)]) < MaxFlight

\* The packet leaves if there is room, else it is lost.
Send(p, packet) ==
  net' = IF Room THEN [net EXCEPT ![Other(p)] = Append(@, packet)] ELSE net

\* The session of its sender that a packet belongs to; 0 for a response, which
\* its sender keeps no state for.
SessionOf(packet) == CASE packet.kind = "request" -> packet.number
                       [] packet.kind = "response" -> 0
                       [] packet.kind = "handshake" -> packet.session
                       [] packet.kind \in {"data", "kill"} -> packet.from

\* The session of its receiver that a packet names, or 0.
NamedBy(packet) == CASE packet.kind = "response" -> packet.number
                     [] packet.kind \in {"data", "kill"} -> packet.to
                     [] packet.kind \in {"request", "handshake"} -> 0

\* The sessions of p that something in the system still refers to.
Used(p) == {conn[Other(p)].peer}
           \cup {SessionOf(net[Other(p)][i]) : i \in DOMAIN net[Other(p)]}
           \cup {NamedBy(net[p][i]) : i \in DOMAIN net[p]}

\* As many as can be in use at once, and one that is not.
Sessions == 1..MaxFlight + 2

\* crypto_box_keypair
FreshSession(p) == CHOOSE session \in Sessions : session \notin Used(p)

Handshake(p, session, cookie) ==
  [kind |-> "handshake",
   session |-> session, boot |-> boot[p], cookie |-> cookie]

Request(session, key) == [kind |-> "request", number |-> session, key |-> key]

\* Mutant: the session it was sent in does not matter.
OpensAny(p, packet) == conn[p].status \in {"unconfirmed", "established"}

\* Mutant: any connection of the receiver will do.
OpensToAny(p, packet) == /\ conn[p].status \in {"unconfirmed", "established"}
                         /\ packet.from = conn[p].peer

\* The packet can be decrypted by the connection of p.
Opens(p, packet) == /\ conn[p].status \in {"unconfirmed", "established"}
                    /\ packet.from = conn[p].peer
                    /\ packet.to = conn[p].session

\* The connections of the peers have each other's session key.
Mutual == \A p \in Peers : /\ conn[p].status \in {"unconfirmed", "established"}
                           /\ conn[p].peer = conn[Other(p)].session

\* p has something to do that its loops do at once.
Due(p) == \/ conn[p].status = "none"
          \/ conn[p].key < boot[Other(p)]
          \/ conn[p].temp # Nothing /\ conn[p].tries = 0
          \/ conn[p].status = "established" /\ conn[p].killed
          \/ conn[p].status = "unconfirmed" /\ Mutual

\* What half a second is enough for is done: nothing is due, and nothing
\* comes of the packets that are still on their way.
Quiet == \A p \in Peers :
           /\ ~ Due(p)
           /\ \A i \in DOMAIN net[p] : /\ net[p][i].kind \in {"data", "kill"}
                                       /\ ~ Opens(p, net[p][i])

-----------------------------------------------------------------------------
(* Setting up a connection.                                                *)

\* do_friends calls friend_new_connection.
NewConnection(p) ==
  /\ friend[p] = "confirmed"
  /\ conn[p].status = "none"
  /\ conn' = [conn EXCEPT ![p] = [NoConnection EXCEPT
                                       !.status = "requesting",
                                       !.session = FreshSession(p)]]
  /\ UNCHANGED <<friend, boot, last, net, faults, stale>>

\* do_friends passes a newer DHT key on, set_connection_dht_public_key makes
\* a cookie request of it.
LearnKey(p) ==
  /\ conn[p].status # "none"
  /\ conn[p].key < boot[Other(p)]
  /\ conn' = [conn EXCEPT ![p] =
       IF @.status = "requesting"
       THEN [@ EXCEPT !.key = boot[Other(p)], !.tries = 0,
                      !.temp = Request(conn[p].session, boot[Other(p)])]
       ELSE [@ EXCEPT !.key = boot[Other(p)]]]
  /\ UNCHANGED <<friend, boot, last, net, faults, stale>>

\* send_crypto_packets sends a new cookie request or handshake at once.
SendTemp(p) ==
  /\ conn[p].temp # Nothing
  /\ conn[p].tries = 0
  /\ Room
  /\ Send(p, conn[p].temp)
  /\ conn' = [conn EXCEPT ![p].tries = 1]
  /\ UNCHANGED <<friend, boot, last, faults, stale>>

\* Mutant: it never gives up.
SendTempForever(p) ==
  /\ conn[p].temp # Nothing
  /\ conn[p].tries >= 1
  /\ Room
  /\ Send(p, conn[p].temp)
  /\ conn' = [conn EXCEPT ![p].tries = @ + 1]
  /\ last' = p
  /\ Fault(Quiet /\ (last # p \/ conn[Other(p)].temp = Nothing))
  /\ UNCHANGED <<friend, boot, stale>>

\* It sends it again every half second, which both peers measure alike.
SendTempAgain(p) ==
  /\ conn[p].temp # Nothing
  /\ conn[p].tries \in 1..Tries - 1
  /\ Room
  /\ Send(p, conn[p].temp)
  /\ conn' = [conn EXCEPT ![p].tries = @ + 1]
  /\ last' = p
  /\ Fault(Quiet /\ (last # p \/ conn[Other(p)].temp = Nothing))
  /\ UNCHANGED <<friend, boot, stale>>

\* create_send_handshake sends the handshake of connection c at once.
WithHandshake(p, c, cookie) ==
  [c EXCEPT !.temp = Handshake(p, c.session, cookie), !.tries = 1]

\* A helper: the connection of p is keyed by a handshake packet.
Keyed(c, packet) == [c EXCEPT !.status = "unconfirmed", !.peer = packet.session,
                              !.key = packet.boot]

-----------------------------------------------------------------------------
(* Receiving a packet.                                                     *)

\* The first packet for p is handled, and no answer is sent.
Handled(p) == net' = [net EXCEPT ![p] = Tail(@)]

\* The first packet for p is handled and p answers.
Answered(p, packet) ==
  net' = [q \in Peers |-> IF q = p THEN Tail(net[p])
                          ELSE Append(net[q], packet)]

\* udp_handle_cookie_request, which keeps no state
OnRequest(p, packet) ==
  /\ packet.kind = "request"
  /\ packet.key = boot[p]
  /\ Answered(p, [kind |-> "response", number |-> packet.number,
                  key |-> packet.key, cookie |-> boot[p]])
  /\ UNCHANGED <<conn, friend>>

\* The answer to the last cookie request of p
Expected(p, packet) == /\ conn[p].status = "requesting"
                       /\ packet.number = conn[p].session
                       /\ packet.key = conn[p].key

OnResponse(p, packet) ==
  /\ packet.kind = "response"
  /\ Expected(p, packet)
  /\ LET c == [conn[p] EXCEPT !.status = "sent"]
     IN /\ conn' = [conn EXCEPT ![p] = WithHandshake(p, c, packet.cookie)]
        /\ Answered(p, Handshake(p, c.session, packet.cookie))
  /\ UNCHANGED friend

\* handle_crypto_handshake finds a cookie that p made since it was started.
Valid(p, packet) == packet.kind = "handshake" /\ packet.cookie = boot[p]

\* A handshake that p answers with its own: handle_packet_connection while p
\* has no cookie, and handle_new_connection_handshake, which also does when
\* the packet comes from an address that is not known.
OnHandshake(p, packet) ==
  /\ Valid(p, packet)
  /\ conn[p].status \in {"requesting", "sent"}
  /\ conn' = [conn EXCEPT
                ![p] = WithHandshake(p, Keyed(@, packet), packet.boot)]
  /\ Answered(p, Handshake(p, conn[p].session, packet.boot))
  /\ UNCHANGED friend

\* handle_packet_connection: p goes on with the handshake it sends already.
OnHandshakeAgain(p, packet) ==
  /\ Valid(p, packet)
  /\ conn[p].status \in {"sent", "unconfirmed"}
  /\ conn' = [conn EXCEPT ![p] = Keyed(@, packet)]
  /\ Handled(p)
  /\ UNCHANGED friend

\* handle_new_connections: p accepts a connection of a friend.
OnHandshakeNew(p, packet) ==
  /\ Valid(p, packet)
  /\ conn[p].status = "none"
  /\ LET c == Keyed([NoConnection EXCEPT !.session = FreshSession(p)], packet)
     IN /\ conn' = [conn EXCEPT ![p] = WithHandshake(p, c, packet.boot)]
        /\ Answered(p, Handshake(p, c.session, packet.boot))
  /\ friend' = [friend EXCEPT ![p] = "confirmed"]

\* handle_data_packet_helper: the first data packet confirms the connection,
\* and handle_status brings the friend online.
OnData(p, packet) ==
  /\ packet.kind = "data"
  /\ Opens(p, packet)
  /\ conn' = [conn EXCEPT ![p].status = "established",
                          ![p].temp = Nothing, ![p].tries = 0]
  /\ friend' = [friend EXCEPT ![p] = "online"]
  /\ Handled(p)

OnKill(p, packet) ==
  /\ packet.kind = "kill"
  /\ Opens(p, packet)
  /\ conn' = [conn EXCEPT ![p].killed = TRUE]
  /\ Handled(p)
  /\ UNCHANGED friend

\* A packet that nothing is done with.
Ignore(p, packet) ==
  /\ \/ packet.kind = "request" /\ packet.key # boot[p]
     \/ packet.kind = "response" /\ ~ Expected(p, packet)
     \/ packet.kind = "handshake" /\ ~ Valid(p, packet)
     \/ packet.kind = "handshake" /\ conn[p].status = "established"
     \/ packet.kind \in {"data", "kill"} /\ ~ Opens(p, packet)
  /\ Handled(p)
  /\ UNCHANGED <<conn, friend>>

Receive(p) ==
  /\ net[p] # <<>>
  /\ LET packet == Head(net[p])
     IN \/ OnRequest(p, packet)
        \/ OnResponse(p, packet)
        \/ OnHandshake(p, packet)
        \/ OnHandshakeAgain(p, packet)
        \/ OnHandshakeNew(p, packet)
        \/ OnData(p, packet)
        \/ OnKill(p, packet)
        \/ Ignore(p, packet)
  /\ UNCHANGED <<boot, last, faults, stale>>

\* A helper: the packet is now behind packets of another connection.
Overtaken(p) ==
  LET session == SessionOf(Head(net[p]))
  IN stale' = (stale \/ /\ session # 0
                        /\ \E i \in DOMAIN net[p] :
                             SessionOf(net[p][i]) \notin {0, session})

\* The network loses, duplicates or delays the first packet for p.
Disturb(p) ==
  /\ net[p] # <<>>
  /\ \/ Handled(p) /\ UNCHANGED stale
     \/ Room /\ net' = [net EXCEPT ![p] = Append(@, Head(@))] /\ Overtaken(p)
     \/ /\ Len(net[p]) > 1
        /\ net' = [net EXCEPT ![p] = Append(Tail(@), Head(@))]
        /\ Overtaken(p)
  /\ Fault(FALSE)
  /\ UNCHANGED <<conn, friend, boot, last>>

-----------------------------------------------------------------------------
(* Using and ending a connection.                                          *)

Message(p, kind) ==
  [kind |-> kind, from |-> conn[p].session, to |-> conn[p].peer]

\* send_crypto_packets sends a request packet.
SendData(p) ==
  /\ conn[p].status \in {"unconfirmed", "established"}
  /\ Room
  /\ Send(p, Message(p, "data"))
  /\ UNCHANGED <<conn, friend, boot, last, faults, stale>>

\* crypto_kill
Kill(p) ==
  /\ conn' = [conn EXCEPT ![p] = NoConnection]
  /\ IF conn[p].status = "established" THEN Send(p, Message(p, "kill"))
                                       ELSE UNCHANGED net

\* Mutant: the friend stays online.
OfflineLater(p) == UNCHANGED friend

\* handle_status, or do_friends after a time-out
Offline(p) ==
  friend' = [friend EXCEPT ![p] = IF @ = "online" THEN "confirmed" ELSE @]

\* kill_timedout, when a kill packet came while the connection was not yet
\* established or since.  The flag survives a new handshake: a peer that was
\* killed before it was confirmed ends the next connection, too, and is hasty
\* if that kill packet comes before the other peer is confirmed.
KillKilled(p) ==
  /\ conn[p].killed
  /\ conn[p].status = "established"
  /\ Kill(p)
  /\ Offline(p)
  /\ Fault(~ Mutual \/ conn[Other(p)].status = "established")
  /\ UNCHANGED <<boot, last, stale>>

\* kill_timedout, when the last try was sent; it is a hasty time-out if that
\* would have had an answer.
KillTimedout(p) ==
  /\ conn[p].status \in {"requesting", "sent", "unconfirmed"}
  /\ conn[p].tries = Tries
  /\ Kill(p)
  /\ Offline(p)
  /\ Fault(Quiet)
  /\ UNCHANGED <<boot, last, stale>>

\* Mutant: the connection is left as it is.
PingTimeoutKeeps(p) ==
  /\ friend[p] = "online"
  /\ Offline(p)
  /\ Fault(Quiet /\ ~ Mutual)
  /\ UNCHANGED <<conn, boot, last, net, stale>>

\* do_friends, when nothing was heard from a friend that is online; it is a
\* hasty time-out if the other peer does send.
PingTimeout(p) ==
  /\ friend[p] = "online"
  /\ Kill(p)
  /\ Offline(p)
  /\ Fault(Quiet /\ ~ Mutual)
  /\ UNCHANGED <<boot, last, stale>>

-----------------------------------------------------------------------------
(* Restarts.                                                               *)

\* The program ends and is started again with its friends (friends_list_load).
Restart(p) ==
  /\ boot[p] < MaxBoots
  /\ boot' = [boot EXCEPT ![p] = @ + 1]
  /\ friend' = [friend EXCEPT ![p] = "confirmed"]
  /\ conn' = [conn EXCEPT ![p] = NoConnection]
  /\ Fault(FALSE)
  /\ UNCHANGED <<last, net, stale>>

-----------------------------------------------------------------------------
Next == \E p \in Peers : \/ NewConnection(p)
                         \/ LearnKey(p)
                         \/ SendTemp(p)
                         \/ SendTempAgain(p)
                         \/ Receive(p)
                         \/ Disturb(p)
                         \/ SendData(p)
                         \/ KillKilled(p)
                         \/ KillTimedout(p)
                         \/ PingTimeout(p)
                         \/ Restart(p)

Spec == Init /\ [][Next]_vars

\* The loops of the Tox thread (do_friends, send_crypto_packets,
\* kill_timedout) come back to every peer, time passes, packets arrive.
Fairness ==
  \A p \in Peers : /\ WF_vars(NewConnection(p) \/ LearnKey(p))
                    /\ WF_vars(Receive(p))
                    /\ SF_vars(SendTemp(p) \/ SendTempAgain(p))
                    /\ SF_vars(SendData(p))
                    /\ SF_vars(\/ KillKilled(p)
                                \/ KillTimedout(p)
                                \/ PingTimeout(p))

FairSpec == Spec /\ Fairness

-----------------------------------------------------------------------------
(* Properties.                                                             *)

Boots == 1..MaxBoots

Packets ==
  [kind : {"request"}, number : Sessions, key : Boots]
  \cup [kind : {"response"}, number : Sessions, key : Boots, cookie : Boots]
  \cup [kind : {"handshake"}, session : Sessions, boot : Boots, cookie : Boots]
  \cup [kind : {"data", "kill"}, from : Sessions, to : Sessions]

Connections ==
  [status : {"none", "requesting", "sent", "unconfirmed", "established"},
   session : Sessions \cup {0}, peer : Sessions \cup {0}, key : 0..MaxBoots,
   temp : {Nothing} \cup Packets, tries : 0..Tries, killed : BOOLEAN]

\* The types of the variables, and that session numbers suffice.
TypeOK ==
  /\ conn \in [Peers -> Connections]
  /\ friend \in [Peers -> {"confirmed", "online"}]
  /\ boot \in [Peers -> Boots]
  /\ last \in Peers \cup {Nothing}
  /\ net \in [Peers -> Seq(Packets)]
  /\ \A p \in Peers : Len(net[p]) + Len(net[Other(p)]) <= MaxFlight
  /\ faults \in 0..MaxFaults /\ stale \in BOOLEAN

\* Messenger.c and net_crypto.c keep the state of a friend twice and agree: a
\* friend is online when its connection is established and only then, and an
\* established connection has no handshake left to send.
MessengerAgrees ==
  \A p \in Peers :
    /\ friend[p] = "online" <=> conn[p].status = "established"
    /\ conn[p].status = "established" => conn[p].temp = Nothing

\* Two programs that are both online are online with each other: what one
\* sends the other can read, unless a packet outlived its connection.
OnlineTogether ==
  (\A p \in Peers : friend[p] = "online") => Mutual \/ stale

Promise == INSTANCE Presence
             WITH linked <- Mutual,
                  online <- [p \in Peers |-> friend[p] = "online"]

\* The connections of the two peers give them what Presence promises, as long
\* as no packet outlives its connection: only who gives its connection up ends
\* a link, and nobody comes online alone while the other one is.
ImplementsPresence ==
  Promise!Init /\ [][stale' \/ [Promise!Next]_(Promise!vars)]_vars

\* Whatever is lost and whoever restarts, the programs are in the end online
\* with each other for good.
BackTogether == <>[]((\A p \in Peers : friend[p] = "online") /\ Mutual)
=============================================================================
