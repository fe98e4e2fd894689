---------------------------- MODULE TunnelLemmas ------------------------------
(*****************************************************************************)
(* What a connection of Tunnel goes through when no descriptor is given out  *)
(* that a thread still works on: IInv, the inductive invariant of            *)
(* TunnelProofs, and the lemmas about its parts, about the messages on their *)
(* way, the descriptors and the list of local sockets.                       *)
(*****************************************************************************)
EXTENDS Tunnel, SequenceTheorems, WellFoundedInduction, TLAPS

-----------------------------------------------------------------------------
(* The messages on their way.                                              *)

\* The message the Tox thread of s is writing to a local socket.
Writing(s) == IF tox[s].pc = "write" THEN <<tox[s].msg>> ELSE <<>>

\* What p has sent and the other side has not finished with, oldest first.
Pipe(p) == Writing(Peer(p)) \o net[Peer(p)] \o held[p]

\* A message of k with a command.
Has(q, k, cmd) == \E i \in DOMAIN q : q[i].uuid = k /\ q[i].cmd = cmd

\* No message of k.
Silent(q, k) == \A i \in DOMAIN q : q[i].uuid # k

\* The messages of k ask for a connection.
OnlyAsks(q, k) == \A i \in DOMAIN q : q[i].uuid = k => q[i].cmd = "CREATE_SOCK"

\* What asks for the connection k is the only message of k.
AsksAlone(q, k) ==
  \A i, j \in DOMAIN q :
    q[i].uuid = k /\ q[j].uuid = k /\ q[i].cmd = "CREATE_SOCK" => i = j

\* The connection k is confirmed at most once.
ConfirmsOnce(q, k) ==
  \A i, j \in DOMAIN q :
    /\ q[i].uuid = k /\ q[i].cmd = "CREATE_SOCK_SUCCESS"
    /\ q[j].uuid = k /\ q[j].cmd = "CREATE_SOCK_SUCCESS"
    => i = j

\* A piece of the stream of k, and its number.
Piece(m, k) == m.uuid = k /\ m.cmd = "RAW_DATA"

\* The number of a piece.
Num(m) == m.data[2]

\* The pieces of k lie between low and top, in order.
Flow(q, k, low, top) ==
  /\ \A i \in DOMAIN q : Piece(q[i], k) => /\ q[i].data = <<k, Num(q[i])>>
                                           /\ Num(q[i]) \in low + 1..top
  /\ \A i, j \in DOMAIN q :
       i < j /\ Piece(q[i], k) /\ Piece(q[j], k) => Num(q[i]) < Num(q[j])

\* Every piece of k between low and top is there.
Dense(q, k, low, top) ==
  \A n \in low + 1..top : \E i \in DOMAIN q : Piece(q[i], k) /\ Num(q[i]) = n

\* Every piece of k after low, up to one that is there, is there.
Connected(q, k, low) ==
  \A i \in DOMAIN q : Piece(q[i], k) => Dense(q, k, low, Num(q[i]))

\* No piece of k comes after k was closed.
ClosesLast(q, k) ==
  \A i, j \in DOMAIN q :
    j < i /\ q[j].uuid = k /\ q[j].cmd = "CLOSE_SOCK" => ~ Piece(q[i], k)

\* The messages of k in new are messages of old, in the order of old.
PartOf(new, old, k) ==
  \E h \in [DOMAIN new -> Int] :
    /\ \A i \in DOMAIN new :
         new[i].uuid = k => h[i] \in DOMAIN old /\ old[h[i]] = new[i]
    /\ \A i, j \in DOMAIN new :
         i < j /\ new[i].uuid = k /\ new[j].uuid = k => h[i] < h[j]

\* Every message of k in old is in new.
Keeps(new, old, k) ==
  \A i \in DOMAIN old :
    old[i].uuid = k => \E j \in DOMAIN new : new[j] = old[i]

-----------------------------------------------------------------------------
(* Descriptors.                                                            *)

\* f is the descriptor of k on side s, or was it until it was closed.
Mine(s, k, f) ==
  /\ f \in Fds \ {0} /\ k \in up[s]
  /\ files[s][f] = k \/ (files[s][f] = NoFile /\ k \in shut[s])

\* The list of a side knows the uuid k.
HasRecord(s, k) == \E i \in DOMAIN socks[s] : socks[s][i].uuid = k

\* What the Tox thread of s does for k.
Doing(s, k) == IF tox[s].pc # "idle" /\ tox[s].msg.uuid = k THEN tox[s].pc
                                                            ELSE "idle"

\* The main thread is about to ask for the connection k.
Accepting(k) == main.pc \in {"add", "create"} /\ main.conn = k

\* k has a descriptor that no record names yet.
Creating(s, k) == IF s = "C" THEN main.pc = "add" /\ main.conn = k
                             ELSE Doing("S", k) \in {"add", "set"}

\* The record of f has not been given its connection yet.
Unnamed(s, f) == s = "S" /\ tox["S"].pc = "set" /\ tox["S"].sock = f

\* A descriptor is the one of a connection from its creation until it is
\* closed, and the list knows it.
FilesOK(s) ==
  /\ files[s][0] \in {Std, NoFile}
  /\ \A f \in Fds : files[s][f] \in Conns => files[s][f] \in up[s] \ shut[s]
  /\ \A f, g \in Fds :
       files[s][f] = files[s][g] /\ files[s][f] \in Conns => f = g
  /\ shut[s] \subseteq up[s]
  /\ \A k \in up[s] \ shut[s] : HasRecord(s, k) \/ Creating(s, k)

\* A record is the one of an open descriptor, and the only one of it.
RecordsOK(s) ==
  /\ \A i \in DOMAIN socks[s] :
       /\ socks[s][i].sock \in Fds \ {0}
       /\ IF socks[s][i].uuid = Fresh
          THEN Unnamed(s, socks[s][i].sock)
          ELSE files[s][socks[s][i].sock] = socks[s][i].uuid
  /\ \A i, j \in DOMAIN socks[s] : socks[s][i].sock = socks[s][j].sock => i = j

\* Who makes a connection has its descriptor, which nobody has closed.
MainOK ==
  /\ main.pc # "exit"
  /\ main.pc \in {"add", "create"} => /\ main.conn \in up["C"] \ shut["C"]
                                      /\ Mine("C", main.conn, main.sock)
  /\ main.pc = "add" => WithSock("C", main.sock) = {}

\* The Tox thread works on the descriptor of the connection of its message.
ToxOK ==
  /\ tox["C"].pc \notin {"connect", "add", "set"}
  /\ \A s \in Sides :
       /\ tox[s].pc = "write" => /\ tox[s].msg.cmd = "RAW_DATA"
                                 /\ Mine(s, tox[s].msg.uuid, tox[s].sock)
       /\ tox[s].pc = "close" => \/ tox[s].sock = 0
                                 \/ Mine(s, tox[s].msg.uuid, tox[s].sock)
  /\ tox["S"].pc \in {"add", "set"} =>
       /\ tox["S"].msg.uuid \in up["S"] \ shut["S"]
       /\ Mine("S", tox["S"].msg.uuid, tox["S"].sock)
  /\ tox["S"].pc = "add" => WithSock("S", tox["S"].sock) = {}
  /\ tox["S"].pc = "set" =>
       \E i \in DOMAIN socks["S"] :
         socks["S"][i] = [uuid |-> Fresh, sock |-> tox["S"].sock]

-----------------------------------------------------------------------------
(* The life of a connection.                                               *)

\* The reader has a piece that it has not sent.
Holding == {"got", "addr", "send"}

\* The reader has found the end of the stream.
Ending == {"end", "tell", "close"}

\* A reader thread reads its own connection, or, when the record was gone
\* before it started, standard input.
ReaderOK(s, k) ==
  LET r == reader[s][k]
  IN /\ r.pc # "exit"
     /\ s = "C" => r.pc \notin {"uuid", "success", "addr"}
     /\ r.pc \notin {"none", "done"} =>
          IF r.sock = 0
          THEN /\ s = "C" /\ r.pc \notin Holding /\ r.uuid = NoUuid
               /\ r.pc = "blocked" => r.file = Std
          ELSE /\ Mine(s, k, r.sock) /\ r.uuid \in {k, NoUuid}
               /\ r.pc = "blocked" => r.file = k
     /\ r.pc = "uuid" => r.addr
     /\ r.pc = "success" => r.uuid = k /\ r.addr
     /\ r.pc = "tell" => r.uuid = k
     /\ r.pc \in {"addr", "send"} => r.label = k
     /\ r.pc \in Holding => r.data = <<k, taken[s][k]>> /\ taken[s][k] > 0
     /\ r.pc \in Ending /\ r.sock # 0 => k \in fin[s] \cup shut[s]
     /\ r.pc \in {"none", "start", "uuid", "success"} => taken[s][k] = 0
     /\ taken[s][k] <= wrote[s][k]

\* Side S has not begun with k.
Unborn(k) == /\ k \notin up["S"] \cup refused
             /\ reader["S"][k].pc = "none"
             /\ Doing("S", k) # "connect"

\* Side S has not finished with creating k.
Young(k) == /\ reader["S"][k].pc \in {"none", "start", "uuid", "success"}
            /\ k \notin refused

\* The two sides have nothing to tell each other of k, but that it be created.
Dormant(k) ==
  /\ reader["C"][k].pc = "none"
  /\ Silent(Pipe("S"), k) /\ OnlyAsks(Pipe("C"), k)
  /\ Doing("C", k) \in {"idle", "close"}
  /\ Doing("C", k) = "close" => /\ k \in lost /\ ~ Accepting(k)
                                /\ Unborn(k) /\ Silent(Pipe("C"), k)
  /\ Doing("S", k) \notin {"write", "deny", "close"}
  /\ k \notin shut["S"]

\* Before side S has created k nothing but its request is under way.
YoungOK(k) == Young(k) => Dormant(k)

\* No one has heard of a connection that side C has not asked for.
UnaskedOK(k) ==
  k \notin up["C"] \/ Accepting(k) => /\ Unborn(k) /\ Silent(Pipe("C"), k)
                                      /\ Doing("C", k) = "idle"

\* A connection is asked for once, before side S has begun with it.
AskedOK(k) ==
  Has(Pipe("C"), k, "CREATE_SOCK") => Unborn(k) /\ AsksAlone(Pipe("C"), k)

\* What the Tox thread of S makes has not been made or refused.
MakingOK(k) ==
  Doing("S", k) \in {"connect", "add", "set"} =>
    /\ reader["S"][k].pc = "none"
    /\ k \in up["C"] \ refused
    /\ k \in up["S"] <=> Doing("S", k) # "connect"

\* A connection lives on either side only after S has made it.
MadeOK(k) ==
  /\ \A s \in Sides : reader[s][k].pc # "none" => k \in up["S"]
  /\ k \in up["S"] \cup refused => k \in up["C"]
  /\ ~ (k \in up["S"] /\ k \in refused)
  /\ k \notin up["S"] => \A s \in Sides : /\ out[s][k] = <<>>
                                          /\ ~ Has(Pipe(s), k, "RAW_DATA")

\* A connection is confirmed once, and side C has no reader before.
ConfirmedOK(k) ==
  /\ ~ Has(Pipe("C"), k, "CREATE_SOCK_SUCCESS")
  /\ ~ Has(Pipe("S"), k, "CREATE_SOCK")
  /\ Has(Pipe("S"), k, "CREATE_SOCK_SUCCESS") =>
       /\ k \in up["S"] /\ reader["C"][k].pc = "none"
       /\ ConfirmsOnce(Pipe("S"), k)

\* The creation of k is in order.
CreationOK(k) == /\ YoungOK(k) /\ UnaskedOK(k) /\ AskedOK(k)
                 /\ MakingOK(k) /\ MadeOK(k) /\ ConfirmedOK(k)

-----------------------------------------------------------------------------
(* The streams of a connection.                                            *)

\* How far the other application's stream was given to this one.
Given(s, k) == Promise!Given(s, k)

\* How far the stream was sent.
Top(p, k) == IF reader[p][k].pc \in Holding THEN taken[p][k] - 1 ELSE taken[p][k]

\* The reader may still send a piece.
Reading(p, k) == \/ k \notin shut[p]
                 \/ reader[p][k].pc \in Holding
                 \/ reader[p][k].pc = "blocked" /\ reader[p][k].file = k

\* The pieces of k under way lie between what was given and what was sent.
\* Unless messages were lost or k was closed none of them is missing.
StreamOK(p, k) ==
  LET s == Peer(p)
  IN /\ Given(s, k) \in Nat /\ Given(s, k) <= Top(p, k)
     /\ Flow(Pipe(p), k, Given(s, k), Top(p, k))
     /\ k \notin lost \cup shut[s] =>
          /\ Connected(Pipe(p), k, Given(s, k))
          /\ Reading(p, k) => Dense(Pipe(p), k, Given(s, k), Top(p, k))

\* What an application was given are pieces of its own connection.
OutOK(s, k) ==
  \A i \in DOMAIN out[s][k] : /\ out[s][k][i][1] = k
                              /\ k \notin lost => out[s][k][i][2] = i

\* Side s may close k whatever the other side did.
Excused(s, k) == k \in fin[s] \cup shut[s] \cup refused \cup lost

\* The application ended its stream, and what it wrote was given or is sent.
AllSent(p, k) == /\ k \in fin[p] /\ reader[p][k].pc \notin Holding
                 /\ taken[p][k] = wrote[p][k]
                 /\ Dense(Pipe(p), k, Given(Peer(p), k), wrote[p][k])

\* A side closes k only when it is excused, or when the other application
\* has ended its stream and all of it is given or is under way.
EndOK(p, k) ==
  LET s == Peer(p)
  IN /\ k \in shut[p] \/ (reader[p][k].pc \in Ending /\ reader[p][k].sock # 0) =>
          Excused(s, k) \/ AllSent(p, k)
     /\ Has(Pipe(p), k, "CLOSE_SOCK") =>
          /\ Excused(p, k)
          /\ Excused(s, k) \/ (AllSent(p, k) /\ ClosesLast(Pipe(p), k))
     /\ Doing(s, k) = "close" =>
          /\ Excused(p, k)
          /\ Excused(s, k) \/ (k \in fin[p] /\ Given(s, k) = wrote[p][k])
     /\ Doing(p, k) = "deny" => k \in shut[p] \cup refused

\* What holds of a connection.
Life(k) == /\ CreationOK(k)
           /\ \A s \in Sides : /\ ReaderOK(s, k) /\ StreamOK(s, k)
                               /\ OutOK(s, k) /\ EndOK(s, k)

\* What holds of the descriptors and those who work with them.
Desk == MainOK /\ ToxOK /\ \A s \in Sides : FilesOK(s) /\ RecordsOK(s)

\* The inductive invariant.
IInv == TypeOK /\ Desk /\ \A k \in Conns : Life(k)

-----------------------------------------------------------------------------
(* Minima, and functions with one value changed.                           *)

\* A nonempty set of natural numbers has a least element.
LEMMA MinFacts ==
  ASSUME NEW S, S \subseteq Nat, S # {}
  PROVE  Min(S) \in S
<1>1. \E x \in S : \A y \in S : ~ (<<y, x>> \in OpToRel(<, Nat))
  BY NatLessThanWellFounded, WFMin
<1>2. PICK x \in S : \A y \in S : ~ (<<y, x>> \in OpToRel(<, Nat))
  BY <1>1
<1>3. ASSUME NEW y \in S PROVE x =< y
  <2>1. ~ (<<y, x>> \in OpToRel(<, Nat)) /\ <<y, x>> \in Nat \X Nat
    BY <1>2
  <2> QED BY <2>1 DEF OpToRel
<1> QED BY <1>3 DEF Min

\* The value of one side is changed.
LEMMA SideChange ==
  ASSUME NEW T, NEW f \in [Sides -> T], NEW s \in Sides, NEW v,
         NEW g, g = [f EXCEPT ![s] = v]
  PROVE  /\ v \in T => g \in [Sides -> T]
         /\ \A q \in Sides : g[q] = IF q = s THEN v ELSE f[q]
OBVIOUS

\* The value of one connection of one side is changed.
LEMMA ConnChange ==
  ASSUME NEW K, NEW T, NEW f \in [Sides -> [K -> T]], NEW s \in Sides,
         NEW k \in K, NEW v, NEW g, g = [f EXCEPT ![s][k] = v]
  PROVE  /\ v \in T => g \in [Sides -> [K -> T]]
         /\ \A q \in Sides, c \in K :
              g[q][c] = IF q = s /\ c = k THEN v ELSE f[q][c]
OBVIOUS

-----------------------------------------------------------------------------
(* Pipes.                                                                  *)

\* What a sequence of messages is.
LEMMA Indices ==
  ASSUME NEW q \in Seq(Messages)
  PROVE  /\ Len(q) \in Nat /\ DOMAIN q = 1..Len(q)
         /\ \A i \in DOMAIN q : i \in Nat /\ q[i] \in Messages
BY LenProperties, ElementOfSeq

\* A pipe that stays as it was.
LEMMA PartSame ==
  ASSUME NEW q \in Seq(Messages), NEW k
  PROVE  PartOf(q, q, k) /\ Keeps(q, q, k)
<1> DEFINE h == [i \in DOMAIN q |-> i]
<1>1. h \in [DOMAIN q -> Int]
  BY Indices
<1>2. PartOf(q, q, k)
  BY <1>1 DEF PartOf
<1> QED BY <1>2 DEF Keeps

\* A message of another connection is appended.
LEMMA PartAppend ==
  ASSUME NEW q \in Seq(Messages), NEW m \in Messages, NEW k, m.uuid # k
  PROVE  PartOf(Append(q, m), q, k) /\ Keeps(Append(q, m), q, k)
<1> DEFINE l == Append(q, m)
           h == [i \in DOMAIN l |-> i]
<1>1. /\ l \in Seq(Messages) /\ Len(l) = Len(q) + 1
      /\ \A i \in 1..Len(q) : l[i] = q[i]
      /\ l[Len(q) + 1] = m
  BY AppendProperties
<1>2. /\ Len(q) \in Nat /\ DOMAIN q = 1..Len(q)
      /\ DOMAIN l = 1..Len(q) + 1
  BY <1>1, Indices
<1> HIDE DEF l
<1>3. /\ h \in [DOMAIN l -> Int]
      /\ \A i \in DOMAIN l :
           l[i].uuid = k => h[i] \in DOMAIN q /\ q[h[i]] = l[i]
      /\ \A i, j \in DOMAIN l : i < j => h[i] < h[j]
  BY <1>1, <1>2
<1>4. PartOf(l, q, k)
  BY <1>3 DEF PartOf
<1>5. Keeps(l, q, k)
  BY <1>1, <1>2 DEF Keeps
<1> QED BY <1>4, <1>5 DEF l

\* The oldest message leaves.
LEMMA PartTail ==
  ASSUME NEW q \in Seq(Messages), q # <<>>, NEW k
  PROVE  /\ PartOf(Tail(q), q, k)
         /\ Head(q).uuid # k => Keeps(Tail(q), q, k)
         /\ \A i \in DOMAIN q :
              q[i] = Head(q) \/ \E j \in DOMAIN Tail(q) : Tail(q)[j] = q[i]
<1> DEFINE t == Tail(q)
           h == [i \in DOMAIN t |-> i + 1]
<1>1. /\ t \in Seq(Messages) /\ Len(t) = Len(q) - 1
      /\ \A i \in 1..Len(t) : t[i] = q[i + 1]
      /\ Head(q) = q[1]
  BY HeadTailProperties
<1>2. /\ Len(q) \in Nat /\ DOMAIN q = 1..Len(q)
      /\ DOMAIN t = 1..Len(q) - 1
  BY <1>1, Indices
<1> HIDE DEF t
<1>3. /\ h \in [DOMAIN t -> Int]
      /\ \A i \in DOMAIN t : h[i] \in DOMAIN q /\ q[h[i]] = t[i]
      /\ \A i, j \in DOMAIN t : i < j => h[i] < h[j]
  BY <1>1, <1>2
<1>4. PartOf(t, q, k)
  BY <1>3 DEF PartOf
<1>5. ASSUME NEW i \in DOMAIN q
      PROVE  q[i] = Head(q) \/ \E j \in DOMAIN t : t[j] = q[i]
  <2>1. CASE i = 1
    BY <2>1, <1>1
  <2>2. CASE i # 1
    <3>1. i - 1 \in DOMAIN t /\ t[i - 1] = q[i]
      BY <2>2, <1>1, <1>2
    <3> QED BY <3>1
  <2> QED BY <2>1, <2>2
<1>6. Head(q).uuid # k => Keeps(t, q, k)
  BY <1>5 DEF Keeps
<1> QED BY <1>4, <1>5, <1>6 DEF t

\* The messages b in the middle of a pipe are dropped.
LEMMA PartCut ==
  ASSUME NEW a \in Seq(Messages), NEW b \in Seq(Messages),
         NEW c \in Seq(Messages), NEW k
  PROVE  /\ PartOf(a \o c, a \o b \o c, k)
         /\ k \notin Uuids(b) => Keeps(a \o c, a \o b \o c, k)
<1> DEFINE l == a \o b \o c
           t == a \o c
           h == [i \in DOMAIN t |-> IF i <= Len(a) THEN i ELSE i + Len(b)]
<1>1. /\ Len(a) \in Nat /\ Len(b) \in Nat /\ Len(c) \in Nat
      /\ DOMAIN b = 1..Len(b)
      /\ a \o b \in Seq(Messages) /\ t \in Seq(Messages)
      /\ l \in Seq(Messages)
      /\ Len(a \o b) = Len(a) + Len(b) /\ Len(t) = Len(a) + Len(c)
      /\ Len(l) = Len(a) + Len(b) + Len(c)
      /\ DOMAIN t = 1..Len(a) + Len(c)
      /\ DOMAIN l = 1..Len(a) + Len(b) + Len(c)
  BY ConcatProperties, Indices
<1>2. \A i \in DOMAIN t : t[i] = IF i <= Len(a) THEN a[i] ELSE c[i - Len(a)]
  BY <1>1, ConcatProperties
<1>3. ASSUME NEW i \in DOMAIN l
      PROVE  l[i] = IF i <= Len(a) THEN a[i]
                    ELSE IF i <= Len(a) + Len(b) THEN b[i - Len(a)]
                    ELSE c[i - (Len(a) + Len(b))]
  <2>1. l[i] = IF i <= Len(a \o b) THEN (a \o b)[i] ELSE c[i - Len(a \o b)]
    BY <1>1, ConcatProperties
  <2>2. i <= Len(a \o b) => (a \o b)[i] = IF i <= Len(a) THEN a[i]
                                          ELSE b[i - Len(a)]
    BY <1>1, ConcatProperties
  <2> QED BY <1>1, <2>1, <2>2
<1> HIDE DEF l, t
<1>4. /\ h \in [DOMAIN t -> Int]
      /\ \A i, j \in DOMAIN t : i < j => h[i] < h[j]
  BY <1>1
<1>5. PartOf(t, l, k)
  <2>1. ASSUME NEW i \in DOMAIN t
        PROVE  h[i] \in DOMAIN l /\ l[h[i]] = t[i]
    <3>1. CASE i <= Len(a)
      <4>1. h[i] = i /\ i \in DOMAIN l
        BY <3>1, <1>1
      <4> QED BY <3>1, <4>1, <1>2, <1>3
    <3>2. CASE ~ (i <= Len(a))
      <4> DEFINE n == i + Len(b)
      <4>1. /\ n \in DOMAIN l /\ ~ (n <= Len(a))
            /\ ~ (n <= Len(a) + Len(b))
            /\ n - (Len(a) + Len(b)) = i - Len(a)
        BY <3>2, <1>1
      <4>2. h[i] = n
        BY <3>2
      <4> HIDE DEF n, h
      <4>3. l[n] = c[n - (Len(a) + Len(b))]
        BY <4>1, <1>3
      <4> QED BY <3>2, <4>1, <4>2, <4>3, <1>2
    <3> QED BY <3>1, <3>2
  <2>2. \A i \in DOMAIN t : h[i] \in DOMAIN l /\ l[h[i]] = t[i]
    BY <2>1
  <2>3. \A i, j \in DOMAIN t :
          i < j /\ t[i].uuid = k /\ t[j].uuid = k => h[i] < h[j]
    BY <1>4
  <2>4. h \in [DOMAIN t -> Int]
    BY <1>4
  <2> HIDE DEF h
  <2> QED BY <2>2, <2>3, <2>4 DEF PartOf
<1>6. ASSUME k \notin Uuids(b), NEW i \in DOMAIN l, l[i].uuid = k
      PROVE  \E j \in DOMAIN t : t[j] = l[i]
  <2>1. CASE i <= Len(a)
    <3>1. i \in DOMAIN t
      BY <2>1, <1>1
    <3>2. t[i] = a[i] /\ l[i] = a[i]
      BY <2>1, <3>1, <1>2, <1>3
    <3> QED BY <3>1, <3>2
  <2>2. CASE i > Len(a) /\ i <= Len(a) + Len(b)
    <3>1. i - Len(a) \in DOMAIN b /\ l[i] = b[i - Len(a)]
      BY <2>2, <1>1, <1>3
    <3> QED BY <3>1, <1>6 DEF Uuids
  <2>3. CASE i > Len(a) + Len(b)
    <3>1. /\ i - Len(b) \in DOMAIN t
          /\ i - Len(b) - Len(a) = i - (Len(a) + Len(b))
          /\ ~ (i - Len(b) <= Len(a))
      BY <2>3, <1>1
    <3> QED BY <3>1, <2>3, <1>1, <1>2, <1>3
  <2> QED BY <2>1, <2>2, <2>3, <1>1
<1>7. k \notin Uuids(b) => Keeps(t, l, k)
  BY <1>6 DEF Keeps
<1> QED BY <1>5, <1>7 DEF l, t

\* What holds of the messages of a connection holds when some have left.
LEMMA PartKeeps ==
  ASSUME NEW old \in Seq(Messages), NEW new \in Seq(Messages), NEW k,
         PartOf(new, old, k)
  PROVE  /\ \A cmd : Has(new, k, cmd) => Has(old, k, cmd)
         /\ Silent(old, k) => Silent(new, k)
         /\ OnlyAsks(old, k) => OnlyAsks(new, k)
         /\ AsksAlone(old, k) => AsksAlone(new, k)
         /\ ConfirmsOnce(old, k) => ConfirmsOnce(new, k)
         /\ ClosesLast(old, k) => ClosesLast(new, k)
         /\ \A low, top : Flow(old, k, low, top) => Flow(new, k, low, top)
<1>1. PICK h \in [DOMAIN new -> Int] :
        /\ \A i \in DOMAIN new :
             new[i].uuid = k => h[i] \in DOMAIN old /\ old[h[i]] = new[i]
        /\ \A i, j \in DOMAIN new :
             i < j /\ new[i].uuid = k /\ new[j].uuid = k => h[i] < h[j]
  BY DEF PartOf
<1>2. \A cmd : Has(new, k, cmd) => Has(old, k, cmd)
  BY <1>1 DEF Has
<1>3. Silent(old, k) => Silent(new, k)
  BY <1>1 DEF Silent
<1>4. OnlyAsks(old, k) => OnlyAsks(new, k)
  BY <1>1 DEF OnlyAsks
<1>5. /\ \A i, j \in DOMAIN new : i = j \/ i < j \/ j < i
      /\ \A i, j \in DOMAIN old : ~ (i < j /\ i = j)
  BY Indices
<1>6. /\ AsksAlone(old, k) => AsksAlone(new, k)
      /\ ConfirmsOnce(old, k) => ConfirmsOnce(new, k)
  BY <1>1, <1>5 DEF AsksAlone, ConfirmsOnce
<1>7. ClosesLast(old, k) => ClosesLast(new, k)
  BY <1>1 DEF ClosesLast, Piece
<1>8. \A low, top : Flow(old, k, low, top) => Flow(new, k, low, top)
  BY <1>1 DEF Flow, Piece
<1> QED BY <1>2, <1>3, <1>4, <1>6, <1>7, <1>8

-----------------------------------------------------------------------------
(* What stays as it is when nothing happens to a connection.                *)

\* There are two sides, and each is the peer of the other.
LEMMA TwoSides ==
  /\ "C" \in Sides /\ "S" \in Sides
  /\ \A s \in Sides : /\ Peer(s) \in Sides /\ Peer(s) # s /\ Peer(Peer(s)) = s
                      /\ \A q \in Sides : q = s \/ q = Peer(s)
BY DEF Sides, Peer

\* A pipe is a sequence of messages.
MailTyped == \A p \in Sides : /\ Writing(p) \in Seq(Messages)
                              /\ net[p] \in Seq(Messages)
                              /\ held[p] \in Seq(Messages)
                              /\ Pipe(p) \in Seq(Messages)

\* Pipes are sequences of messages.
LEMMA PipeTyped ==
  TypeOK => MailTyped
<1> SUFFICES ASSUME TypeOK, NEW p \in Sides
             PROVE  /\ Writing(p) \in Seq(Messages)
                    /\ net[p] \in Seq(Messages)
                    /\ held[p] \in Seq(Messages)
                    /\ Pipe(p) \in Seq(Messages)
  BY DEF MailTyped
<1>1. \A q \in Sides : Writing(q) \in Seq(Messages)
  BY EmptySeq DEF TypeOK, Writing
<1>2. \A q \in Sides : net[q] \in Seq(Messages) /\ held[q] \in Seq(Messages)
  BY DEF TypeOK
<1>3. Writing(Peer(p)) \o net[Peer(p)] \o held[p] \in Seq(Messages)
  BY <1>1, <1>2, TwoSides, ConcatProperties
<1> QED BY <1>1, <1>2, <1>3 DEF Pipe

\* And they are after a step that keeps the types.
LEMMA PipeTypedNext ==
  TypeOK' => /\ MailTyped'
             /\ \A p \in Sides : /\ Writing(p)' \in Seq(Messages)
                                 /\ net'[p] \in Seq(Messages)
                                 /\ held'[p] \in Seq(Messages)
                                 /\ Pipe(p)' \in Seq(Messages)
<1>1. TypeOK' => MailTyped'
  BY PipeTyped, PTL
<1> QED BY <1>1 DEF MailTyped

\* What is complete stays complete when every message of k is kept.
LEMMA KeepsDense ==
  ASSUME NEW old, NEW new, NEW k, Keeps(new, old, k), NEW low, NEW top,
         Dense(old, k, low, top)
  PROVE  Dense(new, k, low, top)
BY DEF Keeps, Dense, Piece

\* Pieces without a hole stay so when every message of k is kept.
LEMMA PartConnected ==
  ASSUME NEW old \in Seq(Messages), NEW new \in Seq(Messages), NEW k,
         PartOf(new, old, k), Keeps(new, old, k), NEW low,
         Connected(old, k, low)
  PROVE  Connected(new, k, low)
<1>1. ASSUME NEW i \in DOMAIN new, Piece(new[i], k)
      PROVE  \E j \in DOMAIN old : old[j] = new[i]
  BY <1>1 DEF PartOf, Piece
<1>2. ASSUME NEW i \in DOMAIN new, Piece(new[i], k)
      PROVE  Dense(old, k, low, Num(new[i]))
  BY <1>1, <1>2 DEF Connected
<1> QED BY <1>2, KeepsDense DEF Connected

\* What was lost, refused, shut, ended and made stays so.
Grows(k) ==
  /\ k \in lost => k \in lost'
  /\ k \in refused => k \in refused'
  /\ \A s \in Sides : /\ k \in shut[s] => k \in shut'[s]
                      /\ k \in fin[s] => k \in fin'[s]
                      /\ k \in up[s] => k \in up'[s]
                      /\ \A f \in Fds :
                           /\ reader[s][k].pc \notin {"none", "done"}
                           /\ reader[s][k].sock = f /\ Mine(s, k, f)
                           => Mine(s, k, f)'

\* The reader of k does nothing.
LEMMA ReaderFrame ==
  ASSUME TypeOK, NEW s \in Sides, NEW k \in Conns, ReaderOK(s, k), Grows(k),
         reader'[s][k] = reader[s][k], taken'[s][k] = taken[s][k],
         taken[s][k] <= wrote'[s][k]
  PROVE  ReaderOK(s, k)'
<1>1. reader[s][k].sock \in Fds
  BY DEF TypeOK, Readers
<1> QED BY <1>1 DEF ReaderOK, Grows

\* How far the reader of k has come.
Stage(s, k) == IF reader[s][k].pc = "none" THEN "new"
               ELSE IF s = "S" /\ reader[s][k].pc \in {"start", "uuid", "success"}
                    THEN "young" ELSE "grown"

\* The creation of k does not go on, but messages of k may be lost.
LEMMA CreationFrame ==
  ASSUME TypeOK, TypeOK', NEW k \in Conns, CreationOK(k), Grows(k),
         \A s \in Sides : /\ Stage(s, k)' = Stage(s, k)
                          /\ k \in up'[s] <=> k \in up[s]
                          /\ Doing(s, k)' = Doing(s, k)
                          /\ k \notin up["S"] => out'[s][k] = out[s][k]
                          /\ PartOf(Pipe(s)', Pipe(s), k),
         k \in refused' <=> k \in refused,
         Accepting(k)' <=> Accepting(k),
         k \in shut'["S"] => k \in shut["S"]
  PROVE  CreationOK(k)'
<1>1. /\ \A s \in Sides :
           (reader[s][k].pc = "none")' <=> reader[s][k].pc = "none"
      /\ (reader["S"][k].pc \in {"none", "start", "uuid", "success"})'
           <=> reader["S"][k].pc \in {"none", "start", "uuid", "success"}
  BY TwoSides DEF Stage
<1>2. \A s \in Sides :
        /\ \A cmd : Has(Pipe(s)', k, cmd) => Has(Pipe(s), k, cmd)
        /\ Silent(Pipe(s), k) => Silent(Pipe(s)', k)
        /\ OnlyAsks(Pipe(s), k) => OnlyAsks(Pipe(s)', k)
        /\ AsksAlone(Pipe(s), k) => AsksAlone(Pipe(s)', k)
        /\ ConfirmsOnce(Pipe(s), k) => ConfirmsOnce(Pipe(s)', k)
  BY PipeTyped, PipeTypedNext, PartKeeps DEF MailTyped
<1>3. Young(k)' => Young(k)
  BY <1>1, TwoSides DEF Young, Grows
<1>5. Unborn(k) => Unborn(k)'
  BY <1>1, TwoSides DEF Unborn
<1>4. Dormant(k) => Dormant(k)'
  BY <1>1, <1>2, <1>5, TwoSides DEF Dormant, Grows
<1> USE TwoSides DEF CreationOK
<1>6. YoungOK(k)'
  BY <1>3, <1>4 DEF YoungOK
<1>7. UnaskedOK(k)'
  BY <1>5, <1>2 DEF UnaskedOK
<1>8. AskedOK(k)'
  BY <1>5, <1>2 DEF AskedOK
<1>9. MakingOK(k)'
  BY <1>1 DEF MakingOK
<1>10. MadeOK(k)'
  BY <1>1, <1>2 DEF MadeOK
<1>11. ConfirmedOK(k)'
  BY <1>1, <1>2 DEF ConfirmedOK
<1> QED BY <1>6, <1>7, <1>8, <1>9, <1>10, <1>11

\* Nothing is read or given of the stream of k, but pieces may be lost.
LEMMA StreamFrame ==
  ASSUME TypeOK, TypeOK', NEW p \in Sides, NEW k \in Conns, StreamOK(p, k),
         Grows(k), out'[Peer(p)][k] = out[Peer(p)][k],
         Top(p, k)' = Top(p, k), Reading(p, k)' => Reading(p, k),
         PartOf(Pipe(p)', Pipe(p), k),
         k \in lost' \/ Keeps(Pipe(p)', Pipe(p), k)
  PROVE  StreamOK(p, k)'
<1>1. Given(Peer(p), k)' = Given(Peer(p), k)
  BY DEF Given, Promise!Given
<1>2. Flow(Pipe(p)', k, Given(Peer(p), k), Top(p, k))
  BY PipeTyped, PipeTypedNext, PartKeeps DEF StreamOK, MailTyped
<1>3. k \notin lost' \cup shut'[Peer(p)] =>
        /\ Connected(Pipe(p)', k, Given(Peer(p), k))
        /\ Reading(p, k)' => Dense(Pipe(p)', k, Given(Peer(p), k), Top(p, k))
  BY TwoSides, PipeTyped, PipeTypedNext, PartConnected, KeepsDense
     DEF StreamOK, Grows, MailTyped
<1> QED BY <1>1, <1>2, <1>3 DEF StreamOK

\* All that was sent stays sent.
LEMMA AllSentFrame ==
  ASSUME NEW p \in Sides, NEW k \in Conns, Grows(k), AllSent(p, k),
         out'[Peer(p)][k] = out[Peer(p)][k],
         taken'[p][k] = taken[p][k], wrote'[p][k] = wrote[p][k],
         reader'[p][k].pc \notin Holding,
         Keeps(Pipe(p)', Pipe(p), k)
  PROVE  AllSent(p, k)'
<1>1. Given(Peer(p), k)' = Given(Peer(p), k)
  BY DEF Given, Promise!Given
<1>2. Dense(Pipe(p)', k, Given(Peer(p), k), wrote[p][k])
  BY KeepsDense DEF AllSent
<1> QED BY <1>1, <1>2 DEF AllSent, Grows

\* No one begins to close k.
LEMMA EndFrame ==
  ASSUME TypeOK, TypeOK', NEW p \in Sides, NEW k \in Conns, EndOK(p, k),
         Grows(k), out'[Peer(p)][k] = out[Peer(p)][k],
         k \in fin[p] => taken'[p][k] = taken[p][k] /\ wrote'[p][k] = wrote[p][k],
         k \in shut'[p] => k \in shut[p],
         reader'[p][k].pc \in Ending /\ reader'[p][k].sock # 0 =>
           reader[p][k].pc \in Ending /\ reader[p][k].sock # 0,
         reader'[p][k].pc \in Holding => reader[p][k].pc \in Holding,
         PartOf(Pipe(p)', Pipe(p), k),
         k \in lost' \/ Keeps(Pipe(p)', Pipe(p), k),
         Doing(p, k)' = "deny" =>
           Doing(p, k) = "deny" \/ k \in shut[p] \cup refused,
         Doing(Peer(p), k)' = "close" => Doing(Peer(p), k) = "close"
  PROVE  EndOK(p, k)'
<1>1. Given(Peer(p), k)' = Given(Peer(p), k)
  BY DEF Given, Promise!Given
<1>2. \A q \in Sides : Excused(q, k) => Excused(q, k)'
  BY DEF Excused, Grows
<1>3. AllSent(p, k) => AllSent(p, k)' \/ Excused(Peer(p), k)'
  BY AllSentFrame DEF AllSent, Excused
<1>4. k \in fin[p] /\ Given(Peer(p), k) = wrote[p][k] =>
        (k \in fin[p] /\ Given(Peer(p), k) = wrote[p][k])'
  BY <1>1 DEF Grows
<1>5. /\ Has(Pipe(p)', k, "CLOSE_SOCK") => Has(Pipe(p), k, "CLOSE_SOCK")
      /\ ClosesLast(Pipe(p), k) => ClosesLast(Pipe(p)', k)
  BY PipeTyped, PipeTypedNext, PartKeeps DEF MailTyped
<1> QED BY <1>1, <1>2, <1>3, <1>4, <1>5, TwoSides DEF EndOK, Grows

\* Nothing is given of k.
LEMMA OutFrame ==
  ASSUME NEW s \in Sides, NEW k \in Conns, OutOK(s, k), Grows(k),
         out'[s][k] = out[s][k]
  PROVE  OutOK(s, k)'
BY DEF OutOK, Grows

\* Nothing happens to k, but that messages of it are lost.
Still(k) ==
  /\ Grows(k)
  /\ \A s \in Sides : /\ reader'[s][k] = reader[s][k]
                      /\ taken'[s][k] = taken[s][k]
                      /\ wrote'[s][k] = wrote[s][k]
                      /\ out'[s][k] = out[s][k]
                      /\ k \in up'[s] => k \in up[s]
                      /\ k \in shut'[s] => k \in shut[s]
                      /\ Doing(s, k)' = Doing(s, k)
                      /\ PartOf(Pipe(s)', Pipe(s), k)
                      /\ k \in lost' \/ Keeps(Pipe(s)', Pipe(s), k)
  /\ k \in refused' => k \in refused
  /\ Accepting(k)' <=> Accepting(k)

\* What holds of k still holds when nothing happens to it.
LEMMA StillAlive ==
  ASSUME TypeOK, TypeOK', NEW k \in Conns, Life(k), Still(k)
  PROVE  Life(k)'
<1>1. CreationOK(k)'
  <2>1. \A s \in Sides : Stage(s, k)' = Stage(s, k)
    BY DEF Still, Stage
  <2>2. \A s \in Sides : k \in up'[s] <=> k \in up[s]
    BY DEF Still, Grows
  <2>3. k \in refused' <=> k \in refused
    BY DEF Still, Grows
  <2> QED BY <2>1, <2>2, <2>3, CreationFrame, TwoSides DEF Life, Still
<1>2. ASSUME NEW s \in Sides
      PROVE  (ReaderOK(s, k) /\ StreamOK(s, k) /\ OutOK(s, k) /\ EndOK(s, k))'
  <2>0. Life(k) /\ Still(k)
    OBVIOUS
  <2>1. ReaderOK(s, k)'
    BY <2>0, ReaderFrame DEF Life, Still, ReaderOK
  <2>2. StreamOK(s, k)'
    <3>1. Top(s, k)' = Top(s, k) /\ (Reading(s, k)' => Reading(s, k))
      BY <2>0 DEF Still, Top, Reading, Grows
    <3> QED BY <2>0, <3>1, StreamFrame, TwoSides DEF Life, Still
  <2>3. OutOK(s, k)'
    BY <2>0, OutFrame DEF Life, Still
  <2>4. EndOK(s, k)'
    BY <2>0, EndFrame, TwoSides DEF Life, Still
  <2> QED BY <2>1, <2>2, <2>3, <2>4
<1> QED BY <1>1, <1>2 DEF Life

-----------------------------------------------------------------------------
(* What happens to pipes when messages are sent, moved, handled and lost.   *)

\* No message of j has come or gone, but that some are lost.
Flows(j) == \A p \in Sides : /\ PartOf(Pipe(p)', Pipe(p), j)
                             /\ j \in lost' \/ Keeps(Pipe(p)', Pipe(p), j)

\* A message, as Post makes it.
Message(cmd, u, data) == [cmd |-> cmd, uuid |-> u, data |-> data]

\* Sequences may be put together in any order of the brackets.
LEMMA Regroup ==
  \A a, b, c \in Seq(Messages) : (a \o b) \o c = a \o (b \o c)
BY ConcatAssociative

\* The first message of the second part of a pipe is dropped.
LEMMA PartFirst ==
  ASSUME NEW a \in Seq(Messages), NEW c \in Seq(Messages), c # <<>>, NEW k
  PROVE  /\ PartOf(a \o Tail(c), a \o c, k)
         /\ Head(c).uuid # k => Keeps(a \o Tail(c), a \o c, k)
<1> DEFINE l == <<Head(c)>>
           t == Tail(c)
<1>1. l \in Seq(Messages) /\ t \in Seq(Messages) /\ c = l \o t
  BY HeadTailProperties
<1>2. Head(c).uuid # k => k \notin Uuids(l)
  BY DEF Uuids
<1> HIDE DEF l, t
<1>3. a \o c = a \o l \o t
  BY <1>1, Regroup
<1>4. /\ PartOf(a \o t, a \o l \o t, k)
      /\ k \notin Uuids(l) => Keeps(a \o t, a \o l \o t, k)
  BY <1>1, PartCut
<1> QED BY <1>2, <1>3, <1>4 DEF t

\* q consists of a, b and c.
Joined(q, a, b, c) ==
  /\ q \in Seq(Messages)
  /\ Len(q) = Len(a) + Len(b) + Len(c)
  /\ \A i \in 1..Len(q) :
       q[i] = IF i <= Len(a) THEN a[i]
              ELSE IF i <= Len(a) + Len(b) THEN b[i - Len(a)]
              ELSE c[i - (Len(a) + Len(b))]

\* Three sequences put together consist of the three.
LEMMA Joins ==
  ASSUME NEW a \in Seq(Messages), NEW b \in Seq(Messages),
         NEW c \in Seq(Messages)
  PROVE  Joined(a \o b \o c, a, b, c)
<1> DEFINE l == a \o b \o c
<1>1. /\ Len(a) \in Nat /\ Len(b) \in Nat /\ Len(c) \in Nat
      /\ DOMAIN b = 1..Len(b)
      /\ a \o b \in Seq(Messages)
      /\ l \in Seq(Messages)
      /\ Len(a \o b) = Len(a) + Len(b)
      /\ Len(l) = Len(a) + Len(b) + Len(c)
      /\ DOMAIN l = 1..Len(a) + Len(b) + Len(c)
  BY ConcatProperties, Indices
<1>3. ASSUME NEW i \in DOMAIN l
      PROVE  l[i] = IF i <= Len(a) THEN a[i]
                    ELSE IF i <= Len(a) + Len(b) THEN b[i - Len(a)]
                    ELSE c[i - (Len(a) + Len(b))]
  <2>1. l[i] = IF i <= Len(a \o b) THEN (a \o b)[i] ELSE c[i - Len(a \o b)]
    BY <1>1, ConcatProperties
  <2>2. i <= Len(a \o b) => (a \o b)[i] = IF i <= Len(a) THEN a[i]
                                          ELSE b[i - Len(a)]
    BY <1>1, ConcatProperties
  <2> QED BY <1>1, <2>1, <2>2
<1> HIDE DEF l
<1> QED BY <1>1, <1>3 DEF Joined, l

\* Two sequences with the same parts are the same.
LEMMA JoinedMoved ==
  ASSUME NEW a \in Seq(Messages), NEW b \in Seq(Messages),
         NEW c \in Seq(Messages), NEW d \in Seq(Messages),
         NEW t \in Seq(Messages), NEW new, NEW old,
         Len(c) = Len(t) + 1, Len(d) = Len(b) + 1,
         \A i \in 1..Len(b) : d[i] = b[i],
         d[Len(b) + 1] = c[1],
         \A i \in 1..Len(t) : t[i] = c[i + 1],
         Joined(new, a, d, t), Joined(old, a, b, c)
  PROVE  new = old
<1> PICK x \in Nat, y \in Nat, z \in Nat :
      Len(a) = x /\ Len(b) = y /\ Len(t) = z
  BY Indices
<1>1. /\ old \in Seq(Messages) /\ Len(old) = x + y + z + 1
      /\ new \in Seq(Messages) /\ Len(new) = x + y + z + 1
  BY DEF Joined
<1>2. /\ \A i \in 1..y : d[i] = b[i]
      /\ d[y + 1] = c[1]
      /\ \A i \in 1..z : t[i] = c[i + 1]
  OBVIOUS
<1>3. /\ \A i \in 1..x + y + z + 1 :
           old[i] = IF i <= x THEN a[i]
                    ELSE IF i <= x + y THEN b[i - x] ELSE c[i - (x + y)]
      /\ \A i \in 1..x + y + z + 1 :
           new[i] = IF i <= x THEN a[i]
                    ELSE IF i <= x + (y + 1) THEN d[i - x]
                    ELSE t[i - (x + (y + 1))]
  BY <1>1 DEF Joined
<1>5. ASSUME NEW i \in 1..x + y + z + 1 PROVE new[i] = old[i]
  <2>1. CASE i <= x
    BY <2>1, <1>3
  <2>2. CASE ~ (i <= x) /\ i <= x + y
    <3>1. i - x \in 1..y
      BY <2>2
    <3> QED BY <2>2, <3>1, <1>2, <1>3
  <2>3. CASE i = x + y + 1
    BY <2>3, <1>2, <1>3
  <2>4. CASE ~ (i <= x + y) /\ i # x + y + 1
    <3> DEFINE n == i - (x + (y + 1))
    <3>a. i > x + y + 1
      BY <2>4
    <3>1. n \in 1..z /\ i - (x + y) = n + 1
      BY <2>4
    <3> QED BY <3>1, <3>a, <1>2, <1>3
  <2> QED BY <2>1, <2>2, <2>3, <2>4
<1>6. Len(new) = Len(old) /\ \A i \in 1..Len(new) : new[i] = old[i]
  BY <1>1, <1>5
<1>7. old \in Seq(Messages) /\ new \in Seq(Messages)
  BY <1>1
<1> QED BY <1>6, <1>7, SeqEqual

\* The first message of the second part of a pipe is moved to the first part.
LEMMA PartMoved ==
  ASSUME NEW a \in Seq(Messages), NEW b \in Seq(Messages),
         NEW c \in Seq(Messages), c # <<>>, NEW k
  PROVE  /\ PartOf(a \o Append(b, Head(c)) \o Tail(c), a \o b \o c, k)
         /\ Keeps(a \o Append(b, Head(c)) \o Tail(c), a \o b \o c, k)
<1> DEFINE d == Append(b, Head(c))
           t == Tail(c)
           new == a \o d \o t
           old == a \o b \o c
<1>1. /\ d \in Seq(Messages) /\ t \in Seq(Messages)
      /\ Len(a) \in Nat /\ Len(b) \in Nat /\ Len(c) \in Nat \ {0}
      /\ Len(d) = Len(b) + 1 /\ Len(t) = Len(c) - 1
      /\ \A i \in 1..Len(b) : d[i] = b[i]
      /\ d[Len(b) + 1] = c[1]
      /\ \A i \in 1..Len(t) : t[i] = c[i + 1]
  BY HeadTailProperties, AppendProperties, EmptySeq, Indices
<1> HIDE DEF d, t
<1>2. Joined(new, a, d, t) /\ Joined(old, a, b, c)
  BY <1>1, Joins
<1>3. old \in Seq(Messages)
  BY <1>2 DEF Joined
<1> HIDE DEF new, old
<1>4. Len(t) \in Nat /\ Len(c) = Len(t) + 1
  BY <1>1
<1>6. new = old
  BY <1>1, <1>2, <1>4, JoinedMoved
<1>7. PartOf(new, old, k) /\ Keeps(new, old, k)
  BY <1>3, <1>6, PartSame
<1> QED BY <1>7 DEF new, old, d, t

\* No message comes or goes.
LEMMA MailStays ==
  ASSUME TypeOK, UNCHANGED <<net, held>>,
                             \A s \in Sides : Writing(s)' = Writing(s)
  PROVE  /\ \A p \in Sides : Pipe(p)' = Pipe(p)
         /\ \A j : Flows(j)
<1>1. \A p \in Sides : Pipe(p)' = Pipe(p)
  BY TwoSides DEF Pipe
<1> QED BY <1>1, PipeTyped, PartSame DEF Flows, MailTyped

\* A message is put at the end of the pipe, or it is lost.
LEMMA PostMoves ==
  ASSUME TypeOK, NEW s \in Sides, NEW cmd, NEW u, NEW data,
         Message(cmd, u, data) \in Messages,
         Post(s, cmd, u, data), \A q \in Sides : Writing(q)' = Writing(q)
  PROVE  /\ Pipe(Peer(s))' = Pipe(Peer(s))
         /\ \/ /\ Pipe(s)' = Append(Pipe(s), Message(cmd, u, data))
               /\ lost' = lost
            \/ Pipe(s)' = Pipe(s) /\ lost' = lost \cup {u}
         /\ \A j : j # u => Flows(j)
<1> DEFINE m == Message(cmd, u, data)
           w == Writing(Peer(s))
<1>1. /\ w \in Seq(Messages) /\ Writing(s) \in Seq(Messages)
      /\ \A q \in Sides : /\ net[q] \in Seq(Messages) /\ held[q] \in Seq(Messages)
                          /\ Pipe(q) \in Seq(Messages)
  BY PipeTyped, TwoSides DEF MailTyped
<1>2. /\ \A q \in Sides : q # Peer(s) => net'[q] = net[q]
      /\ \A q \in Sides : q # s => held'[q] = held[q]
      /\ w' = w /\ Writing(s)' = Writing(s)
      /\ \/ /\ held[s] = <<>> /\ held'[s] = held[s] /\ lost' = lost
            /\ net'[Peer(s)] = Append(net[Peer(s)], m)
         \/ /\ held'[s] = held[s] /\ net'[Peer(s)] = net[Peer(s)]
            /\ lost' = lost \cup {u}
         \/ /\ held'[s] = Append(held[s], m) /\ net'[Peer(s)] = net[Peer(s)]
            /\ lost' = lost
  <2>1. /\ net \in [Sides -> Seq(Messages)] /\ held \in [Sides -> Seq(Messages)]
        /\ w' = w /\ Writing(s)' = Writing(s)
        /\ Peer(s) \in Sides /\ Peer(s) # s /\ m.uuid = u
    BY TwoSides DEF TypeOK, Message
  <2> HIDE DEF w
  <2>2. IF online[s] /\ held[s] = <<>>
        THEN Give(s, m) /\ UNCHANGED held
        ELSE held' = [held EXCEPT ![s] = Append(@, m)] /\ UNCHANGED <<net,
                                                                      lost>>
    BY DEF Post, Message
  <2> HIDE DEF m
  <2>3. CASE online[s] /\ held[s] = <<>> /\ linked
    BY <2>1, <2>2, <2>3 DEF Give
  <2>4. CASE online[s] /\ held[s] = <<>> /\ ~ linked
    BY <2>1, <2>2, <2>4 DEF Give
  <2>5. CASE ~ (online[s] /\ held[s] = <<>>)
    BY <2>1, <2>2, <2>5
  <2> QED BY <2>3, <2>4, <2>5
<1>3. Pipe(Peer(s))' = Pipe(Peer(s))
  BY <1>2, TwoSides DEF Pipe
<1>4. Pipe(s) = w \o net[Peer(s)] \o held[s] /\ m \in Messages
  BY DEF Pipe
<1>5. Pipe(s)' = w' \o net'[Peer(s)] \o held'[s]
  BY DEF Pipe
<1> HIDE DEF m, w
<1>6. \/ Pipe(s)' = Append(Pipe(s), m) /\ lost' = lost
      \/ Pipe(s)' = Pipe(s) /\ lost' = lost \cup {u}
  <2>1. CASE /\ held[s] = <<>> /\ held'[s] = held[s] /\ lost' = lost
             /\ net'[Peer(s)] = Append(net[Peer(s)], m)
    <3> DEFINE n == net[Peer(s)]
    <3>1. n \in Seq(Messages)
      BY <1>1, TwoSides
    <3>2. Pipe(s)' = (w \o Append(n, m)) \o <<>>
      BY <2>1, <1>2, <1>5
    <3>3. Pipe(s) = (w \o n) \o <<>>
      BY <2>1, <1>4
    <3> HIDE DEF n
    <3>4. w \o Append(n, m) = Append(w \o n, m)
      BY <1>1, <1>4, <3>1
    <3>5. w \o n \in Seq(Messages) /\ w \o Append(n, m) \in Seq(Messages)
      BY <1>1, <1>4, <3>1
    <3>6. Pipe(s)' = Append(w \o n, m) /\ Pipe(s) = w \o n
      BY <3>2, <3>3, <3>4, <3>5, ConcatEmptySeq
    <3> QED BY <2>1, <3>6
  <2>2. CASE /\ held'[s] = held[s] /\ net'[Peer(s)] = net[Peer(s)]
             /\ lost' = lost \cup {u}
    BY <2>2, <1>2, <1>4, <1>5
  <2>3. CASE /\ held'[s] = Append(held[s], m) /\ net'[Peer(s)] = net[Peer(s)]
             /\ lost' = lost
    <3> DEFINE n == w \o net[Peer(s)]
               c == held[s]
    <3>1. n \in Seq(Messages) /\ c \in Seq(Messages)
      BY <1>1, TwoSides
    <3>2. Pipe(s)' = n \o Append(c, m) /\ Pipe(s) = n \o c
      BY <2>3, <1>2, <1>4, <1>5
    <3> HIDE DEF n, c
    <3>3. n \o Append(c, m) = Append(n \o c, m)
      BY <1>4, <3>1
    <3> QED BY <2>3, <3>2, <3>3
  <2> QED BY <1>2, <2>1, <2>2, <2>3
<1>7. ASSUME NEW j, j # u PROVE Flows(j)
  <2>1. m.uuid # j /\ Pipe(s) \in Seq(Messages) /\ Pipe(Peer(s)) \in Seq(Messages)
    BY <1>1, <1>7, TwoSides DEF m, Message
  <2>2. PartOf(Pipe(s)', Pipe(s), j) /\ Keeps(Pipe(s)', Pipe(s), j)
    BY <2>1, <1>4, <1>6, PartAppend, PartSame
  <2>3. /\ PartOf(Pipe(Peer(s))', Pipe(Peer(s)), j)
        /\ Keeps(Pipe(Peer(s))', Pipe(Peer(s)), j)
    BY <2>1, <1>3, PartSame
  <2> QED BY <2>2, <2>3, TwoSides DEF Flows
<1> QED BY <1>3, <1>6, <1>7 DEF m

\* A message of another side's pipe, its oldest one, has been dealt with.
LEMMA OldestLeaves ==
  ASSUME TypeOK, NEW s \in Sides, NEW m \in Messages,
         \/ /\ Writing(s) = <<>> /\ net[s] # <<>> /\ m = Head(net[s])
            /\ net'[s] = Tail(net[s])
         \/ /\ Writing(s) = <<m>> /\ net'[s] = net[s],
         Writing(s)' = <<>>, Writing(Peer(s))' = Writing(Peer(s)),
         net'[Peer(s)] = net[Peer(s)], held' = held
  PROVE  /\ Pipe(s)' = Pipe(s)
         /\ Pipe(Peer(s)) # <<>> /\ Pipe(Peer(s))' = Tail(Pipe(Peer(s)))
         /\ Head(Pipe(Peer(s))) = m
         /\ \A j : PartOf(Pipe(Peer(s))', Pipe(Peer(s)), j)
         /\ \A j : j # m.uuid => Flows(j)
<1> DEFINE p == Peer(s)
           a == Writing(s)
           b == net[s]
           c == held[p]
<1>1. /\ a \in Seq(Messages) /\ b \in Seq(Messages) /\ c \in Seq(Messages)
      /\ Pipe(s) \in Seq(Messages) /\ Pipe(p) \in Seq(Messages)
      /\ <<>> \in Seq(Messages)
  BY PipeTyped, TwoSides, EmptySeq DEF MailTyped
<1>2. Pipe(s)' = Pipe(s)
  BY TwoSides DEF Pipe
<1>3. Pipe(p) = a \o b \o c /\ Pipe(p)' = <<>> \o net'[s] \o c
  BY TwoSides DEF Pipe
<1>4. net'[s] \in Seq(Messages)
  BY <1>1, HeadTailProperties
<1>5. Pipe(p)' = net'[s] \o c
  BY <1>1, <1>3, <1>4, ConcatEmptySeq
<1> HIDE DEF a, b, c, p
<1>6. Pipe(p) # <<>> /\ Pipe(p)' = Tail(Pipe(p)) /\ Head(Pipe(p)) = m
  <2>1. CASE a = <<>> /\ b # <<>> /\ m = Head(b) /\ net'[s] = Tail(b)
    <3>1. Pipe(p) = b \o c
      BY <2>1, <1>1, <1>3, ConcatEmptySeq
    <3>2. b \o c # <<>> /\ Tail(b \o c) = Tail(b) \o c /\ Head(b \o c) = Head(b)
      BY <2>1, <1>1
    <3> QED BY <2>1, <3>1, <3>2, <1>5
  <2>2. CASE a = <<m>> /\ net'[s] = b
    <3>0. a \o b \o c = a \o (b \o c)
      BY <1>1, ConcatAssociative
    <3>1. Pipe(p) = <<m>> \o (b \o c)
      BY <2>2, <1>3, <3>0
    <3>2. b \o c \in Seq(Messages)
      BY <1>1, ConcatProperties
    <3> DEFINE d == b \o c
    <3> HIDE DEF d
    <3>3. <<m>> \o d # <<>> /\ Tail(<<m>> \o d) = d /\ Head(<<m>> \o d) = m
      BY <3>2 DEF d
    <3> QED BY <2>2, <3>1, <3>3, <1>5 DEF d
  <2> QED BY <2>1, <2>2 DEF a, b
<1>7. \A j : /\ PartOf(Pipe(p)', Pipe(p), j)
             /\ j # m.uuid => Keeps(Pipe(p)', Pipe(p), j)
             /\ PartOf(Pipe(s)', Pipe(s), j) /\ Keeps(Pipe(s)', Pipe(s), j)
  BY <1>1, <1>2, <1>6, PartTail, PartSame
<1>8. \A j : j # m.uuid => Flows(j)
  BY <1>7, TwoSides DEF Flows, p
<1> QED BY <1>2, <1>6, <1>7, <1>8 DEF p

\* A message is taken from the connection to be written.
LEMMA OldestIsWritten ==
  ASSUME TypeOK, NEW s \in Sides, net[s] # <<>>, Writing(s) = <<>>,
         net'[s] = Tail(net[s]), Writing(s)' = <<Head(net[s])>>,
         Writing(Peer(s))' = Writing(Peer(s)),
         net'[Peer(s)] = net[Peer(s)], held' = held
  PROVE  /\ \A p \in Sides : Pipe(p)' = Pipe(p)
         /\ \A j : Flows(j)
<1> DEFINE p == Peer(s)
           b == net[s]
           c == held[p]
<1>1. /\ b \in Seq(Messages) /\ c \in Seq(Messages)
      /\ \A q \in Sides : Pipe(q) \in Seq(Messages)
  BY PipeTyped, TwoSides, EmptySeq DEF MailTyped
<1>2. Pipe(s)' = Pipe(s)
  BY TwoSides DEF Pipe
<1>3. Pipe(p) = <<>> \o b \o c /\ Pipe(p)' = <<Head(b)>> \o Tail(b) \o c
  BY TwoSides DEF Pipe
<1>4. b # <<>>
  OBVIOUS
<1> HIDE DEF b, c
<1>5. <<Head(b)>> \o Tail(b) = b /\ <<>> \o b = b
  <2>1. <<Head(b)>> \o Tail(b) = b
    BY <1>1, <1>4
  <2> QED BY <2>1, <1>1, ConcatEmptySeq
<1>6. Pipe(p)' = Pipe(p)
  BY <1>3, <1>5
<1>7. \A q \in Sides : Pipe(q)' = Pipe(q)
  BY <1>2, <1>6, TwoSides DEF p
<1>8. \A j : \A q \in Sides : PartOf(Pipe(q)', Pipe(q), j) /\ Keeps(Pipe(q)', Pipe(q), j)
  BY <1>1, <1>7, PartSame
<1> QED BY <1>7, <1>8 DEF Flows

\* The messages of a side that are not given to Tox are dropped.
LEMMA HeldLeaves ==
  ASSUME TypeOK, NEW s \in Sides, held[s] # <<>>,
         held'[s] = Tail(held[s]), held'[Peer(s)] = held[Peer(s)],
         \A q \in Sides : Writing(q)' = Writing(q),
         net'[s] = net[s],
         \/ /\ net'[Peer(s)] = Append(net[Peer(s)], Head(held[s]))
            /\ lost' = lost
         \/ /\ net'[Peer(s)] = net[Peer(s)]
            /\ lost' = lost \cup {Head(held[s]).uuid}
  PROVE  \A j : Flows(j)
<1> DEFINE p == Peer(s)
           a == Writing(p) \o net[p]
           c == held[s]
           m == Head(c)
<1>1. /\ Writing(p) \in Seq(Messages) /\ net[p] \in Seq(Messages)
      /\ a \in Seq(Messages) /\ c \in Seq(Messages)
      /\ \A q \in Sides : Pipe(q) \in Seq(Messages)
  BY PipeTyped, TwoSides, ConcatProperties DEF MailTyped
<1>2. Pipe(p)' = Pipe(p)
  BY TwoSides DEF Pipe
<1>3. Pipe(s) = a \o c
  BY DEF Pipe
<1>4. Pipe(s)' = Writing(p) \o net'[p] \o Tail(c)
  BY TwoSides DEF Pipe
<1>5. c # <<>>
  OBVIOUS
<1> HIDE DEF c
<1>6. /\ m \in Messages /\ Tail(c) \in Seq(Messages) /\ <<m>> \in Seq(Messages)
      /\ c = <<m>> \o Tail(c)
  BY <1>1, <1>5, HeadTailProperties
<1>7. ASSUME NEW j
      PROVE  /\ PartOf(Pipe(s)', Pipe(s), j)
             /\ j \in lost' \/ Keeps(Pipe(s)', Pipe(s), j)
  <2>1. CASE net'[p] = Append(net[p], m)
    <3> DEFINE w == Writing(p)
               n == net[p]
    <3>1. w \in Seq(Messages) /\ n \in Seq(Messages)
      BY <1>1
    <3>2. /\ Pipe(s)' = w \o Append(n, Head(c)) \o Tail(c)
          /\ Pipe(s) = (w \o n) \o c
      BY <2>1, <1>3, <1>4
    <3> HIDE DEF w, n
    <3> QED BY <1>1, <1>5, <3>1, <3>2, PartMoved
  <2>2. CASE net'[p] = net[p] /\ lost' = lost \cup {m.uuid}
    <3>1. Pipe(s)' = a \o Tail(c)
      BY <2>2, <1>4
    <3>2. j \notin lost' => m.uuid # j
      BY <2>2
    <3> HIDE DEF a
    <3> QED BY <3>1, <3>2, <1>1, <1>3, <1>5, PartFirst DEF m
  <2> QED BY <2>1, <2>2 DEF c, m
<1>8. ASSUME NEW j
      PROVE  PartOf(Pipe(p)', Pipe(p), j) /\ Keeps(Pipe(p)', Pipe(p), j)
  BY <1>1, <1>2, PartSame, TwoSides
<1> QED BY <1>7, <1>8, TwoSides DEF Flows, p

\* What is between the programs is dropped.
LEMMA NetIsCut ==
  ASSUME TypeOK, net' = [q \in Sides |-> <<>>], held' = held,
         \A q \in Sides : Writing(q)' = Writing(q),
         \A q \in Sides : Uuids(net[q]) \subseteq lost'
  PROVE  \A j : Flows(j)
<1> SUFFICES ASSUME NEW j, NEW s \in Sides
             PROVE  /\ PartOf(Pipe(s)', Pipe(s), j)
                    /\ j \in lost' \/ Keeps(Pipe(s)', Pipe(s), j)
  BY DEF Flows
<1> DEFINE a == Writing(Peer(s))
           b == net[Peer(s)]
           c == held[s]
<1>1. a \in Seq(Messages) /\ b \in Seq(Messages) /\ c \in Seq(Messages)
  BY PipeTyped, TwoSides DEF MailTyped
<1>2. Pipe(s)' = a \o <<>> \o c /\ Pipe(s) = a \o b \o c
  BY TwoSides DEF Pipe
<1>3. Uuids(b) \subseteq lost'
  BY TwoSides
<1> HIDE DEF a, b, c
<1>4. a \o <<>> = a
  BY <1>1, ConcatEmptySeq
<1> QED BY <1>1, <1>2, <1>3, <1>4, PartCut

-----------------------------------------------------------------------------
(* Looking up in the list of local sockets.                                 *)

\* The records of the list of local sockets.
SockRecords == [uuid : Conns \cup {Fresh}, sock : Fds]

\* What the list of a side is.
LEMMA SocksTyped ==
  ASSUME TypeOK, NEW s \in Sides
  PROVE  /\ socks[s] \in Seq(SockRecords)
         /\ Len(socks[s]) \in Nat /\ DOMAIN socks[s] = 1..Len(socks[s])
         /\ \A i \in DOMAIN socks[s] :
              /\ i \in Nat /\ socks[s][i] \in SockRecords
              /\ socks[s][i].uuid \in Conns \cup {Fresh} /\ socks[s][i].sock \in Fds
<1>1. socks[s] \in Seq(SockRecords)
  BY DEF TypeOK, SockRecords
<1>2. /\ Len(socks[s]) \in Nat /\ DOMAIN socks[s] = 1..Len(socks[s])
      /\ \A i \in DOMAIN socks[s] : socks[s][i] \in SockRecords
  BY <1>1, LenProperties, ElementOfSeq
<1> QED BY <1>1, <1>2 DEF SockRecords

\* Looking up by descriptor finds a record of it, if there is one.
LEMMA UuidFacts ==
  ASSUME TypeOK, NEW s \in Sides, NEW f
  PROVE  /\ WithSock(s, f) = {} => UuidOf(s, f) = NoUuid
         /\ WithSock(s, f) # {} =>
              \E i \in DOMAIN socks[s] : /\ socks[s][i].sock = f
                                         /\ UuidOf(s, f) = socks[s][i].uuid
<1>1. WithSock(s, f) \subseteq Nat
  BY SocksTyped DEF WithSock
<1>2. WithSock(s, f) # {} => Min(WithSock(s, f)) \in WithSock(s, f)
  BY <1>1, MinFacts
<1> QED BY <1>2 DEF WithSock, UuidOf

\* Looking up by uuid finds a record of it, if there is one.
LEMMA SockFacts ==
  ASSUME TypeOK, NEW s \in Sides, NEW u
  PROVE  /\ ~ HasRecord(s, u) => SockOf(s, u) = 0
         /\ HasRecord(s, u) =>
              \E i \in DOMAIN socks[s] : /\ socks[s][i].uuid = u
                                         /\ SockOf(s, u) = socks[s][i].sock
<1>1. WithUuid(s, u) \subseteq Nat
  BY SocksTyped DEF WithUuid
<1>2. WithUuid(s, u) # {} => Min(WithUuid(s, u)) \in WithUuid(s, u)
  BY <1>1, MinFacts
<1>3. HasRecord(s, u) <=> WithUuid(s, u) # {}
  BY DEF HasRecord, WithUuid
<1> QED BY <1>2, <1>3 DEF WithUuid, SockOf

\* What the names of files, connections and uuids are.
LEMMA Names ==
  /\ \A k \in Conns : /\ k # NoFile /\ k # Std /\ k # Leaked
                      /\ k # NoUuid /\ k # Fresh
  /\ NoUuid # Fresh /\ Std # NoFile /\ Leaked # NoFile /\ Std # Leaked
  /\ 0 \in Fds /\ Fds \subseteq Nat /\ Conns \subseteq Nat
BY ConstantsAssumption

\* An unnamed record is the one of a connection being made.
LEMMA UnnamedFacts ==
  ASSUME TypeOK, Desk, NEW s \in Sides, NEW f, Unnamed(s, f)
  PROVE  /\ s = "S" /\ tox["S"].msg.uuid \in Conns
         /\ files[s][f] = tox["S"].msg.uuid
         /\ Creating(s, tox["S"].msg.uuid)
<1>1. tox["S"].pc = "set" /\ tox["S"].sock = f /\ s = "S"
  BY DEF Unnamed
<1>2. tox["S"].msg \in Messages
  BY <1>1, TwoSides DEF TypeOK
<1>3. tox["S"].msg.uuid \in Conns
  BY <1>2 DEF Messages
<1> QED BY <1>1, <1>3 DEF Desk, ToxOK, Mine, Creating, Doing

\* The descriptor of a connection that has been made is known by its uuid
\* until it is closed.
LEMMA Known ==
  ASSUME TypeOK, Desk, NEW s \in Sides, NEW k \in Conns, NEW f \in Fds,
         Mine(s, k, f), ~ Creating(s, k)
  PROVE  /\ k \notin shut[s] => /\ files[s][f] = k /\ WithSock(s, f) # {}
                                /\ UuidOf(s, f) = k /\ HasRecord(s, k)
         /\ k \in shut[s] => /\ files[s][f] = NoFile /\ WithSock(s, f) = {}
                             /\ UuidOf(s, f) = NoUuid
<1>0. FilesOK(s) /\ RecordsOK(s)
  BY DEF Desk
<1>1. ASSUME files[s][f] = k
      PROVE  /\ WithSock(s, f) # {} /\ UuidOf(s, f) = k /\ HasRecord(s, k)
             /\ k \notin shut[s]
  <2>1. HasRecord(s, k) /\ k \notin shut[s]
    BY <1>0, <1>1 DEF FilesOK
  <2>2. PICK i \in DOMAIN socks[s] : socks[s][i].uuid = k
    BY <2>1 DEF HasRecord
  <2>3. files[s][socks[s][i].sock] = k /\ socks[s][i].sock \in Fds
    BY <1>0, <2>2, SocksTyped, Names DEF RecordsOK
  <2>4. socks[s][i].sock = f
    BY <1>0, <1>1, <2>3 DEF FilesOK
  <2>5. WithSock(s, f) # {}
    BY <2>4 DEF WithSock
  <2>6. ASSUME NEW j \in DOMAIN socks[s], socks[s][j].sock = f
        PROVE  socks[s][j].uuid = k
    <3>1. socks[s][j].uuid # Fresh
      <4> SUFFICES ASSUME socks[s][j].uuid = Fresh PROVE FALSE
        OBVIOUS
      <4>1. Unnamed(s, f)
        BY <1>0, <2>6 DEF RecordsOK
      <4> QED BY <4>1, <1>1, UnnamedFacts
    <3> QED BY <1>0, <1>1, <2>6, <3>1 DEF RecordsOK
  <2> QED BY <2>1, <2>5, <2>6, UuidFacts
<1>2. ASSUME files[s][f] = NoFile
      PROVE  WithSock(s, f) = {} /\ UuidOf(s, f) = NoUuid
  <2>1. ASSUME NEW j \in DOMAIN socks[s], socks[s][j].sock = f
        PROVE  FALSE
    <3>1. CASE socks[s][j].uuid = Fresh
      <4>1. Unnamed(s, f)
        BY <1>0, <2>1, <3>1 DEF RecordsOK
      <4> QED BY <4>1, <1>2, UnnamedFacts, Names
    <3>2. CASE socks[s][j].uuid # Fresh
      BY <1>0, <1>2, <2>1, <3>2, SocksTyped, Names DEF RecordsOK
    <3> QED BY <3>1, <3>2
  <2>2. WithSock(s, f) = {}
    BY <2>1 DEF WithSock
  <2> QED BY <2>2, UuidFacts
<1>3. k \in shut[s] => files[s][f] = NoFile
  BY <1>1 DEF Mine
<1> QED BY <1>1, <1>2, <1>3 DEF Mine

\* Standard input has no record.
LEMMA ZeroUnknown ==
  ASSUME TypeOK, Desk, NEW s \in Sides
  PROVE  /\ WithSock(s, 0) = {} /\ UuidOf(s, 0) = NoUuid
         /\ SockOf(s, NoUuid) = 0
         /\ files[s][0] \in {Std, NoFile}
<1>1. WithSock(s, 0) = {}
  BY DEF Desk, RecordsOK, WithSock
<1>2. ~ HasRecord(s, NoUuid)
  BY SocksTyped, Names DEF HasRecord
<1> QED BY <1>1, <1>2, UuidFacts, SockFacts DEF Desk, FilesOK

\* What a lookup by uuid gives is the descriptor of that connection, open.
LEMMA Found ==
  ASSUME TypeOK, Desk, NEW s \in Sides, NEW k \in Conns
  PROVE  /\ SockOf(s, k) \in Fds
         /\ SockOf(s, k) = 0 <=> ~ HasRecord(s, k)
         /\ SockOf(s, k) # 0 => /\ Mine(s, k, SockOf(s, k))
                                /\ files[s][SockOf(s, k)] = k
                                /\ k \notin shut[s]
<1>1. ASSUME HasRecord(s, k)
      PROVE  /\ SockOf(s, k) # 0 /\ Mine(s, k, SockOf(s, k))
             /\ files[s][SockOf(s, k)] = k /\ k \notin shut[s]
             /\ SockOf(s, k) \in Fds
  <2>1. PICK i \in DOMAIN socks[s] :
          socks[s][i].uuid = k /\ SockOf(s, k) = socks[s][i].sock
    BY <1>1, SockFacts
  <2>2. /\ socks[s][i].sock \in Fds \ {0} /\ files[s][socks[s][i].sock] = k
        /\ socks[s][i].sock \in Fds
    BY <2>1, SocksTyped, Names DEF Desk, RecordsOK
  <2>3. k \in up[s] \ shut[s]
    BY <2>2 DEF Desk, FilesOK
  <2> QED BY <2>1, <2>2, <2>3 DEF Mine
<1> QED BY <1>1, SockFacts, Names

-----------------------------------------------------------------------------
(* Closing a descriptor.                                                    *)

\* What is left when one element is taken away.
LEMMA Removed ==
  ASSUME NEW R, NEW q \in Seq(R), NEW i \in 1..Len(q)
  PROVE  /\ RemoveAt(q, i) \in Seq(R)
         /\ Len(RemoveAt(q, i)) = Len(q) - 1
         /\ \A j \in 1..Len(q) - 1 :
              RemoveAt(q, i)[j] = IF j < i THEN q[j] ELSE q[j + 1]
<1> DEFINE a == SubSeq(q, 1, i - 1)
           b == SubSeq(q, i + 1, Len(q))
<1>1. Len(q) \in Nat /\ \A j \in 1..Len(q) : q[j] \in R
  BY LenProperties, ElementOfSeq
<1>2. /\ a \in Seq(R) /\ Len(a) = i - 1
      /\ \A j \in 1..i - 1 : a[j] = q[j]
  BY <1>1, SubSeqProperties
<1>3. /\ b \in Seq(R) /\ Len(b) = Len(q) - i
      /\ \A j \in 1..Len(q) - i : b[j] = q[i + j]
  <2>1. \A j \in i + 1..Len(q) : q[j] \in R
    BY <1>1
  <2>2. /\ b \in Seq(R)
        /\ Len(b) = IF i + 1 <= Len(q) THEN Len(q) - (i + 1) + 1 ELSE 0
        /\ \A j \in 1..Len(q) - (i + 1) + 1 : b[j] = q[(i + 1) + j - 1]
    BY <1>1, <2>1, SubSeqProperties
  <2> HIDE DEF b
  <2> QED BY <1>1, <2>2
<1> HIDE DEF a, b
<1>4. /\ a \o b \in Seq(R) /\ Len(a \o b) = Len(a) + Len(b)
      /\ \A j \in 1..Len(a) + Len(b) :
           (a \o b)[j] = IF j <= Len(a) THEN a[j] ELSE b[j - Len(a)]
  BY <1>2, <1>3, ConcatProperties
<1>5. RemoveAt(q, i) = a \o b
  BY DEF RemoveAt, a, b
<1> DEFINE r == RemoveAt(q, i)
           n == Len(q)
<1>6. /\ r \in Seq(R) /\ Len(r) = n - 1
      /\ \A j \in 1..n - 1 : r[j] = IF j <= i - 1 THEN a[j] ELSE b[j - (i - 1)]
  <2>1. Len(a) = i - 1 /\ Len(a) + Len(b) = n - 1
    BY <1>1, <1>2, <1>3
  <2>2. r = a \o b
    BY <1>5
  <2> HIDE DEF n, r
  <2> QED BY <1>4, <2>1, <2>2
<1> HIDE DEF r
<1>7. ASSUME NEW j \in 1..n - 1
      PROVE  r[j] = IF j < i THEN q[j] ELSE q[j + 1]
  <2>1. CASE j < i
    BY <2>1, <1>1, <1>2, <1>6
  <2>2. CASE ~ (j < i)
    <3>1. j - (i - 1) \in 1..n - i /\ i + (j - (i - 1)) = j + 1 /\ ~ (j <= i - 1)
      BY <2>2, <1>1
    <3> QED BY <2>2, <3>1, <1>3, <1>6
  <2> QED BY <2>1, <2>2
<1> QED BY <1>6, <1>7 DEF r

\* The makers of connections do not come or go on side s.
SameMaking(s) == /\ \A k \in Conns : Creating(s, k)' <=> Creating(s, k)
                 /\ \A f : Unnamed(s, f)' <=> Unnamed(s, f)

\* The descriptors and the list of a side stay as they are.
SideStays(s) == /\ files'[s] = files[s]
                /\ socks'[s] = socks[s] /\ shut'[s] = shut[s]

\* The descriptors of a side stay as they are.
LEMMA StaysOK ==
  ASSUME TypeOK, Desk, NEW s \in Sides, SideStays(s), up'[s] = up[s],
         SameMaking(s)
  PROVE  /\ FilesOK(s)' /\ RecordsOK(s)'
         /\ \A k, f : Mine(s, k, f)' <=> Mine(s, k, f)
<1> USE DEF SideStays, SameMaking
<1>1. \A k : HasRecord(s, k)' <=> HasRecord(s, k)
  BY DEF HasRecord
<1>2. FilesOK(s)'
  <2>1. \A k \in up[s] : k \in Conns
    BY DEF TypeOK
  <2> QED BY <1>1, <2>1 DEF Desk, FilesOK
<1>3. RecordsOK(s)'
  BY DEF Desk, RecordsOK
<1> QED BY <1>2, <1>3 DEF Mine

\* The descriptor f of k, or none, is closed: the others and their records
\* stay as they are.
Closed(s, k, f) ==
  /\ FilesOK(s)' /\ RecordsOK(s)'
  /\ shut'[s] = IF f = 0 THEN shut[s] ELSE shut[s] \cup {k}
  /\ \A q \in Sides : q # s => SideStays(q)
  /\ \A q \in Sides : \A j, g : Mine(q, j, g) => Mine(q, j, g)'
  /\ files' \in [Sides -> [Fds -> Conns \cup {Std, Leaked, NoFile}]]
  /\ socks' \in [Sides -> Seq(SockRecords)]
  /\ shut' \in [Sides -> SUBSET Conns]
  /\ \A g : WithSock(s, g) = {} => WithSock(s, g)' = {}
  /\ \A i \in DOMAIN socks[s] :
       socks[s][i].sock # f =>
         \E j \in DOMAIN socks'[s] : socks'[s][j] = socks[s][i]

\* close_local_socks closes the descriptor of a connection and removes its
\* record; for standard input there is no record.
LEMMA Closes ==
  ASSUME TypeOK, Desk, NEW s \in Sides, NEW k \in Conns, NEW f \in Fds,
         CloseSock(s, f), f = 0 \/ (Mine(s, k, f) /\ ~ Creating(s, k)),
         up' = up, SameMaking(s)
  PROVE  Closed(s, k, f)
<1>0. FilesOK(s) /\ RecordsOK(s)
  BY DEF Desk
<1>1. /\ shut' = [shut EXCEPT ![s] = @ \cup ({files[s][f]} \cap Conns)]
      /\ files' = [files EXCEPT ![s][f] = NoFile]
      /\ socks' = IF WithSock(s, f) = {} THEN socks
                  ELSE [socks EXCEPT ![s] = RemoveAt(@, Min(WithSock(s, f)))]
  BY DEF CloseSock, Shutdown
<1>2. /\ files \in [Sides -> [Fds -> Conns \cup {Std, Leaked, NoFile}]]
      /\ socks \in [Sides -> Seq(SockRecords)]
      /\ shut \in [Sides -> SUBSET Conns]
  BY DEF TypeOK, SockRecords
<1>3. /\ files' \in [Sides -> [Fds -> Conns \cup {Std, Leaked, NoFile}]]
      /\ \A q \in Sides, g \in Fds :
           files'[q][g] = IF q = s /\ g = f THEN NoFile ELSE files[q][g]
      /\ shut' \in [Sides -> SUBSET Conns]
      /\ \A q \in Sides :
           shut'[q] = IF q = s THEN shut[s] \cup ({files[s][f]} \cap Conns)
                               ELSE shut[q]
      /\ \A q \in Sides : q # s => files'[q] = files[q] /\ socks'[q] = socks[q]
  BY <1>1, <1>2
<1>4. shut'[s] = IF f = 0 THEN shut[s] ELSE shut[s] \cup {k}
  <2> DEFINE c == files[s][f]
  <2>0. shut'[s] = shut[s] \cup ({c} \cap Conns)
    BY <1>3
  <2> HIDE DEF c
  <2>1. CASE f = 0
    <3>1. c \notin Conns
      BY <2>1, ZeroUnknown, Names DEF c
    <3> QED BY <2>0, <2>1, <3>1
  <2>2. CASE f # 0
    <3>1. c = k \/ (c \notin Conns /\ k \in shut[s])
      BY <2>2, Names DEF Mine, c
    <3> QED BY <2>0, <2>2, <3>1
  <2> QED BY <2>1, <2>2

\* The list: nothing changes, or the only record of f is taken away.
<1>5. /\ socks' \in [Sides -> Seq(SockRecords)]
      /\ \A j \in DOMAIN socks'[s] :
           \E i \in DOMAIN socks[s] : /\ socks'[s][j] = socks[s][i]
                                      /\ socks[s][i].sock # f
      /\ \A i \in DOMAIN socks[s] :
           socks[s][i].sock # f =>
             \E j \in DOMAIN socks'[s] : socks'[s][j] = socks[s][i]
      /\ \A i, j \in DOMAIN socks'[s] :
           socks'[s][i].sock = socks'[s][j].sock => i = j
  <2>1. CASE WithSock(s, f) = {}
    BY <2>1, <1>0, <1>1, <1>2 DEF WithSock, RecordsOK
  <2>2. CASE WithSock(s, f) # {}
    <3> DEFINE m == Min(WithSock(s, f))
               n == Len(socks[s])
    <3>1. m \in WithSock(s, f)
      BY <2>2, MinFacts, SocksTyped DEF WithSock
    <3>2. /\ m \in 1..n /\ n \in Nat /\ DOMAIN socks[s] = 1..n
          /\ socks[s][m].sock = f /\ socks[s] \in Seq(SockRecords)
      BY <3>1, SocksTyped DEF WithSock
    <3> HIDE DEF m, n
    <3>3. /\ socks'[s] = RemoveAt(socks[s], m)
          /\ socks'[s] \in Seq(SockRecords) => socks' \in [Sides -> Seq(SockRecords)]
      BY <2>2, <1>1, <1>2 DEF m
    <3>4. /\ socks'[s] \in Seq(SockRecords) /\ Len(socks'[s]) = n - 1
          /\ \A j \in 1..n - 1 :
               socks'[s][j] = IF j < m THEN socks[s][j] ELSE socks[s][j + 1]
      BY <3>2, <3>3, Removed DEF n
    <3>5. DOMAIN socks'[s] = 1..n - 1
      BY <3>2, <3>4, LenProperties
    <3>6. \A i \in 1..n : i # m => socks[s][i].sock # f
      BY <1>0, <3>2 DEF RecordsOK
    <3>7. ASSUME NEW j \in DOMAIN socks'[s]
          PROVE  \E i \in DOMAIN socks[s] : /\ socks'[s][j] = socks[s][i]
                                            /\ socks[s][i].sock # f
      <4>0. j \in 1..n - 1
        BY <3>5
      <4>1. CASE j < m
        <5>1. j \in DOMAIN socks[s] /\ j # m /\ socks'[s][j] = socks[s][j]
          BY <4>0, <4>1, <3>2, <3>4
        <5> QED BY <5>1, <3>2, <3>6
      <4>2. CASE ~ (j < m)
        <5>1. /\ j + 1 \in DOMAIN socks[s] /\ j + 1 # m
              /\ socks'[s][j] = socks[s][j + 1]
          BY <4>0, <4>2, <3>2, <3>4
        <5> QED BY <5>1, <3>2, <3>6
      <4> QED BY <4>1, <4>2
    <3>8. ASSUME NEW i \in DOMAIN socks[s], socks[s][i].sock # f
          PROVE  \E j \in DOMAIN socks'[s] : socks'[s][j] = socks[s][i]
      <4>1. CASE i < m
        <5>1. i \in DOMAIN socks'[s] /\ socks'[s][i] = socks[s][i]
          BY <4>1, <3>2, <3>4, <3>5
        <5> QED BY <5>1
      <4>2. CASE ~ (i < m)
        <5>1. i > m
          BY <4>2, <3>2, <3>8
        <5>2. i - 1 \in 1..n - 1 /\ ~ (i - 1 < m) /\ (i - 1) + 1 = i
          BY <5>1, <3>2
        <5> QED BY <5>2, <3>4, <3>5
      <4> QED BY <4>1, <4>2
    <3>9. ASSUME NEW i \in DOMAIN socks'[s], NEW j \in DOMAIN socks'[s],
                 socks'[s][i].sock = socks'[s][j].sock
          PROVE  i = j
      <4> DEFINE old(l) == IF l < m THEN l ELSE l + 1
      <4>1. ASSUME NEW l \in 1..n - 1
            PROVE  old(l) \in 1..n /\ socks'[s][l] = socks[s][old(l)]
        BY <3>2, <3>4
      <4>2. i \in 1..n - 1 /\ j \in 1..n - 1
        BY <3>5
      <4>3. (old(i) = old(j)) => i = j
        BY <4>2, <3>2
      <4> HIDE DEF old
      <4>4. /\ old(i) \in 1..n /\ socks'[s][i] = socks[s][old(i)]
            /\ old(j) \in 1..n /\ socks'[s][j] = socks[s][old(j)]
        BY <4>1, <4>2
      <4>5. old(i) = old(j)
        BY <1>0, <3>2, <3>9, <4>4 DEF RecordsOK
      <4> QED BY <4>3, <4>5
    <3> QED BY <3>3, <3>4, <3>7, <3>8, <3>9
  <2> QED BY <2>1, <2>2
<1>6. f # 0 => k \in up[s] /\ (files[s][f] = k \/ files[s][f] = NoFile)
  BY DEF Mine
<1>7. \A j : j # k /\ HasRecord(s, j) => HasRecord(s, j)'
  <2> SUFFICES ASSUME NEW j, j # k, HasRecord(s, j) PROVE HasRecord(s, j)'
    OBVIOUS
  <2>1. PICK i \in DOMAIN socks[s] : socks[s][i].uuid = j
    BY DEF HasRecord
  <2>2. socks[s][i].sock # f
    <3>1. CASE f = 0
      BY <3>1, <1>0 DEF RecordsOK
    <3>2. CASE f # 0
      <4> SUFFICES ASSUME socks[s][i].sock = f PROVE FALSE
        OBVIOUS
      <4>1. i \in WithSock(s, f)
        BY DEF WithSock
      <4>2. UuidOf(s, f) = k
        BY <4>1, <3>2, Known
      <4>3. PICK x \in DOMAIN socks[s] : socks[s][x].sock = f /\ socks[s][x].uuid = k
        BY <4>1, <4>2, UuidFacts
      <4> QED BY <4>3, <2>1, <1>0 DEF RecordsOK
    <3> QED BY <3>1, <3>2
  <2> QED BY <2>1, <2>2, <1>5 DEF HasRecord
<1>8. FilesOK(s)'
  <2>2. files'[s][0] \in {Std, NoFile}
    BY <1>0, <1>1, <1>3, Names DEF FilesOK
  <2>3. \A g \in Fds : files'[s][g] \in Conns => files'[s][g] \in up'[s] \ shut'[s]
    <3> SUFFICES ASSUME NEW g \in Fds, files'[s][g] \in Conns
                 PROVE  files'[s][g] \in up'[s] \ shut'[s]
      OBVIOUS
    <3>1. g # f /\ files'[s][g] = files[s][g]
      BY <1>3, Names
    <3>2. files[s][g] \in up[s] \ shut[s]
      BY <3>1, <1>0 DEF FilesOK
    <3>3. f # 0 => files[s][g] # k
      BY <3>1, <3>2, <1>0, Known DEF FilesOK
    <3> QED BY <3>1, <3>2, <3>3, <1>4
  <2>4. \A g, h \in Fds :
          files'[s][g] = files'[s][h] /\ files'[s][g] \in Conns => g = h
    <3> SUFFICES ASSUME NEW g \in Fds, NEW h \in Fds,
                        files'[s][g] = files'[s][h], files'[s][g] \in Conns
                 PROVE  g = h
      OBVIOUS
    <3>1. /\ g # f /\ files'[s][g] = files[s][g]
          /\ h # f /\ files'[s][h] = files[s][h]
      BY <1>3, Names
    <3> QED BY <3>1, <1>0 DEF FilesOK
  <2>5. shut'[s] \subseteq up'[s]
    BY <1>0, <1>4, <1>6 DEF FilesOK
  <2>6. \A j \in up'[s] \ shut'[s] : HasRecord(s, j)' \/ Creating(s, j)'
    <3> SUFFICES ASSUME NEW j \in up[s] \ shut'[s]
                 PROVE  HasRecord(s, j)' \/ Creating(s, j)'
      OBVIOUS
    <3>1. j \in Conns /\ j \notin shut[s]
      BY <1>4 DEF TypeOK
    <3>2. HasRecord(s, j) \/ Creating(s, j)
      BY <3>1, <1>0 DEF FilesOK
    <3>3. CASE j # k
      BY <3>1, <3>2, <3>3, <1>7 DEF SameMaking
    <3>4. CASE j = k /\ f = 0
      <4>1. HasRecord(s, j) => HasRecord(s, j)'
        BY <3>4, <1>0, <1>5 DEF HasRecord, RecordsOK
      <4> QED BY <4>1, <3>1, <3>2 DEF SameMaking
    <3>5. CASE j = k /\ f # 0
      BY <3>5, <1>4
    <3> QED BY <3>3, <3>4, <3>5
  <2> QED BY <2>2, <2>3, <2>4, <2>5, <2>6 DEF FilesOK
<1>9. RecordsOK(s)'
  <2>1. ASSUME NEW j \in DOMAIN socks'[s]
        PROVE  /\ socks'[s][j].sock \in Fds \ {0}
               /\ IF socks'[s][j].uuid = Fresh
                  THEN Unnamed(s, socks[s][j].sock)'
                  ELSE files'[s][socks'[s][j].sock] = socks'[s][j].uuid
    <3>1. PICK i \in DOMAIN socks[s] :
            socks'[s][j] = socks[s][i] /\ socks[s][i].sock # f
      BY <1>5
    <3>2. socks[s][i].sock \in Fds
      BY SocksTyped
    <3>3. /\ socks[s][i].sock \in Fds \ {0}
          /\ IF socks[s][i].uuid = Fresh THEN Unnamed(s, socks[s][i].sock)
             ELSE files[s][socks[s][i].sock] = socks[s][i].uuid
      BY <1>0 DEF RecordsOK
    <3>4. \A g : Unnamed(s, g) => Unnamed(s, g)'
      BY DEF SameMaking
    <3>5. files'[s][socks[s][i].sock] = files[s][socks[s][i].sock]
      BY <3>1, <3>2, <1>3
    <3> QED BY <3>1, <3>3, <3>4, <3>5, <1>1 DEF Unnamed
  <2> QED BY <2>1, <1>5 DEF RecordsOK
<1>10. \A q \in Sides : q # s => SideStays(q)
  BY <1>1, <1>3 DEF SideStays
<1>11. ASSUME NEW q \in Sides, NEW j, NEW g, Mine(q, j, g)
       PROVE  Mine(q, j, g)'
  <2>1. g \in Fds
    BY <1>11 DEF Mine, TypeOK
  <2>2. CASE q = s /\ g = f
    <3>1. files[s][f] = j => j \in shut'[s]
      <4>0. j \in Conns
        BY <1>11 DEF Mine, TypeOK
      <4>1. files[s][f] = j /\ f # 0 => j = k
        BY <4>0, <1>6, Names
      <4> QED BY <4>1, <1>3, <2>2, <1>4, <1>11 DEF Mine
    <3> QED BY <3>1, <2>1, <2>2, <1>1, <1>3, <1>11 DEF Mine
  <2>3. CASE ~ (q = s /\ g = f)
    BY <2>1, <2>3, <1>1, <1>3, <1>11 DEF Mine
  <2> QED BY <2>2, <2>3
<1>12. \A g : WithSock(s, g) = {} => WithSock(s, g)' = {}
  BY <1>5 DEF WithSock
<1> QED BY <1>1, <1>3, <1>4, <1>5, <1>8, <1>9, <1>10, <1>11, <1>12 DEF Closed

-----------------------------------------------------------------------------
(* Opening and naming a descriptor.                                         *)

\* No closed descriptor that a thread works on is opened again.
StaysClosed ==
  \A s \in Sides : \A f \in Held(s) :
    files[s][f] = NoFile => files'[s][f] = NoFile

\* The readers and the Tox thread work on descriptors that are held.
LEMMA Works ==
  ASSUME NEW s \in Sides
  PROVE  /\ 0 \in Held(s) /\ tox[s].sock \in Held(s)
         /\ \A k \in Conns : reader[s][k].pc # "done" =>
                               reader[s][k].sock \in Held(s)
BY DEF Held

\* Then socket() and accept() give a descriptor that no thread works on.
LEMMA NotHeld ==
  ASSUME TypeOK, StaysClosed, NEW s \in Sides,
         NEW c \in Conns \cup {Leaked}, NEW f, f = Min(Free(s)), Free(s) # {},
         Open(s, f, c)
  PROVE  f \in Fds \ Held(s) /\ f # 0 /\ files[s][f] = NoFile
<1>1. Free(s) \subseteq Fds /\ Free(s) \subseteq Nat
  BY Names DEF Free
<1>2. f \in Free(s) /\ f \in Fds
  BY <1>1, MinFacts
<1>3. files[s][f] = NoFile
  BY <1>2 DEF Free
<1>4. files'[s][f] = c /\ c # NoFile
  BY <1>2, Names DEF Open, TypeOK
<1>5. f \notin Held(s)
  BY <1>3, <1>4 DEF StaysClosed
<1>6. 0 \in Held(s)
  BY Works
<1> QED BY <1>2, <1>3, <1>5, <1>6

\* Opening it leaves the other descriptors and their records as they are.
LEMMA Opens ==
  ASSUME TypeOK, Desk, StaysClosed, NEW s \in Sides, NEW c \in Conns \cup {Leaked},
         NEW f, f = Min(Free(s)), Free(s) # {}, Open(s, f, c), c \notin up[s],
         UNCHANGED <<socks, shut>>,
         up' = [up EXCEPT ![s] = @ \cup ({c} \cap Conns)],
         c \in Conns => Creating(s, c)',
         \A k \in Conns : Creating(s, k) => Creating(s, k)',
         \A g : Unnamed(s, g) => Unnamed(s, g)'
  PROVE  /\ FilesOK(s)' /\ RecordsOK(s)'
         /\ \A q \in Sides : q # s => SideStays(q) /\ up'[q] = up[q]
         /\ \A q \in Sides : \A k, g :
              g \in Held(q) /\ Mine(q, k, g) => Mine(q, k, g)'
         /\ f \in Fds \ {0} /\ WithSock(s, f) = {} /\ WithSock(s, f)' = {}
         /\ c \in Conns => Mine(s, c, f)' /\ c \notin shut'[s]
         /\ files' \in [Sides -> [Fds -> Conns \cup {Std, Leaked, NoFile}]]
         /\ up' \in [Sides -> SUBSET Conns]
<1>0. FilesOK(s) /\ RecordsOK(s)
  BY DEF Desk
<1>1. f \in Fds \ Held(s) /\ f # 0 /\ files[s][f] = NoFile
  BY NotHeld
<1>2. files' = [files EXCEPT ![s][f] = c]
  BY DEF Open
<1>3. /\ files \in [Sides -> [Fds -> Conns \cup {Std, Leaked, NoFile}]]
      /\ up \in [Sides -> SUBSET Conns] /\ shut \in [Sides -> SUBSET Conns]
  BY DEF TypeOK
<1>4. /\ files' \in [Sides -> [Fds -> Conns \cup {Std, Leaked, NoFile}]]
      /\ \A q \in Sides, g \in Fds :
           files'[q][g] = IF q = s /\ g = f THEN c ELSE files[q][g]
      /\ \A q \in Sides : q # s => files'[q] = files[q]
  BY <1>1, <1>2, <1>3
<1>5. /\ up' \in [Sides -> SUBSET Conns]
      /\ \A q \in Sides :
           up'[q] = IF q = s THEN up[q] \cup ({c} \cap Conns) ELSE up[q]
  BY <1>3
<1>6. c \notin shut[s] /\ \A g \in Fds : files[s][g] # c \/ c \notin Conns
  BY <1>0 DEF FilesOK
<1>7. FilesOK(s)'
  <2>1. files'[s][0] \in {Std, NoFile}
    BY <1>0, <1>1, <1>4, Names DEF FilesOK
  <2>2. \A g \in Fds : files'[s][g] \in Conns => files'[s][g] \in up'[s] \ shut'[s]
    BY <1>0, <1>4, <1>5, <1>6 DEF FilesOK
  <2>3. \A g, h \in Fds :
          files'[s][g] = files'[s][h] /\ files'[s][g] \in Conns => g = h
    BY <1>0, <1>4, <1>6 DEF FilesOK
  <2>4. shut'[s] \subseteq up'[s]
    BY <1>0, <1>5 DEF FilesOK
  <2>5. \A k \in up'[s] \ shut'[s] : HasRecord(s, k)' \/ Creating(s, k)'
    BY <1>0, <1>3, <1>5 DEF FilesOK, HasRecord
  <2> QED BY <2>1, <2>2, <2>3, <2>4, <2>5 DEF FilesOK
<1>8. ASSUME NEW i \in DOMAIN socks[s]
      PROVE  socks[s][i].sock # f
  <2>1. CASE socks[s][i].uuid = Fresh
    <3>1. s = "S" /\ tox["S"].sock = socks[s][i].sock
      BY <2>1, <1>0 DEF RecordsOK, Unnamed
    <3> QED BY <3>1, <1>1, Works
  <2>2. CASE socks[s][i].uuid # Fresh
    <3>1. files[s][socks[s][i].sock] = socks[s][i].uuid
      BY <2>2, <1>0 DEF RecordsOK
    <3> QED BY <2>2, <3>1, <1>1, SocksTyped, Names
  <2> QED BY <2>1, <2>2
<1>9. RecordsOK(s)'
  <2>1. ASSUME NEW i \in DOMAIN socks[s]
        PROVE  /\ socks[s][i].sock \in Fds \ {0}
               /\ IF socks[s][i].uuid = Fresh
                  THEN Unnamed(s, socks[s][i].sock)'
                  ELSE files'[s][socks[s][i].sock] = socks[s][i].uuid
    <3>1. socks[s][i].sock \in Fds \ {f}
      BY <1>8, SocksTyped
    <3>2. /\ socks[s][i].sock \in Fds \ {0}
          /\ IF socks[s][i].uuid = Fresh THEN Unnamed(s, socks[s][i].sock)
             ELSE files[s][socks[s][i].sock] = socks[s][i].uuid
      BY <1>0 DEF RecordsOK
    <3> QED BY <3>1, <3>2, <1>4 DEF Unnamed
  <2> QED BY <2>1, <1>0 DEF RecordsOK
<1>10. WithSock(s, f) = {} /\ WithSock(s, f)' = {}
  BY <1>8 DEF WithSock
<1>11. ASSUME NEW q \in Sides, NEW k, NEW g, g \in Held(q), Mine(q, k, g)
       PROVE  Mine(q, k, g)'
  <2>1. g \in Fds /\ ~ (q = s /\ g = f)
    BY <1>1, <1>11 DEF Mine
  <2> QED BY <2>1, <1>4, <1>5, <1>11 DEF Mine
<1>12. c \in Conns => Mine(s, c, f)' /\ c \notin shut'[s]
  BY <1>1, <1>4, <1>5, <1>6 DEF Mine
<1> QED
  BY <1>1, <1>4, <1>5, <1>7, <1>9, <1>10, <1>11, <1>12 DEF SideStays

\* add_local_socks puts a record before the others.
LEMMA Adds ==
  ASSUME TypeOK, Desk, NEW s \in Sides, NEW u \in Conns \cup {Fresh}, NEW f \in Fds,
         AddSock(s, u, f), UNCHANGED <<files, shut, up>>,
         f \in Fds \ {0}, WithSock(s, f) = {},
         IF u = Fresh THEN Unnamed(s, f)' ELSE files[s][f] = u,
         \A k \in Conns : Creating(s, k) => Creating(s, k)' \/ k = u,
         \A g : Unnamed(s, g) => Unnamed(s, g)'
  PROVE  /\ FilesOK(s)' /\ RecordsOK(s)'
         /\ \A q \in Sides : q # s => SideStays(q)
         /\ \A q \in Sides : \A k, g : Mine(q, k, g) => Mine(q, k, g)'
         /\ \E i \in DOMAIN socks'[s] : socks'[s][i] = [uuid |-> u, sock |-> f]
         /\ socks' \in [Sides -> Seq(SockRecords)]
<1> DEFINE r == [uuid |-> u, sock |-> f]
           n == Len(socks[s])
<1>0. FilesOK(s) /\ RecordsOK(s)
  BY DEF Desk
<1>1. /\ socks[s] \in Seq(SockRecords) /\ n \in Nat /\ DOMAIN socks[s] = 1..n
      /\ socks \in [Sides -> Seq(SockRecords)]
      /\ r \in SockRecords /\ <<r>> \in Seq(SockRecords)
  <2>1. socks[s] \in Seq(SockRecords) /\ n \in Nat /\ DOMAIN socks[s] = 1..n
    BY SocksTyped
  <2>2. socks \in [Sides -> Seq(SockRecords)]
    BY DEF TypeOK, SockRecords
  <2>3. r \in SockRecords
    BY DEF SockRecords
  <2> HIDE DEF r
  <2>4. <<r>> \in Seq(SockRecords)
    BY <2>3
  <2> QED BY <2>1, <2>2, <2>3, <2>4
<1>2. socks' = [socks EXCEPT ![s] = <<r>> \o @]
  BY DEF AddSock
<1>3. /\ <<r>> \o socks[s] \in Seq(SockRecords)
      /\ Len(<<r>> \o socks[s]) = n + 1
      /\ \A i \in 1..n + 1 :
           (<<r>> \o socks[s])[i] = IF i <= 1 THEN r ELSE socks[s][i - 1]
  BY <1>1, ConcatProperties
<1> HIDE DEF n, r
<1>4. /\ socks'[s] \in Seq(SockRecords) /\ Len(socks'[s]) = n + 1
      /\ \A i \in 1..n + 1 : socks'[s][i] = IF i <= 1 THEN r ELSE socks[s][i - 1]
      /\ socks' \in [Sides -> Seq(SockRecords)]
      /\ \A q \in Sides : q # s => socks'[q] = socks[q]
  BY <1>1, <1>2, <1>3
<1>5. DOMAIN socks'[s] = 1..n + 1
  BY <1>4, LenProperties
<1>6. \A i \in DOMAIN socks[s] :
        /\ i + 1 \in DOMAIN socks'[s] /\ socks'[s][i + 1] = socks[s][i]
        /\ socks[s][i].sock # f
  BY <1>1, <1>4, <1>5 DEF WithSock
<1>7. 1 \in DOMAIN socks'[s] /\ socks'[s][1] = r
  BY <1>1, <1>4, <1>5
<1>8. ASSUME NEW i \in DOMAIN socks'[s]
      PROVE  i = 1 \/ (i - 1 \in DOMAIN socks[s] /\ socks'[s][i] = socks[s][i - 1])
  BY <1>1, <1>4, <1>5
<1>9. FilesOK(s)'
  <2>1. \A k : HasRecord(s, k) => HasRecord(s, k)'
    BY <1>6 DEF HasRecord
  <2>2. HasRecord(s, u)'
    BY <1>7 DEF HasRecord, r
  <2>3. \A k \in up[s] : k \in Conns
    BY DEF TypeOK
  <2> QED BY <1>0, <2>1, <2>2, <2>3 DEF FilesOK
<1>10. RecordsOK(s)'
  <2>1. ASSUME NEW i \in DOMAIN socks'[s]
        PROVE  /\ socks'[s][i].sock \in Fds \ {0}
               /\ IF socks'[s][i].uuid = Fresh
                  THEN s = "S" /\ tox'["S"].pc = "set" /\ tox'["S"].sock = socks'[s][i].sock
                  ELSE files'[s][socks'[s][i].sock] = socks'[s][i].uuid
    <3>1. CASE i = 1
      BY <3>1, <1>7 DEF r, Unnamed
    <3>2. CASE i # 1
      <4>1. i - 1 \in DOMAIN socks[s] /\ socks'[s][i] = socks[s][i - 1]
        BY <3>2, <1>8
      <4> QED BY <4>1, <1>0 DEF RecordsOK, Unnamed
    <3> QED BY <3>1, <3>2
  <2>2. ASSUME NEW i \in DOMAIN socks'[s], NEW j \in DOMAIN socks'[s],
               socks'[s][i].sock = socks'[s][j].sock
        PROVE  i = j
    <3>1. i \in Nat /\ j \in Nat
      BY <1>5
    <3>2. CASE i = 1 /\ j = 1
      BY <3>2
    <3>3. CASE i = 1 /\ j # 1
      BY <3>3, <2>2, <1>6, <1>7, <1>8 DEF r
    <3>4. CASE i # 1 /\ j = 1
      BY <3>4, <2>2, <1>6, <1>7, <1>8 DEF r
    <3>5. CASE i # 1 /\ j # 1
      <4>1. /\ i - 1 \in DOMAIN socks[s] /\ socks'[s][i] = socks[s][i - 1]
            /\ j - 1 \in DOMAIN socks[s] /\ socks'[s][j] = socks[s][j - 1]
        BY <3>5, <1>8
      <4>2. i - 1 = j - 1
        BY <4>1, <2>2, <1>0 DEF RecordsOK
      <4> QED BY <4>2, <3>1
    <3> QED BY <3>2, <3>3, <3>4, <3>5
  <2> QED BY <2>1, <2>2 DEF RecordsOK, Unnamed
<1> QED BY <1>4, <1>7, <1>9, <1>10 DEF r, SideStays, Mine

\* set_local_socks_uuid gives the record of f its connection.
LEMMA Sets ==
  ASSUME TypeOK, Desk, NEW k \in Conns, NEW f \in Fds,
         tox["S"].pc = "set", tox["S"].msg.uuid = k, tox["S"].sock = f,
         socks' = [socks EXCEPT !["S"][Min(WithSock("S", f))].uuid = k],
         UNCHANGED <<files, shut, up>>, tox'["S"].pc = "idle"
  PROVE  /\ FilesOK("S")' /\ RecordsOK("S")' /\ SideStays("C")
         /\ \A q \in Sides : \A j, g : Mine(q, j, g) => Mine(q, j, g)'
         /\ socks' \in [Sides -> Seq(SockRecords)]
<1> DEFINE m == Min(WithSock("S", f))
           n == Len(socks["S"])
<1>0. /\ FilesOK("S") /\ RecordsOK("S") /\ "S" \in Sides /\ "C" \in Sides
      /\ Mine("S", k, f) /\ k \notin shut["S"]
  BY TwoSides DEF Desk, ToxOK
<1>1. PICK i \in DOMAIN socks["S"] : socks["S"][i] = [uuid |-> Fresh, sock |-> f]
  BY DEF Desk, ToxOK
<1>2. m \in DOMAIN socks["S"] /\ socks["S"][m].sock = f
  <2>1. i \in WithSock("S", f)
    BY <1>1 DEF WithSock
  <2>2. m \in WithSock("S", f)
    BY <2>1, <1>0, MinFacts, SocksTyped DEF WithSock
  <2> QED BY <2>2 DEF WithSock
<1> HIDE DEF m
<1>3. m = i
  BY <1>0, <1>1, <1>2 DEF RecordsOK
<1>4. /\ socks["S"] \in Seq(SockRecords) /\ n \in Nat /\ DOMAIN socks["S"] = 1..n
      /\ socks \in [Sides -> Seq(SockRecords)]
  BY <1>0, SocksTyped DEF TypeOK, SockRecords
<1> DEFINE r == [uuid |-> k, sock |-> f]
           q == [socks["S"] EXCEPT ![i] = r]
<1>5. /\ q \in Seq(SockRecords) /\ DOMAIN q = DOMAIN socks["S"]
      /\ \A j \in DOMAIN q : q[j] = IF j = i THEN r ELSE socks["S"][j]
  <2>1. r \in SockRecords
    BY DEF SockRecords
  <2> QED BY <2>1, <1>4, ExceptSeq
<1>6. socks' = [socks EXCEPT !["S"] = q]
  <2>1. [socks["S"][i] EXCEPT !.uuid = k] = r
    BY <1>1
  <2>2. socks' = [socks EXCEPT !["S"] = [socks["S"] EXCEPT ![i] = [socks["S"][i] EXCEPT !.uuid = k]]]
    BY <1>3 DEF m
  <2> QED BY <2>1, <2>2
<1> HIDE DEF q, r
<1>7. /\ socks'["S"] = q /\ socks'["C"] = socks["C"]
      /\ socks' \in [Sides -> Seq(SockRecords)]
  BY ZenonT(60), <1>0, <1>4, <1>5, <1>6
<1>8. \A j \in DOMAIN q : /\ q[j].sock = socks["S"][j].sock
                          /\ j # i => q[j] = socks["S"][j]
                          /\ j = i => q[j].uuid = k
  BY <1>1, <1>5 DEF r
<1>9. \A j \in DOMAIN q : j # i => socks["S"][j].uuid # Fresh
  <2> SUFFICES ASSUME NEW j \in DOMAIN q, j # i, socks["S"][j].uuid = Fresh
               PROVE  FALSE
    OBVIOUS
  <2>1. socks["S"][j].sock = f
    BY <1>0, <1>5 DEF RecordsOK, Unnamed
  <2> QED BY <2>1, <1>0, <1>1, <1>5 DEF RecordsOK
<1>10. RecordsOK("S")'
  <2>1. files["S"][f] = k
    BY <1>0 DEF Mine
  <2>2. ASSUME NEW j \in DOMAIN q
        PROVE  /\ q[j].sock \in Fds \ {0}
               /\ q[j].uuid # Fresh /\ files["S"][q[j].sock] = q[j].uuid
    BY <2>1, <1>0, <1>1, <1>5, <1>8, <1>9, Names DEF RecordsOK
  <2>3. DOMAIN socks'["S"] = DOMAIN socks["S"]
    BY <1>5, <1>7
  <2>4. ASSUME NEW j \in DOMAIN socks'["S"]
        PROVE  /\ socks'["S"][j].sock \in Fds \ {0}
               /\ socks'["S"][j].uuid # Fresh
               /\ files'["S"][socks'["S"][j].sock] = socks'["S"][j].uuid
               /\ socks'["S"][j].sock = socks["S"][j].sock
    <3>1. files' = files
      OBVIOUS
    <3>2. j \in DOMAIN q /\ socks'["S"][j] = q[j]
      BY <1>7
    <3> HIDE DEF q
    <3>3. /\ q[j].sock \in Fds \ {0} /\ q[j].uuid # Fresh
          /\ files["S"][q[j].sock] = q[j].uuid /\ q[j].sock = socks["S"][j].sock
      BY <3>2, <2>2, <1>8
    <3> QED BY <3>1, <3>2, <3>3
  <2>5. \A j, l \in DOMAIN socks'["S"] :
          socks'["S"][j].sock = socks'["S"][l].sock => j = l
    <3>1. \A j, l \in DOMAIN socks["S"] :
            socks["S"][j].sock = socks["S"][l].sock => j = l
      BY <1>0 DEF RecordsOK
    <3>2. \A j \in DOMAIN socks'["S"] :
            /\ j \in DOMAIN socks["S"]
            /\ socks'["S"][j].sock = socks["S"][j].sock
      BY <2>3, <2>4
    <3> QED BY <3>1, <3>2
  <2> QED BY <2>4, <2>5 DEF RecordsOK
<1>11. FilesOK("S")'
  <2>1. ASSUME NEW j \in up["S"] \ shut["S"] PROVE HasRecord("S", j)'
    <3>1. j \in Conns
      BY <1>0 DEF TypeOK
    <3>2. CASE j = k
      BY <3>2, <1>5, <1>7, <1>8 DEF HasRecord
    <3>3. CASE j # k
      <4>1. HasRecord("S", j)
        BY <3>1, <3>3, <1>0 DEF FilesOK, Creating, Doing
      <4>2. PICK x \in DOMAIN socks["S"] : socks["S"][x].uuid = j
        BY <4>1 DEF HasRecord
      <4>3. x # i
        BY <4>2, <3>1, <1>1, Names
      <4> QED BY <4>2, <4>3, <1>5, <1>7, <1>8 DEF HasRecord
    <3> QED BY <3>2, <3>3
  <2> QED BY <2>1, <1>0 DEF FilesOK
<1> QED BY <1>7, <1>10, <1>11 DEF SideStays, Mine

-----------------------------------------------------------------------------
(* One message more at the end of a pipe, one less at its front.            *)

\* A sequence of messages and a message behind it.
Longer(l, q, m) ==
  \E n \in Nat : /\ DOMAIN q = 1..n /\ DOMAIN l = 1..n + 1
                 /\ \A i \in 1..n : l[i] = q[i]
                 /\ l[n + 1] = m

\* Append puts one message behind the others.
LEMMA AppendsOne ==
  ASSUME NEW q \in Seq(Messages), NEW m \in Messages
  PROVE  Longer(Append(q, m), q, m) /\ Append(q, m) \in Seq(Messages)
<1> DEFINE l == Append(q, m)
<1>1. /\ l \in Seq(Messages) /\ Len(l) = Len(q) + 1
      /\ \A i \in 1..Len(q) : l[i] = q[i]
      /\ l[Len(q) + 1] = m
  BY AppendProperties
<1>2. /\ Len(q) \in Nat /\ DOMAIN q = 1..Len(q)
      /\ DOMAIN l = 1..Len(q) + 1
  BY <1>1, Indices
<1> HIDE DEF l
<1>3. Longer(l, q, m)
  BY ZenonT(60), <1>1, <1>2 DEF Longer
<1> QED BY <1>1, <1>3 DEF l

\* What a message behind a pipe changes.
LEMMA Grown ==
  ASSUME NEW q, NEW m, NEW l, NEW k, Longer(l, q, m)
  PROVE  /\ \A cmd : Has(l, k, cmd) <=>
                       Has(q, k, cmd) \/ (m.uuid = k /\ m.cmd = cmd)
         /\ Silent(l, k) <=> Silent(q, k) /\ m.uuid # k
         /\ OnlyAsks(q, k) /\ (m.uuid = k => m.cmd = "CREATE_SOCK")
              => OnlyAsks(l, k)
         /\ Silent(q, k) => AsksAlone(l, k)
         /\ ~ Has(q, k, "CREATE_SOCK") /\ (m.uuid = k => m.cmd # "CREATE_SOCK")
              => AsksAlone(l, k)
         /\ ConfirmsOnce(q, k) /\ ~ (/\ Has(q, k, "CREATE_SOCK_SUCCESS")
                                     /\ m.uuid = k
                                     /\ m.cmd = "CREATE_SOCK_SUCCESS")
              => ConfirmsOnce(l, k)
         /\ ClosesLast(q, k) /\ (Piece(m, k) => ~ Has(q, k, "CLOSE_SOCK"))
              => ClosesLast(l, k)
         /\ Keeps(l, q, k)
<1>1. PICK n \in Nat : /\ DOMAIN q = 1..n /\ DOMAIN l = 1..n + 1
                       /\ \A i \in 1..n : l[i] = q[i]
                       /\ l[n + 1] = m
  BY DEF Longer
<1>2. /\ \A i \in DOMAIN q : /\ i \in DOMAIN l /\ l[i] = q[i]
                             /\ i # n + 1 /\ ~ (n + 1 < i)
      /\ \A i \in DOMAIN l : i \in DOMAIN q \/ i = n + 1
      /\ n + 1 \in DOMAIN l /\ ~ (n + 1 < n + 1)
  BY <1>1
<1>3. \A cmd : Has(l, k, cmd) <=> Has(q, k, cmd) \/ (m.uuid = k /\ m.cmd = cmd)
  BY <1>1, <1>2 DEF Has
<1>4. Silent(l, k) <=> Silent(q, k) /\ m.uuid # k
  BY <1>1, <1>2 DEF Silent
<1>5. OnlyAsks(q, k) /\ (m.uuid = k => m.cmd = "CREATE_SOCK") => OnlyAsks(l, k)
  BY <1>1, <1>2 DEF OnlyAsks
<1>6. Silent(q, k) => AsksAlone(l, k)
  BY <1>1, <1>2 DEF Silent, AsksAlone
<1>7. ~ Has(q, k, "CREATE_SOCK") /\ (m.uuid = k => m.cmd # "CREATE_SOCK")
        => AsksAlone(l, k)
  BY <1>1, <1>2 DEF Has, AsksAlone
<1>8. ASSUME ConfirmsOnce(q, k), ~ (/\ Has(q, k, "CREATE_SOCK_SUCCESS")
                                    /\ m.uuid = k
                                    /\ m.cmd = "CREATE_SOCK_SUCCESS")
      PROVE  ConfirmsOnce(l, k)
  <2> DEFINE Confirms(x) == x.uuid = k /\ x.cmd = "CREATE_SOCK_SUCCESS"
  <2>1. \A i, j \in DOMAIN q : Confirms(q[i]) /\ Confirms(q[j]) => i = j
    BY <1>8 DEF ConfirmsOnce
  <2>2. Confirms(m) => \A i \in DOMAIN q : ~ Confirms(q[i])
    BY <1>8 DEF Has
  <2> HIDE DEF Confirms
  <2>3. \A i, j \in DOMAIN l : Confirms(l[i]) /\ Confirms(l[j]) => i = j
    BY <2>1, <2>2, <1>1, <1>2
  <2> QED BY <2>3 DEF ConfirmsOnce, Confirms
<1>9. ClosesLast(q, k) /\ (Piece(m, k) => ~ Has(q, k, "CLOSE_SOCK"))
        => ClosesLast(l, k)
  BY <1>1, <1>2 DEF Has, ClosesLast
<1>10. Keeps(l, q, k)
  BY <1>2 DEF Keeps
<1> QED BY <1>3, <1>4, <1>5, <1>6, <1>7, <1>8, <1>9, <1>10

\* A message that is no piece of k changes no stream of k.
LEMMA NoPiece ==
  ASSUME NEW q, NEW m, NEW l, NEW k, Longer(l, q, m), ~ Piece(m, k)
  PROVE  /\ \A low, top : Flow(q, k, low, top) => Flow(l, k, low, top)
         /\ \A low : Connected(q, k, low) => Connected(l, k, low)
         /\ \A low, top : Dense(q, k, low, top) => Dense(l, k, low, top)
<1>1. PICK n \in Nat : /\ DOMAIN q = 1..n /\ DOMAIN l = 1..n + 1
                       /\ \A i \in 1..n : l[i] = q[i]
                       /\ l[n + 1] = m
  BY DEF Longer
<1>2. /\ \A i \in DOMAIN q : i \in DOMAIN l /\ l[i] = q[i]
      /\ \A i \in DOMAIN l : Piece(l[i], k) => i \in DOMAIN q /\ l[i] = q[i]
  BY <1>1
<1>3. \A low, top : Flow(q, k, low, top) => Flow(l, k, low, top)
  BY <1>2 DEF Flow
<1>4. \A low, top : Dense(q, k, low, top) => Dense(l, k, low, top)
  BY <1>2 DEF Dense
<1>5. \A low : Connected(q, k, low) => Connected(l, k, low)
  BY <1>2, <1>4 DEF Connected
<1> QED BY <1>3, <1>4, <1>5

\* The next piece of k is sent.
LEMMA NextPiece ==
  ASSUME NEW q, NEW m, NEW l, NEW k, Longer(l, q, m),
         NEW low \in Nat, NEW top \in Nat, low <= top, Flow(q, k, low, top),
         Piece(m, k), m.data = <<k, top + 1>>
  PROVE  /\ Flow(l, k, low, top + 1)
         /\ Dense(q, k, low, top) => Dense(l, k, low, top + 1)
         /\ Connected(q, k, low) /\ Dense(q, k, low, top) => Connected(l, k, low)
<1>1. PICK n \in Nat : /\ DOMAIN q = 1..n /\ DOMAIN l = 1..n + 1
                       /\ \A i \in 1..n : l[i] = q[i]
                       /\ l[n + 1] = m
  BY DEF Longer
<1>2. /\ \A i \in DOMAIN q : /\ i \in DOMAIN l /\ l[i] = q[i]
                             /\ ~ (n + 1 < i)
      /\ \A i \in DOMAIN l : i \in DOMAIN q \/ i = n + 1
      /\ n + 1 \in DOMAIN l /\ l[n + 1] = m /\ ~ (n + 1 < n + 1)
  BY <1>1
<1>3. Num(m) = top + 1
  BY DEF Num
<1>4. Flow(l, k, low, top + 1)
  <2>1. ASSUME NEW i \in DOMAIN l, Piece(l[i], k)
        PROVE  l[i].data = <<k, Num(l[i])>> /\ Num(l[i]) \in low + 1..top + 1
    <3>1. CASE i \in DOMAIN q
      <4>1. q[i].data = <<k, Num(q[i])>> /\ Num(q[i]) \in low + 1..top
        BY <3>1, <2>1, <1>2 DEF Flow
      <4> QED BY <4>1, <3>1, <1>2
    <3>2. CASE i = n + 1
      BY <3>2, <1>2, <1>3
    <3> QED BY <3>1, <3>2, <1>2
  <2>2. ASSUME NEW i \in DOMAIN l, NEW j \in DOMAIN l, i < j,
               Piece(l[i], k), Piece(l[j], k)
        PROVE  Num(l[i]) < Num(l[j])
    <3>1. CASE j \in DOMAIN q
      BY <3>1, <2>2, <1>2 DEF Flow
    <3>2. CASE j = n + 1
      <4>1. i \in DOMAIN q
        BY <3>2, <2>2, <1>2
      <4>2. Num(q[i]) \in low + 1..top
        BY <4>1, <2>2, <1>2 DEF Flow
      <4> QED BY <4>1, <4>2, <3>2, <1>2, <1>3
    <3> QED BY <3>1, <3>2, <1>2
  <2> QED BY <2>1, <2>2 DEF Flow
<1>5. ASSUME Dense(q, k, low, top)
      PROVE  Dense(l, k, low, top + 1)
  <2>1. ASSUME NEW x \in low + 1..top + 1
        PROVE  \E i \in DOMAIN l : Piece(l[i], k) /\ Num(l[i]) = x
    <3>1. CASE x \in low + 1..top
      BY <3>1, <1>2, <1>5 DEF Dense
    <3>2. CASE x = top + 1
      BY <3>2, <1>2, <1>3
    <3> QED BY <3>1, <3>2
  <2> QED BY <2>1 DEF Dense
<1>6. ASSUME Connected(q, k, low), Dense(q, k, low, top)
      PROVE  Connected(l, k, low)
  <2>1. ASSUME NEW i \in DOMAIN l, Piece(l[i], k)
        PROVE  Dense(l, k, low, Num(l[i]))
    <3>1. CASE i \in DOMAIN q
      <4>1. Dense(q, k, low, Num(l[i]))
        BY <3>1, <2>1, <1>2, <1>6 DEF Connected
      <4> QED BY <4>1, <1>2 DEF Dense
    <3>2. CASE i = n + 1
      BY <3>2, <1>2, <1>3, <1>5, <1>6
    <3> QED BY <3>1, <3>2, <1>2
  <2> QED BY <2>1 DEF Connected
<1> QED BY <1>4, <1>5, <1>6

\* A sequence of messages and what is left of it without the first.
Shorter(t, q) ==
  \E n \in Nat : /\ DOMAIN q = 1..n + 1 /\ DOMAIN t = 1..n
                 /\ \A i \in 1..n : t[i] = q[i + 1]
                 /\ Head(q) = q[1]

\* Tail takes the first message away.
LEMMA TailsOne ==
  ASSUME NEW q \in Seq(Messages), q # <<>>
  PROVE  Shorter(Tail(q), q) /\ Head(q) \in Messages
<1> DEFINE t == Tail(q)
<1>1. /\ t \in Seq(Messages) /\ Len(t) = Len(q) - 1
      /\ \A i \in 1..Len(t) : t[i] = q[i + 1]
      /\ Head(q) = q[1] /\ Head(q) \in Messages
  BY HeadTailProperties
<1>2. /\ Len(q) \in Nat /\ Len(t) \in Nat /\ Len(q) = Len(t) + 1
      /\ DOMAIN q = 1..Len(t) + 1 /\ DOMAIN t = 1..Len(t)
  BY <1>1, Indices
<1> HIDE DEF t
<1>3. Shorter(t, q)
  BY <1>1, <1>2 DEF Shorter
<1> QED BY <1>1, <1>3 DEF t

\* What holds when the first message, one of k, has left.
LEMMA Shrunk ==
  ASSUME NEW q, NEW t, NEW k, Shorter(t, q), Head(q).uuid = k
  PROVE  /\ \A cmd : Has(q, k, cmd) <=> Has(t, k, cmd) \/ Head(q).cmd = cmd
         /\ Head(q).cmd = "CREATE_SOCK" /\ AsksAlone(q, k) => Silent(t, k)
         /\ Head(q).cmd = "CREATE_SOCK_SUCCESS" /\ ConfirmsOnce(q, k)
              => ~ Has(t, k, "CREATE_SOCK_SUCCESS")
         /\ Head(q).cmd = "CLOSE_SOCK" /\ ClosesLast(q, k)
              => ~ Has(t, k, "RAW_DATA")
<1>1. PICK n \in Nat : /\ DOMAIN q = 1..n + 1 /\ DOMAIN t = 1..n
                       /\ \A i \in 1..n : t[i] = q[i + 1]
                       /\ Head(q) = q[1]
  BY DEF Shorter
<1>2. /\ 1 \in DOMAIN q
      /\ \A i \in DOMAIN t : /\ i + 1 \in DOMAIN q /\ t[i] = q[i + 1]
                             /\ i + 1 # 1 /\ 1 < i + 1
  BY <1>1
<1>3. ASSUME NEW i \in DOMAIN q, i # 1
      PROVE  i - 1 \in DOMAIN t /\ t[i - 1] = q[i]
  BY <1>1, <1>3
<1>4. \A cmd : Has(q, k, cmd) <=> Has(t, k, cmd) \/ Head(q).cmd = cmd
  <2>1. ASSUME NEW cmd, Has(q, k, cmd)
        PROVE  Has(t, k, cmd) \/ Head(q).cmd = cmd
    <3>1. PICK i \in DOMAIN q : q[i].uuid = k /\ q[i].cmd = cmd
      BY <2>1 DEF Has
    <3> QED BY <3>1, <1>1, <1>3 DEF Has
  <2>2. ASSUME NEW cmd, Has(t, k, cmd) \/ Head(q).cmd = cmd
        PROVE  Has(q, k, cmd)
    BY <2>2, <1>1, <1>2 DEF Has
  <2> QED BY <2>1, <2>2
<1>5. Head(q).cmd = "CREATE_SOCK" /\ AsksAlone(q, k) => Silent(t, k)
  BY <1>1, <1>2 DEF AsksAlone, Silent
<1>6. Head(q).cmd = "CREATE_SOCK_SUCCESS" /\ ConfirmsOnce(q, k)
        => ~ Has(t, k, "CREATE_SOCK_SUCCESS")
  BY <1>1, <1>2 DEF ConfirmsOnce, Has
<1>7. Head(q).cmd = "CLOSE_SOCK" /\ ClosesLast(q, k) => ~ Has(t, k, "RAW_DATA")
  BY <1>1, <1>2 DEF ClosesLast, Has, Piece
<1> QED BY <1>4, <1>5, <1>6, <1>7

\* The first message is no piece: the streams stay.
LEMMA NoPieceLeft ==
  ASSUME NEW q, NEW t, NEW k, Shorter(t, q), ~ Piece(Head(q), k)
  PROVE  /\ \A low, top : Dense(q, k, low, top) => Dense(t, k, low, top)
         /\ \A low : Connected(q, k, low) => Connected(t, k, low)
<1>1. PICK n \in Nat : /\ DOMAIN q = 1..n + 1 /\ DOMAIN t = 1..n
                       /\ \A i \in 1..n : t[i] = q[i + 1]
                       /\ Head(q) = q[1]
  BY DEF Shorter
<1>2. \A i \in DOMAIN t : i + 1 \in DOMAIN q /\ t[i] = q[i + 1]
  BY <1>1
<1>3. ASSUME NEW i \in DOMAIN q, Piece(q[i], k)
      PROVE  i - 1 \in DOMAIN t /\ t[i - 1] = q[i]
  BY <1>1, <1>3
<1>4. \A low, top : Dense(q, k, low, top) => Dense(t, k, low, top)
  BY <1>3 DEF Dense
<1>5. \A low : Connected(q, k, low) => Connected(t, k, low)
  BY <1>2, <1>4 DEF Connected
<1> QED BY <1>4, <1>5

\* The first message is a piece: the next one, unless some are missing.
LEMMA PieceLeft ==
  ASSUME NEW q, NEW t, NEW k, Shorter(t, q), Piece(Head(q), k),
         NEW low \in Nat, NEW top \in Nat, Flow(q, k, low, top)
  PROVE  /\ Head(q).data = <<k, Num(Head(q))>>
         /\ Num(Head(q)) \in low + 1..top
         /\ Flow(t, k, Num(Head(q)), top)
         /\ Connected(q, k, low) => /\ Num(Head(q)) = low + 1
                                    /\ Connected(t, k, low + 1)
         /\ Dense(q, k, low, top) => Dense(t, k, Num(Head(q)), top)
<1> DEFINE x == Num(Head(q))
<1>1. PICK n \in Nat : /\ DOMAIN q = 1..n + 1 /\ DOMAIN t = 1..n
                       /\ \A i \in 1..n : t[i] = q[i + 1]
                       /\ Head(q) = q[1]
  BY DEF Shorter
<1>2. /\ 1 \in DOMAIN q /\ q[1] = Head(q)
      /\ \A i \in DOMAIN t : i \in Nat /\ i + 1 \in DOMAIN q /\ t[i] = q[i + 1] /\ 1 < i + 1
  BY <1>1
<1>3. ASSUME NEW i \in DOMAIN q, i # 1
      PROVE  i - 1 \in DOMAIN t /\ t[i - 1] = q[i] /\ 1 < i
  BY <1>1, <1>3
<1>4. q[1].data = <<k, x>> /\ x \in low + 1..top
  BY <1>2 DEF Flow
<1> HIDE DEF x
<1>5. \A i \in DOMAIN q : Piece(q[i], k) => Num(q[i]) \in low + 1..top
  BY DEF Flow
<1>6. \A i \in DOMAIN q : i # 1 /\ Piece(q[i], k) => x < Num(q[i])
  BY <1>2, <1>3 DEF Flow, x
<1>7. Flow(t, k, x, top)
  <2>1. ASSUME NEW i \in DOMAIN t, Piece(t[i], k)
        PROVE  t[i].data = <<k, Num(t[i])>> /\ Num(t[i]) \in x + 1..top
    <3>1. i + 1 \in DOMAIN q /\ t[i] = q[i + 1] /\ i + 1 # 1
      BY <1>2
    <3>2. Num(t[i]) \in low + 1..top /\ x < Num(t[i])
      BY <2>1, <3>1, <1>5, <1>6
    <3>3. t[i].data = <<k, Num(t[i])>>
      BY <2>1, <3>1 DEF Flow
    <3> QED BY <3>2, <3>3, <1>4
  <2>2. ASSUME NEW i \in DOMAIN t, NEW j \in DOMAIN t, i < j,
               Piece(t[i], k), Piece(t[j], k)
        PROVE  Num(t[i]) < Num(t[j])
    <3>1. i + 1 \in DOMAIN q /\ j + 1 \in DOMAIN q /\ i + 1 < j + 1
      BY <2>2, <1>2
    <3> QED BY <3>1, <2>2, <1>2 DEF Flow
  <2> QED BY <2>1, <2>2 DEF Flow
<1>8. ASSUME NEW y, y >= x, Dense(q, k, low, y), y \in Nat
      PROVE  Dense(t, k, x, y)
  <2>1. ASSUME NEW z \in x + 1..y
        PROVE  \E i \in DOMAIN t : Piece(t[i], k) /\ Num(t[i]) = z
    <3>1. z \in low + 1..y /\ z # x
      BY <1>4
    <3>2. PICK i \in DOMAIN q : Piece(q[i], k) /\ Num(q[i]) = z
      BY <3>1, <1>8 DEF Dense
    <3>3. i # 1
      BY <3>1, <3>2, <1>2 DEF x
    <3> QED BY <3>2, <3>3, <1>3
  <2> QED BY <2>1 DEF Dense
<1>9. ASSUME Connected(q, k, low)
      PROVE  x = low + 1 /\ Connected(t, k, low + 1)
  <2>1. Dense(q, k, low, x)
    BY <1>2, <1>9 DEF Connected, x
  <2>2. PICK i \in DOMAIN q : Piece(q[i], k) /\ Num(q[i]) = low + 1
    BY <2>1, <1>4 DEF Dense
  <2>3. x = low + 1
    <3>1. CASE i = 1
      BY <3>1, <2>2, <1>2 DEF x
    <3>2. CASE i # 1
      BY <3>2, <2>2, <1>4, <1>6
    <3> QED BY <3>1, <3>2
  <2>4. ASSUME NEW j \in DOMAIN t, Piece(t[j], k)
        PROVE  Dense(t, k, x, Num(t[j]))
    <3>1. j + 1 \in DOMAIN q /\ t[j] = q[j + 1] /\ j + 1 # 1
      BY <1>2
    <3>2. Num(t[j]) \in Nat /\ Num(t[j]) >= x
      BY <2>4, <3>1, <1>4, <1>5, <1>6
    <3>3. Dense(q, k, low, Num(t[j]))
      BY <2>4, <3>1, <1>9 DEF Connected
    <3> QED BY <3>2, <3>3, <1>8
  <2> QED BY <2>3, <2>4 DEF Connected
<1>10. Dense(q, k, low, top) => Dense(t, k, x, top)
  BY <1>4, <1>8
<1> QED BY <1>2, <1>4, <1>7, <1>9, <1>10 DEF x
=============================================================================
