---------------------------- MODULE TunnelProofs ------------------------------
(*****************************************************************************)
(* The steps of Tunnel that open and close descriptors keep the invariant,   *)
(* and what follows from it when no descriptor is given out that a thread    *)
(* still works on: the safety properties of Tunnel, that it implements Link, *)
(* and that neither side misses what the other one closes.                   *)
(*****************************************************************************)
EXTENDS TunnelSteps

-----------------------------------------------------------------------------
(* Accepting and making connections.                                        *)

\* Nothing happens to what was read, written, sent and given of k, and side q
\* does not begin to close it.
LEMMA LifeFrame ==
  ASSUME TypeOK, TypeOK', NEW q \in Sides, NEW k \in Conns, Life(k), Grows(k),
         reader'[q][k] = reader[q][k], UNCHANGED <<taken, wrote, out>>,
         Flows(k), k \in shut'[q] => k \in shut[q],
         Doing(q, k)' = "deny" =>
           Doing(q, k) = "deny" \/ k \in shut[q] \cup refused,
         Doing(Peer(q), k)' = "close" => Doing(Peer(q), k) = "close"
  PROVE  ReaderOK(q, k)' /\ StreamOK(q, k)' /\ OutOK(q, k)' /\ EndOK(q, k)'
<1>0. ReaderOK(q, k) /\ StreamOK(q, k) /\ OutOK(q, k) /\ EndOK(q, k)
  BY DEF Life
<1>1. ReaderOK(q, k)'
  BY <1>0, ReaderFrame DEF ReaderOK
<1>2. StreamOK(q, k)'
  <2>1. Top(q, k)' = Top(q, k) /\ (Reading(q, k)' => Reading(q, k))
    BY DEF Top, Reading, Grows
  <2> QED BY <2>1, <1>0, TwoSides, StreamFrame DEF Flows
<1>3. OutOK(q, k)'
  BY <1>0, OutFrame
<1>4. EndOK(q, k)'
  BY <1>0, TwoSides, EndFrame DEF Flows
<1> QED BY <1>1, <1>2, <1>3, <1>4

\* The descriptors of side C change, but not what the Tox threads do.
LEMMA DeskOfC ==
  ASSUME TypeOK, Desk, tox' = tox, SideStays("S"), up'["S"] = up["S"],
         FilesOK("C")', RecordsOK("C")', MainOK',
         \A q \in Sides : \A k, f :
           f \in Held(q) /\ Mine(q, k, f) => Mine(q, k, f)'
  PROVE  Desk'
<1>1. SameMaking("S")
  BY DEF SameMaking, Creating, Unnamed, Doing
<1>2. FilesOK("S")' /\ RecordsOK("S")'
  BY <1>1, StaysOK, TwoSides
<1>3. ToxOK'
  <2>0. ToxOK
    BY DEF Desk
  <2>1. tox'["C"].pc \notin {"connect", "add", "set"}
    BY <2>0 DEF ToxOK
  <2>2. ASSUME NEW s \in Sides
        PROVE  /\ tox'[s].pc = "write" =>
                    /\ tox'[s].msg.cmd = "RAW_DATA"
                    /\ Mine(s, tox[s].msg.uuid, tox[s].sock)'
               /\ tox'[s].pc = "close" =>
                    \/ tox'[s].sock = 0
                    \/ Mine(s, tox[s].msg.uuid, tox[s].sock)'
    BY <2>0, Works DEF ToxOK
  <2>3. tox'["S"].pc \in {"add", "set"} =>
          /\ tox'["S"].msg.uuid \in up'["S"] \ shut'["S"]
          /\ Mine("S", tox["S"].msg.uuid, tox["S"].sock)'
    BY <2>0, TwoSides, Works DEF ToxOK, SideStays
  <2>4. socks'["S"] = socks["S"]
    BY DEF SideStays
  <2>5. tox'["S"].pc = "add" => WithSock("S", tox["S"].sock)' = {}
    BY <2>0, <2>4 DEF ToxOK, WithSock
  <2>6. tox'["S"].pc = "set" =>
          \E i \in DOMAIN socks'["S"] :
            socks'["S"][i] = [uuid |-> Fresh, sock |-> tox'["S"].sock]
    BY <2>0, <2>4 DEF ToxOK
  <2> QED BY <2>1, <2>2, <2>3, <2>5, <2>6 DEF ToxOK
<1> QED BY <1>2, <1>3 DEF Desk, Sides

\* The descriptors of side S change, but not what the main thread does.
LEMMA DeskOfS ==
  ASSUME TypeOK, Desk, main' = main, SideStays("C"), up'["C"] = up["C"],
         FilesOK("S")', RecordsOK("S")', ToxOK'
  PROVE  Desk'
<1>1. SameMaking("C")
  BY DEF SameMaking, Creating, Unnamed
<1>2. /\ FilesOK("C")' /\ RecordsOK("C")'
      /\ \A k, f : Mine("C", k, f)' <=> Mine("C", k, f)
  BY <1>1, StaysOK, TwoSides
<1>3. MainOK'
  BY <1>2, TwoSides DEF Desk, MainOK, SideStays, WithSock
<1> QED BY <1>2, <1>3 DEF Desk, Sides

\* A connection is accepted on a descriptor that no thread works on.
LEMMA AcceptStep ==
  ASSUME IInv, StaysClosed, Accept
  PROVE  IInv'
<1>0. TypeOK /\ Desk /\ main.pc = "accept" /\ Free("C") # {}
  BY DEF IInv, Accept
<1>1. PICK k \in Conns : k = Min(Conns \ up["C"]) /\ k \notin up["C"]
  <2>1. up["C"] \subseteq Conns /\ Conns # up["C"] /\ Conns \subseteq Nat
    BY <1>0, TwoSides, Names DEF TypeOK, Accept
  <2>2. Conns \ up["C"] # {} /\ Conns \ up["C"] \subseteq Nat
    BY <2>1
  <2> QED BY <2>2, MinFacts
<1>2. PICK f : f = Min(Free("C"))
  OBVIOUS
<1>3. /\ Open("C", f, k) /\ up' = [up EXCEPT !["C"] = @ \cup {k}]
      /\ main' = [pc |-> "add", conn |-> k, sock |-> f]
      /\ UNCHANGED <<socks, shut, wrote, fin, refused, mail, tox, reader,
                     taken, out, links>>
  BY <1>1, <1>2 DEF Accept
<1>4. UNCHANGED <<socks, shut, wrote, fin, refused, net, held, lost, tox,
                  reader,
                  taken, out, linked, online, ends>>
  BY <1>3 DEF mail, links
<1>5. /\ FilesOK("C")' /\ RecordsOK("C")'
      /\ SideStays("S") /\ up'["S"] = up["S"]
      /\ \A q \in Sides : \A j, g :
           g \in Held(q) /\ Mine(q, j, g) => Mine(q, j, g)'
      /\ f \in Fds /\ WithSock("C", f)' = {}
      /\ Mine("C", k, f)' /\ k \notin shut'["C"]
      /\ files' \in [Sides -> [Fds -> Conns \cup {Std, Leaked, NoFile}]]
      /\ up' \in [Sides -> SUBSET Conns]
  <2>1. up' = [up EXCEPT !["C"] = @ \cup ({k} \cap Conns)]
    BY <1>3
  <2>2. /\ Creating("C", k)'
        /\ \A j \in Conns : Creating("C", j) => Creating("C", j)'
        /\ \A g : Unnamed("C", g) => Unnamed("C", g)'
    BY <1>0, <1>3 DEF Creating, Unnamed
  <2>3. "C" \in Sides /\ "S" \in Sides /\ "S" # "C"
    BY TwoSides
  <2> QED BY <1>0, <1>1, <1>2, <1>3, <1>4, <2>1, <2>2, <2>3, Opens
<1>6. TypeOK'
  <2>1. main' \in Mains
    BY <1>3, <1>5 DEF Mains
  <2> QED BY <1>0, <1>4, <1>5, <2>1 DEF TypeOK
<1>7. Desk'
  <2>1. MainOK'
    <3>1. k \in up'["C"]
      BY <1>5 DEF Mine
    <3> QED BY <3>1, <1>3, <1>5 DEF MainOK
  <2> QED BY <1>0, <1>4, <1>5, <2>1, DeskOfC
<1>8. \A j \in Conns : Grows(j)
  <2>1. \A q \in Sides, j \in Conns : j \in up[q] => j \in up'[q]
    BY <1>0, <1>3 DEF TypeOK
  <2> QED BY <1>4, <1>5, <2>1, Works DEF Grows
<1>9. \A j : Flows(j)
  BY <1>0, <1>4, MailStays DEF Writing
<1>10. \A q \in Sides : Pipe(q)' = Pipe(q)
  BY <1>0, <1>4, MailStays DEF Writing
<1>11. \A q \in Sides, j \in Conns : Doing(q, j)' = Doing(q, j)
  BY <1>4 DEF Doing
<1>12. \A j \in Conns : ~ Accepting(j) /\ (j # k => ~ Accepting(j)')
  BY <1>0, <1>3 DEF Accepting
<1>13. \A q \in Sides, j \in Conns : j # k => (j \in up'[q] <=> j \in up[q])
  BY <1>0, <1>3 DEF TypeOK
<1>14. ASSUME NEW j \in Conns, j # k PROVE Still(j)
  BY <1>4, <1>8, <1>9, <1>11, <1>12, <1>13, <1>14 DEF Still, Flows
<1>15. CreationOK(k)'
  <2>1. CreationOK(k) /\ Unborn(k) /\ Silent(Pipe("C"), k) /\ Doing("C", k) = "idle"
    BY <1>1 DEF IInv, Life, CreationOK, UnaskedOK
  <2>2. k \notin up'["S"] /\ k \in up'["C"]
    BY <2>1, <1>5, TwoSides DEF Unborn, Mine
  <2>3. Doing("S", k) \notin {"connect", "add", "set"}
    BY <2>1, <1>1 DEF CreationOK, MakingOK
  <2> USE <1>4, <1>10, <1>11, TwoSides
  <2>4. Unborn(k)'
    BY <2>1, <2>2 DEF Unborn
  <2>5. YoungOK(k)'
    BY <2>1, <2>4 DEF CreationOK, YoungOK, Young, Dormant
  <2>6. UnaskedOK(k)'
    BY <2>1, <2>4 DEF UnaskedOK
  <2>7. AskedOK(k)'
    BY <2>1, <2>4 DEF CreationOK, AskedOK
  <2>8. MakingOK(k)'
    BY <2>3 DEF MakingOK
  <2>9. MadeOK(k)'
    BY <2>1, <2>2, <1>5 DEF CreationOK, MadeOK, Unborn
  <2>10. ConfirmedOK(k)'
    BY <2>1, <1>5 DEF CreationOK, ConfirmedOK
  <2> QED BY <2>5, <2>6, <2>7, <2>8, <2>9, <2>10 DEF CreationOK
<1>16. ASSUME NEW q \in Sides
       PROVE  ReaderOK(q, k)' /\ StreamOK(q, k)' /\ OutOK(q, k)' /\ EndOK(q, k)'
  <2>1. Life(k)
    BY DEF IInv
  <2> QED BY <2>1, <1>0, <1>4, <1>6, <1>8, <1>9, <1>11, TwoSides, LifeFrame
<1> QED BY <1>6, <1>7, <1>14, <1>15, <1>16, Focus

\* The record of an accepted connection is added.
LEMMA AddAcceptedStep ==
  ASSUME IInv, AddAccepted
  PROVE  IInv'
<1>0. TypeOK /\ Desk /\ MainOK /\ main.pc = "add"
  BY DEF IInv, AddAccepted, Desk
<1>1. PICK k \in Conns : /\ k = main.conn /\ Mine("C", k, main.sock)
                         /\ k \in up["C"] \ shut["C"]
  BY <1>0, TwoSides DEF MainOK, TypeOK
<1>2. PICK f \in Fds : f = main.sock /\ f \in Fds \ {0}
                       /\ files["C"][f] = k /\ WithSock("C", f) = {}
  BY <1>0, <1>1 DEF MainOK, TypeOK, Mains, Mine
<1>3. /\ AddSock("C", k, f)
      /\ main' = [main EXCEPT !.pc = "create"]
      /\ UNCHANGED <<files, shut, appVars, mail, tox, reader, taken,
                     out,
                     links>>
  BY <1>1, <1>2 DEF AddAccepted
<1>4. UNCHANGED <<files, shut, up, wrote, fin, refused, net, held, lost,
                  tox, reader, taken, out, linked, online, ends>>
  BY <1>3 DEF appVars, mail, links
<1>m. main' \in Mains /\ main'.pc = "create" /\ main'.conn = k /\ main'.sock = f
  <2>1. main \in Mains
    BY <1>0 DEF TypeOK
  <2> QED BY <2>1, <1>1, <1>2, <1>3 DEF Mains
<1>5. /\ FilesOK("C")' /\ RecordsOK("C")' /\ SideStays("S")
      /\ \A q \in Sides : \A j, g : Mine(q, j, g) => Mine(q, j, g)'
      /\ socks' \in [Sides -> Seq(SockRecords)]
  <2>1. \A j \in Conns : Creating("C", j) => Creating("C", j)' \/ j = k
    BY <1>1 DEF Creating
  <2>2. \A g : Unnamed("C", g) => Unnamed("C", g)'
    BY DEF Unnamed
  <2>3. "C" \in Sides /\ "S" \in Sides /\ "S" # "C" /\ k # Fresh
    BY TwoSides, Names
  <2>4. k \in Conns \cup {Fresh}
    BY <1>1
  <2> QED BY <1>0, <1>2, <1>3, <1>4, <2>1, <2>2, <2>3, <2>4, Adds
<1>6. TypeOK'
  BY <1>0, <1>4, <1>5, <1>m DEF TypeOK, SockRecords
<1>7. Desk'
  <2>1. MainOK'
    BY <1>1, <1>2, <1>4, <1>5, <1>m DEF MainOK, Sides
  <2> QED BY <1>0, <1>4, <1>5, <2>1, DeskOfC
<1>8. \A j \in Conns : Grows(j)
  BY <1>4, <1>5 DEF Grows
<1>9. \A j : Flows(j)
  BY <1>0, <1>4, MailStays DEF Writing
<1>10. \A q \in Sides, j \in Conns : Doing(q, j)' = Doing(q, j)
  BY <1>4 DEF Doing
<1>11. \A j \in Conns : Accepting(j)' <=> Accepting(j)
  BY <1>0, <1>1, <1>m DEF Accepting
<1>12. ASSUME NEW j \in Conns PROVE Life(j)'
  <2>1. Still(j)
    BY <1>4, <1>8, <1>9, <1>10, <1>11 DEF Still, Flows
  <2> QED BY <2>1, <1>0, <1>6, StillAlive DEF IInv
<1> QED BY <1>6, <1>7, <1>12 DEF IInv

\* A record is added for a connection to the target.
LEMMA AddConnectedStep ==
  ASSUME IInv, AddConnected
  PROVE  IInv'
<1>0. TypeOK /\ Desk /\ ToxOK /\ tox["S"].pc = "add" /\ tox["S"].msg \in Messages
  BY TwoSides DEF IInv, AddConnected, Desk, TypeOK
<1>1. PICK k \in Conns : /\ k = tox["S"].msg.uuid /\ Mine("S", k, tox["S"].sock)
                         /\ k \in up["S"] \ shut["S"]
  BY <1>0 DEF ToxOK, Messages
<1>2. PICK f \in Fds : f = tox["S"].sock /\ f \in Fds \ {0}
                       /\ WithSock("S", f) = {}
  <2>1. tox["S"] \in Tasks
    BY <1>0, TwoSides DEF TypeOK
  <2> QED BY <2>1, <1>0, <1>1 DEF ToxOK, Tasks, Mine
<1>a. PICK m \in Messages : m = tox["S"].msg
  BY <1>0
<1>b. PICK t : t = [pc |-> "set", msg |-> m, sock |-> f]
  OBVIOUS
<1>3. /\ AddSock("S", Fresh, f)
      /\ tox' = [tox EXCEPT !["S"] = t]
      /\ UNCHANGED <<files, shut, appVars, mail, main, reader, taken,
                     out,
                     links>>
  BY <1>2, <1>a, <1>b DEF AddConnected, ToxNow
<1>4. UNCHANGED <<files, shut, up, wrote, fin, refused, net, held, lost,
                  main, reader, taken, out, linked, online, ends>>
  BY <1>3 DEF appVars, mail, links
<1>c. ToxTurns("S", k, t)
  BY <1>1, <1>2, <1>3, <1>a, <1>b DEF ToxTurns, Tasks
<1>d. t.pc = "set" /\ t.msg = m /\ t.sock = f
  BY <1>b
<1>e. /\ tox' \in [Sides -> Tasks]
      /\ \A q \in Sides : tox'[q].pc # "idle" => tox'[q].msg \in Messages
      /\ tox'["S"] = t /\ tox'["C"] = tox["C"]
      /\ \A q \in Sides, j \in Conns : j # k => Doing(q, j)' = Doing(q, j)
      /\ Doing("S", k)' = "set" /\ Doing("S", k) = "add"
      /\ Doing("C", k)' = Doing("C", k)
      /\ \A q \in Sides : Writing(q)' = Writing(q)
  <2>1. "S" \in Sides /\ "C" \in Sides /\ Peer("S") = "C" /\ "S" # "C"
    BY TwoSides DEF Peer
  <2>2. Writing("S") = <<>>
    BY <1>0 DEF Writing
  <2>3. /\ tox' \in [Sides -> Tasks]
        /\ \A q \in Sides : tox'[q].pc # "idle" => tox'[q].msg \in Messages
        /\ tox'["S"] = t /\ tox'["C"] = tox["C"]
    BY <2>1, <1>0, <1>c, ToxTyped
  <2>4. /\ \A q \in Sides, j \in Conns : j # k => Doing(q, j)' = Doing(q, j)
        /\ Doing("S", k)' = "set" /\ Doing("S", k) = "add"
        /\ Doing("C", k)' = Doing("C", k)
    BY <2>1, <1>0, <1>c, <1>d, ToxTyped
  <2>5. Writing("C")' = Writing("C") /\ Writing("S")' = <<>>
    BY <2>1, <1>0, <1>c, <1>d, ToxTyped
  <2> QED BY <2>2, <2>3, <2>4, <2>5 DEF Sides
<1>5. /\ FilesOK("S")' /\ RecordsOK("S")' /\ SideStays("C")
      /\ \A q \in Sides : \A j, g : Mine(q, j, g) => Mine(q, j, g)'
      /\ \E i \in DOMAIN socks'["S"] :
           socks'["S"][i] = [uuid |-> Fresh, sock |-> f]
      /\ socks' \in [Sides -> Seq(SockRecords)]
  <2>1. \A j \in Conns : Creating("S", j) => Creating("S", j)' \/ j = Fresh
    <3>1. ASSUME NEW j \in Conns, Creating("S", j) PROVE Creating("S", j)'
      <4>1. j = k
        BY <3>1, <1>0, <1>1 DEF Creating, Doing
      <4> QED BY <4>1, <1>e DEF Creating
    <3> QED BY <3>1
  <2>2. /\ Unnamed("S", f)'
        /\ \A g : Unnamed("S", g) => Unnamed("S", g)'
    BY <1>0, <1>d, <1>e DEF Unnamed
  <2>3. "C" \in Sides /\ "S" \in Sides /\ "S" # "C"
    BY TwoSides
  <2>4. Fresh \in Conns \cup {Fresh}
    OBVIOUS
  <2> QED BY ZenonT(60), <1>0, <1>2, <1>3, <1>4, <2>1, <2>2, <2>3, <2>4, Adds
<1>6. TypeOK'
  BY <1>0, <1>4, <1>5, <1>e DEF TypeOK, SockRecords
<1>7. Desk'
  <2>1. ToxOK'
    <3>1. tox'["C"].pc \notin {"connect", "add", "set"}
      BY <1>0, <1>e DEF ToxOK
    <3>2. ASSUME NEW s \in Sides
          PROVE  /\ tox'[s].pc = "write" =>
                      /\ tox'[s].msg.cmd = "RAW_DATA"
                      /\ Mine(s, tox[s].msg.uuid, tox[s].sock)'
                 /\ tox'[s].pc = "close" =>
                      \/ tox'[s].sock = 0
                      \/ Mine(s, tox[s].msg.uuid, tox[s].sock)'
      <4>1. CASE s = "S"
        BY <4>1, <1>d, <1>e
      <4>2. CASE s = "C"
        BY <4>2, <1>0, <1>5, <1>e, TwoSides DEF ToxOK
      <4> QED BY <4>1, <4>2 DEF Sides
    <3>3. /\ tox'["S"].msg.uuid \in up'["S"] \ shut'["S"]
          /\ Mine("S", tox["S"].msg.uuid, tox["S"].sock)'
      BY <1>1, <1>2, <1>4, <1>5, <1>a, <1>d, <1>e, TwoSides
    <3> QED BY <3>1, <3>2, <3>3, <1>5, <1>d, <1>e DEF ToxOK
  <2> QED BY <1>0, <1>4, <1>5, <2>1, DeskOfS
<1>8. \A j \in Conns : Grows(j)
  BY <1>4, <1>5 DEF Grows
<1>9. \A j : Flows(j)
  BY <1>0, <1>4, <1>e, MailStays
<1>p. \A q \in Sides : Pipe(q)' = Pipe(q)
  BY <1>0, <1>4, <1>e, MailStays
<1>10. \A j \in Conns : Accepting(j)' <=> Accepting(j)
  BY <1>4 DEF Accepting
<1>11. ASSUME NEW j \in Conns, j # k PROVE Still(j)
  BY <1>4, <1>8, <1>9, <1>10, <1>11, <1>e DEF Still, Flows
<1>12. CreationOK(k)'
  <2>1. CreationOK(k)
    BY DEF IInv, Life
  <2>2. Unborn(k)' <=> Unborn(k)
    BY <1>4, <1>e DEF Unborn
  <2> USE <1>4, <1>e, <1>p, <1>10, TwoSides
  <2>3. YoungOK(k)'
    <3>1. CASE Young(k)
      <4>1. Dormant(k)
        BY <3>1, <2>1 DEF CreationOK, YoungOK
      <4>2. Dormant(k)'
        BY <4>1, <2>2 DEF Dormant
      <4> QED BY <4>2 DEF YoungOK
    <3>2. CASE ~ Young(k)
      BY <3>2 DEF YoungOK, Young
    <3> QED BY <3>1, <3>2
  <2>4. UnaskedOK(k)'
    BY <2>1, <2>2 DEF CreationOK, UnaskedOK
  <2>5. AskedOK(k)'
    BY <2>1, <2>2 DEF CreationOK, AskedOK
  <2>6. MakingOK(k)'
    BY <2>1 DEF CreationOK, MakingOK
  <2>7. MadeOK(k)'
    BY <2>1 DEF CreationOK, MadeOK
  <2>8. ConfirmedOK(k)'
    BY <2>1 DEF CreationOK, ConfirmedOK
  <2> QED BY <2>3, <2>4, <2>5, <2>6, <2>7, <2>8 DEF CreationOK
<1>13. ASSUME NEW q \in Sides
       PROVE  ReaderOK(q, k)' /\ StreamOK(q, k)' /\ OutOK(q, k)' /\ EndOK(q, k)'
  <2>1. Life(k)
    BY DEF IInv
  <2>2. /\ Doing(q, k)' = "deny" => Doing(q, k) = "deny"
        /\ Doing(Peer(q), k)' = "close" => Doing(Peer(q), k) = "close"
    BY <1>e, TwoSides
  <2> QED BY <2>1, <2>2, <1>0, <1>4, <1>6, <1>8, <1>9, LifeFrame
<1> QED BY <1>6, <1>7, <1>11, <1>12, <1>13, Focus

\* What is known of a connection to the target before it is made.
LEMMA Connecting ==
  ASSUME IInv, tox["S"].pc = "connect"
  PROVE  /\ tox["S"].msg \in Messages /\ tox["S"].msg.uuid \in Conns
         /\ LET k == tox["S"].msg.uuid
            IN /\ CreationOK(k) /\ Doing("S", k) = "connect"
               /\ reader["S"][k].pc = "none"
               /\ k \in up["C"] \ refused /\ k \notin up["S"]
               /\ Dormant(k) /\ Doing("C", k) = "idle" /\ ~ Accepting(k)
               /\ ~ Has(Pipe("C"), k, "CREATE_SOCK")
<1>1. tox["S"].msg \in Messages /\ tox["S"].msg.uuid \in Conns
  BY TwoSides DEF IInv, TypeOK, Messages
<1>2. PICK k \in Conns : k = tox["S"].msg.uuid
  BY <1>1
<1>3. CreationOK(k) /\ Doing("S", k) = "connect"
  BY <1>2 DEF IInv, Life, Doing
<1>4. reader["S"][k].pc = "none" /\ k \in up["C"] \ refused /\ k \notin up["S"]
  BY <1>3 DEF CreationOK, MakingOK
<1>5. Dormant(k) /\ ~ Unborn(k)
  BY <1>3, <1>4 DEF CreationOK, YoungOK, Young, Unborn
<1>6. Doing("C", k) = "idle"
  BY <1>5 DEF Dormant
<1>7. ~ Accepting(k) /\ ~ Has(Pipe("C"), k, "CREATE_SOCK")
  BY <1>3, <1>5 DEF CreationOK, UnaskedOK, AskedOK
<1> QED BY <1>1, <1>2, <1>3, <1>4, <1>5, <1>6, <1>7

\* What the Tox thread of S turns to while it makes a connection.
LEMMA ServerTurns ==
  ASSUME TypeOK, NEW k \in Conns, NEW t, ToxTurns("S", k, t),
         tox["S"].pc # "write", t.pc # "write"
  PROVE  /\ tox' \in [Sides -> Tasks]
         /\ \A q \in Sides : tox'[q].pc # "idle" => tox'[q].msg \in Messages
         /\ tox'["S"] = t /\ tox'["C"] = tox["C"]
         /\ \A q \in Sides, j \in Conns : j # k => Doing(q, j)' = Doing(q, j)
         /\ Doing("S", k)' = t.pc
         /\ Doing("C", k)' = Doing("C", k)
         /\ \A q \in Sides : Writing(q)' = Writing(q)
<1>1. "S" \in Sides /\ "C" \in Sides /\ Peer("S") = "C" /\ "S" # "C"
  BY TwoSides DEF Peer
<1>2. Writing("S") = <<>>
  BY DEF Writing
<1>3. /\ tox' \in [Sides -> Tasks]
      /\ \A q \in Sides : tox'[q].pc # "idle" => tox'[q].msg \in Messages
      /\ tox'["S"] = t /\ tox'["C"] = tox["C"]
  BY <1>1, ToxTyped
<1>4. /\ \A q \in Sides, j \in Conns : j # k => Doing(q, j)' = Doing(q, j)
      /\ Doing("S", k)' = t.pc
      /\ Doing("C", k)' = Doing("C", k)
  BY <1>1, ToxTyped
<1>5. Writing("C")' = Writing("C") /\ Writing("S")' = <<>>
  BY <1>1, ToxTyped
<1> QED BY <1>2, <1>3, <1>4, <1>5 DEF Sides

\* The target takes the connection.
ConnectMakes(k, f, t) ==
  /\ tox["S"].pc = "connect" /\ Free("S") # {} /\ f = Min(Free("S"))
  /\ tox["S"].msg.uuid = k /\ t.msg = tox["S"].msg /\ t.sock = f
  /\ t.pc = IF f = 0 THEN "deny" ELSE "add"
  /\ tox' = [tox EXCEPT !["S"] = t]
  /\ Open("S", f, k)
  /\ up' = [up EXCEPT !["S"] = @ \cup {k}]
  /\ UNCHANGED <<socks, shut, wrote, fin, refused, net, held, lost, main,
                 reader,
                 taken, out, linked, online, ends>>

\* The target takes the connection: its descriptor is new.
LEMMA ConnectMakesStep ==
  ASSUME IInv, StaysClosed, NEW k \in Conns, NEW f,
         NEW t, t = [pc |-> t.pc, msg |-> t.msg, sock |-> t.sock],
         ConnectMakes(k, f, t)
  PROVE  IInv'
<1>0. TypeOK /\ Desk /\ FilesOK("S")
  BY TwoSides DEF IInv, Desk
<1>1. /\ tox["S"].pc = "connect" /\ Free("S") # {} /\ f = Min(Free("S"))
      /\ tox["S"].msg.uuid = k /\ t.msg = tox["S"].msg /\ t.sock = f
      /\ t.pc = IF f = 0 THEN "deny" ELSE "add"
      /\ tox' = [tox EXCEPT !["S"] = t]
      /\ Open("S", f, k)
      /\ up' = [up EXCEPT !["S"] = @ \cup {k}]
  BY DEF ConnectMakes
<1>2. UNCHANGED <<socks, shut, wrote, fin, refused, net, held, lost, main,
                  reader,
                  taken, out, linked, online, ends>>
  BY DEF ConnectMakes
<1>3. /\ t.msg \in Messages /\ CreationOK(k) /\ Doing("S", k) = "connect"
      /\ reader["S"][k].pc = "none"
      /\ k \in up["C"] \ refused /\ k \notin up["S"]
      /\ Dormant(k) /\ Doing("C", k) = "idle" /\ ~ Accepting(k)
      /\ ~ Has(Pipe("C"), k, "CREATE_SOCK")
  BY <1>1, Connecting
<1>4. f \in Fds /\ f # 0
  BY <1>0, <1>1, TwoSides, NotHeld
<1>5. t.pc = "add"
  BY <1>1, <1>4
<1>6. ToxTurns("S", k, t)
  <2>1. t \in Tasks
    BY <1>1, <1>3, <1>4, <1>5 DEF Tasks
  <2> QED BY <2>1, <1>1, <1>3 DEF ToxTurns
<1>7. /\ tox' \in [Sides -> Tasks]
      /\ \A q \in Sides : tox'[q].pc # "idle" => tox'[q].msg \in Messages
      /\ tox'["S"] = t /\ tox'["C"] = tox["C"]
      /\ \A q \in Sides, j \in Conns : j # k => Doing(q, j)' = Doing(q, j)
      /\ Doing("S", k)' = "add"
      /\ Doing("C", k)' = Doing("C", k)
      /\ \A q \in Sides : Writing(q)' = Writing(q)
  BY <1>0, <1>1, <1>5, <1>6, ServerTurns
<1>8. /\ FilesOK("S")' /\ RecordsOK("S")'
      /\ SideStays("C") /\ up'["C"] = up["C"]
      /\ \A q \in Sides : \A j, g :
           g \in Held(q) /\ Mine(q, j, g) => Mine(q, j, g)'
      /\ WithSock("S", f)' = {}
      /\ Mine("S", k, f)' /\ k \notin shut'["S"]
      /\ files' \in [Sides -> [Fds -> Conns \cup {Std, Leaked, NoFile}]]
      /\ up' \in [Sides -> SUBSET Conns]
  <2>1. up' = [up EXCEPT !["S"] = @ \cup ({k} \cap Conns)]
    BY <1>1
  <2>2. Creating("S", k)'
    BY <1>7 DEF Creating
  <2>3. ASSUME NEW j \in Conns, Creating("S", j) PROVE Creating("S", j)'
    <3>1. Doing("S", j) \in {"add", "set"}
      BY <2>3 DEF Creating
    <3>2. j # k
      BY <3>1, <1>3
    <3>3. Doing("S", j)' \in {"add", "set"}
      BY <3>1, <3>2, <1>7, TwoSides
    <3> QED BY <3>3 DEF Creating
  <2>4. \A g : Unnamed("S", g) => Unnamed("S", g)'
    BY <1>1 DEF Unnamed
  <2>5. "C" \in Sides /\ "S" \in Sides /\ "S" # "C" /\ k \in Conns \cup {Leaked}
    BY TwoSides
  <2> QED BY <1>0, <1>1, <1>2, <1>3, <2>1, <2>2, <2>3, <2>4, <2>5, Opens
<1>9. TypeOK'
  BY <1>0, <1>2, <1>7, <1>8 DEF TypeOK
<1>10. Desk'
  <2>0. ToxOK
    BY <1>0 DEF Desk
  <2>1. ToxOK'
    <3>1. tox'["C"].pc \notin {"connect", "add", "set"}
      BY <2>0, <1>7 DEF ToxOK
    <3>2. ASSUME NEW s \in Sides
          PROVE  /\ tox'[s].pc = "write" =>
                      /\ tox'[s].msg.cmd = "RAW_DATA"
                      /\ Mine(s, tox[s].msg.uuid, tox[s].sock)'
                 /\ tox'[s].pc = "close" =>
                      \/ tox'[s].sock = 0
                      \/ Mine(s, tox[s].msg.uuid, tox[s].sock)'
      <4>1. CASE s = "S"
        BY <4>1, <1>5, <1>7
      <4>2. CASE s = "C"
        BY <4>2, <2>0, <1>7, <1>8, TwoSides, Works DEF ToxOK
      <4> QED BY <4>1, <4>2 DEF Sides
    <3>3. /\ tox'["S"].msg.uuid \in up'["S"] \ shut'["S"]
          /\ Mine("S", tox["S"].msg.uuid, tox["S"].sock)'
      BY <1>1, <1>7, <1>8 DEF Mine
    <3>4. WithSock("S", tox["S"].sock)' = {} /\ tox'["S"].pc = "add"
      BY <1>1, <1>5, <1>7, <1>8
    <3> QED BY <3>1, <3>2, <3>3, <3>4 DEF ToxOK
  <2> QED BY <2>1, <1>0, <1>2, <1>8, DeskOfS
<1>11. \A j \in Conns : Grows(j)
  <2>1. \A q \in Sides, j \in Conns : j \in up[q] => j \in up'[q]
    BY <1>0, <1>1 DEF TypeOK
  <2> QED BY <2>1, <1>2, <1>8, Works DEF Grows
<1>12. /\ \A j : Flows(j)
       /\ \A q \in Sides : Pipe(q)' = Pipe(q)
  BY <1>0, <1>2, <1>7, MailStays
<1>13. \A j \in Conns : Accepting(j)' <=> Accepting(j)
  BY <1>2 DEF Accepting
<1>14. \A q \in Sides, j \in Conns : j # k => (j \in up'[q] <=> j \in up[q])
  BY <1>0, <1>1 DEF TypeOK
<1>15. ASSUME NEW j \in Conns, j # k PROVE Still(j)
  BY <1>2, <1>7, <1>11, <1>12, <1>13, <1>14, <1>15 DEF Still, Flows
<1>16. CreationOK(k)'
  <2>1. k \in up'["C"] /\ k \in up'["S"]
    BY <1>3, <1>8 DEF Mine
  <2> USE <1>2, <1>3, <1>7, <1>12, <1>13, TwoSides
  <2>2. YoungOK(k)'
    <3>1. Dormant(k)'
      BY DEF Dormant
    <3> QED BY <3>1 DEF YoungOK
  <2>3. UnaskedOK(k)'
    BY <2>1 DEF UnaskedOK
  <2>4. AskedOK(k)'
    BY DEF AskedOK
  <2>5. MakingOK(k)'
    BY <2>1 DEF MakingOK
  <2>6. MadeOK(k)'
    BY <2>1 DEF MadeOK
  <2>7. ConfirmedOK(k)'
    BY <2>1 DEF CreationOK, ConfirmedOK
  <2> QED BY <2>2, <2>3, <2>4, <2>5, <2>6, <2>7 DEF CreationOK
<1>17. ASSUME NEW q \in Sides
       PROVE  ReaderOK(q, k)' /\ StreamOK(q, k)' /\ OutOK(q, k)' /\ EndOK(q, k)'
  <2>1. Life(k)
    BY DEF IInv
  <2>2. /\ Doing(q, k)' = "deny" => Doing(q, k) = "deny"
        /\ Doing(Peer(q), k)' = "close" => Doing(Peer(q), k) = "close"
    BY <1>7, TwoSides
  <2> QED BY <2>1, <2>2, <1>0, <1>2, <1>9, <1>11, <1>12, LifeFrame
<1> QED BY <1>9, <1>10, <1>15, <1>16, <1>17, Focus

\* There is no socket, or the target refuses the connection and the descriptor
\* is never closed.
ConnectFails(k, t) ==
  /\ tox["S"].pc = "connect"
  /\ tox["S"].msg.uuid = k /\ t.msg = tox["S"].msg /\ t.sock = 0
  /\ t.pc = "deny"
  /\ tox' = [tox EXCEPT !["S"] = t]
  /\ \/ Free("S") # {} /\ Open("S", Min(Free("S")), Leaked)
     \/ UNCHANGED files
  /\ refused' = refused \cup {k}
  /\ UNCHANGED <<socks, shut, up, wrote, fin, net, held, lost, main, reader,
                 taken, out, linked, online, ends>>

\* A descriptor that stays open belongs to no one.
LEMMA ConnectFailsStep ==
  ASSUME IInv, StaysClosed, NEW k \in Conns,
         NEW t, t = [pc |-> t.pc, msg |-> t.msg, sock |-> t.sock],
         ConnectFails(k, t)
  PROVE  IInv'
<1>0. TypeOK /\ Desk
  BY DEF IInv
<1>1. /\ tox["S"].pc = "connect"
      /\ tox["S"].msg.uuid = k /\ t.msg = tox["S"].msg /\ t.sock = 0
      /\ t.pc = "deny"
      /\ tox' = [tox EXCEPT !["S"] = t]
      /\ \/ Free("S") # {} /\ Open("S", Min(Free("S")), Leaked)
         \/ UNCHANGED files
      /\ refused' = refused \cup {k}
  BY DEF ConnectFails
<1>2. UNCHANGED <<socks, shut, up, wrote, fin, net, held, lost, main, reader,
                  taken, out, linked, online, ends>>
  BY DEF ConnectFails
<1>3. /\ t.msg \in Messages /\ CreationOK(k) /\ Doing("S", k) = "connect"
      /\ reader["S"][k].pc = "none"
      /\ k \in up["C"] \ refused /\ k \notin up["S"]
      /\ Dormant(k) /\ Doing("C", k) = "idle" /\ ~ Accepting(k)
      /\ ~ Has(Pipe("C"), k, "CREATE_SOCK")
  BY <1>1, Connecting
<1>6. ToxTurns("S", k, t)
  <2>1. t \in Tasks
    BY <1>1, <1>3, Names DEF Tasks
  <2> QED BY <2>1, <1>1, <1>3 DEF ToxTurns
<1>7. /\ tox' \in [Sides -> Tasks]
      /\ \A q \in Sides : tox'[q].pc # "idle" => tox'[q].msg \in Messages
      /\ tox'["S"] = t /\ tox'["C"] = tox["C"]
      /\ \A q \in Sides, j \in Conns : j # k => Doing(q, j)' = Doing(q, j)
      /\ Doing("S", k)' = "deny"
      /\ Doing("C", k)' = Doing("C", k)
      /\ \A q \in Sides : Writing(q)' = Writing(q)
  BY <1>0, <1>1, <1>6, ServerTurns
<1>8. /\ FilesOK("S")' /\ RecordsOK("S")'
      /\ SideStays("C") /\ up'["C"] = up["C"]
      /\ \A q \in Sides : \A j, g :
           g \in Held(q) /\ Mine(q, j, g) => Mine(q, j, g)'
      /\ files' \in [Sides -> [Fds -> Conns \cup {Std, Leaked, NoFile}]]
  <2>1. up \in [Sides -> SUBSET Conns] /\ Leaked \notin Conns
    BY <1>0, Names DEF TypeOK
  <2>2. up' = [up EXCEPT !["S"] = @ \cup ({Leaked} \cap Conns)]
    BY <1>2, <2>1
  <2>3. ASSUME NEW j \in Conns, Creating("S", j) PROVE Creating("S", j)'
    <3>1. Doing("S", j) \in {"add", "set"}
      BY <2>3 DEF Creating
    <3>2. j # k
      BY <3>1, <1>3
    <3>3. Doing("S", j)' \in {"add", "set"}
      BY <3>1, <3>2, <1>7, TwoSides
    <3> QED BY <3>3 DEF Creating
  <2>4. \A g : Unnamed("S", g) => Unnamed("S", g)'
    BY <1>1 DEF Unnamed
  <2>5. /\ "C" \in Sides /\ "S" \in Sides /\ "S" # "C" /\ Leaked \in Conns \cup {Leaked}
        /\ Leaked \notin up["S"]
    BY <2>1, TwoSides
  <2>6. CASE Free("S") # {} /\ Open("S", Min(Free("S")), Leaked)
    BY <2>6, <1>0, <1>2, <2>1, <2>2, <2>3, <2>4, <2>5, Opens
  <2>7. CASE UNCHANGED files
    <3>1. SideStays("S") /\ SideStays("C") /\ up' = up
      BY <2>7, <1>2 DEF SideStays
    <3>2. \A j \in Conns : Creating("S", j)' => Creating("S", j)
      BY <2>5, <1>3, <1>7 DEF Creating
    <3>3. \A g : Unnamed("S", g)' => Unnamed("S", g)
      BY <1>1, <1>7 DEF Unnamed
    <3>4. SameMaking("S")
      BY <2>3, <2>4, <3>2, <3>3 DEF SameMaking
    <3>5. FilesOK("S")' /\ RecordsOK("S")'
      BY <1>0, <2>5, <3>1, <3>4, StaysOK
    <3>6. \A q, j, g : Mine(q, j, g) => Mine(q, j, g)'
      BY <2>7, <1>2 DEF Mine
    <3>7. files' \in [Sides -> [Fds -> Conns \cup {Std, Leaked, NoFile}]]
      BY <2>7, <1>0 DEF TypeOK
    <3> QED BY <3>1, <3>5, <3>6, <3>7
  <2> QED BY <2>6, <2>7, <1>1
<1>9. TypeOK'
  BY <1>0, <1>1, <1>2, <1>7, <1>8 DEF TypeOK
<1>10. Desk'
  <2>0. ToxOK
    BY <1>0 DEF Desk
  <2>1. ToxOK'
    <3>1. tox'["C"].pc \notin {"connect", "add", "set"}
      BY <2>0, <1>7 DEF ToxOK
    <3>2. ASSUME NEW s \in Sides
          PROVE  /\ tox'[s].pc = "write" =>
                      /\ tox'[s].msg.cmd = "RAW_DATA"
                      /\ Mine(s, tox[s].msg.uuid, tox[s].sock)'
                 /\ tox'[s].pc = "close" =>
                      \/ tox'[s].sock = 0
                      \/ Mine(s, tox[s].msg.uuid, tox[s].sock)'
      <4>1. CASE s = "S"
        BY <4>1, <1>1, <1>7
      <4>2. CASE s = "C"
        BY <4>2, <2>0, <1>7, <1>8, TwoSides, Works DEF ToxOK
      <4> QED BY <4>1, <4>2 DEF Sides
    <3>3. tox'["S"].pc = "deny"
      BY <1>1, <1>7
    <3> QED BY <3>1, <3>2, <3>3 DEF ToxOK
  <2> QED BY <2>1, <1>0, <1>2, <1>8, DeskOfS
<1>11. \A j \in Conns : Grows(j)
  BY <1>1, <1>2, <1>8, Works DEF Grows
<1>12. /\ \A j : Flows(j)
       /\ \A q \in Sides : Pipe(q)' = Pipe(q)
  BY <1>0, <1>2, <1>7, MailStays
<1>13. \A j \in Conns : Accepting(j)' <=> Accepting(j)
  BY <1>2 DEF Accepting
<1>14. \A j \in Conns : j # k => (j \in refused' => j \in refused)
  BY <1>1
<1>15. ASSUME NEW j \in Conns, j # k PROVE Still(j)
  BY <1>2, <1>7, <1>11, <1>12, <1>13, <1>14, <1>15 DEF Still, Flows
<1>16. CreationOK(k)'
  <2>1. k \in refused'
    BY <1>1
  <2> USE <1>2, <1>3, <1>7, <1>12, <1>13, TwoSides
  <2>2. YoungOK(k)'
    BY <2>1 DEF YoungOK, Young
  <2>3. UnaskedOK(k)'
    BY DEF UnaskedOK
  <2>4. AskedOK(k)'
    BY DEF AskedOK
  <2>5. MakingOK(k)'
    BY DEF MakingOK
  <2>6. MadeOK(k)'
    BY DEF CreationOK, MadeOK
  <2>7. ConfirmedOK(k)'
    BY DEF CreationOK, ConfirmedOK
  <2> QED BY <2>2, <2>3, <2>4, <2>5, <2>6, <2>7 DEF CreationOK
<1>17. ASSUME NEW q \in Sides
       PROVE  ReaderOK(q, k)' /\ StreamOK(q, k)' /\ OutOK(q, k)' /\ EndOK(q, k)'
  <2>0. ReaderOK(q, k) /\ StreamOK(q, k) /\ OutOK(q, k)
    BY DEF IInv, Life
  <2>1. ReaderOK(q, k)'
    BY <2>0, <1>0, <1>2, <1>11, ReaderFrame DEF ReaderOK
  <2>2. StreamOK(q, k)'
    <3>1. Top(q, k)' = Top(q, k) /\ (Reading(q, k)' => Reading(q, k))
      BY <1>2 DEF Top, Reading
    <3> QED BY <3>1, <2>0, <1>0, <1>2, <1>9, <1>11, <1>12, TwoSides,
               StreamFrame DEF Flows
  <2>3. OutOK(q, k)'
    BY <2>0, <1>2, <1>11, OutFrame
  <2>4. EndOK(q, k)'
    <3>1. k \in refused'
      BY <1>1
    <3>2. \A r \in Sides : Excused(r, k)'
      BY <3>1 DEF Excused
    <3> QED BY <3>1, <3>2, TwoSides DEF EndOK
  <2> QED BY <2>1, <2>2, <2>3, <2>4
<1> QED BY <1>9, <1>10, <1>15, <1>16, <1>17, Focus

\* Side S connects to the target.
LEMMA ConnectStep ==
  ASSUME IInv, StaysClosed, Connect
  PROVE  IInv'
<1>1. tox["S"].pc = "connect"
  BY DEF Connect
<1>2. PICK k \in Conns : k = tox["S"].msg.uuid
  BY <1>1, Connecting
<1>3. PICK f : f = Min(Free("S"))
  OBVIOUS
<1>4. UNCHANGED <<socks, shut, wrote, fin, net, held, lost, main, reader,
                  taken,
                  out, linked, online, ends>>
  BY DEF Connect, mail, links
<1>5. CASE /\ Free("S") # {} /\ Open("S", f, k)
           /\ up' = [up EXCEPT !["S"] = @ \cup {k}]
           /\ ToxNow("S", IF f = 0 THEN "deny" ELSE "add", tox["S"].msg, f)
           /\ UNCHANGED refused
  <2>1. PICK t : t = [pc |-> IF f = 0 THEN "deny" ELSE "add",
                      msg |-> tox["S"].msg, sock |-> f]
    OBVIOUS
  <2>2. ConnectMakes(k, f, t)
    BY <1>1, <1>2, <1>3, <1>4, <1>5, <2>1 DEF ConnectMakes, ToxNow
  <2>3. t = [pc |-> t.pc, msg |-> t.msg, sock |-> t.sock]
    BY <2>1
  <2> QED BY <2>2, <2>3, ConnectMakesStep
<1>6. CASE /\ \/ Free("S") # {} /\ Open("S", f, Leaked)
              \/ UNCHANGED files
           /\ refused' = refused \cup {k}
           /\ ToxNow("S", "deny", tox["S"].msg, 0)
           /\ UNCHANGED up
  <2>1. PICK t : t = [pc |-> "deny", msg |-> tox["S"].msg, sock |-> 0]
    OBVIOUS
  <2>2. ConnectFails(k, t)
    BY <1>1, <1>2, <1>3, <1>4, <1>6, <2>1 DEF ConnectFails, ToxNow
  <2>3. t = [pc |-> t.pc, msg |-> t.msg, sock |-> t.sock]
    BY <2>1
  <2> QED BY <2>2, <2>3, ConnectFailsStep
<1> QED BY <1>2, <1>3, <1>5, <1>6 DEF Connect

\* The record of a connection to the target is given its name, and its reader
\* starts.
LEMMA SetUuidStep ==
  ASSUME IInv, SetUuid
  PROVE  IInv'
<1>0. TypeOK /\ Desk /\ ToxOK /\ tox["S"].pc = "set" /\ tox["S"].msg \in Messages
  BY TwoSides DEF IInv, SetUuid, Desk, TypeOK
<1>1. PICK k \in Conns : /\ k = tox["S"].msg.uuid /\ Mine("S", k, tox["S"].sock)
                         /\ k \in up["S"] \ shut["S"]
  BY <1>0 DEF ToxOK, Messages
<1>2. PICK f \in Fds : f = tox["S"].sock /\ f # 0 /\ Mine("S", k, f)
  <2>1. tox["S"] \in Tasks
    BY <1>0, TwoSides DEF TypeOK
  <2> QED BY <2>1, <1>1 DEF Tasks, Mine
<1>3. WithSock("S", f) # {}
  <2>1. PICK i \in DOMAIN socks["S"] :
          socks["S"][i] = [uuid |-> Fresh, sock |-> tox["S"].sock]
    BY <1>0 DEF ToxOK
  <2> QED BY <2>1, <1>2 DEF WithSock
<1>r. PICK r : r = [NoReader EXCEPT !.pc = "start", !.sock = f]
  OBVIOUS
<1>a. /\ r \in Readers /\ r.pc = "start" /\ r.sock = f /\ r.uuid = NoUuid
  BY <1>r, Names DEF Readers, NoReader
<1>4. /\ socks' = [socks EXCEPT !["S"][Min(WithSock("S", f))].uuid = k]
      /\ Now("S", k, r)
      /\ tox' = [tox EXCEPT !["S"] = Idle]
      /\ UNCHANGED <<files, shut, appVars, mail, main, taken, out,
                     links>>
  BY <1>1, <1>2, <1>3, <1>r DEF SetUuid, ToxIdle
<1>5. UNCHANGED <<files, shut, up, wrote, fin, refused, net, held, lost,
                  main, taken, out, linked, online, ends>>
  BY <1>4 DEF appVars, mail, links
<1>b. PICK t : t = Idle
  OBVIOUS
<1>c. t \in Tasks /\ t.pc = "idle"
  BY <1>b, Names DEF Idle, Tasks
<1>6. ToxTurns("S", k, t)
  BY <1>1, <1>4, <1>b, <1>c DEF ToxTurns
<1>7. /\ tox' \in [Sides -> Tasks]
      /\ \A q \in Sides : tox'[q].pc # "idle" => tox'[q].msg \in Messages
      /\ tox'["S"] = t /\ tox'["C"] = tox["C"]
      /\ \A q \in Sides, j \in Conns : j # k => Doing(q, j)' = Doing(q, j)
      /\ Doing("S", k)' = "idle"
      /\ Doing("C", k)' = Doing("C", k)
      /\ \A q \in Sides : Writing(q)' = Writing(q)
  BY <1>0, <1>c, <1>6, ServerTurns
<1>8. /\ FilesOK("S")' /\ RecordsOK("S")' /\ SideStays("C")
      /\ \A q \in Sides : \A j, g : Mine(q, j, g) => Mine(q, j, g)'
      /\ socks' \in [Sides -> Seq(SockRecords)]
  BY <1>0, <1>1, <1>2, <1>4, <1>5, <1>7, <1>c, Sets
<1>9. /\ reader' \in [Sides -> [Conns -> Readers]]
      /\ \A q \in Sides, c \in Conns :
           reader'[q][c] = IF q = "S" /\ c = k THEN r ELSE reader[q][c]
  BY <1>0, <1>a, <1>4, NowTyped, TwoSides
<1>10. TypeOK'
  BY <1>0, <1>5, <1>7, <1>8, <1>9 DEF TypeOK, SockRecords
<1>11. Desk'
  <2>1. ToxOK'
    <3>1. tox'["C"].pc \notin {"connect", "add", "set"}
      BY <1>0, <1>7 DEF ToxOK
    <3>2. ASSUME NEW s \in Sides
          PROVE  /\ tox'[s].pc = "write" =>
                      /\ tox'[s].msg.cmd = "RAW_DATA"
                      /\ Mine(s, tox[s].msg.uuid, tox[s].sock)'
                 /\ tox'[s].pc = "close" =>
                      \/ tox'[s].sock = 0
                      \/ Mine(s, tox[s].msg.uuid, tox[s].sock)'
      <4>1. CASE s = "S"
        BY <4>1, <1>c, <1>7
      <4>2. CASE s = "C"
        BY <4>2, <1>0, <1>7, <1>8, TwoSides DEF ToxOK
      <4> QED BY <4>1, <4>2 DEF Sides
    <3> QED BY <3>1, <3>2, <1>7, <1>c DEF ToxOK
  <2> QED BY <2>1, <1>0, <1>5, <1>8, DeskOfS
<1>12. \A j \in Conns : Grows(j)
  BY <1>5, <1>8 DEF Grows
<1>13. /\ \A j : Flows(j)
       /\ \A q \in Sides : Pipe(q)' = Pipe(q)
  BY <1>0, <1>5, <1>7, MailStays
<1>14. \A j \in Conns : Accepting(j)' <=> Accepting(j)
  BY <1>5 DEF Accepting
<1>15. ASSUME NEW j \in Conns, j # k PROVE Still(j)
  <2>1. \A q \in Sides : reader'[q][j] = reader[q][j]
    BY <1>9, <1>15
  <2> QED BY <2>1, <1>5, <1>7, <1>12, <1>13, <1>14, <1>15 DEF Still, Flows
<1>d. /\ Doing("S", k) = "set" /\ CreationOK(k)
      /\ reader["S"][k].pc = "none" /\ k \in up["C"] \ refused
  <2>1. Doing("S", k) = "set" /\ CreationOK(k)
    BY <1>0, <1>1 DEF IInv, Life, Doing
  <2> QED BY <2>1 DEF CreationOK, MakingOK
<1>16. CreationOK(k)'
  <2>1. ~ Unborn(k) /\ Dormant(k)
    BY <1>1, <1>d DEF Unborn, CreationOK, YoungOK, Young
  <2>2. ~ Accepting(k) /\ ~ Has(Pipe("C"), k, "CREATE_SOCK")
    BY <1>d, <2>1 DEF CreationOK, UnaskedOK, AskedOK
  <2>3. reader'["C"][k] = reader["C"][k]
    BY <1>9, TwoSides
  <2> USE <1>1, <1>5, <1>7, <1>13, <1>14, <1>d, <2>1, <2>2, <2>3, TwoSides
  <2>4. YoungOK(k)'
    <3>1. Dormant(k)'
      BY DEF Dormant
    <3> QED BY <3>1 DEF YoungOK
  <2>5. UnaskedOK(k)'
    BY DEF UnaskedOK
  <2>6. AskedOK(k)'
    BY DEF AskedOK
  <2>7. MakingOK(k)'
    BY DEF MakingOK
  <2>8. MadeOK(k)'
    <3>1. \A q \in Sides : reader'[q][k].pc # "none" => k \in up'["S"]
      OBVIOUS
    <3> QED BY ZenonT(60), <3>1 DEF CreationOK, MadeOK
  <2>9. ConfirmedOK(k)'
    BY DEF CreationOK, ConfirmedOK
  <2> QED BY <2>4, <2>5, <2>6, <2>7, <2>8, <2>9 DEF CreationOK
<1>17. ASSUME NEW q \in Sides
       PROVE  ReaderOK(q, k)' /\ StreamOK(q, k)' /\ OutOK(q, k)' /\ EndOK(q, k)'
  <2>0. /\ Life(k) /\ ReaderOK(q, k) /\ StreamOK(q, k) /\ OutOK(q, k)
        /\ EndOK(q, k)
    BY DEF IInv, Life
  <2>1. /\ Doing(q, k)' = "deny" => Doing(q, k) = "deny"
        /\ Doing(Peer(q), k)' = "close" => Doing(Peer(q), k) = "close"
    BY <1>7, TwoSides
  <2>2. CASE q = "C"
    <3>1. reader'[q][k] = reader[q][k]
      BY <2>2, <1>9, TwoSides
    <3> QED BY <3>1, <2>0, <2>1, <1>0, <1>5, <1>10, <1>12, <1>13, LifeFrame
  <2>3. CASE q = "S"
    <3>0. reader'["S"][k] = r /\ "S" \in Sides
      BY <1>9, TwoSides
    <3>1. ReaderOK("S", k)'
      <4>1. taken'["S"][k] = 0 /\ taken'["S"][k] <= wrote'["S"][k]
        BY <2>0, <2>3, <1>d, <1>5 DEF ReaderOK
      <4>2. Mine("S", k, f)'
        BY <1>2, <1>8, TwoSides
      <4> QED BY <3>0, <4>1, <4>2, <1>2, <1>a DEF ReaderOK, Holding, Ending
    <3>2. /\ Top("S", k)' = Top("S", k) /\ (Reading("S", k)' => Reading("S", k))
          /\ r.pc \notin Holding /\ r.pc \notin Ending
      BY <3>0, <1>5, <1>a, <1>d DEF Top, Reading, Holding, Ending
    <3>3. StreamOK("S", k)'
      BY <3>0, <3>2, <2>0, <2>3, <1>0, <1>5, <1>10, <1>12, <1>13, TwoSides,
         StreamFrame DEF Flows
    <3>4. OutOK("S", k)'
      BY <2>0, <2>3, <1>5, <1>12, OutFrame
    <3>5. EndOK("S", k)'
      BY <3>0, <3>2, <2>0, <2>1, <2>3, <1>0, <1>5, <1>10, <1>12, <1>13,
         TwoSides,
         EndFrame DEF Flows
    <3> QED BY <2>3, <3>1, <3>3, <3>4, <3>5
  <2> QED BY <2>2, <2>3 DEF Sides
<1> QED BY <1>10, <1>11, <1>15, <1>16, <1>17, Focus

-----------------------------------------------------------------------------
(* Closing.                                                                 *)

\* A thread of side s closes f, the descriptor of k, or none.
Shuts(s, k, f) ==
  /\ CloseSock(s, f)
  /\ \/ f = 0
     \/ /\ Mine(s, k, f) /\ ~ Creating(s, k) /\ (s = "C" => ~ Accepting(k))
        /\ (s = "S" => ~ Young(k))
        /\ Excused(Peer(s), k) \/ AllSent(s, k)
  /\ \A q \in Sides : \/ tox'[q] = tox[q]
                      \/ /\ q = s /\ tox[q].pc = "close"
                         /\ tox[q].msg.uuid = k /\ tox'[q] = Idle
  /\ \A q \in Sides, c \in Conns :
       \/ reader'[q][c] = reader[q][c]
       \/ /\ q = s /\ c = k /\ reader[s][k].pc = "close"
          /\ reader'[s][k].pc = "done"
  /\ UNCHANGED <<appVars, mail, main, taken, out, links>>

\* What the Tox threads do changes only for k.
LEMMA ShutsDoing ==
  ASSUME TypeOK, NEW s \in Sides, NEW k \in Conns, NEW f, Shuts(s, k, f)
  PROVE  /\ \A q \in Sides, j \in Conns :
              \/ Doing(q, j)' = Doing(q, j)
              \/ /\ q = s /\ j = k /\ Doing(q, j) = "close"
                 /\ Doing(q, j)' = "idle"
         /\ \A q \in Sides : Writing(q)' = Writing(q)
         /\ \A j \in Conns : Accepting(j)' <=> Accepting(j)
<1>1. ASSUME NEW q \in Sides, NEW j \in Conns
      PROVE  \/ Doing(q, j)' = Doing(q, j)
             \/ /\ q = s /\ j = k /\ Doing(q, j) = "close"
                /\ Doing(q, j)' = "idle"
  <2>1. CASE tox'[q] = tox[q]
    BY <2>1 DEF Doing
  <2>2. CASE q = s /\ tox[q].pc = "close" /\ tox[q].msg.uuid = k /\ tox'[q] = Idle
    BY <2>2 DEF Doing, Idle
  <2> QED BY <2>1, <2>2 DEF Shuts
<1>2. \A q \in Sides : Writing(q)' = Writing(q)
  BY DEF Shuts, Writing, Idle
<1>3. \A j \in Conns : Accepting(j)' <=> Accepting(j)
  BY DEF Shuts, Accepting
<1> QED BY <1>1, <1>2, <1>3

\* The descriptors, when one is closed.
LEMMA ShutsDesk ==
  ASSUME TypeOK, Desk, NEW s \in Sides, NEW k \in Conns, NEW f \in Fds,
         Shuts(s, k, f), \A j \in Conns : MakingOK(j)
  PROVE  /\ Desk'
         /\ shut'[s] = IF f = 0 THEN shut[s] ELSE shut[s] \cup {k}
         /\ \A q \in Sides : q # s => shut'[q] = shut[q]
         /\ \A q \in Sides : \A j, g : Mine(q, j, g) => Mine(q, j, g)'
         /\ files' \in [Sides -> [Fds -> Conns \cup {Std, Leaked, NoFile}]]
         /\ socks' \in [Sides -> Seq(SockRecords)]
         /\ shut' \in [Sides -> SUBSET Conns]
<1>0. /\ CloseSock(s, f)
      /\ f = 0 \/ (Mine(s, k, f) /\ ~ Creating(s, k))
      /\ up' = up /\ main' = main
  BY DEF Shuts, appVars
<1>1. \A q \in Sides : SameMaking(q)
  <2>1. ASSUME NEW q \in Sides, NEW j \in Conns
        PROVE  Creating(q, j)' <=> Creating(q, j)
    <3>1. CASE q = "C"
      BY <3>1, <1>0 DEF Creating
    <3>2. CASE q = "S"
      <4>1. Doing("S", j)' = Doing("S", j)
              \/ (Doing("S", j) = "close" /\ Doing("S", j)' = "idle")
        BY ShutsDoing, TwoSides
      <4> QED BY <4>1, <3>2 DEF Creating
    <3> QED BY <3>1, <3>2 DEF Sides
  <2>2. ASSUME NEW q \in Sides, NEW g PROVE Unnamed(q, g)' <=> Unnamed(q, g)
    BY TwoSides DEF Unnamed, Shuts, Idle
  <2> QED BY <2>1, <2>2 DEF SameMaking
<1>2. /\ FilesOK(s)' /\ RecordsOK(s)'
      /\ shut'[s] = IF f = 0 THEN shut[s] ELSE shut[s] \cup {k}
      /\ \A q \in Sides : q # s => SideStays(q)
      /\ \A q \in Sides : \A j, g : Mine(q, j, g) => Mine(q, j, g)'
      /\ files' \in [Sides -> [Fds -> Conns \cup {Std, Leaked, NoFile}]]
      /\ socks' \in [Sides -> Seq(SockRecords)]
      /\ shut' \in [Sides -> SUBSET Conns]
      /\ \A g : WithSock(s, g) = {} => WithSock(s, g)' = {}
      /\ \A i \in DOMAIN socks[s] :
           socks[s][i].sock # f =>
             \E j \in DOMAIN socks'[s] : socks'[s][j] = socks[s][i]
  <2>1. Closed(s, k, f)
    BY <1>0, <1>1, Closes
  <2> QED BY <2>1 DEF Closed
<1>3. \A q \in Sides : FilesOK(q)' /\ RecordsOK(q)'
  <2>1. ASSUME NEW q \in Sides, q # s PROVE FilesOK(q)' /\ RecordsOK(q)'
    BY <2>1, <1>0, <1>1, <1>2, StaysOK
  <2> QED BY <2>1, <1>2
<1>4. \A q \in Sides : q # s => shut'[q] = shut[q] /\ socks'[q] = socks[q]
  BY <1>2 DEF SideStays
<1>5. ASSUME NEW q \in Sides, NEW g, WithSock(q, g) = {}
      PROVE  WithSock(q, g)' = {}
  <2>1. CASE q = s
    BY <2>1, <1>2, <1>5
  <2>2. CASE q # s
    BY <2>2, <1>4, <1>5 DEF WithSock
  <2> QED BY <2>1, <2>2
<1>6. MainOK'
  <2>0. MainOK
    BY DEF Desk
  <2>1. main.pc \in {"add", "create"} => main.conn \notin shut'["C"]
    <3>1. SUFFICES ASSUME main.pc \in {"add", "create"}
                   PROVE  main.conn \notin shut'["C"]
      OBVIOUS
    <3>2. main.conn \in up["C"] \ shut["C"] /\ main.conn \in Conns
      BY <2>0, <3>1, TwoSides DEF MainOK, TypeOK
    <3>3. CASE s = "C" /\ f # 0
      <4>1. ~ Accepting(k)
        BY <3>3 DEF Shuts
      <4> QED BY <4>1, <3>1, <3>2, <3>3, <1>2 DEF Accepting
    <3>4. CASE s # "C" \/ f = 0
      BY <3>2, <3>4, <1>2, <1>4, TwoSides
    <3> QED BY <3>3, <3>4
  <2>2. main'.pc \in {"add", "create"} => Mine("C", main.conn, main.sock)'
    BY <2>0, <1>0, <1>2, TwoSides DEF MainOK
  <2>3. main'.pc = "add" => WithSock("C", main.sock)' = {}
    <3>1. PICK g : g = main.sock
      OBVIOUS
    <3>2. main.pc = "add" => WithSock("C", g) = {}
      BY <2>0, <3>1 DEF MainOK
    <3>3. main.pc = "add" => WithSock("C", g)' = {}
      BY <3>2, <1>5, TwoSides
    <3>4. WithSock("C", main.sock)' = WithSock("C", g)'
      BY <3>1, <1>0 DEF WithSock
    <3> QED BY <3>3, <3>4, <1>0
  <2> QED BY <2>0, <2>1, <2>2, <2>3, <1>0 DEF MainOK
<1>7. ToxOK'
  <2>0. ToxOK
    BY DEF Desk
  <2>a. \A q \in Sides : tox'[q] = tox[q] \/ tox'[q].pc = "idle"
    BY DEF Shuts, Idle
  <2>1. tox'["C"].pc \notin {"connect", "add", "set"}
    BY <2>0, <2>a, TwoSides DEF ToxOK
  <2>2. ASSUME NEW q \in Sides
        PROVE  /\ tox'[q].pc = "write" =>
                    /\ tox'[q].msg.cmd = "RAW_DATA"
                    /\ Mine(q, tox[q].msg.uuid, tox[q].sock)'
               /\ tox'[q].pc = "close" =>
                    \/ tox'[q].sock = 0
                    \/ Mine(q, tox[q].msg.uuid, tox[q].sock)'
    BY <2>0, <2>a, <1>2 DEF ToxOK
  <2>3. CASE tox'["S"].pc \notin {"add", "set"}
    BY <2>1, <2>2, <2>3 DEF ToxOK
  <2>4. CASE tox'["S"].pc \in {"add", "set"}
    <3>1. tox'["S"] = tox["S"] /\ tox["S"].pc \in {"add", "set"}
      BY <2>4, <2>a, TwoSides
    <3>2. PICK j \in Conns : j = tox["S"].msg.uuid
      <4>1. up["S"] \subseteq Conns
        BY TwoSides DEF TypeOK
      <4> QED BY <4>1, <3>1, <2>0 DEF ToxOK
    <3>3. PICK g : g = tox["S"].sock
      OBVIOUS
    <3>4. /\ j \in up["S"] \ shut["S"] /\ Mine("S", j, g)
          /\ tox["S"].pc = "add" => WithSock("S", g) = {}
          /\ tox["S"].pc = "set" => \E i \in DOMAIN socks["S"] :
               socks["S"][i] = [uuid |-> Fresh, sock |-> g]
      BY <2>0, <3>1, <3>2, <3>3 DEF ToxOK
    <3>5. Doing("S", j) \in {"add", "set"}
      BY <3>1, <3>2 DEF Doing
    <3>6. ~ (s = "S" /\ f # 0 /\ j = k)
      BY <3>5 DEF Shuts, Creating
    <3>7. j \notin shut'["S"]
      BY <3>4, <3>6, <1>2, <1>4, TwoSides
    <3>8. Mine("S", j, g)'
      BY <3>4, <1>2, TwoSides
    <3>9. tox["S"].pc = "set" => \E i \in DOMAIN socks'["S"] :
            socks'["S"][i] = [uuid |-> Fresh, sock |-> g]
      <4>1. CASE s # "S"
        BY <4>1, <3>4, <1>4, TwoSides
      <4>2. CASE s = "S"
        <5>1. g # f
          <6>1. g # 0 /\ files["S"][g] = j
            BY <3>4 DEF Mine
          <6>2. f # 0 => files["S"][f] \in {k, NoFile}
            BY <4>2 DEF Shuts, Mine
          <6> QED BY <6>1, <6>2, <3>6, <4>2, Names
        <5> QED BY <5>1, <4>2, <3>4, <1>2
      <4> QED BY <4>1, <4>2
    <3>10. tox["S"].pc = "add" => WithSock("S", g)' = {}
      BY <3>4, <1>5, TwoSides
    <3>11. WithSock("S", tox["S"].sock)' = WithSock("S", g)'
      BY <3>1, <3>3 DEF WithSock
    <3>12. /\ tox'["S"].msg.uuid \in up'["S"] \ shut'["S"]
           /\ Mine("S", tox["S"].msg.uuid, tox["S"].sock)'
      BY <3>1, <3>2, <3>3, <3>4, <3>7, <3>8, <1>0
    <3> QED BY <2>1, <2>2, <3>1, <3>3, <3>9, <3>10, <3>11, <3>12 DEF ToxOK
  <2> QED BY <2>3, <2>4
<1> QED BY <1>2, <1>3, <1>4, <1>6, <1>7 DEF Desk

\* The creation of k, when a side closes it.
LEMMA ShutsCreation ==
  ASSUME TypeOK, TypeOK', NEW s \in Sides, NEW k \in Conns, NEW f,
         Shuts(s, k, f), CreationOK(k), lost' = lost,
         k \in shut'["S"] => k \in shut["S"] \/ ~ Young(k)
  PROVE  CreationOK(k)'
<1>0. UNCHANGED <<up, wrote, fin, refused, net, held, main, out>>
  BY DEF Shuts, appVars, mail
<1>1. /\ \A q \in Sides : Doing(q, k)' = Doing(q, k)
                          \/ (Doing(q, k) = "close" /\ Doing(q, k)' = "idle")
      /\ \A q \in Sides : Writing(q)' = Writing(q)
      /\ Accepting(k)' <=> Accepting(k)
  BY ShutsDoing
<1>2. \A q \in Sides : Pipe(q)' = Pipe(q)
  BY <1>0, <1>1, MailStays
<1>3. \A q \in Sides : /\ reader'[q][k].pc = "none" <=> reader[q][k].pc = "none"
                       /\ reader'[q][k].pc # "done" =>
                            reader'[q][k].pc = reader[q][k].pc
  BY DEF Shuts
<1>4. Young(k)' => Young(k)
  BY <1>0, <1>3, TwoSides DEF Young
<1> USE <1>0, <1>1, <1>2, TwoSides
<1>5. Unborn(k) => Unborn(k)'
  BY <1>3 DEF Unborn
<1>6. YoungOK(k)'
  <2>1. SUFFICES ASSUME Young(k)' PROVE Dormant(k)'
    BY DEF YoungOK
  <2>2. Dormant(k) /\ k \notin shut'["S"]
    BY <2>1, <1>4 DEF CreationOK, YoungOK, Dormant
  <2>3. reader'["C"][k].pc = "none"
    BY <2>2, <1>3 DEF Dormant
  <2>4. Doing("C", k)' \in {"idle", "close"}
    BY <2>2 DEF Dormant
  <2>5. Doing("S", k)' \notin {"write", "deny", "close"}
    BY <2>2 DEF Dormant
  <2>6. Doing("C", k)' = "close" => /\ k \in lost /\ ~ Accepting(k)
                                    /\ Unborn(k) /\ Silent(Pipe("C"), k)
    BY <2>2 DEF Dormant
  <2>7. Doing("C", k)' = "close" => /\ k \in lost' /\ ~ Accepting(k)'
                                    /\ Unborn(k)' /\ Silent(Pipe("C")', k)
    BY <2>6, <1>5
  <2>8. Silent(Pipe("S")', k) /\ OnlyAsks(Pipe("C")', k)
    BY <2>2 DEF Dormant
  <2> QED BY <2>2, <2>3, <2>4, <2>5, <2>7, <2>8 DEF Dormant
<1>7. UnaskedOK(k)'
  BY <1>5 DEF CreationOK, UnaskedOK
<1>8. AskedOK(k)'
  BY <1>5 DEF CreationOK, AskedOK
<1>9. MakingOK(k)'
  <2>1. /\ Doing("S", k)' \in {"connect", "add", "set"} =>
             Doing("S", k)' = Doing("S", k)
        /\ reader'["S"][k].pc = "none" <=> reader["S"][k].pc = "none"
    BY <1>3
  <2> QED BY <2>1 DEF CreationOK, MakingOK
<1>10. MadeOK(k)'
  BY <1>3 DEF CreationOK, MadeOK
<1>11. ConfirmedOK(k)'
  BY <1>3 DEF CreationOK, ConfirmedOK
<1> QED BY <1>6, <1>7, <1>8, <1>9, <1>10, <1>11 DEF CreationOK

\* The end of the stream of s, when s closes k.
LEMMA EndCloses ==
  ASSUME TypeOK, NEW s \in Sides, NEW k \in Conns, EndOK(s, k), Grows(k),
         UNCHANGED <<out, taken, wrote>>, Pipe(s)' = Pipe(s),
         reader'[s][k].pc \in Holding => reader[s][k].pc \in Holding,
         k \in shut'[s] \/ (reader'[s][k].pc \in Ending /\ reader'[s][k].sock # 0)
           => Excused(Peer(s), k) \/ AllSent(s, k),
         Doing(s, k)' = "deny" => Doing(s, k) = "deny",
         Doing(Peer(s), k)' = "close" => Doing(Peer(s), k) = "close"
  PROVE  EndOK(s, k)'
<1>1. \A q \in Sides : Excused(q, k) => Excused(q, k)'
  BY DEF Excused, Grows
<1>2. AllSent(s, k) => AllSent(s, k)'
  <2>1. Keeps(Pipe(s)', Pipe(s), k)
    BY DEF Keeps
  <2>2. AllSent(s, k) => reader'[s][k].pc \notin Holding
    BY DEF AllSent
  <2> QED BY <2>1, <2>2, AllSentFrame, TwoSides
<1>3. Given(Peer(s), k)' = Given(Peer(s), k)
  BY DEF Given, Promise!Given
<1>4. k \in shut'[s] \/ (reader'[s][k].pc \in Ending /\ reader'[s][k].sock # 0)
        => Excused(Peer(s), k)' \/ AllSent(s, k)'
  BY <1>1, <1>2, TwoSides
<1>5. Has(Pipe(s)', k, "CLOSE_SOCK") =>
        /\ Excused(s, k)'
        /\ Excused(Peer(s), k)' \/ (AllSent(s, k)' /\ ClosesLast(Pipe(s)', k))
  BY <1>1, <1>2, TwoSides DEF EndOK
<1>6. Doing(Peer(s), k)' = "close" =>
        /\ Excused(s, k)'
        /\ \/ Excused(Peer(s), k)'
           \/ k \in fin'[s] /\ Given(Peer(s), k)' = wrote'[s][k]
  <2>1. k \in fin[s] => k \in fin'[s]
    BY DEF Grows
  <2> QED BY <2>1, <1>1, <1>3, TwoSides DEF EndOK
<1>7. Doing(s, k)' = "deny" => k \in shut'[s] \cup refused'
  BY DEF EndOK, Grows
<1> QED BY <1>4, <1>5, <1>6, <1>7 DEF EndOK

\* A thread closes the descriptor of k.
LEMMA ShutsStep ==
  ASSUME IInv, NEW s \in Sides, NEW k \in Conns, NEW f \in Fds, Shuts(s, k, f),
         tox' \in [Sides -> Tasks],
         \A q \in Sides : tox'[q].pc # "idle" => tox'[q].msg \in Messages,
         reader' \in [Sides -> [Conns -> Readers]]
  PROVE  IInv'
<1>0. TypeOK /\ Desk /\ \A j \in Conns : Life(j)
  BY DEF IInv
<1>1. UNCHANGED <<up, wrote, fin, refused, net, held, lost, main, taken, out,
                  linked, online, ends>>
  BY DEF Shuts, appVars, mail, links
<1>2. /\ Desk'
      /\ shut'[s] = IF f = 0 THEN shut[s] ELSE shut[s] \cup {k}
      /\ \A q \in Sides : q # s => shut'[q] = shut[q]
      /\ \A q \in Sides : \A j, g : Mine(q, j, g) => Mine(q, j, g)'
      /\ files' \in [Sides -> [Fds -> Conns \cup {Std, Leaked, NoFile}]]
      /\ socks' \in [Sides -> Seq(SockRecords)]
      /\ shut' \in [Sides -> SUBSET Conns]
  <2>1. \A j \in Conns : MakingOK(j)
    BY <1>0 DEF Life, CreationOK
  <2> QED BY <2>1, <1>0, ShutsDesk
<1>3. TypeOK'
  BY <1>0, <1>1, <1>2 DEF TypeOK, SockRecords
<1>4. \A j \in Conns : Grows(j)
  <2>1. \A q \in Sides, j \in Conns : j \in shut[q] => j \in shut'[q]
    BY <1>2
  <2> QED BY <2>1, <1>1, <1>2 DEF Grows
<1>5. /\ \A q \in Sides, j \in Conns :
           \/ Doing(q, j)' = Doing(q, j)
           \/ /\ q = s /\ j = k /\ Doing(q, j) = "close"
              /\ Doing(q, j)' = "idle"
      /\ \A q \in Sides : Writing(q)' = Writing(q)
      /\ \A j \in Conns : Accepting(j)' <=> Accepting(j)
  BY <1>0, ShutsDoing
<1>6. /\ \A j : Flows(j)
      /\ \A q \in Sides : Pipe(q)' = Pipe(q)
  BY <1>0, <1>1, <1>5, MailStays
<1>7. ASSUME NEW j \in Conns, j # k PROVE Still(j)
  <2>1. \A q \in Sides : reader'[q][j] = reader[q][j]
    BY <1>7 DEF Shuts
  <2>2. \A q \in Sides : Doing(q, j)' = Doing(q, j)
    BY <1>5, <1>7
  <2>3. \A q \in Sides : j \in shut'[q] => j \in shut[q]
    BY <1>2, <1>7
  <2> QED BY <1>1, <1>4, <1>5, <1>6, <2>1, <2>2, <2>3 DEF Still, Flows
<1>8. CreationOK(k)'
  <2>1. k \in shut'["S"] => k \in shut["S"] \/ ~ Young(k)
    BY <1>2, TwoSides DEF Shuts
  <2> QED BY <2>1, <1>0, <1>1, <1>3, ShutsCreation DEF Life
<1>9. ASSUME NEW q \in Sides
      PROVE  ReaderOK(q, k)' /\ StreamOK(q, k)' /\ OutOK(q, k)' /\ EndOK(q, k)'
  <2>0. ReaderOK(q, k) /\ StreamOK(q, k) /\ OutOK(q, k) /\ EndOK(q, k)
    BY <1>0 DEF Life
  <2>r. \/ reader'[q][k] = reader[q][k]
        \/ reader[q][k].pc = "close" /\ reader'[q][k].pc = "done"
    BY DEF Shuts
  <2>1. ReaderOK(q, k)'
    <3>1. CASE reader'[q][k] = reader[q][k]
      BY <3>1, <2>0, <1>0, <1>1, <1>4, ReaderFrame DEF ReaderOK
    <3>2. CASE reader'[q][k].pc = "done"
      BY <3>2, <2>0, <1>1 DEF ReaderOK, Holding, Ending
    <3> QED BY <3>1, <3>2, <2>r
  <2>2. /\ Top(q, k)' = Top(q, k) /\ (Reading(q, k)' => Reading(q, k))
        /\ reader'[q][k].pc \in Holding => reader[q][k].pc \in Holding
        /\ reader'[q][k].pc \in Ending /\ reader'[q][k].sock # 0 =>
             reader[q][k].pc \in Ending /\ reader[q][k].sock # 0
    <3>1. k \in shut[q] => k \in shut'[q]
      BY <1>2
    <3> QED BY <3>1, <2>r, <1>1 DEF Top, Reading, Holding, Ending
  <2>3. StreamOK(q, k)'
    BY <2>0, <2>2, <1>0, <1>1, <1>3, <1>4, <1>6, TwoSides, StreamFrame
       DEF Flows
  <2>4. OutOK(q, k)'
    BY <2>0, <1>1, <1>4, OutFrame
  <2>5. /\ Doing(q, k)' = "deny" => Doing(q, k) = "deny"
        /\ Doing(Peer(q), k)' = "close" => Doing(Peer(q), k) = "close"
    BY <1>5, TwoSides
  <2>6. EndOK(q, k)'
    <3>1. CASE q = s
      <4>1. k \in shut[s] \/ (reader'[s][k].pc \in Ending /\ reader'[s][k].sock # 0)
              => Excused(Peer(s), k) \/ AllSent(s, k)
        BY <3>1, <2>0, <2>2 DEF EndOK
      <4>2. k \in shut'[s] => k \in shut[s] \/ Excused(Peer(s), k) \/ AllSent(s, k)
        BY <1>2 DEF Shuts
      <4> QED BY <3>1, <4>1, <4>2, <2>0, <2>2, <2>5, <1>0, <1>1, <1>4, <1>6,
                 EndCloses
    <3>2. CASE q # s
      <4>1. shut'[q] = shut[q]
        BY <3>2, <1>2
      <4> QED BY <4>1, <2>0, <2>2, <2>5, <1>0, <1>1, <1>3, <1>4, <1>6,
                 TwoSides,
                 EndFrame DEF Flows
    <3> QED BY <3>1, <3>2
  <2> QED BY <2>1, <2>3, <2>4, <2>6
<1> QED BY <1>2, <1>3, <1>7, <1>8, <1>9, Focus

\* A reader closes its descriptor after the end of its stream.
LEMMA ReaderShuts ==
  ASSUME IInv, NEW s \in Sides, NEW k \in Conns, ReaderCloses(s, k)
  PROVE  \E f \in Fds :
           /\ f = reader[s][k].sock /\ Shuts(s, k, f)
           /\ UNCHANGED tox /\ reader' \in [Sides -> [Conns -> Readers]]
<1>0. reader[s][k].pc = "close"
  BY DEF ReaderCloses, Is
<1>1. /\ ~ Creating(s, k) /\ k \in up["S"] \ refused
      /\ ReaderOK(s, k) /\ EndOK(s, k) /\ TypeOK /\ Desk /\ CreationOK(k)
  BY <1>0, Settled DEF IInv, Life
<1>2. PICK f \in Fds : f = reader[s][k].sock /\ (f = 0 \/ Mine(s, k, f))
  BY <1>0, ReaderKnows
<1>3. PICK r : r = [NoReader EXCEPT !.pc = "done"]
  OBVIOUS
<1>4. r \in Readers /\ r.pc = "done"
  BY <1>3, Names DEF Readers, NoReader
<1>5. /\ CloseSock(s, f) /\ Now(s, k, r)
      /\ UNCHANGED <<appVars, mail, tox, main, taken, out, links>>
  BY <1>2, <1>3 DEF ReaderCloses
<1>6. /\ reader' \in [Sides -> [Conns -> Readers]]
      /\ \A q \in Sides, c \in Conns :
           reader'[q][c] = IF q = s /\ c = k THEN r ELSE reader[q][c]
  BY <1>1, <1>4, <1>5, NowTyped
<1>7. s = "C" => ~ Accepting(k)
  BY <1>1 DEF CreationOK, UnaskedOK, Unborn
<1>8. s = "S" => ~ Young(k)
  BY <1>0 DEF Young
<1>9. f # 0 => Excused(Peer(s), k) \/ AllSent(s, k)
  BY <1>0, <1>1, <1>2 DEF EndOK, Ending
<1>10. \A q \in Sides, c \in Conns :
         \/ reader'[q][c] = reader[q][c]
         \/ /\ q = s /\ c = k /\ reader[s][k].pc = "close"
            /\ reader'[s][k].pc = "done"
  BY <1>0, <1>4, <1>6
<1>11. Shuts(s, k, f)
  BY <1>1, <1>2, <1>5, <1>7, <1>8, <1>9, <1>10 DEF Shuts
<1> QED BY <1>2, <1>5, <1>6, <1>11

\* Then the invariant holds still.
LEMMA ReaderClosesStep ==
  ASSUME IInv, NEW s \in Sides, NEW k \in Conns, ReaderCloses(s, k)
  PROVE  IInv'
<1>1. PICK f \in Fds : /\ f = reader[s][k].sock /\ Shuts(s, k, f)
                       /\ UNCHANGED tox
                       /\ reader' \in [Sides -> [Conns -> Readers]]
  BY ReaderShuts
<1>2. /\ tox' \in [Sides -> Tasks]
      /\ \A q \in Sides : tox'[q].pc # "idle" => tox'[q].msg \in Messages
  BY <1>1 DEF IInv, TypeOK
<1> QED BY <1>1, <1>2, ShutsStep

\* A Tox thread closes the descriptor of a connection that the other side has
\* closed, or that a message was dropped of.
LEMMA ToxShuts ==
  ASSUME IInv, NEW s \in Sides, ToxCloses(s)
  PROVE  \E k \in Conns, f \in Fds :
           /\ f = tox[s].sock /\ Shuts(s, k, f) /\ Doing(s, k) = "close"
           /\ UNCHANGED reader /\ tox' \in [Sides -> Tasks]
           /\ \A q \in Sides : tox'[q].pc # "idle" => tox'[q].msg \in Messages
<1>0. TypeOK /\ Desk /\ ToxOK /\ tox[s].pc = "close" /\ tox[s].msg \in Messages
  BY DEF IInv, ToxCloses, Desk, TypeOK
<1>1. PICK k \in Conns : k = tox[s].msg.uuid
  BY <1>0 DEF Messages
<1>2. PICK f \in Fds : f = tox[s].sock /\ (f = 0 \/ Mine(s, k, f))
  <2>1. tox[s] \in Tasks
    BY <1>0 DEF TypeOK
  <2> QED BY <2>1, <1>0, <1>1 DEF ToxOK, Tasks
<1>3. Doing(s, k) = "close" /\ CreationOK(k) /\ EndOK(Peer(s), k)
  BY <1>0, <1>1, TwoSides DEF Doing, IInv, Life
<1>4. /\ CloseSock(s, f) /\ ToxIdle(s)
      /\ UNCHANGED <<appVars, mail, main, reader, taken, out, links>>
  BY <1>2 DEF ToxCloses
<1>5. /\ \A q \in Sides : tox'[q] = IF q = s THEN Idle ELSE tox[q]
      /\ tox' \in [Sides -> Tasks]
  <2>1. Idle \in Tasks /\ tox' = [tox EXCEPT ![s] = Idle]
    BY <1>4, Names DEF Idle, Tasks, ToxIdle
  <2> QED BY <1>0, <2>1, SideChange DEF TypeOK
<1>6. \A q \in Sides : tox'[q].pc # "idle" => tox'[q].msg \in Messages
  BY <1>0, <1>5 DEF TypeOK, Idle
<1>7. s = "C" => ~ Accepting(k)
  BY <1>3 DEF CreationOK, UnaskedOK
<1>8. ~ Creating(s, k)
  <2>1. CASE s = "C"
    BY <2>1, <1>7 DEF Creating, Accepting
  <2>2. CASE s = "S"
    BY <2>2, <1>3 DEF Creating
  <2> QED BY <2>1, <2>2 DEF Sides
<1>9. s = "S" => ~ Young(k)
  BY <1>3 DEF CreationOK, YoungOK, Dormant
<1>10. Excused(Peer(s), k)
  BY <1>3, TwoSides DEF EndOK
<1>11. Shuts(s, k, f)
  BY <1>0, <1>1, <1>2, <1>4, <1>5, <1>7, <1>8, <1>9, <1>10 DEF Shuts
<1> QED BY <1>2, <1>3, <1>4, <1>5, <1>6, <1>11

\* Then the invariant holds still.
LEMMA ToxClosesStep ==
  ASSUME IInv, NEW s \in Sides, ToxCloses(s)
  PROVE  IInv'
<1>1. PICK k \in Conns, f \in Fds :
        /\ Shuts(s, k, f) /\ UNCHANGED reader /\ tox' \in [Sides -> Tasks]
        /\ \A q \in Sides : tox'[q].pc # "idle" => tox'[q].msg \in Messages
  BY ToxShuts
<1>2. reader' \in [Sides -> [Conns -> Readers]]
  BY <1>1 DEF IInv, TypeOK
<1> QED BY <1>1, <1>2, ShutsStep

\* The initial states.
LEMMA Starts == Init => IInv
<1> SUFFICES ASSUME Init PROVE IInv
  OBVIOUS
<1>0. /\ files = [s \in Sides |-> [f \in Fds |-> IF f = 0 THEN Std ELSE NoFile]]
      /\ socks = [s \in Sides |-> <<>>]
      /\ linked = TRUE /\ online = [s \in Sides |-> TRUE] /\ ends = 0
      /\ net = [s \in Sides |-> <<>>]
      /\ held = [s \in Sides |-> <<>>]
      /\ lost = {}
      /\ tox = [s \in Sides |-> Idle]
      /\ main = [pc |-> "accept", conn |-> NoUuid, sock |-> 0]
      /\ reader = [s \in Sides |-> [k \in Conns |-> NoReader]]
      /\ up = [s \in Sides |-> {}]
      /\ wrote = [s \in Sides |-> [k \in Conns |-> 0]]
      /\ taken = [s \in Sides |-> [k \in Conns |-> 0]]
      /\ fin = [s \in Sides |-> {}]
      /\ out = [s \in Sides |-> [k \in Conns |-> <<>>]]
      /\ shut = [s \in Sides |-> {}]
      /\ refused = {}
  BY DEF Init
<1>1. /\ Idle \in Tasks /\ NoReader \in Readers /\ main \in Mains
      /\ Idle.pc = "idle" /\ NoReader.pc = "none"
  BY <1>0, Names DEF Idle, NoReader, Tasks, Readers, Mains
<1>2. TypeOK
  <2>1. MaxEnds \in Nat
    BY ConstantsAssumption
  <2>2. <<>> \in Seq(Messages) /\ <<>> \in Seq(SockRecords)
        /\ <<>> \in Seq(Conns \X Nat)
    OBVIOUS
  <2>3. /\ files \in [Sides -> [Fds -> Conns \cup {Std, Leaked, NoFile}]]
        /\ socks \in [Sides -> Seq(SockRecords)]
    BY <1>0, <2>2, Names
  <2>4. linked \in BOOLEAN /\ online \in [Sides -> BOOLEAN] /\ ends \in 0..MaxEnds
    BY <1>0, <2>1
  <2>5. /\ net \in [Sides -> Seq(Messages)] /\ held \in [Sides -> Seq(Messages)]
        /\ lost \subseteq Conns
    BY <1>0, <2>2
  <2>6. /\ tox \in [Sides -> Tasks]
        /\ \A s \in Sides : tox[s].pc # "idle" => tox[s].msg \in Messages
    BY <1>0, <1>1
  <2>7. reader \in [Sides -> [Conns -> Readers]]
    BY <1>0, <1>1
  <2>8. /\ up \in [Sides -> SUBSET Conns]
        /\ wrote \in [Sides -> [Conns -> Nat]] /\ taken \in [Sides -> [Conns -> Nat]]
        /\ fin \in [Sides -> SUBSET Conns]
        /\ shut \in [Sides -> SUBSET Conns] /\ refused \subseteq Conns
    BY <1>0
  <2>9. out \in [Sides -> [Conns -> Seq(Conns \X Nat)]]
    BY <1>0, <2>2
  <2> QED BY <1>1, <2>3, <2>4, <2>5, <2>6, <2>7, <2>8, <2>9
             DEF TypeOK, SockRecords
<1>3. Desk
  <2>1. MainOK
    BY <1>0 DEF MainOK
  <2>2. ToxOK
    BY <1>0, <1>1, TwoSides DEF ToxOK
  <2>3. ASSUME NEW s \in Sides PROVE FilesOK(s) /\ RecordsOK(s)
    <3>1. FilesOK(s)
      BY <1>0, Names DEF FilesOK
    <3>2. RecordsOK(s)
      BY <1>0 DEF RecordsOK
    <3> QED BY <3>1, <3>2
  <2> QED BY <2>1, <2>2, <2>3 DEF Desk
<1>4. \A p \in Sides : Pipe(p) = <<>>
  <2>1. <<>> \o <<>> \o <<>> = <<>>
    OBVIOUS
  <2> QED BY <2>1, <1>0, <1>1, TwoSides DEF Pipe, Writing
<1>5. /\ \A s \in Sides, k \in Conns : Doing(s, k) = "idle"
      /\ \A k \in Conns : ~ Accepting(k)
  BY <1>0, <1>1 DEF Doing, Accepting
<1>6. ASSUME NEW k \in Conns PROVE Life(k)
  <2>1. /\ \A s \in Sides : Silent(Pipe(s), k)
        /\ \A s \in Sides : \A cmd : ~ Has(Pipe(s), k, cmd)
        /\ \A s \in Sides : Connected(Pipe(s), k, 0)
        /\ \A s \in Sides : Dense(Pipe(s), k, 0, 0)
        /\ \A s \in Sides : Flow(Pipe(s), k, 0, 0)
        /\ OnlyAsks(Pipe("C"), k)
    BY <1>4, TwoSides DEF Silent, Has, Connected, Dense, Flow, OnlyAsks
  <2>2. \A s \in Sides : reader[s][k].pc = "none" /\ taken[s][k] = 0 /\ wrote[s][k] = 0
    BY <1>0, <1>1
  <2>3. CreationOK(k)
    <3>1. Unborn(k) /\ Dormant(k)
      BY <1>0, <1>5, <2>1, <2>2, TwoSides DEF Unborn, Dormant
    <3> QED BY <3>1, <1>0, <1>5, <2>1, <2>2, TwoSides
            DEF CreationOK, YoungOK, UnaskedOK, AskedOK, MakingOK, MadeOK,
                ConfirmedOK
  <2>4. ASSUME NEW s \in Sides
        PROVE  ReaderOK(s, k) /\ StreamOK(s, k) /\ OutOK(s, k) /\ EndOK(s, k)
    <3>1. ReaderOK(s, k)
      BY <2>2 DEF ReaderOK, Holding, Ending
    <3>2. Given(Peer(s), k) = 0 /\ Top(s, k) = 0
      BY <1>0, <2>2, TwoSides DEF Given, Promise!Given, Top, Holding
    <3>3. StreamOK(s, k)
      BY <2>1, <3>2 DEF StreamOK
    <3>4. OutOK(s, k)
      BY <1>0 DEF OutOK
    <3>5. EndOK(s, k)
      BY <1>0, <1>5, <2>1, <2>2, TwoSides DEF EndOK, Ending
    <3> QED BY <3>1, <3>3, <3>4, <3>5
  <2> QED BY <2>3, <2>4 DEF Life
<1> QED BY <1>2, <1>3, <1>6 DEF IInv

-----------------------------------------------------------------------------
(* All steps, and the safety properties.                                    *)

\* A reader thread moves.
LEMMA ReaderSteps ==
  ASSUME IInv, NEW s \in Sides, NEW k \in Conns, ReaderStep(s, k)
  PROVE  IInv'
<1>1. CASE TakeUuid(s, k)      BY <1>1, TakeUuidStep
<1>2. CASE Read(s, k)          BY <1>2, ReadStep
<1>3. CASE ReadData(s, k)      BY <1>3, ReadDataStep
<1>4. CASE ReadEnd(s, k)       BY <1>4, ReadEndStep
<1>5. CASE Label(s, k)         BY <1>5, LabelStep
<1>6. CASE SendData(s, k)      BY <1>6, SendDataStep
<1>7. CASE LookBack(s, k)      BY <1>7, LookBackStep
<1>8. CASE TellClosed(s, k)    BY <1>8, TellClosedStep
<1>9. CASE ReaderCloses(s, k)  BY <1>9, ReaderClosesStep
<1> QED BY <1>1, <1>2, <1>3, <1>4, <1>5, <1>6, <1>7, <1>8, <1>9 DEF ReaderStep

\* A Tox thread moves.
LEMMA ToxSteps ==
  ASSUME IInv, NEW s \in Sides, ToxStep(s)
  PROVE  IInv'
<1>1. CASE OnRawData(s)    BY <1>1, OnRawDataStep
<1>2. CASE WriteData(s)    BY <1>2, WriteDataStep
<1>3. CASE Deny(s)         BY <1>3, DenyStep
<1>4. CASE OnCloseSock(s)  BY <1>4, OnCloseSockStep
<1>5. CASE ToxCloses(s)    BY <1>5, ToxClosesStep
<1>6. CASE SendHeld(s)     BY <1>6, SendHeldStep
<1> QED BY <1>1, <1>2, <1>3, <1>4, <1>5, <1>6 DEF ToxStep

\* A connection is made, by the threads of either side.
LEMMA MakingSteps ==
  ASSUME IInv, StaysClosed,
         \/ MainStep \/ ToxStepOfC \/ ToxStepOfS
         \/ \E k \in Conns : ServerReaderStep(k)
  PROVE  IInv'
<1>1. CASE Accept           BY <1>1, AcceptStep
<1>2. CASE AddAccepted      BY <1>2, AddAcceptedStep
<1>3. CASE CreateRemote     BY <1>3, CreateRemoteStep
<1>4. CASE OnCreateSuccess  BY <1>4, OnCreateSuccessStep
<1>5. CASE OnCreateSock     BY <1>5, OnCreateSockStep
<1>6. CASE Connect          BY <1>6, ConnectStep
<1>7. CASE AddConnected     BY <1>7, AddConnectedStep
<1>8. CASE SetUuid          BY <1>8, SetUuidStep
<1>9. CASE \E k \in Conns : ServerReaderStep(k)
  <2>1. PICK k \in Conns : TakeAddr(k) \/ SendSuccess(k) \/ LabelAddr(k)
    BY <1>9 DEF ServerReaderStep
  <2> QED BY <2>1, TakeAddrStep, SendSuccessStep, LabelAddrStep
<1> QED BY <1>1, <1>2, <1>3, <1>4, <1>5, <1>6, <1>7, <1>8, <1>9
        DEF MainStep, ToxStepOfC, ToxStepOfS

\* Nothing happens.
LEMMA Stutters ==
  ASSUME IInv, UNCHANGED vars
  PROVE  IInv'
<1>1. /\ UNCHANGED <<sockVars, appVars, links, mail, tox, main, reader,
                     taken, out>>
      /\ UNCHANGED <<up, wrote, fin, refused, linked, online, ends, net,
                     held, lost>>
  BY DEF vars, appVars, links, mail
<1>2. TypeOK /\ TypeOK'
  BY <1>1 DEF IInv, TypeOK, sockVars
<1>3. \A j : Flows(j)
  BY <1>1, <1>2, MailStays DEF Writing
<1>4. lost \subseteq lost' /\ \A q \in Sides : fin[q] \subseteq fin'[q]
  BY <1>1
<1> QED BY <1>1, <1>2, <1>3, <1>4, AllStill

\* Every step keeps the invariant.
LEMMA Steps ==
  ASSUME StaysClosed, IInv, [Next]_vars
  PROVE  IInv'
<1>1. CASE Reconnect \/ \E s \in Sides : Disconnect(s)
  BY <1>1, ReconnectStep, DisconnectStep
<1>2. CASE \/ MainStep \/ ToxStepOfC \/ ToxStepOfS
           \/ \E k \in Conns : ServerReaderStep(k)
  BY <1>2, MakingSteps
<1>3. CASE \E s \in Sides : ToxStep(s) \/ \E k \in Conns : ReaderStep(s, k)
  BY <1>3, ToxSteps, ReaderSteps
<1>4. CASE \E s \in Sides, k \in Conns : AppWrites(s, k) \/ AppEnds(s, k)
  BY <1>4, AppWritesStep, AppEndsStep
<1>5. CASE UNCHANGED vars
  BY <1>5, Stutters
<1> QED BY <1>1, <1>2, <1>3, <1>4, <1>5 DEF Next

\* The system does not give out the number of a closed descriptor that a
\* thread still works on.
NoHeldNumber == [][StaysClosed]_vars

\* As long as no number that a thread still works on is given out, and
\* whatever other numbers the system gives out, the invariant holds.
THEOREM Invariance ==
  Spec /\ NoHeldNumber => []IInv
<1>1. IInv /\ [Next]_vars /\ [StaysClosed]_vars => IInv'
  BY Steps, Stutters
<1> QED BY <1>1, Starts, PTL DEF Spec, NoHeldNumber

\* The variables keep their types: only descriptors of the program are
\* closed and only uuids of accepted connections are sent.
THEOREM TypeCorrect ==
  Spec /\ NoHeldNumber => []TypeOK
<1>1. IInv => TypeOK
  BY DEF IInv
<1> QED BY <1>1, Invariance, PTL

\* A record of local_socks.c names a descriptor that is open and is its
\* connection, whatever the threads of the program do in between.
THEOREM RecordsAreRight ==
  Spec /\ NoHeldNumber => []RecordsMatchFiles
<1>1. ASSUME IInv PROVE RecordsMatchFiles
  <2>1. \A s \in Sides : RecordsOK(s)
    BY <1>1 DEF IInv, Desk
  <2> QED BY <2>1, Names DEF RecordsOK, RecordsMatchFiles
<1> QED BY <1>1, Invariance, PTL

\* The lookups of create_remote_socket and write_data_remote before exit(1)
\* never fail: neither program leaves.
THEOREM StaysUp ==
  Spec /\ NoHeldNumber => []NeverExits
<1>1. ASSUME IInv PROVE NeverExits
  <2>1. main.pc # "exit"
    BY <1>1 DEF IInv, Desk, MainOK
  <2>2. \A k \in Conns : ReaderOK("S", k)
    BY <1>1, TwoSides DEF IInv, Life
  <2> QED BY <2>1, <2>2 DEF NeverExits, Running, Is, ReaderOK
<1> QED BY <1>1, Invariance, PTL

\* An application is given pieces of its own connection, from the first on
\* and, unless the connection lost a message, without a hole.
THEOREM StreamsAreIsolated ==
  Spec /\ NoHeldNumber => []Isolation
<1>1. ASSUME IInv PROVE Isolation
  <2>1. \A s \in Sides, k \in Conns : OutOK(s, k)
    BY <1>1 DEF IInv, Life
  <2> QED BY <2>1 DEF OutOK, Isolation
<1> QED BY <1>1, Invariance, PTL

-----------------------------------------------------------------------------
(* The promise of Link.                                                     *)

\* What the promise is about.
promised == <<wrote, fin, out, shut, refused>>

\* A step that does nothing to the applications, but that messages are lost,
\* keeps the promise.
LEMMA OnlyLoses ==
  ASSUME TypeOK', lost \subseteq lost', UNCHANGED promised
  PROVE  Promise!Next
<1>1. lost' \in SUBSET Conns /\ lost' = lost \cup lost'
  BY DEF TypeOK
<1>2. UNCHANGED <<wrote, fin, out, shut, refused>>
  BY DEF promised
<1>3. Promise!Lose(lost')
  BY <1>1, <1>2 DEF Promise!Lose
<1> QED BY <1>1, <1>3 DEF Promise!Next

\* The words that Tunnel and Link have in common.
LEMMA PromiseSides ==
  /\ Promise!Sides = Sides
  /\ \A s \in Sides : Promise!Peer(s) = Peer(s)
  /\ \A s, k : Promise!Given(s, k) = Given(s, k)
BY DEF Promise!Sides, Sides, Promise!Peer, Peer, Given

\* What the steps of the Tox threads, the main thread and the programs'
\* connection lose.
LEMMA Posting ==
  ASSUME NEW s \in Sides, NEW cmd, NEW u, NEW data, Post(s, cmd, u, data)
  PROVE  lost \subseteq lost'
BY DEF Post, Give

\* The steps that no application notices, but that messages are lost.
LEMMA QuietSteps ==
  ASSUME \/ Reconnect \/ \E s \in Sides : Disconnect(s)
         \/ MainStep \/ ToxStepOfC \/ OnCreateSock \/ AddConnected \/ SetUuid
         \/ \E k \in Conns : TakeAddr(k) \/ SendSuccess(k)
         \/ \E s \in Sides : OnRawData(s) \/ Deny(s) \/ OnCloseSock(s) \/ SendHeld(s)
         \/ \E s \in Sides, k \in Conns :
              \/ TakeUuid(s, k) \/ Read(s, k) \/ ReadData(s, k) \/ ReadEnd(s, k)
              \/ SendData(s, k) \/ LookBack(s, k) \/ TellClosed(s, k)
  PROVE  lost \subseteq lost' /\ UNCHANGED promised
<1>1. CASE Reconnect
  BY <1>1 DEF Reconnect, sockVars, appVars, mail, promised
<1>2. CASE \E s \in Sides : Disconnect(s)
  BY <1>2 DEF Disconnect, sockVars, appVars, promised
<1>3. CASE Accept
  BY <1>3 DEF Accept, mail, promised
<1>4. CASE AddAccepted
  BY <1>4 DEF AddAccepted, appVars, mail, promised
<1>5. CASE CreateRemote
  <2>1. lost \subseteq lost'
    BY <1>5, Posting, TwoSides DEF CreateRemote, mail
  <2> QED BY <1>5, <2>1 DEF CreateRemote, sockVars, appVars, promised
<1>6. CASE OnCreateSuccess
  BY <1>6 DEF OnCreateSuccess, Arrived, sockVars, appVars, promised
<1>7. CASE OnCreateSock
  BY <1>7 DEF OnCreateSock, Arrived, sockVars, appVars, promised
<1>8. CASE AddConnected
  BY <1>8 DEF AddConnected, appVars, mail, promised
<1>9. CASE SetUuid
  BY <1>9 DEF SetUuid, appVars, mail, promised
<1>10. CASE \E k \in Conns : TakeAddr(k) \/ SendSuccess(k)
  <2>1. PICK k \in Conns : TakeAddr(k) \/ SendSuccess(k)
    BY <1>10
  <2>2. CASE TakeAddr(k)
    BY <2>2 DEF TakeAddr, sockVars, appVars, mail, promised
  <2>3. CASE SendSuccess(k)
    <3>1. lost \subseteq lost'
      BY <2>3, Posting, TwoSides DEF SendSuccess, mail
    <3> QED BY <2>3, <3>1 DEF SendSuccess, sockVars, appVars, promised
  <2> QED BY <2>1, <2>2, <2>3
<1>11. ASSUME NEW s \in Sides,
              OnRawData(s) \/ Deny(s) \/ OnCloseSock(s) \/ SendHeld(s)
       PROVE  lost \subseteq lost' /\ UNCHANGED promised
  <2>1. CASE OnRawData(s)
    BY <2>1 DEF OnRawData, Arrived, sockVars, appVars, promised
  <2>2. CASE Deny(s)
    <3>1. lost \subseteq lost'
      BY <2>2, Posting DEF Deny
    <3> QED BY <2>2, <3>1 DEF Deny, sockVars, appVars, promised
  <2>3. CASE OnCloseSock(s)
    BY <2>3 DEF OnCloseSock, Arrived, sockVars, appVars, promised
  <2>4. CASE SendHeld(s)
    BY <2>4 DEF SendHeld, Give, sockVars, appVars, promised
  <2> QED BY <1>11, <2>1, <2>2, <2>3, <2>4
<1>12. ASSUME NEW s \in Sides, NEW k \in Conns,
              \/ TakeUuid(s, k) \/ Read(s, k) \/ ReadData(s, k) \/ ReadEnd(s, k)
              \/ SendData(s, k) \/ LookBack(s, k) \/ TellClosed(s, k)
       PROVE  lost \subseteq lost' /\ UNCHANGED promised
  <2>1. CASE TakeUuid(s, k)
    BY <2>1 DEF TakeUuid, sockVars, appVars, mail, promised
  <2>2. CASE Read(s, k)
    BY ZenonT(60), <2>2 DEF Read, sockVars, appVars, mail, promised
  <2>3. CASE ReadData(s, k)
    BY ZenonT(60), <2>3 DEF ReadData, sockVars, appVars, mail, promised
  <2>4. CASE ReadEnd(s, k)
    BY <2>4 DEF ReadEnd, sockVars, appVars, mail, promised
  <2>5. CASE SendData(s, k)
    <3>1. lost \subseteq lost'
      BY <2>5, Posting DEF SendData
    <3> QED BY <2>5, <3>1 DEF SendData, sockVars, appVars, promised
  <2>6. CASE LookBack(s, k)
    BY <2>6 DEF LookBack, sockVars, appVars, mail, promised
  <2>7. CASE TellClosed(s, k)
    <3>1. lost \subseteq lost'
      BY <2>7, Posting DEF TellClosed
    <3> QED BY <2>7, <3>1 DEF TellClosed, sockVars, appVars, promised
  <2> QED BY <1>12, <2>1, <2>2, <2>3, <2>4, <2>5, <2>6, <2>7
<1> QED BY <1>1, <1>2, <1>3, <1>4, <1>5, <1>6, <1>7, <1>8, <1>9, <1>10,
           <1>11, <1>12 DEF MainStep, ToxStepOfC

\* The applications write and end their streams.
LEMMA AppsKeep ==
  ASSUME NEW s \in Sides, NEW k \in Conns, AppWrites(s, k) \/ AppEnds(s, k)
  PROVE  Promise!Next
<1>1. CASE AppWrites(s, k)
  <2>1. Promise!Write(s, k)
    BY <1>1 DEF AppWrites, Promise!Write, sockVars, mail
  <2> QED BY <2>1, PromiseSides DEF Promise!Next
<1>2. CASE AppEnds(s, k)
  <2>1. Promise!End(s, k)
    BY <1>2 DEF AppEnds, Promise!End, sockVars, mail
  <2> QED BY <2>1, PromiseSides DEF Promise!Next
<1> QED BY <1>1, <1>2

\* A connection that the target refuses, or that is made.
LEMMA ConnectKeeps ==
  ASSUME IInv, TypeOK', Connect
  PROVE  Promise!Next
<1>1. PICK k \in Conns : k = tox["S"].msg.uuid /\ k \notin up["S"] /\ CreationOK(k)
  BY Connecting DEF Connect
<1>2. UNCHANGED <<wrote, fin, out, shut, lost>>
  BY DEF Connect, mail
<1>3. CASE refused' = refused
  BY <1>2, <1>3, OnlyLoses DEF promised
<1>4. CASE refused' = refused \cup {k}
  <2>1. out["C"][k] = <<>> /\ out["S"][k] = <<>>
    BY <1>1, TwoSides DEF CreationOK, MadeOK
  <2>2. Promise!Refuse(k)
    BY <1>2, <1>4, <2>1 DEF Promise!Refuse
  <2> QED BY <2>2 DEF Promise!Next
<1> QED BY <1>1, <1>3, <1>4 DEF Connect

\* A descriptor is closed: the one of k, or none.
LEMMA CloseKeeps ==
  ASSUME TypeOK, TypeOK', NEW s \in Sides, NEW k \in Conns, NEW f \in Fds,
         f = 0 \/ Mine(s, k, f), Desk, Shutdown(s, f),
         UNCHANGED <<wrote, fin, out, refused, lost>>,
         k \notin shut[s] /\ f # 0 =>
           \/ k \in fin[s] \cup refused \cup lost
           \/ k \in fin[Peer(s)] /\ Given(s, k) = wrote[Peer(s)][k]
  PROVE  Promise!Next
<1>1. shut' = [shut EXCEPT ![s] = @ \cup ({files[s][f]} \cap Conns)]
  BY DEF Shutdown
<1>2. CASE files[s][f] \in Conns
  <2>1. files[s][f] = k /\ f # 0
    BY <1>2, Names, ZeroUnknown DEF Mine
  <2>2. k \notin shut[s]
    BY <1>2, <2>1 DEF Desk, FilesOK
  <2>3. shut' = [shut EXCEPT ![s] = @ \cup {k}]
    <3>1. {files[s][f]} \cap Conns = {k}
      BY <2>1
    <3> QED BY <1>1, <3>1
  <2>4. Promise!Close(s, k)
    BY <2>1, <2>2, <2>3, PromiseSides DEF Promise!Close, Promise!Delivered
  <2> QED BY <2>4, PromiseSides DEF Promise!Next
<1>3. CASE files[s][f] \notin Conns
  <2>1. {files[s][f]} \cap Conns = {}
    BY <1>3
  <2>2. shut' = [shut EXCEPT ![s] = shut[s]]
    BY <1>1, <2>1
  <2>3. shut' = shut
    BY <2>2 DEF TypeOK
  <2> QED BY <2>3, OnlyLoses DEF promised
<1> QED BY <1>2, <1>3

\* A reader closes its descriptor when its own application has ended.
LEMMA ReaderClosesKeeps ==
  ASSUME IInv, TypeOK', NEW s \in Sides, NEW k \in Conns, ReaderCloses(s, k)
  PROVE  Promise!Next
<1>0. reader[s][k].pc = "close"
  BY DEF ReaderCloses, Is
<1>1. TypeOK /\ Desk /\ ReaderOK(s, k)
  BY <1>0, Settled
<1>2. PICK f \in Fds : f = reader[s][k].sock /\ (f = 0 \/ Mine(s, k, f))
  BY <1>0, ReaderKnows
<1>3. f # 0 => k \in fin[s] \cup shut[s]
  BY <1>0, <1>1, <1>2 DEF ReaderOK, Ending
<1>4. Shutdown(s, f)
  BY <1>2 DEF ReaderCloses, CloseSock
<1>5. UNCHANGED <<wrote, fin, out, refused, lost>>
  BY DEF ReaderCloses, appVars, mail
<1> QED BY <1>1, <1>2, <1>3, <1>4, <1>5, CloseKeeps

\* A Tox thread closes a descriptor when the other side has ended.
LEMMA ToxClosesKeeps ==
  ASSUME IInv, TypeOK', NEW s \in Sides, ToxCloses(s)
  PROVE  Promise!Next
<1>0. TypeOK /\ Desk /\ ToxOK /\ tox[s].pc = "close" /\ tox[s].msg \in Messages
  BY DEF IInv, ToxCloses, Desk, TypeOK
<1>1. PICK k \in Conns : k = tox[s].msg.uuid
  BY <1>0 DEF Messages
<1>2. PICK f \in Fds : f = tox[s].sock /\ (f = 0 \/ Mine(s, k, f))
  <2>1. tox[s] \in Tasks
    BY <1>0 DEF TypeOK
  <2> QED BY <2>1, <1>0, <1>1 DEF ToxOK, Tasks
<1>3. PICK p \in Sides : p = Peer(s) /\ Peer(p) = s
  BY TwoSides
<1>4. Doing(s, k) = "close" /\ EndOK(p, k)
  BY <1>0, <1>1 DEF Doing, IInv, Life
<1>5. Excused(s, k) \/ (k \in fin[p] /\ Given(s, k) = wrote[p][k])
  BY <1>3, <1>4 DEF EndOK
<1>6. Shutdown(s, f)
  BY <1>2 DEF ToxCloses, CloseSock
<1>7. UNCHANGED <<wrote, fin, out, refused, lost>>
  BY DEF ToxCloses, appVars, mail
<1> QED BY <1>0, <1>2, <1>3, <1>5, <1>6, <1>7, CloseKeeps DEF Excused

\* A piece is dropped, and a descriptor that is closed is shut down.
LEMMA LabelKeeps ==
  ASSUME IInv, TypeOK', NEW s \in Sides, NEW k \in Conns,
         Label(s, k) \/ (s = "S" /\ LabelAddr(k))
  PROVE  Promise!Next
<1>0. reader[s][k].pc \in {"got", "addr"}
  BY DEF Label, LabelAddr, Is
<1>1. TypeOK /\ Desk /\ ReaderOK(s, k)
  BY <1>0, Settled
<1>2. PICK f \in Fds : f = reader[s][k].sock
  BY <1>0, ReaderKnows
<1>3. UNCHANGED <<wrote, fin, out, refused, lost>>
  BY DEF Label, LabelAddr, appVars, mail
<1>4. f # 0 /\ Mine(s, k, f)
  BY <1>0, <1>1, <1>2 DEF ReaderOK, Holding
<1>5. k \notin shut[s] => UuidOf(s, f) = k /\ WithSock(s, f) # {}
  BY <1>0, <1>2, <1>4, ReaderKnows
<1>6. CASE k \notin shut[s]
  <2>1. UuidOf(s, f) # NoUuid /\ WithSock(s, f) # {}
    BY <1>5, <1>6, Names
  <2>2. UNCHANGED shut
    BY <1>2, <2>1 DEF Label, LabelAddr
  <2> QED BY <1>3, <2>2, OnlyLoses DEF promised
<1>7. CASE k \in shut[s]
  <2>1. UNCHANGED shut \/ Shutdown(s, f)
    BY <1>2 DEF Label, LabelAddr
  <2>2. CASE UNCHANGED shut
    BY <1>3, <2>2, OnlyLoses DEF promised
  <2>3. CASE Shutdown(s, f)
    BY <1>1, <1>3, <1>4, <1>7, <2>3, CloseKeeps
  <2> QED BY <2>1, <2>2, <2>3
<1> QED BY <1>6, <1>7

\* What is written to an application is the next piece of the other
\* application's stream, or, once messages were lost, a later one.
LEMMA WriteDataKeeps ==
  ASSUME IInv, TypeOK', NEW s \in Sides, WriteData(s)
  PROVE  Promise!Next
<1>0. TypeOK /\ Desk /\ tox[s].pc = "write"
  BY DEF IInv, WriteData
<1>1. PICK m : m = tox[s].msg
  OBVIOUS
<1>2. PICK k : k = m.uuid
  OBVIOUS
<1>3. /\ m \in Messages /\ k \in Conns /\ m.cmd = "RAW_DATA"
      /\ Writing(s) = <<m>>
      /\ k \in shut[s] => files[s][tox[s].sock] \notin Conns
      /\ k \notin shut[s] => files[s][tox[s].sock] = k
  BY <1>0, <1>1, <1>2, WrittenFacts
<1>4. /\ UNCHANGED <<wrote, fin, shut, refused, lost, net, held>>
      /\ out' = IF files[s][tox[s].sock] \in Conns \ shut[s]
                THEN [out EXCEPT ![s][files[s][tox[s].sock]] = Append(@, m.data)]
                ELSE out
  BY <1>1 DEF WriteData, sockVars, appVars, mail
<1>5. PICK p \in Sides : p = Peer(s) /\ Peer(p) = s /\ p # s
  BY TwoSides
<1>6. Writing(s)' = <<>> /\ Writing(p)' = Writing(p)
  <2>1. tox'[s].pc = "idle" /\ tox'[p] = tox[p]
    BY <1>0, <1>5 DEF WriteData, ToxIdle, Idle, TypeOK
  <2> QED BY <2>1 DEF Writing
<1>7. Has(Pipe(p), k, "RAW_DATA") /\ Left(p, k, m)
  <2>1. net'[s] = net[s] /\ net'[p] = net[p] /\ held' = held
    BY <1>4
  <2> QED BY <2>1, <1>0, <1>2, <1>3, <1>5, <1>6, Handles
<1>8. k \in up["S"] /\ CreationOK(k)
  BY <1>3, <1>5, <1>7, Heard
<1>9. k \notin refused
  BY <1>8 DEF CreationOK, MadeOK
<1>10. PICK low : low = Given(s, k)
  OBVIOUS
<1>11. PICK top : top = Top(p, k)
  OBVIOUS
<1>12. StreamOK(p, k) /\ ReaderOK(p, k)
  BY <1>3, <1>5 DEF IInv, Life
<1>13. /\ low \in Nat /\ top \in Nat /\ top <= wrote[p][k]
       /\ Flow(Pipe(p), k, low, top)
       /\ k \notin lost \cup shut[s] => Connected(Pipe(p), k, low)
  <2>1. /\ low \in Nat /\ low <= top /\ Flow(Pipe(p), k, low, top)
        /\ k \notin lost \cup shut[s] => Connected(Pipe(p), k, low)
    BY <1>5, <1>10, <1>11, <1>12 DEF StreamOK
  <2>2. taken[p][k] \in Nat /\ wrote[p][k] \in Nat
    BY <1>0, <1>3, ReaderTyped
  <2>3. taken[p][k] <= wrote[p][k]
    BY <1>12 DEF ReaderOK
  <2>4. top \in Int /\ top <= taken[p][k]
    BY <1>11, <2>2 DEF Top
  <2> QED BY <2>1, <2>2, <2>3, <2>4
<1>14. Shorter(Pipe(p)', Pipe(p)) /\ Piece(Head(Pipe(p)), k) /\ Head(Pipe(p)) = m
  BY <1>3, <1>7 DEF Left, Piece
<1>15. PICK n : n = Num(m)
  OBVIOUS
<1>16. /\ m.data = <<k, n>> /\ n \in low + 1..top
       /\ Connected(Pipe(p), k, low) => n = low + 1
  BY <1>13, <1>14, <1>15, PieceLeft
<1>17. CASE k \in shut[s]
  <2>1. out' = out
    BY <1>3, <1>4, <1>17
  <2> QED BY <1>4, <2>1, OnlyLoses DEF promised
<1>18. CASE k \notin shut[s]
  <2>1. files[s][tox[s].sock] = k
    BY <1>3, <1>18
  <2>2. out' = [out EXCEPT ![s][k] = Append(@, <<k, n>>)]
    BY <1>3, <1>4, <1>16, <1>18, <2>1
  <2>3. n \in low + 1..wrote[p][k]
    <3>1. wrote[p][k] \in Nat
      BY <1>0, <1>3, ReaderTyped
    <3> QED BY <1>13, <1>16, <3>1
  <2>4. n = low + 1 \/ k \in lost
    BY <1>13, <1>16, <1>18
  <2>5. Promise!Given(s, k) = low /\ Promise!Peer(s) = p
    BY <1>5, <1>10, PromiseSides
  <2>6. Promise!Deliver(s, k)
    BY ZenonT(60), <1>4, <1>9, <1>18, <2>2, <2>3, <2>4, <2>5 DEF Promise!Deliver
  <2> QED BY <1>3, <2>6, PromiseSides DEF Promise!Next
<1> QED BY <1>17, <1>18

\* Every step keeps the promise.
LEMMA Promised ==
  ASSUME IInv, TypeOK', Next
  PROVE  Promise!Next
<1>1. CASE \/ Reconnect \/ \E s \in Sides : Disconnect(s)
           \/ MainStep \/ ToxStepOfC
  BY <1>1, QuietSteps, OnlyLoses
<1>2. CASE ToxStepOfS
  <2>1. CASE Connect
    BY <2>1, ConnectKeeps
  <2>2. CASE OnCreateSock \/ AddConnected \/ SetUuid
    BY <2>2, QuietSteps, OnlyLoses
  <2> QED BY <1>2, <2>1, <2>2 DEF ToxStepOfS
<1>3. ASSUME NEW k \in Conns, ServerReaderStep(k)
      PROVE  Promise!Next
  <2>1. CASE LabelAddr(k)
    BY <2>1, LabelKeeps, TwoSides
  <2>2. CASE TakeAddr(k) \/ SendSuccess(k)
    BY <2>2, QuietSteps, OnlyLoses
  <2> QED BY <1>3, <2>1, <2>2 DEF ServerReaderStep
<1>4. ASSUME NEW s \in Sides, ToxStep(s)
      PROVE  Promise!Next
  <2>1. CASE WriteData(s)
    BY <2>1, WriteDataKeeps
  <2>2. CASE ToxCloses(s)
    BY <2>2, ToxClosesKeeps
  <2>3. CASE OnRawData(s) \/ Deny(s) \/ OnCloseSock(s) \/ SendHeld(s)
    BY <2>3, QuietSteps, OnlyLoses
  <2> QED BY <1>4, <2>1, <2>2, <2>3 DEF ToxStep
<1>5. ASSUME NEW s \in Sides, NEW k \in Conns, ReaderStep(s, k)
      PROVE  Promise!Next
  <2>1. CASE Label(s, k)
    BY <2>1, LabelKeeps
  <2>2. CASE ReaderCloses(s, k)
    BY <2>2, ReaderClosesKeeps
  <2>3. CASE \/ TakeUuid(s, k) \/ Read(s, k) \/ ReadData(s, k) \/ ReadEnd(s, k)
             \/ SendData(s, k) \/ LookBack(s, k) \/ TellClosed(s, k)
    BY <2>3, QuietSteps, OnlyLoses
  <2> QED BY <1>5, <2>1, <2>2, <2>3 DEF ReaderStep
<1>6. CASE \E s \in Sides, k \in Conns : AppWrites(s, k) \/ AppEnds(s, k)
  BY <1>6, AppsKeep
<1> QED BY <1>1, <1>2, <1>3, <1>4, <1>5, <1>6 DEF Next

\* As long as no number that a thread still works on is given out the tunnel
\* is as good as the connections of Link: it implements that specification.
THEOREM Implementation ==
  Spec /\ NoHeldNumber => KeepsPromise
<1>1. Init => Promise!Init
  BY PromiseSides DEF Init, Promise!Init
<1>2. IInv /\ IInv' /\ [Next]_vars => [Promise!Next]_(Promise!vars)
  <2>1. ASSUME IInv, IInv', Next
        PROVE  Promise!Next
    BY <2>1, Promised DEF IInv
  <2>2. UNCHANGED vars => UNCHANGED Promise!vars
    BY DEF vars, sockVars, appVars, mail, Promise!vars
  <2> QED BY <2>1, <2>2
<1>3. Spec /\ NoHeldNumber => Promise!Init /\ [][Promise!Next]_(Promise!vars)
  BY <1>1, <1>2, Invariance, PTL DEF Spec
<1> QED BY <1>3 DEF KeepsPromise, Promise!Spec

-----------------------------------------------------------------------------
(* What the two sides notice of each other.                                 *)

\* Side p has told the other side to close k, and it has not done so yet.
Telling(p, k) == Has(Pipe(p), k, "CLOSE_SOCK") \/ Doing(Peer(p), k) = "close"

\* The reader of side p is about to close k.
Leaving(p, k) == reader[p][k].pc = "close" /\ reader[p][k].sock # 0

\* A reader knows its uuid as long as k is not closed.
KnowsUuid(p, k) ==
  reader[p][k].pc \notin {"none", "start", "uuid", "done"} =>
    reader[p][k].sock = 0 \/ reader[p][k].uuid = k \/ k \in shut[p]

\* What side p closes side s gets to know of, and closes too.
SideNotices(p, s, k) ==
  /\ Leaving(p, k) => k \in shut[p] \cup shut[s] \/ Telling(p, k)
  /\ k \in shut[p] =>
       k \in shut[s] \cup refused \/ Telling(p, k) \/ Leaving(s, k)
  /\ Telling(p, k) => k \in shut[p] \cup refused \/ Leaving(p, k)
  /\ Doing(p, k) = "close" =>
       tox[p].sock # 0 \/ k \in shut[p] \/ (p = "S" /\ k \in refused)
  /\ KnowsUuid(p, k)

\* A connection that side C has accepted is made or refused, and side C gets
\* to know when it is refused.
CreationNotices(k) ==
  /\ k \in up["C"] => \/ Accepting(k) \/ Has(Pipe("C"), k, "CREATE_SOCK")
                      \/ Doing("S", k) = "connect" \/ k \in up["S"] \cup refused
  /\ k \in refused => \/ Doing("S", k) = "deny" \/ Telling("S", k)
                      \/ k \in shut["C"]

\* Nobody misses what the other side does, unless a message of k was lost.
Notices(k) == k \in lost \/ /\ SideNotices("C", "S", k)
                            /\ SideNotices("S", "C", k)
                            /\ CreationNotices(k)

\* No message that side s or the other one could miss has come or gone.
Tells(k) == k \in lost' \/ \A p \in Sides :
              /\ Has(Pipe(p)', k, "CLOSE_SOCK") <=> Has(Pipe(p), k, "CLOSE_SOCK")
              /\ Has(Pipe(p)', k, "CREATE_SOCK") <=> Has(Pipe(p), k, "CREATE_SOCK")

\* A pipe that loses no message of k tells the same.
LEMMA FlowsTells ==
  ASSUME NEW k, Flows(k)
  PROVE  Tells(k)
<1>1. SUFFICES ASSUME k \notin lost', NEW p \in Sides, NEW cmd
               PROVE  Has(Pipe(p)', k, cmd) <=> Has(Pipe(p), k, cmd)
  BY DEF Tells
<1>2. PartOf(Pipe(p)', Pipe(p), k) /\ Keeps(Pipe(p)', Pipe(p), k)
  BY <1>1 DEF Flows
<1> HIDE DEF Pipe
<1>3. Has(Pipe(p)', k, cmd) => Has(Pipe(p), k, cmd)
  BY <1>2 DEF PartOf, Has
<1>4. Has(Pipe(p), k, cmd) => Has(Pipe(p)', k, cmd)
  BY <1>2 DEF Keeps, Has
<1> QED BY <1>3, <1>4

\* Nothing happens to k that a side could miss.
Rests(k) ==
  /\ k \in lost => k \in lost'
  /\ \A p \in Sides :
       /\ k \in shut'[p] <=> k \in shut[p]
       /\ \/ reader'[p][k] = reader[p][k]
          \/ reader[p][k].pc = "none" /\ reader'[p][k].pc = "start"
       /\ \/ Doing(p, k)' = Doing(p, k)
          \/ /\ Doing(p, k) \notin {"close", "connect", "deny"}
             /\ Doing(p, k)' \notin {"close", "connect"}
       /\ Doing(p, k) = "close" => tox'[p].sock = tox[p].sock
  /\ k \in refused' <=> k \in refused
  /\ k \in up'["C"] => k \in up["C"] \/ Accepting(k)'
  /\ k \in up["S"] => k \in up'["S"]
  /\ Accepting(k) => Accepting(k)'
  /\ Tells(k)

\* Where nothing happens that a side could miss, none misses anything.
LEMMA RestsNotices ==
  ASSUME NEW k \in Conns, Notices(k), Rests(k)
  PROVE  Notices(k)'
<1>1. CASE k \in lost'
  BY <1>1 DEF Notices
<1>2. CASE k \notin lost'
  <2>1. \A p \in Sides :
          /\ Has(Pipe(p)', k, "CLOSE_SOCK") <=> Has(Pipe(p), k, "CLOSE_SOCK")
          /\ Has(Pipe(p)', k, "CREATE_SOCK") <=> Has(Pipe(p), k, "CREATE_SOCK")
    BY <1>2 DEF Rests, Tells
  <2>2. \A p \in Sides : Peer(p) \in Sides
    BY TwoSides
  <2>a. \A p \in Sides : Doing(p, k)' = "close" <=> Doing(p, k) = "close"
    BY DEF Rests
  <2>3. \A p \in Sides : /\ Telling(p, k)' <=> Telling(p, k)
                         /\ Leaving(p, k)' <=> Leaving(p, k)
                         /\ KnowsUuid(p, k) => KnowsUuid(p, k)'
    <3>1. \A p \in Sides : Telling(p, k)' <=> Telling(p, k)
      BY <2>1, <2>2, <2>a DEF Telling
    <3>2. \A p \in Sides : /\ Leaving(p, k)' <=> Leaving(p, k)
                           /\ KnowsUuid(p, k) => KnowsUuid(p, k)'
      BY DEF Rests, Leaving, KnowsUuid
    <3> QED BY <3>1, <3>2
  <2>4. "C" \in Sides /\ "S" \in Sides
    BY TwoSides
  <2>5. SideNotices("C", "S", k) /\ SideNotices("S", "C", k) /\ CreationNotices(k)
    BY <1>2 DEF Notices, Rests
  <2>6. SideNotices("C", "S", k)' /\ SideNotices("S", "C", k)'
    BY <2>3, <2>4, <2>5, <2>a DEF SideNotices, Rests
  <2>7. CreationNotices(k)'
    <3>1. /\ Doing("S", k) = "connect" => Doing("S", k)' = "connect"
          /\ Doing("S", k) = "deny" => Doing("S", k)' = "deny"
      BY <2>4 DEF Rests
    <3> QED BY <2>1, <2>3, <2>4, <2>5, <3>1 DEF CreationNotices, Rests
  <2> QED BY <2>6, <2>7 DEF Notices
<1> QED BY <1>1, <1>2

\* A reader moves that does not begin to close k, or finds k closed.
LEMMA ReaderNotices ==
  ASSUME IInv, \A j \in Conns : Notices(j), NEW s \in Sides, NEW k \in Conns,
         NEW r, Now(s, k, r),
         UNCHANGED <<shut, up, refused, net, held, lost, tox, main>>,
         reader[s][k].pc # "close",
         \/ k \in lost
         \/ KnowsUuid(s, k)' /\ (r.pc = "close" /\ r.sock # 0 => k \in shut[s])
  PROVE  \A j \in Conns : Notices(j)'
<1>0. TypeOK
  BY DEF IInv
<1>1. \A q \in Sides, c \in Conns :
        reader'[q][c] = IF q = s /\ c = k THEN r ELSE reader[q][c]
  BY <1>0, NowTyped
<1>2. /\ \A p \in Sides : Pipe(p)' = Pipe(p)
      /\ \A j : Flows(j)
  BY <1>0, MailStays DEF Writing
<1>3. \A p \in Sides, j \in Conns : /\ Doing(p, j)' = Doing(p, j)
                                    /\ Accepting(j)' <=> Accepting(j)
  BY DEF Doing, Accepting
<1>4. ASSUME NEW j \in Conns, j # k PROVE Notices(j)'
  <2>1. Rests(j)
    BY <1>1, <1>2, <1>3, <1>4, FlowsTells, TwoSides DEF Rests
  <2> QED BY <2>1, RestsNotices
<1>5. Notices(k)'
  <2>1. PICK p \in Sides : p = Peer(s) /\ Peer(p) = s /\ p # s
                           /\ \A q \in Sides : q = p \/ q = s
    BY TwoSides
  <2>2. \A q \in Sides : /\ Telling(q, k)' <=> Telling(q, k)
                         /\ Has(Pipe(q), k, "CREATE_SOCK")' <=> Has(Pipe(q), k, "CREATE_SOCK")
    BY <1>2, <1>3, TwoSides DEF Telling
  <2>3. /\ Leaving(p, k)' <=> Leaving(p, k)
        /\ KnowsUuid(p, k)' <=> KnowsUuid(p, k)
        /\ k \notin lost /\ Leaving(s, k)' => k \in shut[s]
        /\ k \notin lost => KnowsUuid(s, k)'
        /\ ~ Leaving(s, k)
    BY <1>1, <2>1 DEF Leaving, KnowsUuid
  <2>4. "C" \in Sides /\ "S" \in Sides /\ "C" # "S"
    BY TwoSides
  <2>5. CASE k \in lost
    BY <2>5 DEF Notices
  <2>6. CASE k \notin lost
    <3>1. SideNotices("C", "S", k) /\ SideNotices("S", "C", k) /\ CreationNotices(k)
      BY <2>6 DEF Notices
    <3>2. (p = "C" /\ s = "S") \/ (p = "S" /\ s = "C")
      BY <2>1, <2>4 DEF Sides
    <3>3. SideNotices("C", "S", k)' /\ SideNotices("S", "C", k)'
      BY <1>3, <2>2, <2>3, <2>4, <2>6, <3>1, <3>2 DEF SideNotices
    <3>4. CreationNotices(k)'
      BY <1>3, <2>2, <2>4, <3>1 DEF CreationNotices
    <3> QED BY <3>3, <3>4 DEF Notices
  <2> QED BY <2>5, <2>6
<1> QED BY <1>4, <1>5

-----------------------------------------------------------------------------
(* Readers notice.                                                          *)

\* What a reader's turn leaves alone.
TurnLeaves == UNCHANGED <<shut, up, refused, net, held, lost, tox, main>>

\* A reader moves that does not begin to close its descriptor.
LEMMA TurnNotices ==
  ASSUME IInv, \A j \in Conns : Notices(j), NEW s \in Sides, NEW k \in Conns,
         NEW r, Now(s, k, r), TurnLeaves,
         reader[s][k].pc \notin {"none", "start", "uuid", "done", "close"},
         r.pc # "close", r.sock = reader[s][k].sock, r.uuid = reader[s][k].uuid
  PROVE  \A j \in Conns : Notices(j)'
<1>0. TypeOK
  BY DEF IInv
<1>1. reader'[s][k] = r
  BY <1>0, NowTyped
<1>2. k \in lost \/ KnowsUuid(s, k)
  BY TwoSides DEF Notices, SideNotices, Sides
<1>3. k \in lost \/ KnowsUuid(s, k)'
  BY <1>1, <1>2 DEF KnowsUuid, TurnLeaves
<1> QED BY <1>3, ReaderNotices DEF TurnLeaves

\* A reader takes the address.
LEMMA TakeAddrNotices ==
  ASSUME IInv, \A j \in Conns : Notices(j), NEW k \in Conns, TakeAddr(k)
  PROVE  \A j \in Conns : Notices(j)'
<1> DEFINE o == reader["S"][k]
           r == [o EXCEPT !.pc = "uuid", !.addr = WithSock("S", o.sock) # {}]
<1>0. TypeOK /\ "S" \in Sides /\ o \in Readers /\ o.pc = "start"
  BY TwoSides, ReaderTyped DEF IInv, TakeAddr, Is
<1>1. Now("S", k, r) /\ TurnLeaves
  BY DEF TakeAddr, TurnLeaves, sockVars, appVars, mail
<1>2. r.pc = "uuid"
  BY <1>0 DEF Readers
<1> HIDE DEF r
<1>3. reader'["S"][k] = r
  BY <1>0, <1>1, NowTyped
<1>4. KnowsUuid("S", k)'
  BY <1>2, <1>3 DEF KnowsUuid
<1> QED BY <1>0, <1>1, <1>2, <1>4, ReaderNotices DEF TurnLeaves

\* A reader takes its uuid, or none when k is closed.
LEMMA TakeUuidNotices ==
  ASSUME IInv, \A j \in Conns : Notices(j), NEW s \in Sides, NEW k \in Conns,
         TakeUuid(s, k)
  PROVE  \A j \in Conns : Notices(j)'
<1> DEFINE o == reader[s][k]
           u == UuidOf(s, o.sock)
           pc == IF s = "C" THEN "read" ELSE IF u = NoUuid THEN "done" ELSE "success"
           r == [o EXCEPT !.uuid = u, !.pc = pc]
<1>0. TypeOK /\ o \in Readers /\ o.pc \in {"start", "uuid"}
  BY ReaderTyped DEF IInv, TakeUuid, Is
<1>1. Now(s, k, r) /\ TurnLeaves
  BY DEF TakeUuid, TurnLeaves, sockVars, appVars, mail
<1>2. r.pc # "close" /\ r.uuid = u /\ r.sock = o.sock
  <2>1. pc # "close"
    OBVIOUS
  <2> HIDE DEF pc, u
  <2> QED BY <1>0, <2>1 DEF Readers
<1>3. o.sock = 0 \/ u = k \/ k \in shut[s]
  BY <1>0, ReaderKnows
<1> HIDE DEF r, u
<1>4. reader'[s][k] = r
  BY <1>0, <1>1, NowTyped
<1>5. KnowsUuid(s, k)'
  BY <1>1, <1>2, <1>3, <1>4 DEF KnowsUuid, TurnLeaves
<1>6. o.pc # "close"
  BY <1>0
<1> QED BY <1>1, <1>2, <1>5, <1>6, ReaderNotices DEF TurnLeaves

\* A reader reads.
LEMMA ReadNotices ==
  ASSUME IInv, \A j \in Conns : Notices(j), NEW s \in Sides, NEW k \in Conns,
         Read(s, k) \/ ReadData(s, k) \/ ReadEnd(s, k)
  PROVE  \A j \in Conns : Notices(j)'
<1>0. reader[s][k] \in Readers
  BY ReaderTyped DEF IInv
<1>1. CASE Read(s, k)
  <2> DEFINE o == reader[s][k]
             file == files[s][o.sock]
             pc == IF file \in {NoFile, Leaked} THEN "end" ELSE "blocked"
             r == [o EXCEPT !.file = file, !.pc = pc]
  <2>1. Now(s, k, r) /\ TurnLeaves /\ o.pc = "read"
    BY <1>1 DEF Read, Is, TurnLeaves, sockVars, appVars, mail
  <2>2. r.pc # "close" /\ r.sock = o.sock /\ r.uuid = o.uuid
    <3>1. pc # "close"
      OBVIOUS
    <3> HIDE DEF pc, file
    <3> QED BY <1>0, <3>1 DEF Readers
  <2> HIDE DEF r
  <2> QED BY <2>1, <2>2, TurnNotices
<1>2. CASE ReadData(s, k)
  <2> DEFINE o == reader[s][k]
             r == [o EXCEPT !.pc = "got", !.file = NoFile,
                            !.data = <<o.file, taken[s][o.file] + 1>>]
  <2>1. Now(s, k, r) /\ TurnLeaves /\ o.pc = "blocked"
    BY <1>2 DEF ReadData, Is, TurnLeaves, sockVars, appVars, mail
  <2>2. r.pc # "close" /\ r.sock = o.sock /\ r.uuid = o.uuid
    BY <1>0 DEF Readers
  <2> HIDE DEF r
  <2> QED BY <2>1, <2>2, TurnNotices
<1>3. CASE ReadEnd(s, k)
  <2> DEFINE o == reader[s][k]
             r == [o EXCEPT !.pc = "end", !.file = NoFile]
  <2>1. Now(s, k, r) /\ TurnLeaves /\ o.pc = "blocked"
    BY <1>3 DEF ReadEnd, Is, TurnLeaves, sockVars, appVars, mail
  <2>2. r.pc # "close" /\ r.sock = o.sock /\ r.uuid = o.uuid
    BY <1>0 DEF Readers
  <2> HIDE DEF r
  <2> QED BY <2>1, <2>2, TurnNotices
<1> QED BY <1>1, <1>2, <1>3

\* A reader that finds no record goes on to close what is closed already.
LEMMA LookBackNotices ==
  ASSUME IInv, \A j \in Conns : Notices(j), NEW s \in Sides, NEW k \in Conns,
         LookBack(s, k)
  PROVE  \A j \in Conns : Notices(j)'
<1> DEFINE o == reader[s][k]
           pc == IF SockOf(s, o.uuid) # 0 THEN "tell" ELSE "close"
           r == [o EXCEPT !.pc = pc]
<1>0. TypeOK /\ Desk /\ o \in Readers /\ o.pc = "end"
  BY ReaderTyped DEF IInv, LookBack, Is
<1>1. Now(s, k, r) /\ TurnLeaves
  BY DEF LookBack, Goto, TurnLeaves, sockVars, appVars, mail
<1>2. r.pc = pc /\ r.uuid = o.uuid /\ r.sock = o.sock
  <2> HIDE DEF pc
  <2> QED BY <1>0 DEF Readers
<1>3. k \in lost \/ KnowsUuid(s, k)
  BY TwoSides DEF Notices, SideNotices, Sides
<1>4. ASSUME k \notin lost, pc = "close", o.sock # 0
      PROVE  k \in shut[s]
  <2>1. o.uuid = k \/ k \in shut[s]
    BY <1>0, <1>3, <1>4 DEF KnowsUuid
  <2>2. CASE o.uuid = k
    <3>1. ~ HasRecord(s, k)
      BY <1>0, <1>4, <2>2, Found
    <3>2. ~ Creating(s, k) /\ Mine(s, k, o.sock)
      BY <1>0, <1>4, Settled, ReaderKnows
    <3>3. k \in up[s] /\ FilesOK(s)
      BY <1>0, <3>2 DEF Mine, Desk
    <3> QED BY <3>1, <3>2, <3>3 DEF FilesOK
  <2> QED BY <2>1, <2>2
<1> HIDE DEF r, pc
<1>5. reader'[s][k] = r
  BY <1>0, <1>1, NowTyped
<1>6. k \in lost \/ KnowsUuid(s, k)'
  BY <1>0, <1>1, <1>2, <1>3, <1>5 DEF KnowsUuid, TurnLeaves
<1>7. \/ k \in lost
      \/ KnowsUuid(s, k)' /\ (r.pc = "close" /\ r.sock # 0 => k \in shut[s])
  BY <1>2, <1>4, <1>6
<1> QED BY <1>0, <1>1, <1>7, ReaderNotices DEF TurnLeaves

\* A piece that the list has no uuid for is dropped, and the descriptor shut
\* down once more.
LEMMA LabelNotices ==
  ASSUME IInv, \A j \in Conns : Notices(j), NEW s \in Sides, NEW k \in Conns,
         Label(s, k) \/ (s = "S" /\ LabelAddr(k))
  PROVE  \A j \in Conns : Notices(j)'
<1> DEFINE o == reader[s][k]
<1>0. TypeOK /\ Desk /\ o \in Readers /\ o.pc \in {"got", "addr"}
  BY ReaderTyped DEF IInv, Label, LabelAddr, Is
<1>1. ReaderOK(s, k)
  BY <1>0, Settled
<1>2. o.sock # 0
  BY <1>0, <1>1 DEF ReaderOK, Holding
<1>3. k \notin shut[s] => UuidOf(s, o.sock) = k /\ WithSock(s, o.sock) # {}
  BY <1>0, <1>2, ReaderKnows
<1>4. k \in shut[s] => files[s][o.sock] = NoFile
  BY <1>0, <1>2, ReaderKnows
<1>5. k # NoUuid /\ NoFile \notin Conns
  BY Names
<1>6. shut' = shut
  <2>1. \/ UNCHANGED shut
        \/ Shutdown(s, o.sock) /\ (UuidOf(s, o.sock) = NoUuid \/ WithSock(s, o.sock) = {})
    BY DEF Label, LabelAddr
  <2>2. CASE UNCHANGED shut
    BY <2>2
  <2>3. CASE Shutdown(s, o.sock) /\ (UuidOf(s, o.sock) = NoUuid \/ WithSock(s, o.sock) = {})
    <3>1. files[s][o.sock] = NoFile
      BY <1>3, <1>4, <1>5, <2>3
    <3> QED BY <1>0, <1>5, <2>3, <3>1, ShutsNothing
  <2> QED BY <2>1, <2>2, <2>3
<1>7. \/ Now(s, k, [o EXCEPT !.pc = "read", !.data = <<>>])
      \/ Now(s, k, [o EXCEPT !.pc = "read", !.data = <<>>, !.label = NoUuid])
      \/ Now(s, k, [o EXCEPT !.label = UuidOf(s, o.sock),
                             !.pc = IF s = "S" THEN "addr" ELSE "send"])
      \/ Now(s, k, [o EXCEPT !.pc = "send"])
  BY DEF Label, LabelAddr, Goto
<1>8. PICK r : Now(s, k, r) /\ r.pc # "close" /\ r.sock = o.sock /\ r.uuid = o.uuid
  <2>1. CASE Now(s, k, [o EXCEPT !.pc = "read", !.data = <<>>])
    <3> WITNESS [o EXCEPT !.pc = "read", !.data = <<>>]
    <3> QED BY <1>0, <2>1 DEF Readers
  <2>2. CASE Now(s, k, [o EXCEPT !.pc = "read", !.data = <<>>, !.label = NoUuid])
    <3> WITNESS [o EXCEPT !.pc = "read", !.data = <<>>, !.label = NoUuid]
    <3> QED BY <1>0, <2>2 DEF Readers
  <2>3. CASE Now(s, k, [o EXCEPT !.label = UuidOf(s, o.sock),
                                 !.pc = IF s = "S" THEN "addr" ELSE "send"])
    <3> DEFINE u == UuidOf(s, o.sock)
               pc == IF s = "S" THEN "addr" ELSE "send"
    <3>1. pc # "close"
      OBVIOUS
    <3>2. Now(s, k, [o EXCEPT !.label = u, !.pc = pc])
      BY <2>3
    <3> HIDE DEF u, pc
    <3> WITNESS [o EXCEPT !.label = u, !.pc = pc]
    <3> QED BY <1>0, <3>1, <3>2 DEF Readers
  <2>4. CASE Now(s, k, [o EXCEPT !.pc = "send"])
    <3> WITNESS [o EXCEPT !.pc = "send"]
    <3> QED BY <1>0, <2>4 DEF Readers
  <2> QED BY <1>7, <2>1, <2>2, <2>3, <2>4
<1>9. TurnLeaves
  BY <1>6 DEF Label, LabelAddr, TurnLeaves, appVars, mail
<1> QED BY <1>0, <1>8, <1>9, TurnNotices

\* What the two sides notice of each other, seen from either.
LEMMA NoticesOfBoth ==
  ASSUME NEW s \in Sides, NEW k
  PROVE  /\ Notices(k) <=> k \in lost \/ /\ SideNotices(s, Peer(s), k)
                                         /\ SideNotices(Peer(s), s, k)
                                         /\ CreationNotices(k)
         /\ Notices(k)' <=> k \in lost' \/ /\ SideNotices(s, Peer(s), k)'
                                           /\ SideNotices(Peer(s), s, k)'
                                           /\ CreationNotices(k)'
<1>1. CASE s = "C"
  BY <1>1 DEF Notices, Peer
<1>2. CASE s = "S"
  BY <1>2 DEF Notices, Peer
<1> QED BY <1>1, <1>2 DEF Sides

\* A message that is not lost is behind the others.
LEMMA SentHas ==
  ASSUME NEW s \in Sides, NEW k, NEW m, Sent(s, k, m), k \notin lost'
  PROVE  \A cmd : Has(Pipe(s)', k, cmd) <=>
                    Has(Pipe(s), k, cmd) \/ (m.uuid = k /\ m.cmd = cmd)
<1>1. Longer(Pipe(s)', Pipe(s), m)
  BY DEF Sent
<1> HIDE DEF Pipe
<1> QED BY <1>1, Grown

\* The reader of k moves and sends a message of k.
LEMMA ReaderPostsNotices ==
  ASSUME IInv, \A j \in Conns : Notices(j), NEW s \in Sides, NEW k \in Conns,
         NEW r, NEW cmd, NEW data, ReaderPosts(s, k, r, cmd, data),
         reader[s][k].pc \notin {"none", "start", "uuid", "done", "close"},
         r.sock = reader[s][k].sock, r.uuid = reader[s][k].uuid,
         cmd # "CREATE_SOCK", r.pc = "close" <=> cmd = "CLOSE_SOCK",
         cmd = "CLOSE_SOCK" => r.sock # 0
  PROVE  \A j \in Conns : Notices(j)'
<1> DEFINE m == Message(cmd, k, data)
<1>0. TypeOK /\ Desk
  BY DEF IInv
<1>1. /\ \A j \in Conns : Grows(j)
      /\ \A j : j # k => Flows(j)
      /\ Pipe(Peer(s))' = Pipe(Peer(s)) /\ Sent(s, k, m)
      /\ \A q \in Sides, c \in Conns :
           reader'[q][c] = IF q = s /\ c = k THEN r ELSE reader[q][c]
      /\ \A q \in Sides, c \in Conns : /\ Doing(q, c)' = Doing(q, c)
                                       /\ Accepting(c)' <=> Accepting(c)
  BY <1>0, PostsBase
<1>2. m.uuid = k /\ m.cmd = cmd
  BY DEF Message
<1>3. UNCHANGED <<shut, up, refused, tox, main>>
  BY DEF ReaderPosts, sockVars, appVars
<1> HIDE DEF m
<1>4. ASSUME NEW j \in Conns, j # k PROVE Notices(j)'
  <2>1. Rests(j)
    BY <1>1, <1>3, <1>4, FlowsTells, TwoSides DEF Rests, Grows
  <2> QED BY <2>1, RestsNotices
<1>5. Notices(k)'
  <2>1. CASE k \in lost'
    BY <2>1, NoticesOfBoth
  <2>2. CASE k \notin lost'
    <3>1. k \notin lost
      BY <1>1, <2>2 DEF Grows
    <3>2. PICK p \in Sides : p = Peer(s) /\ Peer(p) = s /\ p # s
                             /\ \A q \in Sides : q = p \/ q = s
      BY TwoSides
    <3>3. /\ \A c : Has(Pipe(s)', k, c) <=> Has(Pipe(s), k, c) \/ cmd = c
          /\ \A c : Has(Pipe(p)', k, c) <=> Has(Pipe(p), k, c)
      BY <1>1, <1>2, <2>2, <3>2, SentHas
    <3>4. /\ Telling(s, k)' <=> Telling(s, k) \/ cmd = "CLOSE_SOCK"
          /\ Telling(p, k)' <=> Telling(p, k)
      BY <1>1, <3>2, <3>3 DEF Telling
    <3>5. /\ Leaving(p, k)' <=> Leaving(p, k)
          /\ Leaving(s, k)' <=> cmd = "CLOSE_SOCK"
          /\ ~ Leaving(s, k)
          /\ KnowsUuid(p, k)' <=> KnowsUuid(p, k)
      BY <1>1, <1>3, <3>2 DEF Leaving, KnowsUuid
    <3>6. SideNotices(s, p, k) /\ SideNotices(p, s, k) /\ CreationNotices(k)
      BY <3>1, <3>2, NoticesOfBoth
    <3>7. KnowsUuid(s, k)'
      <4>1. KnowsUuid(s, k)
        BY <3>6 DEF SideNotices
      <4> QED BY <1>1, <1>3, <4>1 DEF KnowsUuid
    <3>8. SideNotices(s, p, k)' /\ SideNotices(p, s, k)'
      BY <1>1, <1>3, <3>4, <3>5, <3>6, <3>7 DEF SideNotices
    <3>9. CreationNotices(k)'
      <4>1. "C" \in Sides /\ "S" \in Sides
        BY TwoSides
      <4>2. /\ Has(Pipe("C")', k, "CREATE_SOCK") <=> Has(Pipe("C"), k, "CREATE_SOCK")
            /\ Telling("S", k) => Telling("S", k)'
        BY <3>2, <3>3, <3>4, <4>1
      <4> QED BY <1>1, <1>3, <3>6, <4>1, <4>2 DEF CreationNotices
    <3> QED BY <3>2, <3>8, <3>9, NoticesOfBoth
  <2> QED BY <2>1, <2>2
<1> QED BY <1>4, <1>5

\* A reader sends a piece.
LEMMA SendDataNotices ==
  ASSUME IInv, \A j \in Conns : Notices(j), NEW s \in Sides, NEW k \in Conns,
         SendData(s, k)
  PROVE  \A j \in Conns : Notices(j)'
<1> DEFINE o == reader[s][k]
           n == taken[s][k]
           r == [o EXCEPT !.pc = "read", !.data = <<>>, !.label = NoUuid]
<1>0. o \in Readers /\ o.pc = "send" /\ TypeOK /\ Desk /\ n \in Nat
  BY ReaderTyped DEF SendData, Is, IInv
<1>1. ReaderOK(s, k)
  BY <1>0, Settled
<1>2. o.label = k /\ o.data = <<k, n>>
  BY <1>0, <1>1 DEF ReaderOK, Holding
<1>3. r \in Readers /\ r.pc = "read" /\ r.sock = o.sock /\ r.uuid = o.uuid
  BY <1>0 DEF Readers
<1> HIDE DEF r, n
<1>4. Message("RAW_DATA", k, <<k, n>>) \in Messages
  BY <1>0 DEF Message, Messages
<1>5. ReaderPosts(s, k, r, "RAW_DATA", <<k, n>>)
  BY <1>2, <1>3, <1>4 DEF SendData, ReaderPosts, r
<1>6. /\ o.pc \notin {"none", "start", "uuid", "done", "close"}
      /\ r.pc # "close"
  BY <1>0, <1>3
<1> HIDE DEF o
<1> QED BY <1>3, <1>5, <1>6, ReaderPostsNotices DEF o

\* The reader of side S confirms the connection.
LEMMA SendSuccessNotices ==
  ASSUME IInv, \A j \in Conns : Notices(j), NEW k \in Conns, SendSuccess(k)
  PROVE  \A j \in Conns : Notices(j)'
<1> DEFINE o == reader["S"][k]
           r == [o EXCEPT !.pc = "read"]
<1>0. o \in Readers /\ o.pc = "success" /\ TypeOK /\ Desk /\ "S" \in Sides
  BY TwoSides, ReaderTyped DEF SendSuccess, Is, IInv
<1>1. ReaderOK("S", k)
  BY <1>0, Settled
<1>2. o.uuid = k /\ o.addr
  BY <1>0, <1>1 DEF ReaderOK
<1>3. r \in Readers /\ r.pc = "read" /\ r.sock = o.sock /\ r.uuid = o.uuid
  BY <1>0 DEF Readers
<1>4. Message("CREATE_SOCK_SUCCESS", k, <<>>) \in Messages
  BY DEF Message, Messages
<1>5. ReaderPosts("S", k, r, "CREATE_SOCK_SUCCESS", <<>>)
  BY <1>2, <1>3, <1>4 DEF SendSuccess, Goto, ReaderPosts
<1> HIDE DEF r
<1> QED BY <1>0, <1>3, <1>5, ReaderPostsNotices

\* A reader tells the other side, and closes then.
LEMMA TellClosedNotices ==
  ASSUME IInv, \A j \in Conns : Notices(j), NEW s \in Sides, NEW k \in Conns,
         TellClosed(s, k)
  PROVE  \A j \in Conns : Notices(j)'
<1> DEFINE o == reader[s][k]
           r == [o EXCEPT !.pc = "close"]
<1>0. o \in Readers /\ o.pc = "tell" /\ TypeOK /\ Desk
  BY ReaderTyped DEF TellClosed, Is, IInv
<1>1. ReaderOK(s, k)
  BY <1>0, Settled
<1>2. o.uuid = k /\ o.sock # 0
  BY <1>0, <1>1, Names DEF ReaderOK
<1>3. r \in Readers /\ r.pc = "close" /\ r.sock = o.sock /\ r.uuid = o.uuid
  BY <1>0 DEF Readers
<1>4. Message("CLOSE_SOCK", k, <<>>) \in Messages
  BY DEF Message, Messages
<1>5. ReaderPosts(s, k, r, "CLOSE_SOCK", <<>>)
  BY <1>2, <1>3, <1>4 DEF TellClosed, Goto, ReaderPosts
<1> HIDE DEF r
<1> QED BY <1>0, <1>2, <1>3, <1>5, ReaderPostsNotices

-----------------------------------------------------------------------------
(* Tox threads notice.                                                      *)

\* A Tox thread deals with a message of k, and closes nothing: no side can
\* miss what happens to j.
LEMMA ToxRests ==
  ASSUME TypeOK, NEW s \in Sides, NEW k \in Conns, NEW t, ToxTurns(s, k, t),
         UNCHANGED <<main, shut, up, refused>>, lost \subseteq lost',
         \A q \in Sides, c \in Conns :
           \/ reader'[q][c] = reader[q][c]
           \/ reader[q][c].pc = "none" /\ reader'[q][c].pc = "start",
         NEW j \in Conns, Tells(j),
         j = k => /\ tox[s].pc \notin {"close", "connect", "deny"}
                  /\ t.pc \notin {"close", "connect"}
  PROVE  Rests(j)
<1>1. /\ \A q \in Sides : q # s => tox'[q] = tox[q]
      /\ \A q \in Sides, c \in Conns : c # k => Doing(q, c)' = Doing(q, c)
      /\ Doing(s, k)' = t.pc /\ Doing(s, k) = tox[s].pc
      /\ \A q \in Sides : q # s => Doing(q, k)' = Doing(q, k)
  BY ToxTyped
<1>2. ASSUME NEW q \in Sides
      PROVE  /\ \/ Doing(q, j)' = Doing(q, j)
                \/ /\ Doing(q, j) \notin {"close", "connect", "deny"}
                   /\ Doing(q, j)' \notin {"close", "connect"}
             /\ Doing(q, j) = "close" => tox'[q].sock = tox[q].sock
  <2>1. CASE q # s
    BY <1>1, <2>1
  <2>2. CASE q = s /\ j = k
    BY <1>1, <2>2
  <2>3. CASE q = s /\ j # k
    <3>1. Doing(q, j) # "close"
      BY <2>3 DEF Doing, ToxTurns
    <3> QED BY <1>1, <2>3, <3>1
  <2> QED BY <2>1, <2>2, <2>3
<1>3. Accepting(j)' <=> Accepting(j)
  BY DEF Accepting
<1> QED BY <1>2, <1>3, TwoSides DEF Rests

\* The other messages of k are still there when its oldest one has left.
LEMMA LeftHas ==
  ASSUME NEW p \in Sides, NEW k, NEW m, Left(p, k, m), NEW cmd, cmd # m.cmd
  PROVE  Has(Pipe(p)', k, cmd) <=> Has(Pipe(p), k, cmd)
<1> HIDE DEF Pipe
<1>1. Has(Pipe(p)', k, cmd) => Has(Pipe(p), k, cmd)
  BY DEF Left, PartOf, Has
<1>2. ASSUME Has(Pipe(p), k, cmd) PROVE Has(Pipe(p)', k, cmd)
  <2>1. PICK i \in DOMAIN Pipe(p) : Pipe(p)[i].uuid = k /\ Pipe(p)[i].cmd = cmd
    BY <1>2 DEF Has
  <2>2. PICK n \in Nat : /\ DOMAIN Pipe(p) = 1..n + 1 /\ DOMAIN Pipe(p)' = 1..n
                         /\ \A x \in 1..n : Pipe(p)'[x] = Pipe(p)[x + 1]
                         /\ Head(Pipe(p)) = Pipe(p)[1]
    BY DEF Left, Shorter
  <2>3. i # 1
    BY <1>2, <2>1, <2>2 DEF Left
  <2>4. i - 1 \in 1..n /\ Pipe(p)'[i - 1] = Pipe(p)[i]
    BY <2>1, <2>2, <2>3
  <2> QED BY <2>1, <2>2, <2>4 DEF Has
<1> QED BY <1>1, <1>2

\* A message has left that a side need not be told of.
LEMMA LeavesTells ==
  ASSUME NEW p \in Sides, NEW k, NEW m, Left(p, k, m),
         Pipe(Peer(p))' = Pipe(Peer(p)),
         m.cmd \notin {"CLOSE_SOCK", "CREATE_SOCK"}
  PROVE  Tells(k)
<1> HIDE DEF Pipe
<1>1. /\ Has(Pipe(p)', k, "CLOSE_SOCK") <=> Has(Pipe(p), k, "CLOSE_SOCK")
      /\ Has(Pipe(p)', k, "CREATE_SOCK") <=> Has(Pipe(p), k, "CREATE_SOCK")
  BY LeftHas
<1>2. \A q \in Sides : q = p \/ Pipe(q)' = Pipe(q)
  BY TwoSides
<1> QED BY <1>1, <1>2 DEF Tells

\* A Tox thread looks up where a piece belongs.
LEMMA OnRawDataNotices ==
  ASSUME IInv, \A j \in Conns : Notices(j), NEW s \in Sides, OnRawData(s)
  PROVE  \A j \in Conns : Notices(j)'
<1>0. TypeOK /\ Desk /\ Arrived(s, "RAW_DATA")
  BY DEF IInv, OnRawData
<1>1. PICK m \in Messages : m = Head(net[s])
  BY <1>0, ArrivedFacts
<1>2. PICK k \in Conns : k = m.uuid
  BY <1>0, <1>1, ArrivedFacts
<1>3. PICK f \in Fds : f = SockOf(s, k)
  BY <1>0, Found
<1>4. PICK t : t = [pc |-> IF f # 0 THEN "write" ELSE "deny", msg |-> m, sock |-> f]
  OBVIOUS
<1>5. /\ m.cmd = "RAW_DATA"
      /\ tox[s].pc = "idle" /\ Writing(s) = <<>> /\ net[s] # <<>>
      /\ net'[s] = Tail(net[s]) /\ net'[Peer(s)] = net[Peer(s)]
      /\ held' = held /\ lost' = lost
  BY <1>0, <1>1, ArrivedFacts
<1>6. ToxTurns(s, k, t) /\ t.pc \in {"write", "deny"} /\ t.msg = m
  <2>1. t \in Tasks /\ t.msg = m /\ t.pc \in {"write", "deny"}
    BY <1>1, <1>3, <1>4 DEF Tasks
  <2>2. tox' = [tox EXCEPT ![s] = t]
    BY <1>1, <1>2, <1>3, <1>4 DEF OnRawData, ToxNow
  <2> QED BY <2>1, <2>2, <1>2, <1>5 DEF ToxTurns
<1>7. UNCHANGED <<main, shut, up, refused, reader>>
  BY DEF OnRawData, sockVars, appVars
<1>8. /\ Writing(Peer(s))' = Writing(Peer(s))
      /\ Writing(s)' = IF t.pc = "write" THEN <<m>> ELSE <<>>
  BY <1>0, <1>6, ToxTyped
<1>9. \A j \in Conns : Tells(j)
  <2>1. CASE t.pc = "write"
    <3>1. \A j : Flows(j)
      BY <1>0, <1>1, <1>5, <1>8, <2>1, OldestIsWritten
    <3> QED BY <3>1, FlowsTells
  <2>2. CASE t.pc = "deny"
    <3>1. /\ Pipe(s)' = Pipe(s) /\ Left(Peer(s), m.uuid, m)
          /\ \A j : j # m.uuid => Flows(j)
      BY <1>0, <1>1, <1>5, <1>8, <2>2, Handles
    <3>2. Tells(k)
      BY <1>2, <1>5, <3>1, LeavesTells, TwoSides
    <3> QED BY <1>2, <3>1, <3>2, FlowsTells
  <2> QED BY <1>6, <2>1, <2>2
<1>10. \A j \in Conns : Rests(j)
  BY <1>0, <1>5, <1>6, <1>7, <1>9, ToxRests
<1> QED BY <1>10, RestsNotices

\* A Tox thread writes a piece to an application.
LEMMA WriteDataNotices ==
  ASSUME IInv, \A j \in Conns : Notices(j), NEW s \in Sides, WriteData(s)
  PROVE  \A j \in Conns : Notices(j)'
<1>0. TypeOK /\ Desk /\ tox[s].pc = "write"
  BY DEF IInv, WriteData
<1>1. PICK m : m = tox[s].msg
  OBVIOUS
<1>2. PICK k : k = m.uuid
  OBVIOUS
<1>3. m \in Messages /\ k \in Conns /\ m.cmd = "RAW_DATA" /\ Writing(s) = <<m>>
  BY <1>0, <1>1, <1>2, WrittenFacts
<1>4. PICK t : t = Idle
  OBVIOUS
<1>5. ToxTurns(s, k, t) /\ t.pc = "idle"
  <2>1. t \in Tasks /\ t.pc = "idle"
    BY <1>4, Names DEF Tasks, Idle
  <2>2. tox' = [tox EXCEPT ![s] = t]
    BY <1>4 DEF WriteData, ToxIdle
  <2> QED BY <2>1, <2>2, <1>0, <1>1, <1>2 DEF ToxTurns
<1>6. UNCHANGED <<main, shut, up, refused, reader, net, held, lost>>
  BY DEF WriteData, sockVars, appVars, mail
<1>7. Writing(Peer(s))' = Writing(Peer(s)) /\ Writing(s)' = <<>>
  BY <1>0, <1>3, <1>5, ToxTyped
<1>8. /\ Pipe(s)' = Pipe(s) /\ Left(Peer(s), m.uuid, m)
      /\ \A j : j # m.uuid => Flows(j)
  BY <1>0, <1>3, <1>6, <1>7, Handles
<1>9. \A j \in Conns : Tells(j)
  <2>1. Tells(k)
    BY <1>2, <1>3, <1>8, LeavesTells, TwoSides
  <2> QED BY <1>2, <1>8, <2>1, FlowsTells
<1>10. \A j \in Conns : Rests(j)
  BY <1>0, <1>3, <1>5, <1>6, <1>9, ToxRests
<1> QED BY <1>10, RestsNotices

\* The reader of side C starts.
LEMMA OnCreateSuccessNotices ==
  ASSUME IInv, \A j \in Conns : Notices(j), OnCreateSuccess
  PROVE  \A j \in Conns : Notices(j)'
<1>s. PICK s \in Sides : s = "C"
  BY TwoSides
<1>0. TypeOK /\ Desk /\ Arrived(s, "CREATE_SOCK_SUCCESS")
  BY <1>s DEF IInv, OnCreateSuccess
<1>1. PICK m \in Messages : m = Head(net[s])
  BY <1>0, ArrivedFacts
<1>2. PICK k \in Conns : k = m.uuid
  BY <1>0, <1>1, ArrivedFacts
<1>r. PICK r : r = [NoReader EXCEPT !.pc = "start", !.sock = SockOf(s, k)]
  OBVIOUS
<1>5. /\ m.cmd = "CREATE_SOCK_SUCCESS"
      /\ tox[s].pc = "idle" /\ Writing(s) = <<>> /\ net[s] # <<>>
      /\ net'[s] = Tail(net[s]) /\ net'[Peer(s)] = net[Peer(s)]
      /\ held' = held /\ lost' = lost
  BY <1>0, <1>1, ArrivedFacts
<1>4. PICK t : t = tox[s]
  OBVIOUS
<1>6. ToxTurns(s, k, t) /\ t.pc = "idle"
  <2>1. t \in Tasks /\ tox \in [Sides -> Tasks]
    BY <1>0, <1>4 DEF TypeOK
  <2>2. tox' = tox
    BY DEF OnCreateSuccess
  <2> QED BY <2>1, <2>2, <1>4, <1>5 DEF ToxTurns
<1>7. UNCHANGED <<main, shut, up, refused>> /\ Now(s, k, r)
  BY <1>s, <1>1, <1>2, <1>r DEF OnCreateSuccess, sockVars, appVars
<1>8. r.pc = "start"
  BY <1>r DEF NoReader
<1>9. reader[s][k].pc = "none"
  <2>1. Has(Pipe(Peer(s)), k, "CREATE_SOCK_SUCCESS")
    BY <1>0, <1>1, <1>2, <1>5, Arriving
  <2>2. Has(Pipe("S"), k, "CREATE_SOCK_SUCCESS")
    BY <1>s, <2>1 DEF Peer
  <2> QED BY <1>s, <2>2 DEF IInv, Life, CreationOK, ConfirmedOK
<1>10. \A q \in Sides, c \in Conns :
         \/ reader'[q][c] = reader[q][c]
         \/ reader[q][c].pc = "none" /\ reader'[q][c].pc = "start"
  BY <1>0, <1>7, <1>8, <1>9, NowTyped
<1>11. Writing(Peer(s))' = Writing(Peer(s)) /\ Writing(s)' = <<>>
  BY <1>0, <1>6, ToxTyped
<1>12. /\ Pipe(s)' = Pipe(s) /\ Left(Peer(s), m.uuid, m)
       /\ \A j : j # m.uuid => Flows(j)
  BY <1>0, <1>1, <1>5, <1>11, Handles
<1>13. \A j \in Conns : Tells(j)
  <2>1. Tells(k)
    BY <1>2, <1>5, <1>12, LeavesTells, TwoSides
  <2> QED BY <1>2, <1>12, <2>1, FlowsTells
<1>14. \A j \in Conns : Rests(j)
  BY <1>0, <1>5, <1>6, <1>7, <1>10, <1>13, ToxRests
<1> QED BY <1>14, RestsNotices

-----------------------------------------------------------------------------
(* The rest of the programs notices.                                        *)

\* The Tox threads and the readers do nothing.
LEMMA ThreadsRest ==
  ASSUME UNCHANGED <<tox, reader, shut, refused>>, lost \subseteq lost',
         up'["S"] = up["S"], NEW j \in Conns, Tells(j),
         Accepting(j) => Accepting(j)',
         j \in up'["C"] => j \in up["C"] \/ Accepting(j)'
  PROVE  Rests(j)
<1>1. \A q \in Sides : Doing(q, j)' = Doing(q, j)
  BY DEF Doing
<1> QED BY <1>1 DEF Rests

\* What nobody sends or handles is still there.
LEMMA QuietTells ==
  ASSUME TypeOK, UNCHANGED <<net, held>>,
                             \A q \in Sides : Writing(q)' = Writing(q)
  PROVE  \A j : Tells(j)
BY MailStays, FlowsTells

\* The connection of the programs and the applications.
LEMMA WorldNotices ==
  ASSUME IInv, \A j \in Conns : Notices(j),
         \/ Reconnect
         \/ \E s \in Sides : Disconnect(s)
         \/ \E s \in Sides, k \in Conns : AppWrites(s, k) \/ AppEnds(s, k)
  PROVE  \A j \in Conns : Notices(j)'
<1>0. TypeOK
  BY DEF IInv
<1>1. UNCHANGED <<tox, reader, shut, refused, main,
                  up>> /\ lost \subseteq lost'
  <2>1. CASE Reconnect
    BY <2>1 DEF Reconnect, sockVars, appVars, mail
  <2>2. CASE \E s \in Sides : Disconnect(s)
    BY <2>2 DEF Disconnect, sockVars, appVars
  <2>3. CASE \E s \in Sides, k \in Conns : AppWrites(s, k) \/ AppEnds(s, k)
    BY <2>3 DEF AppWrites, AppEnds, sockVars, mail
  <2> QED BY <2>1, <2>2, <2>3
<1>2. \A q \in Sides : Writing(q)' = Writing(q)
  BY <1>1 DEF Writing
<1>3. \A j : Tells(j)
  <2>1. CASE UNCHANGED <<net, held>>
    BY <2>1, <1>0, <1>2, QuietTells
  <2>2. ASSUME NEW s \in Sides, Disconnect(s) PROVE \A j : Tells(j)
    <3>1. /\ net' = [q \in Sides |-> <<>>] /\ held' = held
          /\ lost' = lost \cup UNION {Uuids(net[q]) : q \in Sides}
      BY <2>2 DEF Disconnect
    <3>2. \A q \in Sides : Uuids(net[q]) \subseteq lost'
      BY <3>1
    <3>3. \A j : Flows(j)
      BY <1>0, <1>2, <3>1, <3>2, NetIsCut
    <3> QED BY <3>3, FlowsTells
  <2>3. \/ UNCHANGED <<net, held>>
        \/ \E s \in Sides : Disconnect(s)
    BY DEF Reconnect, AppWrites, AppEnds, mail
  <2> QED BY <2>1, <2>2, <2>3
<1>4. \A j \in Conns : Accepting(j)' <=> Accepting(j)
  BY <1>1 DEF Accepting
<1>5. \A j \in Conns : Rests(j)
  BY <1>1, <1>3, <1>4, ThreadsRest
<1> QED BY <1>5, RestsNotices

\* Side C accepts a connection, and knows that it has to ask for it.
LEMMA AcceptNotices ==
  ASSUME IInv, \A j \in Conns : Notices(j), Accept \/ AddAccepted
  PROVE  \A j \in Conns : Notices(j)'
<1>0. TypeOK
  BY DEF IInv
<1>1. UNCHANGED <<tox, reader, shut, refused, net, held, lost>>
  BY DEF Accept, AddAccepted, appVars, mail
<1>2. \A q \in Sides : Writing(q)' = Writing(q)
  BY <1>1 DEF Writing
<1>3. \A j : Tells(j)
  BY <1>0, <1>1, <1>2, QuietTells
<1>4. ASSUME NEW j \in Conns
      PROVE  /\ up'["S"] = up["S"] /\ (Accepting(j) => Accepting(j)')
             /\ j \in up'["C"] => j \in up["C"] \/ Accepting(j)'
  <2>1. CASE Accept
    <3>1. PICK k : k = Min(Conns \ up["C"])
      OBVIOUS
    <3>2. /\ main.pc = "accept" /\ main'.pc = "add" /\ main'.conn = k
          /\ up' = [up EXCEPT !["C"] = @ \cup {k}]
      BY <2>1, <3>1 DEF Accept
    <3> QED BY <1>0, <3>2, TwoSides DEF Accepting, TypeOK
  <2>2. CASE AddAccepted
    <3>1. up' = up /\ main' = [main EXCEPT !.pc = "create"] /\ main \in Mains
      BY <1>0, <2>2 DEF AddAccepted, appVars, TypeOK
    <3> QED BY <3>1 DEF Accepting, Mains
  <2> QED BY <2>1, <2>2
<1>5. \A j \in Conns : Rests(j)
  BY <1>1, <1>3, <1>4, ThreadsRest
<1> QED BY <1>5, RestsNotices

\* The Tox thread of S adds a record.
LEMMA AddConnectedNotices ==
  ASSUME IInv, \A j \in Conns : Notices(j), AddConnected
  PROVE  \A j \in Conns : Notices(j)'
<1>s. PICK s \in Sides : s = "S"
  BY TwoSides
<1>0. TypeOK /\ tox[s].pc = "add" /\ tox[s].msg \in Messages /\ tox[s] \in Tasks
  BY <1>s DEF IInv, AddConnected, TypeOK
<1>1. PICK k \in Conns : k = tox[s].msg.uuid
  BY <1>0 DEF Messages
<1>2. PICK t : t = [pc |-> "set", msg |-> tox[s].msg, sock |-> tox[s].sock]
  OBVIOUS
<1>3. ToxTurns(s, k, t) /\ t.pc = "set"
  <2>1. t \in Tasks /\ t.pc = "set" /\ t.msg = tox[s].msg
    BY <1>0, <1>2 DEF Tasks
  <2>2. tox' = [tox EXCEPT ![s] = t]
    BY <1>s, <1>2 DEF AddConnected, ToxNow
  <2> QED BY <1>0, <1>1, <2>1, <2>2 DEF ToxTurns
<1>4. UNCHANGED <<main, reader, shut, up, refused, net, held, lost>>
  BY DEF AddConnected, appVars, mail
<1>5. \A q \in Sides : Writing(q)' = Writing(q)
  <2>1. Writing(Peer(s))' = Writing(Peer(s)) /\ Writing(s)' = <<>>
    BY <1>0, <1>3, ToxTyped
  <2>2. Writing(s) = <<>>
    BY <1>0 DEF Writing
  <2> QED BY <2>1, <2>2, TwoSides
<1>6. \A j : Tells(j)
  BY <1>0, <1>4, <1>5, QuietTells
<1>7. \A j \in Conns : Rests(j)
  BY <1>0, <1>3, <1>4, <1>6, ToxRests
<1> QED BY <1>7, RestsNotices

\* The Tox thread of S starts a reader.
LEMMA SetUuidNotices ==
  ASSUME IInv, \A j \in Conns : Notices(j), SetUuid
  PROVE  \A j \in Conns : Notices(j)'
<1>s. PICK s \in Sides : s = "S"
  BY TwoSides
<1>0. TypeOK /\ tox[s].pc = "set" /\ tox[s].msg \in Messages /\ tox[s] \in Tasks
  BY <1>s DEF IInv, SetUuid, TypeOK
<1>1. PICK k \in Conns : k = tox[s].msg.uuid
  BY <1>0 DEF Messages
<1>2. PICK t : t = Idle
  OBVIOUS
<1>3. ToxTurns(s, k, t) /\ t.pc = "idle"
  <2>1. t \in Tasks /\ t.pc = "idle"
    BY <1>2, Names DEF Tasks, Idle
  <2>2. tox' = [tox EXCEPT ![s] = t]
    BY <1>s, <1>2 DEF SetUuid, ToxIdle
  <2> QED BY <1>0, <1>1, <2>1, <2>2 DEF ToxTurns
<1>4. UNCHANGED <<main, shut, up, refused, net, held, lost>>
  BY DEF SetUuid, appVars, mail
<1>5. \A q \in Sides : Writing(q)' = Writing(q)
  <2>1. Writing(Peer(s))' = Writing(Peer(s)) /\ Writing(s)' = <<>>
    BY <1>0, <1>3, ToxTyped
  <2>2. Writing(s) = <<>>
    BY <1>0 DEF Writing
  <2> QED BY <2>1, <2>2, TwoSides
<1>6. \A j : Tells(j)
  BY <1>0, <1>4, <1>5, QuietTells
<1>7. reader[s][k].pc = "none"
  <2>1. Doing("S", k) = "set"
    BY <1>s, <1>0, <1>1 DEF Doing
  <2> QED BY <1>s, <2>1 DEF IInv, Life, CreationOK, MakingOK
<1>8. \A q \in Sides, c \in Conns :
        \/ reader'[q][c] = reader[q][c]
        \/ reader[q][c].pc = "none" /\ reader'[q][c].pc = "start"
  <2>1. CASE reader' = reader
    BY <2>1
  <2>2. CASE reader' # reader
    <3>1. PICK r : r = [NoReader EXCEPT !.pc = "start", !.sock = tox[s].sock]
      OBVIOUS
    <3>2. Now(s, k, r)
      BY <1>s, <1>1, <2>2, <3>1 DEF SetUuid
    <3>3. r.pc = "start"
      BY <3>1 DEF NoReader
    <3> QED BY <1>0, <1>7, <3>2, <3>3, NowTyped
  <2> QED BY <2>1, <2>2
<1>9. \A j \in Conns : Rests(j)
  BY <1>0, <1>3, <1>4, <1>6, <1>8, ToxRests
<1> QED BY <1>9, RestsNotices

\* A message that is dropped is lost, one that goes out is under way.
LEMMA SendHeldNotices ==
  ASSUME IInv, \A j \in Conns : Notices(j), NEW s \in Sides, SendHeld(s)
  PROVE  \A j \in Conns : Notices(j)'
<1>0. TypeOK /\ Desk /\ tox[s].pc = "idle" /\ held[s] # <<>>
  BY DEF IInv, SendHeld
<1>1. PICK m \in Messages : m = Head(held[s])
  BY <1>0, Holds
<1>2. PICK k \in Conns : k = m.uuid
  BY DEF Messages
<1>3. UNCHANGED <<main, reader, shut, up, refused>>
  BY DEF SendHeld, sockVars, appVars
<1>4. held'[s] = Tail(held[s]) /\ held'[Peer(s)] = held[Peer(s)]
  BY <1>0, TwoSides DEF SendHeld, TypeOK
<1>6. lost \subseteq Conns /\ net \in [Sides -> Seq(Messages)]
  BY <1>0 DEF TypeOK
<1>5. /\ net'[s] = net[s] /\ lost \subseteq lost'
      /\ \/ net'[Peer(s)] = Append(net[Peer(s)], m) /\ lost' = lost
         \/ net'[Peer(s)] = net[Peer(s)] /\ lost' = lost \cup {k}
  <2>1. CASE online[s] /\ linked
    <3>1. net' = [net EXCEPT ![Peer(s)] = Append(@, m)] /\ lost' = lost
      BY <1>1, <2>1 DEF SendHeld, Give
    <3> QED BY <3>1, <1>6, TwoSides
  <2>2. CASE ~ (online[s] /\ linked)
    BY <1>1, <1>2, <2>2 DEF SendHeld, Give
  <2> QED BY <2>1, <2>2
<1>7. PICK t : tox' = [tox EXCEPT ![s] = t] /\
               \/ online[s] /\ t = tox[s]
               \/ ~ online[s] /\ t = [pc |-> "close", msg |-> m, sock |-> SockOf(s, k)]
  <2>1. CASE online[s]
    <3>1. tox' = [tox EXCEPT ![s] = tox[s]]
      BY <1>0, <2>1 DEF SendHeld, TypeOK
    <3> QED BY <2>1, <3>1
  <2>2. CASE ~ online[s]
    BY <1>1, <1>2, <2>2 DEF SendHeld
  <2> QED BY <2>1, <2>2
<1>8. ToxTurns(s, k, t) /\ (t.pc = "close" => ~ online[s]) /\ t.pc \in {"idle", "close"}
  <2>1. CASE online[s]
    BY <1>0, <1>7, <2>1 DEF ToxTurns, TypeOK
  <2>2. CASE ~ online[s]
    <3>1. SockOf(s, k) \in Fds
      BY <1>0, Found
    <3>2. t \in Tasks /\ t.msg = m /\ t.pc = "close"
      BY <1>7, <2>2, <3>1 DEF Tasks
    <3> QED BY <1>0, <1>2, <1>7, <2>2, <3>2 DEF ToxTurns
  <2> QED BY <2>1, <2>2
<1>9. \A q \in Sides : Writing(q)' = Writing(q)
  <2>1. Writing(Peer(s))' = Writing(Peer(s)) /\ Writing(s)' = <<>>
    BY <1>0, <1>8, ToxTyped
  <2>2. Writing(s) = <<>>
    BY <1>0 DEF Writing
  <2> QED BY <2>1, <2>2, TwoSides
<1>10. \A j : Tells(j)
  <2>1. \A j : Flows(j)
    BY <1>0, <1>1, <1>2, <1>4, <1>5, <1>9, HeldLeaves
  <2> QED BY <2>1, FlowsTells
<1>11. t.pc = "close" => k \in lost'
  <2>1. ~ online[s] => lost' = lost \cup {k}
    BY <1>1, <1>2 DEF SendHeld
  <2> QED BY <1>8, <2>1
<1>12. ASSUME NEW j \in Conns PROVE Notices(j)'
  <2>1. CASE j = k /\ k \in lost'
    BY <2>1, NoticesOfBoth
  <2>2. CASE ~ (j = k /\ k \in lost')
    <3>1. j = k => t.pc \notin {"close", "connect"}
      BY <1>8, <1>11, <2>2
    <3>2. Rests(j)
      BY <1>0, <1>3, <1>5, <1>8, <1>10, <3>1, ToxRests
    <3> QED BY <3>2, RestsNotices
  <2> QED BY <2>1, <2>2
<1> QED BY <1>12

\* Whatever a Tox thread does for k, no side can miss what happens to j.
LEMMA OtherRests ==
  ASSUME TypeOK, NEW s \in Sides, NEW k \in Conns, NEW t, ToxTurns(s, k, t),
         UNCHANGED <<main, reader>>, lost \subseteq lost',
         NEW j \in Conns, j # k, Tells(j),
         \A q \in Sides : /\ j \in shut'[q] <=> j \in shut[q]
                          /\ j \in up'[q] <=> j \in up[q],
         j \in refused' <=> j \in refused
  PROVE  Rests(j)
<1>1. /\ \A q \in Sides : q # s => tox'[q] = tox[q]
      /\ \A q \in Sides : Doing(q, j)' = Doing(q, j)
  BY ToxTyped
<1>2. Doing(s, j) # "close"
  BY DEF Doing, ToxTurns
<1>3. Accepting(j)' <=> Accepting(j)
  BY DEF Accepting
<1> QED BY <1>1, <1>2, <1>3, TwoSides DEF Rests

\* The other side is told that it knows a connection no more, or not at all.
LEMMA DenyNotices ==
  ASSUME IInv, \A j \in Conns : Notices(j), NEW s \in Sides, Deny(s)
  PROVE  \A j \in Conns : Notices(j)'
<1>0. TypeOK /\ Desk /\ tox[s].pc = "deny" /\ tox[s].msg \in Messages
  BY DEF Deny, IInv, TypeOK
<1>1. PICK k \in Conns : k = tox[s].msg.uuid
  BY <1>0 DEF Messages
<1>2. PICK t : t = Idle
  OBVIOUS
<1>3. ToxTurns(s, k, t) /\ t.pc = "idle"
  <2>1. t \in Tasks /\ t.pc = "idle"
    BY <1>2, Names DEF Tasks, Idle
  <2>2. tox' = [tox EXCEPT ![s] = t]
    BY <1>2 DEF Deny, ToxIdle
  <2> QED BY <2>1, <2>2, <1>0, <1>1 DEF ToxTurns
<1>4. PICK m \in Messages : m = Message("CLOSE_SOCK", k, <<>>)
  BY DEF Message, Messages
<1>5. m.uuid = k /\ m.cmd = "CLOSE_SOCK"
  BY <1>4 DEF Message
<1>6. UNCHANGED <<main, reader, shut, up, refused>>
  BY DEF Deny, sockVars, appVars
<1>7. PICK p \in Sides : p = Peer(s) /\ Peer(p) = s /\ p # s
                         /\ \A q \in Sides : q = p \/ q = s
  BY TwoSides
<1>8. /\ Doing(s, k) = "deny" /\ Doing(s, k)' = "idle"
      /\ Doing(p, k)' = Doing(p, k) /\ tox'[p] = tox[p]
      /\ Writing(p)' = Writing(p) /\ Writing(s)' = <<>>
  BY <1>0, <1>3, <1>7, ToxTyped
<1>9. \A q \in Sides : Writing(q)' = Writing(q)
  <2>1. Writing(s) = <<>>
    BY <1>0 DEF Writing
  <2> QED BY <2>1, <1>7, <1>8
<1>10. /\ Pipe(p)' = Pipe(p) /\ Sent(s, k, m)
       /\ lost \subseteq lost'
       /\ \A j : j # k => Flows(j)
  <2>1. Post(s, "CLOSE_SOCK", k, <<>>)
    BY <1>1 DEF Deny
  <2>2. lost' = lost \/ lost' = lost \cup {k}
    BY <2>1, <1>0, <1>4, <1>9, Posts
  <2> QED BY <2>1, <2>2, <1>0, <1>4, <1>7, <1>9, Posts
<1>11. ASSUME NEW j \in Conns, j # k PROVE Notices(j)'
  <2>1. Tells(j)
    BY <1>10, <1>11, FlowsTells
  <2>2. Rests(j)
    BY <1>0, <1>3, <1>6, <1>10, <1>11, <2>1, OtherRests
  <2> QED BY <2>2, RestsNotices
<1>12. Notices(k)'
  <2>1. CASE k \in lost'
    BY <2>1, NoticesOfBoth
  <2>2. CASE k \notin lost'
    <3>1. /\ \A c : Has(Pipe(s)', k, c) <=> Has(Pipe(s), k, c) \/ c = "CLOSE_SOCK"
          /\ \A c : Has(Pipe(p)', k, c) <=> Has(Pipe(p), k, c)
      BY <1>5, <1>10, <2>2, SentHas
    <3>2. Telling(s, k)' /\ (Telling(p, k)' <=> Telling(p, k))
      BY <3>1, <1>7, <1>8 DEF Telling
    <3>3. \A q \in Sides : /\ Leaving(q, k)' <=> Leaving(q, k)
                           /\ KnowsUuid(q, k)' <=> KnowsUuid(q, k)
      BY <1>6 DEF Leaving, KnowsUuid
    <3>4. SideNotices(s, p, k) /\ SideNotices(p, s, k) /\ CreationNotices(k)
      BY <1>7, <1>10, <2>2, NoticesOfBoth
    <3>5. k \in shut[s] \cup refused
      BY <1>8 DEF IInv, Life, EndOK
    <3>6. SideNotices(s, p, k)' /\ SideNotices(p, s, k)'
      BY <1>6, <1>8, <3>2, <3>3, <3>4, <3>5 DEF SideNotices
    <3>7. CreationNotices(k)'
      <4>1. /\ Has(Pipe("C")', k, "CREATE_SOCK") <=> Has(Pipe("C"), k, "CREATE_SOCK")
            /\ Telling("S", k) => Telling("S", k)'
            /\ Doing("S", k) = "deny" => Doing("S", k)' = "deny" \/ Telling("S", k)'
            /\ Doing("S", k) = "connect" => Doing("S", k)' = "connect"
        BY <1>7, <1>8, <3>1, <3>2, TwoSides
      <4>2. Accepting(k)' <=> Accepting(k)
        BY <1>6 DEF Accepting
      <4> QED BY <1>6, <3>4, <4>1, <4>2 DEF CreationNotices
    <3> QED BY <1>7, <3>6, <3>7, NoticesOfBoth
  <2> QED BY <2>1, <2>2
<1> QED BY <1>11, <1>12

\* Side C asks for the connection it has accepted.
LEMMA CreateRemoteNotices ==
  ASSUME IInv, \A j \in Conns : Notices(j), CreateRemote
  PROVE  \A j \in Conns : Notices(j)'
<1>k. TypeOK /\ Desk /\ MainOK /\ main.pc = "create" /\ main.conn \in up["C"]
  BY DEF CreateRemote, IInv, Desk, MainOK
<1>l. main.conn \in Conns /\ main.sock \in Fds
  BY <1>k, TwoSides DEF TypeOK, Mains
<1>1. PICK k \in Conns : k = main.conn
  BY <1>l
<1>2. UuidOf("C", main.sock) = k /\ k # NoUuid
  <2>1. Mine("C", k, main.sock) /\ k \notin shut["C"] /\ ~ Creating("C", k)
    BY <1>k, <1>1 DEF MainOK, Creating
  <2> QED BY <2>1, <1>k, <1>l, TwoSides, Known, Names
<1>0. /\ Post("C", "CREATE_SOCK", k, <<>>)
      /\ main' = [pc |-> "accept", conn |-> NoUuid, sock |-> 0]
      /\ UNCHANGED <<sockVars, appVars, tox, reader>>
  BY <1>2 DEF CreateRemote
<1>3. UNCHANGED <<shut, up, refused, tox, reader>>
  BY <1>0 DEF sockVars, appVars
<1>4. PICK m \in Messages : m = Message("CREATE_SOCK", k, <<>>)
  BY DEF Message, Messages
<1>5. m.uuid = k /\ m.cmd = "CREATE_SOCK"
  BY <1>4 DEF Message
<1>6. /\ \A q \in Sides : Writing(q)' = Writing(q)
      /\ \A q \in Sides : Doing(q, k)' = Doing(q, k)
  BY <1>3 DEF Writing, Doing
<1>7. \A j \in Conns : Accepting(j) => j = k
  BY <1>1 DEF Accepting
<1>8. "C" \in Sides /\ "S" \in Sides /\ Peer("C") = "S" /\ Peer("S") = "C"
  BY TwoSides DEF Peer
<1>9. /\ Pipe("S")' = Pipe("S") /\ Sent("C", k, m)
      /\ lost \subseteq lost'
      /\ \A j : j # k => Flows(j)
  <2>1. lost' = lost \/ lost' = lost \cup {k}
    BY <1>k, <1>0, <1>4, <1>6, <1>8, Posts
  <2> QED BY <2>1, <1>k, <1>0, <1>4, <1>6, <1>8, Posts
<1>10. ASSUME NEW j \in Conns, j # k PROVE Notices(j)'
  <2>1. Tells(j)
    BY <1>9, <1>10, FlowsTells
  <2>2. Rests(j)
    BY <1>3, <1>7, <1>9, <1>10, <2>1, ThreadsRest
  <2> QED BY <2>2, RestsNotices
<1>11. Notices(k)'
  <2>1. CASE k \in lost'
    BY <2>1, NoticesOfBoth, TwoSides
  <2>2. CASE k \notin lost'
    <3>1. /\ \A c : Has(Pipe("C")', k, c) <=> Has(Pipe("C"), k, c) \/ c = "CREATE_SOCK"
          /\ \A c : Has(Pipe("S")', k, c) <=> Has(Pipe("S"), k, c)
      BY <1>5, <1>8, <1>9, <2>2, SentHas
    <3>2. /\ Telling("C", k)' <=> Telling("C", k)
          /\ Telling("S", k)' <=> Telling("S", k)
      BY <3>1, <1>6, <1>8 DEF Telling
    <3>3. \A q \in Sides : /\ Leaving(q, k)' <=> Leaving(q, k)
                           /\ KnowsUuid(q, k)' <=> KnowsUuid(q, k)
      BY <1>3 DEF Leaving, KnowsUuid
    <3>4. SideNotices("C", "S", k) /\ SideNotices("S", "C", k) /\ CreationNotices(k)
      BY <1>9, <2>2 DEF Notices
    <3>5. SideNotices("C", "S", k)' /\ SideNotices("S", "C", k)'
      BY <1>3, <1>6, <1>8, <3>2, <3>3, <3>4 DEF SideNotices
    <3>6. CreationNotices(k)'
      BY <1>3, <1>6, <1>8, <3>1, <3>2, <3>4 DEF CreationNotices
    <3> QED BY <3>5, <3>6 DEF Notices
  <2> QED BY <2>1, <2>2
<1> QED BY <1>10, <1>11

\* What side s is told to close it has closed, or it finds it.
LEMMA ClosesFound ==
  ASSUME IInv, NEW s \in Sides, NEW k \in Conns,
         Has(Pipe(Peer(s)), k, "CLOSE_SOCK")
  PROVE  SockOf(s, k) # 0 \/ k \in shut[s] \/ (s = "S" /\ k \in refused)
<1>1. SUFFICES ASSUME SockOf(s, k) = 0, k \notin shut[s]
               PROVE  s = "S" /\ k \in refused
  OBVIOUS
<1>2. /\ ~ Young(k) /\ k \in up["C"] /\ ~ Accepting(k) /\ CreationOK(k)
      /\ Doing("S", k) \notin {"connect", "add", "set"}
  BY Heard, TwoSides
<1>3. FilesOK(s) /\ TypeOK /\ Desk
  BY DEF IInv, Desk
<1>4. ~ HasRecord(s, k)
  BY <1>1, <1>3, Found
<1>5. ~ Creating(s, k)
  BY <1>2 DEF Creating, Accepting
<1>6. k \notin up[s]
  BY <1>1, <1>3, <1>4, <1>5 DEF FilesOK
<1>7. s = "S"
  BY <1>2, <1>6 DEF Sides
<1>8. reader["S"][k].pc = "none"
  BY <1>2, <1>6, <1>7, TwoSides DEF CreationOK, MadeOK
<1> QED BY <1>2, <1>7, <1>8 DEF Young

\* A side hears that k is closed, and is going to close it.
LEMMA OnCloseSockNotices ==
  ASSUME IInv, \A j \in Conns : Notices(j), NEW s \in Sides, OnCloseSock(s)
  PROVE  \A j \in Conns : Notices(j)'
<1>0. TypeOK /\ Desk /\ Arrived(s, "CLOSE_SOCK")
  BY DEF IInv, OnCloseSock
<1>1. PICK m \in Messages : m = Head(net[s])
  BY <1>0, ArrivedFacts
<1>2. PICK k \in Conns : k = m.uuid
  BY <1>0, <1>1, ArrivedFacts
<1>3. PICK f \in Fds : f = SockOf(s, k)
  BY <1>0, Found
<1>4. PICK t : t = [pc |-> "close", msg |-> m, sock |-> f]
  OBVIOUS
<1>5. /\ m.cmd = "CLOSE_SOCK"
      /\ tox[s].pc = "idle" /\ Writing(s) = <<>> /\ net[s] # <<>>
      /\ net'[s] = Tail(net[s]) /\ net'[Peer(s)] = net[Peer(s)]
      /\ held' = held /\ lost' = lost
  BY <1>0, <1>1, ArrivedFacts
<1>6. ToxTurns(s, k, t) /\ t.pc = "close" /\ t.msg = m /\ t.sock = f
  <2>1. t \in Tasks /\ t.msg = m /\ t.pc = "close" /\ t.sock = f
    BY <1>1, <1>3, <1>4 DEF Tasks
  <2>2. tox' = [tox EXCEPT ![s] = t]
    BY <1>1, <1>2, <1>3, <1>4 DEF OnCloseSock, ToxNow
  <2> QED BY <2>1, <2>2, <1>2, <1>5 DEF ToxTurns
<1>7. UNCHANGED <<main, shut, up, refused, reader>>
  BY DEF OnCloseSock, sockVars, appVars
<1>8. PICK p \in Sides : p = Peer(s) /\ Peer(p) = s /\ p # s
                         /\ \A q \in Sides : q = p \/ q = s
  BY TwoSides
<1>9. /\ Doing(s, k) = "idle" /\ Doing(s, k)' = "close" /\ tox'[s] = t
      /\ Doing(p, k)' = Doing(p, k) /\ tox'[p] = tox[p]
      /\ Writing(p)' = Writing(p) /\ Writing(s)' = <<>>
  BY <1>0, <1>5, <1>6, <1>8, ToxTyped
<1>10. /\ Pipe(s)' = Pipe(s) /\ Left(p, k, m) /\ Has(Pipe(p), k, "CLOSE_SOCK")
       /\ \A j : j # k => Flows(j)
  BY <1>0, <1>1, <1>2, <1>5, <1>8, <1>9, Handles
<1>11. ASSUME NEW j \in Conns, j # k PROVE Notices(j)'
  <2>1. Tells(j)
    BY <1>10, <1>11, FlowsTells
  <2>2. Rests(j)
    BY <1>0, <1>5, <1>6, <1>7, <1>11, <2>1, OtherRests
  <2> QED BY <2>2, RestsNotices
<1>12. Notices(k)'
  <2>1. CASE k \in lost'
    BY <2>1, NoticesOfBoth
  <2>2. CASE k \notin lost'
    <3>1. /\ \A c : Has(Pipe(s)', k, c) <=> Has(Pipe(s), k, c)
          /\ Has(Pipe(p)', k, "CREATE_SOCK") <=> Has(Pipe(p), k, "CREATE_SOCK")
      BY <1>5, <1>10, LeftHas
    <3>2. Telling(p, k) /\ Telling(p, k)' /\ (Telling(s, k)' <=> Telling(s, k))
      BY <1>8, <1>9, <1>10, <3>1 DEF Telling
    <3>3. \A q \in Sides : /\ Leaving(q, k)' <=> Leaving(q, k)
                           /\ KnowsUuid(q, k)' <=> KnowsUuid(q, k)
      BY <1>7 DEF Leaving, KnowsUuid
    <3>4. SideNotices(s, p, k) /\ SideNotices(p, s, k) /\ CreationNotices(k)
      BY <1>5, <1>8, <2>2, NoticesOfBoth
    <3>5. tox'[s].sock # 0 \/ k \in shut[s] \/ (s = "S" /\ k \in refused)
      BY <1>3, <1>6, <1>8, <1>9, <1>10, ClosesFound
    <3>6. SideNotices(s, p, k)' /\ SideNotices(p, s, k)'
      BY <1>7, <1>9, <3>2, <3>3, <3>4, <3>5 DEF SideNotices
    <3>7. CreationNotices(k)'
      <4>1. /\ Has(Pipe("C")', k, "CREATE_SOCK") <=> Has(Pipe("C"), k, "CREATE_SOCK")
            /\ Telling("S", k) => Telling("S", k)'
            /\ Doing("S", k) = "deny" => Doing("S", k)' = "deny"
            /\ Doing("S", k) = "connect" => Doing("S", k)' = "connect"
        BY <1>8, <1>9, <3>1, <3>2, TwoSides
      <4>2. Accepting(k)' <=> Accepting(k)
        BY <1>7 DEF Accepting
      <4> QED BY <1>7, <3>4, <4>1, <4>2 DEF CreationNotices
    <3> QED BY <1>8, <3>6, <3>7, NoticesOfBoth
  <2> QED BY <2>1, <2>2
<1> QED BY <1>11, <1>12

\* Side S hears that it is asked for k, and is going to connect.
LEMMA OnCreateSockNotices ==
  ASSUME IInv, \A j \in Conns : Notices(j), OnCreateSock
  PROVE  \A j \in Conns : Notices(j)'
<1>s. /\ "S" \in Sides /\ "C" \in Sides /\ Peer("S") = "C" /\ Peer("C") = "S"
      /\ "C" # "S"
  BY TwoSides DEF Peer
<1>0. TypeOK /\ Desk /\ Arrived("S", "CREATE_SOCK")
  BY DEF IInv, OnCreateSock
<1>1. PICK m \in Messages : m = Head(net["S"])
  BY <1>s, <1>0, ArrivedFacts
<1>2. PICK k \in Conns : k = m.uuid
  BY <1>s, <1>0, <1>1, ArrivedFacts
<1>4. PICK t : t = [pc |-> "connect", msg |-> m, sock |-> 0]
  OBVIOUS
<1>5. /\ m.cmd = "CREATE_SOCK"
      /\ tox["S"].pc = "idle" /\ Writing("S") = <<>> /\ net["S"] # <<>>
      /\ net'["S"] = Tail(net["S"]) /\ net'["C"] = net["C"]
      /\ held' = held /\ lost' = lost
  BY <1>s, <1>0, <1>1, ArrivedFacts
<1>6. ToxTurns("S", k, t) /\ t.pc = "connect"
  <2>1. t \in Tasks /\ t.msg = m /\ t.pc = "connect"
    BY <1>1, <1>4, Names DEF Tasks
  <2>2. tox' = [tox EXCEPT !["S"] = t]
    BY <1>1, <1>4 DEF OnCreateSock, ToxNow
  <2> QED BY <2>1, <2>2, <1>2, <1>5 DEF ToxTurns
<1>7. UNCHANGED <<main, shut, up, refused, reader>>
  BY DEF OnCreateSock, sockVars, appVars
<1>9. /\ Doing("S", k) = "idle" /\ Doing("S", k)' = "connect"
      /\ Doing("C", k)' = Doing("C", k) /\ tox'["C"] = tox["C"]
      /\ Writing("C")' = Writing("C") /\ Writing("S")' = <<>>
  BY <1>s, <1>0, <1>5, <1>6, ToxTyped
<1>10. /\ Pipe("S")' = Pipe("S") /\ Left("C", k, m)
       /\ \A j : j # k => Flows(j)
  BY <1>s, <1>0, <1>1, <1>2, <1>5, <1>9, Handles
<1>11. ASSUME NEW j \in Conns, j # k PROVE Notices(j)'
  <2>1. Tells(j)
    BY <1>10, <1>11, FlowsTells
  <2>2. Rests(j)
    BY <1>s, <1>0, <1>5, <1>6, <1>7, <1>11, <2>1, OtherRests
  <2> QED BY <2>2, RestsNotices
<1>12. Notices(k)'
  <2>1. CASE k \in lost'
    BY <2>1 DEF Notices
  <2>2. CASE k \notin lost'
    <3>1. /\ Has(Pipe("C")', k, "CLOSE_SOCK") <=> Has(Pipe("C"), k, "CLOSE_SOCK")
          /\ Has(Pipe("S")', k, "CLOSE_SOCK") <=> Has(Pipe("S"), k, "CLOSE_SOCK")
      BY <1>s, <1>5, <1>10, LeftHas
    <3>2. /\ Telling("C", k)' <=> Telling("C", k)
          /\ Telling("S", k)' <=> Telling("S", k)
      BY <1>s, <1>9, <3>1 DEF Telling
    <3>3. \A q \in Sides : /\ Leaving(q, k)' <=> Leaving(q, k)
                           /\ KnowsUuid(q, k)' <=> KnowsUuid(q, k)
      BY <1>7 DEF Leaving, KnowsUuid
    <3>4. SideNotices("C", "S", k) /\ SideNotices("S", "C", k) /\ CreationNotices(k)
      BY <1>5, <2>2 DEF Notices
    <3>5. SideNotices("C", "S", k)' /\ SideNotices("S", "C", k)'
      BY <1>s, <1>7, <1>9, <3>2, <3>3, <3>4 DEF SideNotices
    <3>6. CreationNotices(k)'
      BY <1>7, <1>9, <3>2, <3>4 DEF CreationNotices
    <3> QED BY <3>5, <3>6 DEF Notices
  <2> QED BY <2>1, <2>2
<1> QED BY <1>11, <1>12

\* The connection to the target is made, or refused and side C will be told.
LEMMA ConnectNotices ==
  ASSUME IInv, \A j \in Conns : Notices(j), Connect
  PROVE  \A j \in Conns : Notices(j)'
<1>s. /\ "S" \in Sides /\ "C" \in Sides /\ Peer("S") = "C" /\ Peer("C") = "S"
      /\ "C" # "S"
  BY TwoSides DEF Peer
<1>0. TypeOK /\ tox["S"].pc = "connect" /\ tox["S"].msg \in Messages
  BY <1>s DEF IInv, Connect, TypeOK
<1>1. PICK k \in Conns : k = tox["S"].msg.uuid
  BY <1>0 DEF Messages
<1>2. PICK f : f = Min(Free("S"))
  OBVIOUS
<1>3. Free("S") # {} => f \in Fds
  <2>1. Free("S") \subseteq Fds
    BY DEF Free
  <2> QED BY <1>2, <2>1, MinFacts, Names
<1>4. PICK t : /\ t = [pc |-> t.pc, msg |-> tox["S"].msg, sock |-> t.sock]
               /\ t.sock \in Fds /\ t.pc \in {"deny", "add"}
               /\ tox' = [tox EXCEPT !["S"] = t]
               /\ \/ /\ up' = [up EXCEPT !["S"] = @ \cup {k}]
                     /\ refused' = refused
                  \/ /\ up' = up /\ t.pc = "deny"
                     /\ refused' = refused \cup {k}
  <2>1. CASE /\ Free("S") # {}
             /\ up' = [up EXCEPT !["S"] = @ \cup {k}]
             /\ tox' = [tox EXCEPT !["S"] =
                          [pc |-> IF f = 0 THEN "deny" ELSE "add",
                           msg |-> tox["S"].msg, sock |-> f]]
             /\ refused' = refused
    <3>1. PICK pc \in {"deny", "add"} : pc = IF f = 0 THEN "deny" ELSE "add"
      OBVIOUS
    <3> WITNESS [pc |-> pc, msg |-> tox["S"].msg, sock |-> f]
    <3> QED BY <1>3, <2>1, <3>1
  <2>2. CASE /\ refused' = refused \cup {k} /\ up' = up
             /\ tox' = [tox EXCEPT !["S"] =
                          [pc |-> "deny", msg |-> tox["S"].msg, sock |-> 0]]
    <3> WITNESS [pc |-> "deny", msg |-> tox["S"].msg, sock |-> 0]
    <3> QED BY <2>2, Names
  <2> QED BY <1>1, <1>2, <2>1, <2>2 DEF Connect, ToxNow
<1>5. ToxTurns("S", k, t)
  BY <1>0, <1>1, <1>4 DEF ToxTurns, Tasks
<1>6. UNCHANGED <<main, shut, reader, net, held, lost>>
  BY DEF Connect, mail
<1>7. /\ Doing("S", k) = "connect" /\ Doing("S", k)' = t.pc
      /\ Doing("C", k)' = Doing("C", k) /\ tox'["C"] = tox["C"]
      /\ Writing("C")' = Writing("C") /\ Writing("S")' = <<>>
  BY <1>s, <1>0, <1>4, <1>5, ToxTyped
<1>8. \A q \in Sides : Writing(q)' = Writing(q)
  <2>1. Writing("S") = <<>>
    BY <1>0 DEF Writing
  <2> QED BY <1>7, <2>1 DEF Sides
<1>9. /\ \A q \in Sides : Pipe(q)' = Pipe(q)
      /\ \A j : Tells(j)
  BY <1>0, <1>6, <1>8, MailStays, FlowsTells
<1>10. /\ \A q \in Sides, j \in Conns : j # k => (j \in up'[q] <=> j \in up[q])
       /\ \A j \in Conns : j # k => (j \in refused' <=> j \in refused)
       /\ k \in refused => k \in refused'
       /\ k \in up'["S"] \cup refused' /\ (k \in refused' => k \in refused \/ t.pc = "deny")
       /\ up'["C"] = up["C"]
  <2>1. up \in [Sides -> SUBSET Conns]
    BY <1>0 DEF TypeOK
  <2> QED BY <2>1, <1>s, <1>4
<1>11. ASSUME NEW j \in Conns, j # k PROVE Notices(j)'
  <2>1. Rests(j)
    BY <1>s, <1>0, <1>5, <1>6, <1>9, <1>10, <1>11, OtherRests
  <2> QED BY <2>1, RestsNotices
<1>12. Notices(k)'
  <2>1. CASE k \in lost'
    BY <2>1 DEF Notices
  <2>2. CASE k \notin lost'
    <3>1. \A q \in Sides : Pipe(q)' = Pipe(q) /\ reader'[q][k] = reader[q][k]
      BY <1>6, <1>9
    <3>2. /\ Telling("C", k)' <=> Telling("C", k)
          /\ Telling("S", k)' <=> Telling("S", k)
      BY <1>s, <1>4, <1>7, <3>1 DEF Telling
    <3>3. \A q \in Sides : /\ Leaving(q, k)' <=> Leaving(q, k)
                           /\ KnowsUuid(q, k)' <=> KnowsUuid(q, k)
      BY <1>6 DEF Leaving, KnowsUuid
    <3>4. SideNotices("C", "S", k) /\ SideNotices("S", "C", k) /\ CreationNotices(k)
      BY <1>6, <2>2 DEF Notices
    <3>5. SideNotices("C", "S", k)' /\ SideNotices("S", "C", k)'
      BY <1>s, <1>4, <1>6, <1>7, <1>10, <3>2, <3>3, <3>4 DEF SideNotices
    <3>6. CreationNotices(k)'
      BY <1>6, <1>7, <1>10, <3>2, <3>4 DEF CreationNotices
    <3> QED BY <3>5, <3>6 DEF Notices
  <2> QED BY <2>1, <2>2
<1> QED BY <1>11, <1>12

-----------------------------------------------------------------------------
(* Closing is noticed, and the two lists agree.                             *)

\* A thread of side s closes k, as the other side is told or has told it.
LEMMA ShutsNotices ==
  ASSUME IInv, \A j \in Conns : Notices(j),
         NEW s \in Sides, NEW k \in Conns, NEW f \in Fds, Shuts(s, k, f),
         \/ /\ f = reader[s][k].sock /\ reader[s][k].pc = "close"
            /\ UNCHANGED tox
         \/ f = tox[s].sock /\ Doing(s, k) = "close" /\ UNCHANGED reader
  PROVE  \A j \in Conns : Notices(j)'
<1>0. /\ TypeOK /\ Desk /\ CreationOK(k)
      /\ \A j \in Conns : MakingOK(j)
  BY DEF IInv, Life, CreationOK
<1>1. /\ shut'[s] = IF f = 0 THEN shut[s] ELSE shut[s] \cup {k}
      /\ \A q \in Sides : q # s => shut'[q] = shut[q]
  BY <1>0, ShutsDesk
<1>2. /\ \A q \in Sides, j \in Conns :
           \/ Doing(q, j)' = Doing(q, j)
           \/ /\ q = s /\ j = k /\ Doing(q, j) = "close"
              /\ Doing(q, j)' = "idle"
      /\ \A q \in Sides : Writing(q)' = Writing(q)
      /\ \A j \in Conns : Accepting(j)' <=> Accepting(j)
  BY <1>0, ShutsDoing
<1>3. UNCHANGED <<up, refused, net, held, lost, main>>
  BY DEF Shuts, appVars, mail
<1>4. /\ \A q \in Sides : Pipe(q)' = Pipe(q)
      /\ \A j : Tells(j)
  BY <1>0, <1>2, <1>3, MailStays, FlowsTells
<1>5. PICK p \in Sides : p = Peer(s) /\ Peer(p) = s /\ p # s
                         /\ \A q \in Sides : q = p \/ q = s
  BY TwoSides
<1>6. \A q \in Sides, c \in Conns :
        \/ reader'[q][c] = reader[q][c]
        \/ /\ q = s /\ c = k /\ reader[s][k].pc = "close"
           /\ reader'[s][k].pc = "done"
  BY DEF Shuts
<1>7. \A q \in Sides : \/ tox'[q] = tox[q]
                        \/ /\ q = s /\ tox[q].pc = "close"
                           /\ tox[q].msg.uuid = k /\ tox'[q] = Idle
  BY DEF Shuts
<1>8. ASSUME NEW j \in Conns, j # k PROVE Notices(j)'
  <2>1. \A q \in Sides : j \in shut'[q] <=> j \in shut[q]
    BY <1>1, <1>8
  <2>2. \A q \in Sides : /\ Doing(q, j)' = Doing(q, j)
                         /\ reader'[q][j] = reader[q][j]
    BY <1>2, <1>6, <1>8
  <2>3. \A q \in Sides : Doing(q, j) = "close" => tox'[q].sock = tox[q].sock
    BY <1>7, <1>8 DEF Doing
  <2>4. Rests(j)
    BY <1>2, <1>3, <1>4, <2>1, <2>2, <2>3 DEF Rests
  <2> QED BY <2>4, RestsNotices
<1>9. Notices(k)'
  <2>1. CASE k \in lost'
    BY <2>1, NoticesOfBoth
  <2>2. CASE k \notin lost'
    <3>1. SideNotices(s, p, k) /\ SideNotices(p, s, k) /\ CreationNotices(k)
      BY <1>3, <1>5, <2>2, NoticesOfBoth
    <3>2. /\ \A q \in Sides : Pipe(q)' = Pipe(q)
          /\ Doing(p, k)' = Doing(p, k) /\ reader'[p][k] = reader[p][k]
          /\ shut'[p] = shut[p] /\ tox'[p] = tox[p]
          /\ k \in shut[s] => k \in shut'[s]
          /\ k \in shut'[s] => k \in shut[s] \/ f # 0
          /\ f # 0 => k \in shut'[s]
      BY <1>1, <1>2, <1>4, <1>5, <1>6, <1>7
    <3>3. (Telling(s, k)' <=> Telling(s, k)) /\ (Telling(p, k)' => Telling(p, k))
      BY <1>2, <1>5, <3>2 DEF Telling
    <3>4. /\ Leaving(p, k)' <=> Leaving(p, k)
          /\ KnowsUuid(p, k)' <=> KnowsUuid(p, k)
          /\ Leaving(s, k)' => Leaving(s, k)
          /\ KnowsUuid(s, k)'
          /\ Leaving(s, k) => Leaving(s, k)' \/ k \in shut'[s]
      <4>1. reader'[s][k] = reader[s][k] \/ reader'[s][k].pc = "done"
        BY <1>6
      <4>2. /\ Leaving(p, k)' <=> Leaving(p, k)
            /\ KnowsUuid(p, k)' <=> KnowsUuid(p, k)
        BY <3>2 DEF Leaving, KnowsUuid
      <4>3. Leaving(s, k)' => Leaving(s, k)
        BY <4>1 DEF Leaving
      <4>4. KnowsUuid(s, k)'
        BY <3>1, <3>2, <4>1 DEF KnowsUuid, SideNotices
      <4>5. Leaving(s, k) => Leaving(s, k)' \/ k \in shut'[s]
        BY <3>2, <4>1 DEF Leaving
      <4> QED BY <4>2, <4>3, <4>4, <4>5
    <3>5. ASSUME Telling(p, k), ~ Telling(p, k)'
          PROVE  k \in shut'[s] \/ (s = "S" /\ k \in refused)
      <4>1. Doing(s, k) = "close" /\ Doing(s, k)' # "close"
        BY <1>5, <3>2, <3>5 DEF Telling
      <4>2. f = tox[s].sock
        BY <4>1 DEF Doing
      <4> QED BY <3>1, <3>2, <4>1, <4>2 DEF SideNotices
    <3>6. k \in shut'[s] =>
            k \in shut[p] \cup refused \/ Telling(s, k) \/ Leaving(p, k)
      <4>1. CASE k \in shut[s]
        BY <3>1, <4>1 DEF SideNotices
      <4>2. CASE f # 0 /\ f = reader[s][k].sock /\ reader[s][k].pc = "close"
        BY <3>1, <4>2 DEF SideNotices, Leaving
      <4>3. CASE Doing(s, k) = "close"
        <5>1. Telling(p, k)
          BY <1>5, <4>3 DEF Telling
        <5> QED BY <3>1, <5>1 DEF SideNotices
      <4> QED BY <3>2, <4>1, <4>2, <4>3
    <3>7. SideNotices(s, p, k)'
      <4>1. Doing(s, k)' = "close" => Doing(s, k) = "close" /\ tox'[s] = tox[s]
        BY <1>2, <1>7 DEF Doing, Idle
      <4> QED BY <1>3, <3>1, <3>2, <3>3, <3>4, <3>6, <4>1 DEF SideNotices
    <3>8. s = "S" /\ k \in refused => ~ Leaving(p, k)
      BY <1>0, <1>5 DEF CreationOK, MadeOK, Leaving
    <3>9. SideNotices(p, s, k)'
      BY <1>3, <3>1, <3>2, <3>3, <3>4, <3>5, <3>8 DEF SideNotices
    <3>10. CreationNotices(k)'
      <4>1. /\ Has(Pipe("C")', k, "CREATE_SOCK") <=> Has(Pipe("C"), k, "CREATE_SOCK")
            /\ Telling("S", k) => Telling("S", k)' \/ k \in shut'["C"]
            /\ Doing("S", k) = "deny" => Doing("S", k)' = "deny"
            /\ Doing("S", k) = "connect" => Doing("S", k)' = "connect"
            /\ k \in shut["C"] => k \in shut'["C"]
        <5>1. "C" \in Sides /\ "S" \in Sides /\ "C" # "S"
          BY TwoSides
        <5>2. Telling("S", k) => Telling("S", k)' \/ k \in shut'["C"]
          BY <1>5, <3>3, <3>5, <5>1
        <5> QED BY <1>2, <1>5, <3>2, <5>1, <5>2
      <4> QED BY <1>2, <1>3, <3>1, <4>1 DEF CreationNotices
    <3> QED BY <1>5, <3>7, <3>9, <3>10, NoticesOfBoth
  <2> QED BY <2>1, <2>2
<1> QED BY <1>8, <1>9

\* A reader closes k, as the other side is told or has told it.
LEMMA ReaderClosesNotices ==
  ASSUME IInv, \A j \in Conns : Notices(j), NEW s \in Sides, NEW k \in Conns,
         ReaderCloses(s, k)
  PROVE  \A j \in Conns : Notices(j)'
<1>1. PICK f \in Fds : /\ f = reader[s][k].sock /\ Shuts(s, k, f)
                       /\ UNCHANGED tox
  BY ReaderShuts
<1>2. reader[s][k].pc = "close"
  BY DEF ReaderCloses, Is
<1> QED BY <1>1, <1>2, ShutsNotices

\* A Tox thread closes k, as the other side has told it.
LEMMA ToxClosesNotices ==
  ASSUME IInv, \A j \in Conns : Notices(j), NEW s \in Sides, ToxCloses(s)
  PROVE  \A j \in Conns : Notices(j)'
<1>1. PICK k \in Conns, f \in Fds :
        /\ f = tox[s].sock /\ Shuts(s, k, f) /\ Doing(s, k) = "close"
        /\ UNCHANGED reader
  BY ToxShuts
<1> QED BY <1>1, ShutsNotices

\* What a connection is known by on both sides.
NInv == IInv /\ \A k \in Conns : Notices(k)

\* Nobody misses anything at first.
LEMMA StartsNoticing == Init => \A k \in Conns : Notices(k)
<1> SUFFICES ASSUME Init, NEW k \in Conns PROVE Notices(k)
  OBVIOUS
<1>s. "C" \in Sides /\ "S" \in Sides /\ \A s \in Sides : Peer(s) \in Sides
  BY TwoSides
<1>1. /\ net = [s \in Sides |-> <<>>] /\ held = [s \in Sides |-> <<>>]
      /\ tox = [s \in Sides |-> Idle]
      /\ reader = [s \in Sides |-> [c \in Conns |-> NoReader]]
      /\ up = [s \in Sides |-> {}] /\ shut = [s \in Sides |-> {}]
      /\ refused = {}
  BY DEF Init
<1>2. \A s \in Sides : /\ net[s] = <<>> /\ held[s] = <<>> /\ tox[s].pc = "idle"
                       /\ reader[s][k].pc = "none"
                       /\ up[s] = {} /\ shut[s] = {}
  BY <1>1 DEF Idle, NoReader
<1>3. \A s \in Sides : \A cmd : ~ Has(Pipe(s), k, cmd)
  <2>1. \A s \in Sides : Writing(s) = <<>>
    BY <1>2 DEF Writing
  <2>2. \A s \in Sides : Pipe(s) = <<>> \o <<>> \o <<>>
    BY <1>s, <1>2, <2>1 DEF Pipe
  <2>3. DOMAIN (<<>> \o <<>> \o <<>>) = {}
    OBVIOUS
  <2> QED BY <2>2, <2>3 DEF Has
<1>4. \A s \in Sides : Doing(s, k) = "idle" /\ ~ Telling(s, k) /\ ~ Leaving(s, k)
  BY <1>s, <1>2, <1>3 DEF Doing, Telling, Leaving
<1>5. SideNotices("C", "S", k) /\ SideNotices("S", "C", k)
  BY <1>s, <1>2, <1>4 DEF SideNotices, KnowsUuid
<1>6. CreationNotices(k)
  BY <1>s, <1>1, <1>2 DEF CreationNotices
<1> QED BY <1>5, <1>6 DEF Notices

\* Nothing happens.
LEMMA StuttersNotice ==
  ASSUME IInv, \A j \in Conns : Notices(j), UNCHANGED vars
  PROVE  \A j \in Conns : Notices(j)'
<1>1. /\ UNCHANGED <<tox, reader, shut, refused, up, main, net, held, lost>>
  BY DEF vars, sockVars, appVars, mail
<1>2. \A j : Tells(j)
  <2>1. TypeOK /\ \A q \in Sides : Writing(q)' = Writing(q)
    BY <1>1 DEF IInv, Writing
  <2> QED BY <1>1, <2>1, QuietTells
<1>3. ASSUME NEW j \in Conns PROVE Notices(j)'
  <2>1. Accepting(j)' <=> Accepting(j)
    BY <1>1 DEF Accepting
  <2>2. Rests(j)
    BY <1>1, <1>2, <2>1, ThreadsRest
  <2> QED BY <2>2, RestsNotices
<1> QED BY <1>3

\* The reader threads move.
LEMMA ReadersNotice ==
  ASSUME IInv, \A j \in Conns : Notices(j), NEW s \in Sides, NEW k \in Conns,
         ReaderStep(s, k) \/ (s = "S" /\ ServerReaderStep(k))
  PROVE  \A j \in Conns : Notices(j)'
<1>1. CASE TakeUuid(s, k)      BY <1>1, TakeUuidNotices
<1>2. CASE Read(s, k)          BY <1>2, ReadNotices
<1>3. CASE ReadData(s, k)      BY <1>3, ReadNotices
<1>4. CASE ReadEnd(s, k)       BY <1>4, ReadNotices
<1>5. CASE Label(s, k)         BY <1>5, LabelNotices
<1>6. CASE SendData(s, k)      BY <1>6, SendDataNotices
<1>7. CASE LookBack(s, k)      BY <1>7, LookBackNotices
<1>8. CASE TellClosed(s, k)    BY <1>8, TellClosedNotices
<1>9. CASE ReaderCloses(s, k)  BY <1>9, ReaderClosesNotices
<1>10. CASE s = "S" /\ LabelAddr(k)  BY <1>10, LabelNotices
<1>11. CASE TakeAddr(k)        BY <1>11, TakeAddrNotices
<1>12. CASE SendSuccess(k)     BY <1>12, SendSuccessNotices
<1> QED BY <1>1, <1>2, <1>3, <1>4, <1>5, <1>6, <1>7, <1>8, <1>9, <1>10, <1>11,
           <1>12 DEF ReaderStep, ServerReaderStep

\* The Tox threads and the main thread move.
LEMMA ThreadsNotice ==
  ASSUME IInv, \A j \in Conns : Notices(j),
         \/ MainStep \/ ToxStepOfC \/ ToxStepOfS
         \/ \E s \in Sides : ToxStep(s)
  PROVE  \A j \in Conns : Notices(j)'
<1>1. CASE \E s \in Sides : ToxStep(s)
  <2>1. PICK s \in Sides : ToxStep(s)
    BY <1>1
  <2>2. CASE OnRawData(s)    BY <2>2, OnRawDataNotices
  <2>3. CASE WriteData(s)    BY <2>3, WriteDataNotices
  <2>4. CASE Deny(s)         BY <2>4, DenyNotices
  <2>5. CASE OnCloseSock(s)  BY <2>5, OnCloseSockNotices
  <2>6. CASE ToxCloses(s)    BY <2>6, ToxClosesNotices
  <2>7. CASE SendHeld(s)     BY <2>7, SendHeldNotices
  <2> QED BY <2>1, <2>2, <2>3, <2>4, <2>5, <2>6, <2>7 DEF ToxStep
<1>2. CASE Accept \/ AddAccepted  BY <1>2, AcceptNotices
<1>3. CASE CreateRemote           BY <1>3, CreateRemoteNotices
<1>4. CASE OnCreateSuccess        BY <1>4, OnCreateSuccessNotices
<1>5. CASE OnCreateSock           BY <1>5, OnCreateSockNotices
<1>6. CASE Connect                BY <1>6, ConnectNotices
<1>7. CASE AddConnected           BY <1>7, AddConnectedNotices
<1>8. CASE SetUuid                BY <1>8, SetUuidNotices
<1> QED BY <1>1, <1>2, <1>3, <1>4, <1>5, <1>6, <1>7, <1>8
        DEF MainStep, ToxStepOfC, ToxStepOfS

\* No step keeps a side from noticing what the other side does.
LEMMA NoticesStay ==
  ASSUME IInv, \A j \in Conns : Notices(j), [Next]_vars
  PROVE  \A j \in Conns : Notices(j)'
<1>1. CASE \/ Reconnect \/ \E s \in Sides : Disconnect(s)
           \/ \E s \in Sides, k \in Conns : AppWrites(s, k) \/ AppEnds(s, k)
  BY <1>1, WorldNotices
<1>2. CASE \/ MainStep \/ ToxStepOfC \/ ToxStepOfS
           \/ \E s \in Sides : ToxStep(s)
  BY <1>2, ThreadsNotice
<1>3. CASE \E k \in Conns : ServerReaderStep(k)
  BY <1>3, ReadersNotice, TwoSides
<1>4. CASE \E s \in Sides, k \in Conns : ReaderStep(s, k)
  BY <1>4, ReadersNotice
<1>5. CASE UNCHANGED vars
  BY <1>5, StuttersNotice
<1> QED BY <1>1, <1>2, <1>3, <1>4, <1>5 DEF Next

\* When nothing is under way, the list of a side names what it has made and
\* not closed.
LEMMA ListIsExact ==
  ASSUME IInv, Quiet, NEW s \in Sides
  PROVE  Records(s) = up[s] \ shut[s]
<1>1. FilesOK(s) /\ RecordsOK(s) /\ TypeOK
  BY DEF IInv, Desk
<1>2. tox[s].pc = "idle" /\ main.pc = "accept" /\ tox["S"].pc = "idle"
  BY TwoSides DEF Quiet
<1>3. \A k : ~ Creating(s, k)
  BY <1>2 DEF Creating, Doing
<1>4. ASSUME NEW k \in up[s] \ shut[s] PROVE k \in Records(s)
  BY <1>1, <1>3, <1>4 DEF FilesOK, HasRecord, Records
<1>5. ASSUME NEW i \in DOMAIN socks[s]
      PROVE  socks[s][i].uuid \in up[s] \ shut[s]
  <2>1. socks[s] \in Seq([uuid : Conns \cup {Fresh}, sock : Fds])
    BY <1>1 DEF TypeOK
  <2>2. socks[s][i] \in [uuid : Conns \cup {Fresh}, sock : Fds]
    BY <2>1, ElementOfSeq, LenProperties
  <2>3. socks[s][i].uuid \in Conns \cup {Fresh} /\ socks[s][i].sock \in Fds
    BY <2>2
  <2>4. socks[s][i].uuid # Fresh
    BY <1>1, <1>2 DEF RecordsOK, Unnamed
  <2>5. files[s][socks[s][i].sock] = socks[s][i].uuid
    BY <1>1, <2>4 DEF RecordsOK
  <2> QED BY <1>1, <2>3, <2>4, <2>5 DEF FilesOK
<1>6. up \in [Sides -> SUBSET Conns]
  BY <1>1 DEF TypeOK
<1> QED BY <1>4, <1>5, <1>6 DEF Records

\* Nobody has missed anything, and nothing is under way.
LEMMA QuietAgrees ==
  ASSUME NInv, Quiet, NEW k \in Conns, k \notin lost
  PROVE  k \in up["C"] \ shut["C"] <=> k \in up["S"] \ shut["S"]
<1>s. "C" \in Sides /\ "S" \in Sides /\ \A s \in Sides : Peer(s) \in Sides
  BY TwoSides
<1>1. \A s \in Sides : /\ net[s] = <<>> /\ held[s] = <<>> /\ tox[s].pc = "idle"
                       /\ reader[s][k].pc \in {"none", "blocked", "done"}
  BY DEF Quiet
<1>2. \A s \in Sides : \A cmd : ~ Has(Pipe(s), k, cmd)
  <2>1. \A s \in Sides : Writing(s) = <<>>
    BY <1>1 DEF Writing
  <2>2. \A s \in Sides : Pipe(s) = <<>> \o <<>> \o <<>>
    BY <1>s, <1>1, <2>1 DEF Pipe
  <2>3. DOMAIN (<<>> \o <<>> \o <<>>) = {}
    OBVIOUS
  <2> QED BY <2>2, <2>3 DEF Has
<1>3. \A s \in Sides : Doing(s, k) = "idle" /\ ~ Telling(s, k) /\ ~ Leaving(s, k)
  BY <1>s, <1>1, <1>2 DEF Doing, Telling, Leaving
<1>4. /\ k \in shut["C"] => k \in shut["S"] \cup refused
      /\ k \in shut["S"] => k \in shut["C"] \cup refused
  BY <1>s, <1>3 DEF NInv, Notices, SideNotices
<1>5. /\ k \in up["C"] => k \in up["S"] \cup refused
      /\ k \in refused => k \in shut["C"]
  <2>1. ~ Accepting(k)
    BY DEF Quiet, Accepting
  <2> QED BY <1>s, <1>2, <1>3, <2>1 DEF NInv, Notices, CreationNotices
<1>6. /\ k \in up["S"] => k \in up["C"]
      /\ ~ (k \in up["S"] /\ k \in refused)
  BY DEF NInv, IInv, Life, CreationOK, MadeOK
<1> QED BY <1>4, <1>5, <1>6

\* What a side closes, or cannot make, the other side gets to know of: when
\* nothing is under way the lists of the two sides agree.
THEOREM ListsStayEqual ==
  Spec /\ NoHeldNumber => []ListsAgree
<1>1. Init => NInv
  BY Starts, StartsNoticing DEF NInv
<1>2. NInv /\ [Next]_vars /\ [StaysClosed]_vars => NInv'
  BY Steps, Stutters, NoticesStay DEF NInv
<1>3. NInv => ListsAgree
  <2> SUFFICES ASSUME NInv, Quiet
               PROVE  Records("C") \ lost = Records("S") \ lost
    BY DEF ListsAgree
  <2>1. /\ Records("C") = up["C"] \ shut["C"]
        /\ Records("S") = up["S"] \ shut["S"]
    BY ListIsExact, TwoSides DEF NInv
  <2>2. up \in [Sides -> SUBSET Conns]
    BY DEF NInv, IInv, TypeOK
  <2>3. \A k \in Conns : k \notin lost =>
          (k \in up["C"] \ shut["C"] <=> k \in up["S"] \ shut["S"])
    BY QuietAgrees
  <2> QED BY <2>1, <2>2, <2>3, TwoSides
<1> QED BY <1>1, <1>2, <1>3, PTL DEF Spec, NoHeldNumber
=============================================================================
