----------------------------- MODULE TunnelSteps ------------------------------
(*****************************************************************************)
(* The steps of Tunnel that neither open nor close a descriptor keep the     *)
(* invariant: those of the readers, those in which messages are sent,        *)
(* dropped and handled, and those of the applications and of the connection  *)
(* of the programs.                                                          *)
(*****************************************************************************)
EXTENDS TunnelLemmas

-----------------------------------------------------------------------------
(* Readers.                                                                 *)

\* One reader changes.
LEMMA NowTyped ==
  ASSUME TypeOK, NEW s \in Sides, NEW k \in Conns, NEW r, Now(s, k, r)
  PROVE  /\ r \in Readers => reader' \in [Sides -> [Conns -> Readers]]
         /\ \A q \in Sides, c \in Conns :
              reader'[q][c] = IF q = s /\ c = k THEN r ELSE reader[q][c]
<1>1. reader \in [Sides -> [Conns -> Readers]] /\ reader' = [reader EXCEPT ![s][k] = r]
  BY DEF TypeOK, Now
<1> QED BY <1>1, ConnChange

\* What a reader is, and what it has read.
LEMMA ReaderTyped ==
  ASSUME TypeOK, NEW s \in Sides, NEW k \in Conns
  PROVE  /\ reader[s][k] \in Readers
         /\ reader[s][k].sock \in Fds
         /\ taken[s][k] \in Nat /\ wrote[s][k] \in Nat
BY DEF TypeOK, Readers

\* The reader of k on side s moves, and nothing else changes but how much it
\* has read.
OnlyReader(s, k, r) ==
  /\ Now(s, k, r) /\ r \in Readers
  /\ taken' \in [Sides -> [Conns -> Nat]]
  /\ \A q \in Sides, c \in Conns : ~ (q = s /\ c = k) => taken'[q][c] = taken[q][c]
  /\ UNCHANGED <<sockVars, appVars, mail, links, tox, main, out>>

\* A reader that moves touches no descriptor and no message.
LEMMA ReaderBase ==
  ASSUME TypeOK, Desk, NEW s \in Sides, NEW k \in Conns, NEW r, OnlyReader(s, k, r)
  PROVE  /\ TypeOK' /\ Desk'
         /\ \A j \in Conns : Grows(j)
         /\ \A j : Flows(j)
         /\ \A q \in Sides : Pipe(q)' = Pipe(q)
         /\ \A q \in Sides, c \in Conns :
              reader'[q][c] = IF q = s /\ c = k THEN r ELSE reader[q][c]
         /\ \A q \in Sides, c \in Conns :
              /\ Doing(q, c)' = Doing(q, c)
              /\ Accepting(c)' <=> Accepting(c)
<1>1. /\ UNCHANGED <<files, socks, shut, up, wrote, fin, refused>>
      /\ UNCHANGED <<net, held, lost, linked, online, ends, tox, main, out>>
      /\ Now(s, k, r) /\ r \in Readers
      /\ taken' \in [Sides -> [Conns -> Nat]]
  BY DEF OnlyReader, sockVars, appVars, mail, links
<1>2. TypeOK'
  <2>1. reader' \in [Sides -> [Conns -> Readers]]
    BY <1>1, NowTyped
  <2> QED BY <1>1, <2>1 DEF TypeOK
<1>3. Desk'
  <2>1. \A q \in Sides : SideStays(q) /\ up'[q] = up[q] /\ SameMaking(q)
    BY <1>1 DEF SideStays, SameMaking, Creating, Unnamed, Doing
  <2>2. \A q \in Sides : FilesOK(q)' /\ RecordsOK(q)'
    BY <2>1, StaysOK
  <2>3. \A q, c, f : Mine(q, c, f)' <=> Mine(q, c, f)
    BY <1>1 DEF Mine
  <2>4. MainOK' /\ ToxOK'
    BY <1>1, <2>3 DEF Desk, MainOK, ToxOK, WithSock
  <2> QED BY <2>2, <2>4 DEF Desk
<1>4. \A j \in Conns : Grows(j)
  BY <1>1 DEF Grows, Mine
<1>5. /\ \A q \in Sides : Pipe(q)' = Pipe(q)
      /\ \A j : Flows(j)
  <2>1. \A q \in Sides : Writing(q)' = Writing(q)
    BY <1>1 DEF Writing
  <2> QED BY <1>1, <2>1, MailStays
<1>6. \A q \in Sides, c \in Conns : /\ Doing(q, c)' = Doing(q, c)
                                    /\ Accepting(c)' <=> Accepting(c)
  BY <1>1 DEF Doing, Accepting
<1> QED BY <1>1, <1>2, <1>3, <1>4, <1>5, <1>6, NowTyped

\* A reader moves: what is left to show is about its own connection.
LEMMA ReaderMoves ==
  ASSUME IInv, NEW s \in Sides, NEW k \in Conns, NEW r, OnlyReader(s, k, r),
         r.pc = "none" <=> reader[s][k].pc = "none",
         s = "S" => (r.pc \in {"start", "uuid", "success"}
                       <=> reader[s][k].pc \in {"start", "uuid", "success"}),
         ReaderOK(s, k)', StreamOK(s, k)', EndOK(s, k)'
  PROVE  IInv'
<1>0. TypeOK /\ Desk /\ \A j \in Conns : Life(j)
  BY DEF IInv
<1>1. /\ TypeOK' /\ Desk'
      /\ \A j \in Conns : Grows(j)
      /\ \A j : Flows(j)
      /\ \A q \in Sides : Pipe(q)' = Pipe(q)
      /\ \A q \in Sides, c \in Conns :
           reader'[q][c] = IF q = s /\ c = k THEN r ELSE reader[q][c]
      /\ \A q \in Sides, c \in Conns :
           /\ Doing(q, c)' = Doing(q, c)
           /\ Accepting(c)' <=> Accepting(c)
  BY <1>0, ReaderBase
<1>2. /\ UNCHANGED <<wrote, out, up, shut, refused, fin, lost>>
      /\ \A q \in Sides, c \in Conns : ~ (q = s /\ c = k) => taken'[q][c] = taken[q][c]
  BY DEF OnlyReader, sockVars, appVars, mail
<1>3. ASSUME NEW j \in Conns, j # k PROVE Life(j)'
  <2>1. Still(j)
    BY <1>1, <1>2, <1>3 DEF Still, Flows
  <2> QED BY <1>0, <1>1, <2>1, StillAlive
<1>4. CreationOK(k)'
  <2>1. ASSUME NEW q \in Sides
        PROVE  Stage(q, k)' = Stage(q, k)
    <3>1. CASE q = s
      BY <3>1, <1>1 DEF Stage
    <3>2. CASE q # s
      BY <3>2, <1>1 DEF Stage
    <3> QED BY <3>1, <3>2
  <2> QED BY <2>1, <1>0, <1>1, <1>2, CreationFrame, TwoSides DEF Life, Flows
<1>5. ASSUME NEW q \in Sides
      PROVE  /\ ReaderOK(q, k)' /\ StreamOK(q, k)' /\ OutOK(q, k)' /\ EndOK(q, k)'
  <2>1. OutOK(q, k)'
    BY <1>0, <1>1, <1>2, OutFrame DEF Life
  <2>2. CASE q # s
    <3>0. /\ reader'[q][k] = reader[q][k] /\ taken'[q][k] = taken[q][k]
          /\ ReaderOK(q, k) /\ StreamOK(q, k) /\ EndOK(q, k)
      BY <2>2, <1>0, <1>1, <1>2 DEF Life
    <3>1. ReaderOK(q, k)'
      BY <3>0, <1>0, <1>1, <1>2, ReaderFrame DEF ReaderOK
    <3>2. StreamOK(q, k)'
      <4>1. Top(q, k)' = Top(q, k) /\ (Reading(q, k)' => Reading(q, k))
        BY <3>0, <1>2 DEF Top, Reading
      <4> QED BY <4>1, <3>0, <1>0, <1>1, <1>2, StreamFrame, TwoSides DEF Flows
    <3>3. EndOK(q, k)'
      BY <3>0, <1>0, <1>1, <1>2, EndFrame, TwoSides DEF Flows
    <3> QED BY <2>1, <3>1, <3>2, <3>3
  <2>3. CASE q = s
    BY <2>1, <2>3
  <2> QED BY <2>2, <2>3
<1> QED BY <1>1, <1>3, <1>4, <1>5 DEF IInv, Life

\* A connection with a reader has been made.
LEMMA Settled ==
  ASSUME IInv, NEW s \in Sides, NEW k \in Conns, reader[s][k].pc # "none"
  PROVE  /\ ~ Creating(s, k) /\ k \in up["S"] \ refused
         /\ ReaderOK(s, k) /\ StreamOK(s, k) /\ EndOK(s, k)
         /\ TypeOK /\ Desk
<1>1. TypeOK /\ Desk /\ Life(k)
  BY DEF IInv
<1>2. /\ MakingOK(k) /\ MadeOK(k) /\ UnaskedOK(k)
      /\ ReaderOK(s, k) /\ StreamOK(s, k) /\ EndOK(s, k)
  BY <1>1 DEF Life, CreationOK
<1>3. k \in up["S"] \ refused
  BY <1>2 DEF MadeOK
<1>4. CASE s = "S"
  BY <1>1, <1>2, <1>3, <1>4 DEF MakingOK, Creating
<1>5. CASE s = "C"
  BY <1>1, <1>2, <1>3, <1>5 DEF UnaskedOK, Creating, Accepting, Unborn
<1> QED BY <1>1, <1>2, <1>3, <1>4, <1>5, TwoSides DEF Sides

\* What a reader finds by its descriptor.
LEMMA ReaderKnows ==
  ASSUME IInv, NEW s \in Sides, NEW k \in Conns,
         reader[s][k].pc \notin {"none", "done"}
  PROVE  LET f == reader[s][k].sock
         IN /\ f \in Fds
            /\ f = 0 => s = "C" /\ UuidOf(s, f) = NoUuid
                        /\ files[s][f] \in {Std, NoFile}
            /\ f # 0 => Mine(s, k, f)
            /\ f # 0 /\ k \notin shut[s] => /\ files[s][f] = k /\ UuidOf(s, f) = k
                                            /\ WithSock(s, f) # {}
            /\ f # 0 /\ k \in shut[s] => /\ files[s][f] = NoFile
                                         /\ UuidOf(s, f) = NoUuid
<1> DEFINE f == reader[s][k].sock
<1>1. TypeOK /\ Desk /\ ReaderOK(s, k) /\ ~ Creating(s, k) /\ f \in Fds
  BY Settled, ReaderTyped
<1>2. /\ f = 0 => s = "C"
      /\ f # 0 => Mine(s, k, f)
  BY <1>1 DEF ReaderOK
<1> HIDE DEF f
<1> QED BY <1>1, <1>2, ZeroUnknown, Known DEF f

\* The other side waits while the reader of side S sets out.
LEMMA YoungFacts ==
  ASSUME IInv, NEW k \in Conns,
         reader["S"][k].pc \in {"start", "uuid", "success"}
  PROVE  Dormant(k) /\ k \notin shut["S"] /\ reader["S"][k].sock # 0
<1>1. k \notin refused /\ ReaderOK("S", k) /\ Life(k)
  BY Settled, TwoSides DEF IInv
<1>2. Dormant(k)
  BY <1>1 DEF Life, CreationOK, YoungOK, Young
<1>3. reader["S"][k].sock # 0
  BY <1>1 DEF ReaderOK
<1> QED BY <1>2, <1>3 DEF Dormant

\* A reader moves that reads and sends nothing.
LEMMA ReaderTurns ==
  ASSUME IInv, NEW s \in Sides, NEW k \in Conns, NEW r, OnlyReader(s, k, r),
         taken' = taken,
         r.pc = "none" <=> reader[s][k].pc = "none",
         s = "S" => (r.pc \in {"start", "uuid", "success"}
                       <=> reader[s][k].pc \in {"start", "uuid", "success"}),
         r.pc \in Holding <=> reader[s][k].pc \in Holding,
         r.pc = "blocked" /\ r.file = k => Reading(s, k),
         r.pc \in Ending /\ r.sock # 0 =>
           \/ reader[s][k].pc \in Ending /\ reader[s][k].sock # 0
           \/ k \in shut[s] \/ Excused(Peer(s), k) \/ AllSent(s, k),
         ReaderOK(s, k)'
  PROVE  IInv'
<1>0. TypeOK /\ Desk /\ Life(k)
  BY DEF IInv
<1>1. /\ TypeOK' /\ Grows(k) /\ Flows(k)
      /\ \A q \in Sides : Pipe(q)' = Pipe(q)
      /\ reader'[s][k] = r
      /\ \A q \in Sides : Doing(q, k)' = Doing(q, k)
  BY <1>0, ReaderBase
<1>2. UNCHANGED <<wrote, out, up, shut, refused, fin, lost>>
  BY DEF OnlyReader, sockVars, appVars, mail
<1>3. StreamOK(s, k)'
  <2>1. StreamOK(s, k)
    BY <1>0 DEF Life
  <2>2. Top(s, k)' = Top(s, k)
    BY <1>1 DEF Top
  <2>3. Reading(s, k)' => Reading(s, k)
    BY <1>1, <1>2 DEF Reading
  <2> QED BY <1>0, <1>1, <1>2, <2>1, <2>2, <2>3, StreamFrame, TwoSides
             DEF Flows
<1>4. EndOK(s, k)'
  <2>1. EndOK(s, k)
    BY <1>0 DEF Life
  <2>3. /\ Given(Peer(s), k)' = Given(Peer(s), k)
        /\ \A q \in Sides : Excused(q, k)' <=> Excused(q, k)
    BY <1>2 DEF Given, Promise!Given, Excused
  <2>2. AllSent(s, k) => AllSent(s, k)'
    BY <1>1, <1>2, <2>3 DEF AllSent
  <2>4. /\ Has(Pipe(s)', k, "CLOSE_SOCK") <=> Has(Pipe(s), k, "CLOSE_SOCK")
        /\ ClosesLast(Pipe(s)', k) <=> ClosesLast(Pipe(s), k)
    BY <1>1
  <2> QED BY <1>1, <1>2, <2>1, <2>2, <2>3, <2>4, TwoSides DEF EndOK
<1> QED BY <1>3, <1>4, ReaderMoves

\* The reader of side S takes the address.
LEMMA TakeAddrStep ==
  ASSUME IInv, NEW k \in Conns, TakeAddr(k)
  PROVE  IInv'
<1> DEFINE o == reader["S"][k]
           b == WithSock("S", o.sock) # {}
           r == [o EXCEPT !.pc = "uuid", !.addr = b]
<1>0. "S" \in Sides /\ o \in Readers /\ o.pc = "start"
  BY TwoSides, ReaderTyped DEF TakeAddr, Is, IInv
<1>1. r \in Readers /\ r.pc = "uuid" /\ r.addr = b /\ r.sock = o.sock
      /\ r.uuid = o.uuid
  <2>1. b \in BOOLEAN
    OBVIOUS
  <2> HIDE DEF b
  <2> QED BY <1>0, <2>1 DEF Readers
<1>2. OnlyReader("S", k, r) /\ taken' = taken
  BY <1>1 DEF TakeAddr, OnlyReader, IInv, TypeOK
<1>3. b
  BY <1>0, YoungFacts, ReaderKnows
<1>4. Grows(k) /\ reader'["S"][k] = r
  BY <1>0, <1>2, ReaderBase DEF IInv
<1> HIDE DEF r, b
<1>5. ReaderOK("S", k)'
  <2>1. ReaderOK("S", k) /\ o.sock \in Fds
    BY <1>0, Settled, ReaderKnows
  <2>2. UNCHANGED <<wrote, shut, fin>>
    BY <1>2 DEF OnlyReader, sockVars, appVars
  <2> QED BY <1>0, <1>1, <1>2, <1>3, <1>4, <2>1, <2>2
             DEF ReaderOK, Grows, Holding, Ending
<1> QED BY <1>0, <1>1, <1>2, <1>5, ReaderTurns DEF Holding, Ending

\* A reader looks its uuid up.
LEMMA TakeUuidStep ==
  ASSUME IInv, NEW s \in Sides, NEW k \in Conns, TakeUuid(s, k)
  PROVE  IInv'
<1> DEFINE o == reader[s][k]
           u == UuidOf(s, o.sock)
           pc == IF s = "C" THEN "read" ELSE IF u = NoUuid THEN "done" ELSE "success"
           r == [o EXCEPT !.uuid = u, !.pc = pc]
<1>0. o \in Readers /\ o.pc = IF s = "C" THEN "start" ELSE "uuid"
  BY TwoSides, ReaderTyped DEF TakeUuid, Is, IInv
<1>a. /\ u \in {k, NoUuid}
      /\ o.sock = 0 => u = NoUuid
      /\ s = "S" => u = k /\ k # NoUuid
  BY <1>0, ReaderKnows, YoungFacts, Names, TwoSides
<1>1. r \in Readers /\ r.pc = pc /\ r.addr = o.addr /\ r.sock = o.sock
      /\ r.uuid = u
  <2>1. u \in Conns \cup {NoUuid} /\ pc \in {"read", "done", "success"}
    BY <1>a
  <2> HIDE DEF u, pc
  <2> QED BY <1>0, <2>1 DEF Readers
<1>2. OnlyReader(s, k, r) /\ taken' = taken
  BY <1>1 DEF TakeUuid, OnlyReader, IInv, TypeOK
<1>3. pc = IF s = "C" THEN "read" ELSE "success"
  BY <1>a DEF Sides
<1>4. Grows(k) /\ reader'[s][k] = r
  BY <1>0, <1>2, ReaderBase DEF IInv
<1> HIDE DEF r, u, pc
<1>5. ReaderOK(s, k)'
  <2>1. ReaderOK(s, k) /\ o.sock \in Fds
    BY <1>0, Settled, ReaderKnows
  <2>2. UNCHANGED <<wrote, shut, fin>>
    BY <1>2 DEF OnlyReader, sockVars, appVars
  <2>3. CASE s = "C"
    BY <2>3, <1>0, <1>a, <1>1, <1>2, <1>3, <1>4, <2>1, <2>2
       DEF ReaderOK, Grows, Holding, Ending
  <2>4. CASE s = "S"
    BY <2>4, <1>0, <1>a, <1>1, <1>2, <1>3, <1>4, <2>1, <2>2
       DEF ReaderOK, Grows, Holding, Ending
  <2> QED BY <2>3, <2>4 DEF Sides
<1> QED BY <1>0, <1>1, <1>2, <1>3, <1>5, ReaderTurns DEF Holding, Ending

\* A reader begins to read.
LEMMA ReadStep ==
  ASSUME IInv, NEW s \in Sides, NEW k \in Conns, Read(s, k)
  PROVE  IInv'
<1> DEFINE o == reader[s][k]
           file == files[s][o.sock]
           pc == IF file \in {NoFile, Leaked} THEN "end" ELSE "blocked"
           r == [o EXCEPT !.file = file, !.pc = pc]
<1>0. o \in Readers /\ o.pc = "read"
  BY TwoSides, ReaderTyped DEF Read, Is, IInv
<1>a. /\ o.sock = 0 => s = "C" /\ file \in {Std, NoFile}
      /\ o.sock # 0 => \/ file = k /\ k \notin shut[s]
                       \/ file = NoFile /\ k \in shut[s]
      /\ k \notin {Std, NoFile, Leaked} /\ Std \notin {NoFile, Leaked}
  BY <1>0, ReaderKnows, Names
<1>1. r \in Readers /\ r.pc = pc /\ r.addr = o.addr /\ r.sock = o.sock
      /\ r.uuid = o.uuid /\ r.file = file
  <2>1. file \in Conns \cup {Std, Leaked, NoFile} /\ pc \in {"end", "blocked"}
    BY <1>a
  <2> HIDE DEF file, pc
  <2> QED BY <1>0, <2>1 DEF Readers
<1>2. OnlyReader(s, k, r) /\ taken' = taken
  BY <1>1 DEF Read, OnlyReader, IInv, TypeOK
<1>4. Grows(k) /\ reader'[s][k] = r
  BY <1>0, <1>2, ReaderBase DEF IInv
<1>b. \/ pc = "end" /\ file = NoFile
      \/ pc = "blocked" /\ file \in {k, Std}
  BY <1>a
<1> HIDE DEF r, pc, file
<1>5. ReaderOK(s, k)'
  <2>1. ReaderOK(s, k) /\ o.sock \in Fds
    BY <1>0, Settled, ReaderKnows
  <2>2. UNCHANGED <<wrote, shut, fin>>
    BY <1>2 DEF OnlyReader, sockVars, appVars
  <2> QED BY <1>0, <1>a, <1>b, <1>1, <1>2, <1>4, <2>1, <2>2
             DEF ReaderOK, Grows, Holding, Ending
<1>6. /\ r.pc = "blocked" /\ r.file = k => Reading(s, k)
      /\ r.pc \in Ending /\ r.sock # 0 => k \in shut[s]
  BY <1>a, <1>b, <1>1 DEF Reading, Ending
<1> QED BY <1>0, <1>b, <1>1, <1>2, <1>5, <1>6, ReaderTurns DEF Holding

\* A reader finds the end of its stream.
LEMMA ReadEndStep ==
  ASSUME IInv, NEW s \in Sides, NEW k \in Conns, ReadEnd(s, k)
  PROVE  IInv'
<1> DEFINE o == reader[s][k]
           r == [o EXCEPT !.pc = "end", !.file = NoFile]
<1>0. o \in Readers /\ o.pc = "blocked" /\ o.file \in Exhausted(s)
  BY TwoSides, ReaderTyped DEF ReadEnd, Is, IInv
<1>a. ReaderOK(s, k) /\ StreamOK(s, k) /\ o.sock \in Fds
  BY <1>0, Settled, ReaderKnows
<1>b. o.sock # 0 => /\ o.file = k /\ k \in fin[s] \cup shut[s]
                    /\ taken[s][k] = wrote[s][k]
  BY <1>0, <1>a, Names DEF ReaderOK, Exhausted
<1>1. r \in Readers /\ r.pc = "end" /\ r.addr = o.addr /\ r.sock = o.sock
      /\ r.uuid = o.uuid
  BY <1>0 DEF Readers
<1>2. OnlyReader(s, k, r) /\ taken' = taken
  BY <1>1 DEF ReadEnd, OnlyReader, IInv, TypeOK
<1>4. Grows(k) /\ reader'[s][k] = r
  BY <1>0, <1>2, ReaderBase DEF IInv
<1> HIDE DEF r
<1>5. ReaderOK(s, k)'
  <2>2. UNCHANGED <<wrote, shut, fin>>
    BY <1>2 DEF OnlyReader, sockVars, appVars
  <2> QED BY <1>0, <1>a, <1>b, <1>1, <1>2, <1>4, <2>2
             DEF ReaderOK, Grows, Holding, Ending
<1>6. o.sock # 0 => k \in shut[s] \/ Excused(Peer(s), k) \/ AllSent(s, k)
  BY <1>0, <1>a, <1>b
     DEF StreamOK, Excused, AllSent, Top, Reading, Holding
<1> QED BY <1>0, <1>1, <1>2, <1>5, <1>6, ReaderTurns DEF Holding

\* A reader looks whether its record is still there.
LEMMA LookBackStep ==
  ASSUME IInv, NEW s \in Sides, NEW k \in Conns, LookBack(s, k)
  PROVE  IInv'
<1> DEFINE o == reader[s][k]
           pc == IF SockOf(s, o.uuid) # 0 THEN "tell" ELSE "close"
           r == [o EXCEPT !.pc = pc]
<1>0. o \in Readers /\ o.pc = "end"
  BY TwoSides, ReaderTyped DEF LookBack, Is, IInv
<1>a. ReaderOK(s, k) /\ o.sock \in Fds
  BY <1>0, Settled, ReaderKnows
<1>b. pc = "tell" => o.uuid # NoUuid
  BY ZeroUnknown DEF IInv
<1>1. r \in Readers /\ r.pc = pc /\ r.addr = o.addr /\ r.sock = o.sock
      /\ r.uuid = o.uuid /\ pc \in {"tell", "close"}
  <2>1. pc \in {"tell", "close"}
    OBVIOUS
  <2> HIDE DEF pc
  <2> QED BY <1>0, <2>1 DEF Readers
<1>2. OnlyReader(s, k, r) /\ taken' = taken
  BY <1>1 DEF LookBack, Goto, OnlyReader, IInv, TypeOK
<1>4. Grows(k) /\ reader'[s][k] = r
  BY <1>0, <1>2, ReaderBase DEF IInv
<1> HIDE DEF r, pc
<1>5. ReaderOK(s, k)'
  <2>2. UNCHANGED <<wrote, shut, fin>>
    BY <1>2 DEF OnlyReader, sockVars, appVars
  <2> QED BY <1>0, <1>a, <1>b, <1>1, <1>2, <1>4, <2>2
             DEF ReaderOK, Grows, Holding, Ending
<1> QED BY <1>0, <1>1, <1>2, <1>5, ReaderTurns DEF Holding, Ending

\* The reader of a stream that is not sent completely cannot harm its end.
LEMMA EndStays ==
  ASSUME TypeOK, Desk, NEW s \in Sides, NEW k \in Conns, NEW r,
         OnlyReader(s, k, r), EndOK(s, k), ~ AllSent(s, k),
         r.pc \notin Ending
  PROVE  EndOK(s, k)'
<1>1. /\ \A q \in Sides : Pipe(q)' = Pipe(q)
      /\ reader'[s][k] = r
      /\ \A q \in Sides : Doing(q, k)' = Doing(q, k)
  BY ReaderBase
<1>2. UNCHANGED <<wrote, out, up, shut, refused, fin, lost>>
  BY DEF OnlyReader, sockVars, appVars, mail
<1>3. /\ Given(Peer(s), k)' = Given(Peer(s), k)
      /\ \A q \in Sides : Excused(q, k)' <=> Excused(q, k)
  BY <1>2 DEF Given, Promise!Given, Excused
<1>4. Has(Pipe(s)', k, "CLOSE_SOCK") <=> Has(Pipe(s), k, "CLOSE_SOCK")
  BY <1>1
<1> QED BY <1>1, <1>2, <1>3, <1>4, TwoSides DEF EndOK

\* A reader reads a piece.
LEMMA ReadDataStep ==
  ASSUME IInv, NEW s \in Sides, NEW k \in Conns, ReadData(s, k)
  PROVE  IInv'
<1> DEFINE o == reader[s][k]
           n == taken[s][k] + 1
           r == [o EXCEPT !.pc = "got", !.file = NoFile, !.data = <<k, n>>]
<1>0. /\ o \in Readers /\ o.pc = "blocked" /\ o.file \in Conns
      /\ taken[s][k] \in Nat /\ n \in Nat /\ wrote[s][k] \in Nat
  BY TwoSides, ReaderTyped DEF ReadData, Is, IInv
<1>a. /\ ReaderOK(s, k) /\ StreamOK(s, k) /\ EndOK(s, k) /\ o.sock \in Fds
      /\ TypeOK /\ Desk
  BY <1>0, Settled, ReaderKnows
<1>b. o.sock # 0 /\ o.file = k /\ taken[s][k] < wrote[s][k]
  BY <1>0, <1>a, Names DEF ReaderOK, ReadData
<1>c. taken' = [taken EXCEPT ![s][k] = n] /\ Now(s, k, r)
  BY <1>b DEF ReadData
<1>d. /\ taken' \in [Sides -> [Conns -> Nat]]
      /\ \A q \in Sides, c \in Conns :
           taken'[q][c] = IF q = s /\ c = k THEN n ELSE taken[q][c]
  <2>1. taken \in [Sides -> [Conns -> Nat]]
    BY <1>a DEF TypeOK
  <2> HIDE DEF n
  <2> QED BY <1>0, <1>c, <2>1, ConnChange
<1>1. r \in Readers /\ r.pc = "got" /\ r.addr = o.addr /\ r.sock = o.sock
      /\ r.uuid = o.uuid /\ r.data = <<k, n>>
  <2> HIDE DEF n
  <2> QED BY <1>0 DEF Readers
<1> HIDE DEF r
<1>2. OnlyReader(s, k, r)
  <2>1. UNCHANGED <<sockVars, appVars, mail, links, tox, main, out>>
    BY DEF ReadData
  <2> QED BY <1>1, <1>c, <1>d, <2>1 DEF OnlyReader
<1>4. /\ Grows(k) /\ reader'[s][k] = r /\ TypeOK' /\ Flows(k)
      /\ taken'[s][k] = taken[s][k] + 1
  BY <1>a, <1>2, <1>d, ReaderBase
<1>3. UNCHANGED <<wrote, shut, fin, out>>
  BY <1>2 DEF OnlyReader, sockVars, appVars
<1>5. ReaderOK(s, k)'
  BY <1>0, <1>a, <1>b, <1>1, <1>3, <1>4 DEF ReaderOK, Grows, Holding, Ending
<1>6. StreamOK(s, k)'
  <2>1. Top(s, k)' = Top(s, k)
    BY <1>0, <1>1, <1>4 DEF Top, Holding
  <2>2. Reading(s, k)
    BY <1>0, <1>b DEF Reading
  <2> QED BY <1>a, <1>3, <1>4, <2>1, <2>2, StreamFrame, TwoSides DEF Flows
<1>7. EndOK(s, k)'
  <2>1. ~ AllSent(s, k)
    BY <1>0, <1>b DEF AllSent
  <2> QED BY <1>a, <1>1, <1>2, <2>1, EndStays DEF Ending
<1> QED BY <1>0, <1>1, <1>2, <1>5, <1>6, <1>7, ReaderMoves

\* The reader drops a piece, since the descriptor has been closed.
LEMMA ReaderDrops ==
  ASSUME IInv, NEW s \in Sides, NEW k \in Conns, k \in shut[s],
         reader[s][k].pc \in Holding, NEW r,
         r = [reader[s][k] EXCEPT !.pc = "read", !.data = <<>>]
           \/ r = [reader[s][k] EXCEPT !.pc = "read", !.data = <<>>,
                                       !.label = NoUuid],
         Now(s, k, r),
         UNCHANGED <<sockVars, appVars, mail, links, tox, main, taken, out>>
  PROVE  IInv'
<1> DEFINE o == reader[s][k]
<1>0. /\ o \in Readers
      /\ taken[s][k] \in Nat /\ wrote[s][k] \in Nat
  BY ReaderTyped DEF IInv
<1>a. /\ ReaderOK(s, k) /\ StreamOK(s, k) /\ EndOK(s, k) /\ o.sock \in Fds
      /\ TypeOK /\ Desk /\ o.sock # 0
  <2>1. o.pc \notin {"none", "done"}
    BY DEF Holding
  <2>2. ReaderOK(s, k) /\ StreamOK(s, k) /\ EndOK(s, k) /\ TypeOK /\ Desk
        /\ o.sock \in Fds
    BY <2>1, Settled, ReaderKnows
  <2> QED BY <2>1, <2>2 DEF ReaderOK
<1>1. r \in Readers /\ r.pc = "read" /\ r.addr = o.addr /\ r.sock = o.sock
      /\ r.uuid = o.uuid
  BY ZenonT(60), <1>0 DEF Readers
<1>2. OnlyReader(s, k, r) /\ taken' = taken
  <2>1. taken \in [Sides -> [Conns -> Nat]]
    BY <1>a DEF TypeOK
  <2>2. taken' = taken
    OBVIOUS
  <2> QED BY <1>1, <2>1, <2>2 DEF OnlyReader
<1>4. /\ Grows(k) /\ reader'[s][k] = r /\ TypeOK'
      /\ Pipe(s)' = Pipe(s)
  BY <1>a, <1>2, ReaderBase
<1>3. UNCHANGED <<wrote, shut, fin, out, lost>>
  BY <1>2 DEF OnlyReader, sockVars, appVars, mail
<1>5. ReaderOK(s, k)'
  BY <1>0, <1>a, <1>1, <1>2, <1>3, <1>4 DEF ReaderOK, Grows, Holding, Ending
<1>6. StreamOK(s, k)'
  <2>1. Top(s, k)' = Top(s, k) + 1 /\ Top(s, k) \in Int
    BY <1>0, <1>1, <1>2, <1>4 DEF Top, Holding
  <2>2. ~ Reading(s, k)'
    BY <1>1, <1>3, <1>4 DEF Reading, Holding
  <2>3. Given(Peer(s), k)' = Given(Peer(s), k)
    BY <1>3 DEF Given, Promise!Given
  <2>4. \A low \in Nat, top \in Int : \A q : Flow(q, k, low, top) => Flow(q, k, low, top + 1)
    BY DEF Flow
  <2>5. Flow(Pipe(s), k, Given(Peer(s), k), Top(s, k) + 1)
    BY <1>a, <2>1, <2>4 DEF StreamOK
  <2> QED BY <1>a, <1>3, <1>4, <2>1, <2>2, <2>3, <2>5 DEF StreamOK
<1>7. EndOK(s, k)'
  <2>1. ~ AllSent(s, k)
    BY DEF AllSent
  <2> QED BY <1>a, <1>1, <1>2, <2>1, EndStays DEF Ending
<1> QED BY <1>0, <1>1, <1>2, <1>5, <1>6, <1>7, ReaderMoves DEF Holding

\* shutdown of a descriptor that is closed.
LEMMA ShutsNothing ==
  ASSUME TypeOK, NEW s \in Sides, NEW f, Shutdown(s, f),
         files[s][f] = NoFile, NoFile \notin Conns
  PROVE  shut' = shut
<1>1. {files[s][f]} \cap Conns = {}
  OBVIOUS
<1>2. shut' = [shut EXCEPT ![s] = @ \cup {}]
  BY <1>1 DEF Shutdown
<1> QED BY <1>2 DEF TypeOK

\* A reader looks up whose piece it has read.
LEMMA LabelStep ==
  ASSUME IInv, NEW s \in Sides, NEW k \in Conns, Label(s, k)
  PROVE  IInv'
<1> DEFINE o == reader[s][k]
           u == UuidOf(s, o.sock)
           pc == IF s = "S" THEN "addr" ELSE "send"
<1>0. o \in Readers /\ o.pc = "got" /\ TypeOK
  BY TwoSides, ReaderTyped DEF Label, Is, IInv
<1>a. ReaderOK(s, k) /\ o.sock \in Fds /\ o.sock # 0
  <2>1. ReaderOK(s, k) /\ o.sock \in Fds
    BY <1>0, Settled, ReaderKnows
  <2> QED BY <1>0, <2>1 DEF ReaderOK, Holding
<1>b. /\ k \notin shut[s] => u = k
      /\ k \in shut[s] => u = NoUuid /\ files[s][o.sock] = NoFile
      /\ k # NoUuid /\ NoFile \notin Conns
  BY <1>0, <1>a, ReaderKnows, Names
<1>2. CASE u = NoUuid
  <2> DEFINE r == [o EXCEPT !.pc = "read", !.data = <<>>]
  <2>1. k \in shut[s] /\ files[s][o.sock] = NoFile /\ NoFile \notin Conns
    BY <1>2, <1>b
  <2>2. /\ Now(s, k, r)
        /\ IF s = "S" THEN Shutdown(s, o.sock) ELSE UNCHANGED shut
        /\ UNCHANGED <<files, socks, appVars, mail, links, tox, main,
                       taken, out>>
    BY <1>2 DEF Label
  <2>3. shut' = shut
    <3>1. Shutdown(s, o.sock) => shut' = shut
      BY <1>0, <2>1, ShutsNothing
    <3> QED BY <3>1, <2>2
  <2>4. UNCHANGED <<sockVars, appVars, mail, links, tox, main, taken, out>>
    BY <2>2, <2>3 DEF sockVars
  <2> HIDE DEF r
  <2>5. r = [reader[s][k] EXCEPT !.pc = "read", !.data = <<>>]
    BY DEF r
  <2> QED BY ZenonT(60), <1>0, <2>1, <2>2, <2>4, <2>5, ReaderDrops DEF Holding
<1>3. CASE u # NoUuid
  <2> DEFINE r == [o EXCEPT !.label = k, !.pc = pc]
  <2>1. Now(s, k, r) /\ u = k
    BY <1>3, <1>b DEF Label
  <2>2. r \in Readers /\ r.pc = pc /\ r.addr = o.addr /\ r.sock = o.sock
        /\ r.uuid = o.uuid /\ r.label = k /\ r.data = o.data
        /\ pc \in {"addr", "send"} /\ (s = "C" => pc = "send")
    <3>1. pc \in {"addr", "send"} /\ (s = "C" => pc = "send")
      OBVIOUS
    <3> HIDE DEF pc
    <3> QED BY <1>0, <3>1 DEF Readers
  <2> HIDE DEF r, pc
  <2>3. OnlyReader(s, k, r) /\ taken' = taken
    BY <1>0, <1>3, <2>1, <2>2 DEF Label, OnlyReader, TypeOK, sockVars
  <2>4. Grows(k) /\ reader'[s][k] = r
    BY <2>3, ReaderBase DEF IInv
  <2>5. UNCHANGED <<wrote, shut, fin>>
    BY <2>3 DEF OnlyReader, sockVars, appVars
  <2>6. ReaderOK(s, k)'
    BY <1>0, <1>a, <2>2, <2>3, <2>4, <2>5 DEF ReaderOK, Grows, Holding, Ending
  <2> QED BY <1>0, <2>2, <2>3, <2>6, ReaderTurns DEF Holding, Ending
<1> QED BY <1>2, <1>3

\* The reader of side S looks the address up.
LEMMA LabelAddrStep ==
  ASSUME IInv, NEW k \in Conns, LabelAddr(k)
  PROVE  IInv'
<1> DEFINE o == reader["S"][k]
           none == WithSock("S", o.sock) = {}
<1>0. o \in Readers /\ o.pc = "addr" /\ TypeOK /\ "S" \in Sides
  BY TwoSides, ReaderTyped DEF LabelAddr, Is, IInv
<1>a. ReaderOK("S", k) /\ o.sock \in Fds /\ o.sock # 0
  <2>1. ReaderOK("S", k) /\ o.sock \in Fds
    BY <1>0, Settled, ReaderKnows
  <2> QED BY <1>0, <2>1 DEF ReaderOK, Holding
<1>b. none => k \in shut["S"] /\ files["S"][o.sock] = NoFile /\ NoFile \notin Conns
  BY <1>0, <1>a, ReaderKnows, Names
<1>2. CASE none
  <2> DEFINE r == [o EXCEPT !.pc = "read", !.data = <<>>, !.label = NoUuid]
  <2>1. k \in shut["S"] /\ files["S"][o.sock] = NoFile /\ NoFile \notin Conns
    BY <1>2, <1>b
  <2>2. /\ Now("S", k, r)
        /\ Shutdown("S", o.sock)
        /\ UNCHANGED <<files, socks, appVars, mail, links, tox, main,
                       taken, out>>
    BY <1>2 DEF LabelAddr
  <2>3. shut' = shut
    <3>1. Shutdown("S", o.sock) => shut' = shut
      BY <1>0, <2>1, ShutsNothing
    <3> QED BY <3>1, <2>2
  <2>4. UNCHANGED <<sockVars, appVars, mail, links, tox, main, taken, out>>
    BY <2>2, <2>3 DEF sockVars
  <2> HIDE DEF r
  <2>5. r = [reader["S"][k] EXCEPT !.pc = "read", !.data = <<>>, !.label = NoUuid]
    BY DEF r
  <2> QED BY ZenonT(60), <1>0, <2>1, <2>2, <2>4, <2>5, ReaderDrops DEF Holding
<1>3. CASE ~ none
  <2> DEFINE r == [o EXCEPT !.pc = "send"]
  <2>1. Now("S", k, r)
    BY <1>3 DEF LabelAddr, Goto
  <2>2. r \in Readers /\ r.pc = "send" /\ r.addr = o.addr /\ r.sock = o.sock
        /\ r.uuid = o.uuid /\ r.label = o.label /\ r.data = o.data
    BY <1>0 DEF Readers
  <2> HIDE DEF r
  <2>3. OnlyReader("S", k, r) /\ taken' = taken
    BY <1>0, <1>3, <2>1, <2>2 DEF LabelAddr, OnlyReader, TypeOK, sockVars
  <2>4. Grows(k) /\ reader'["S"][k] = r
    BY <1>0, <2>3, ReaderBase DEF IInv
  <2>5. UNCHANGED <<wrote, shut, fin>>
    BY <2>3 DEF OnlyReader, sockVars, appVars
  <2>6. ReaderOK("S", k)'
    BY <1>0, <1>a, <2>2, <2>3, <2>4, <2>5 DEF ReaderOK, Grows, Holding, Ending
  <2> QED BY <1>0, <2>2, <2>3, <2>6, ReaderTurns DEF Holding, Ending
<1> QED BY <1>2, <1>3

-----------------------------------------------------------------------------
(* Sending.                                                                 *)

\* Every connection but k is left alone.
LEMMA Focus ==
  ASSUME IInv, TypeOK', Desk', NEW k \in Conns,
         \A j \in Conns : j # k => Still(j),
         CreationOK(k)',
         \A s \in Sides : ReaderOK(s, k)' /\ StreamOK(s, k)' /\ OutOK(s, k)'
                          /\ EndOK(s, k)'
  PROVE  IInv'
<1>1. ASSUME NEW j \in Conns, j # k PROVE Life(j)'
  BY <1>1, StillAlive DEF IInv
<1>2. Life(k)'
  BY DEF Life
<1> QED BY <1>1, <1>2 DEF IInv

\* The message m of k is on its way, or it is lost.
Sent(p, k, m) == \/ Longer(Pipe(p)', Pipe(p), m) /\ lost' = lost
                 \/ Pipe(p)' = Pipe(p) /\ k \in lost'

\* The types of what Post changes.
LEMMA PostTyped ==
  ASSUME TypeOK, NEW s \in Sides, NEW cmd, NEW u \in Conns, NEW data,
         Message(cmd, u, data) \in Messages, Post(s, cmd, u, data)
  PROVE  /\ net' \in [Sides -> Seq(Messages)]
         /\ held' \in [Sides -> Seq(Messages)]
         /\ lost' \subseteq Conns
<1> DEFINE m == Message(cmd, u, data)
<1>1. m \in Messages /\ m.uuid = u
  BY DEF Message
<1>2. CASE online[s] /\ held[s] = <<>>
  <2>1. Give(s, m) /\ UNCHANGED held
    BY <1>2 DEF Post, Message
  <2> HIDE DEF m
  <2>2. CASE linked
    <3>1. net' = [net EXCEPT ![Peer(s)] = Append(@, m)] /\ lost' = lost
      BY <2>1, <2>2 DEF Give
    <3>2. Append(net[Peer(s)], m) \in Seq(Messages) /\ Peer(s) \in Sides
      BY <1>1, TwoSides, AppendProperties DEF TypeOK
    <3> QED BY <2>1, <3>1, <3>2 DEF TypeOK
  <2>3. CASE ~ linked
    BY <1>1, <2>1, <2>3 DEF Give, TypeOK
  <2> QED BY <2>2, <2>3
<1>3. CASE ~ (online[s] /\ held[s] = <<>>)
  <2>1. held' = [held EXCEPT ![s] = Append(@, m)] /\ UNCHANGED <<net, lost>>
    BY <1>3 DEF Post, Message
  <2> HIDE DEF m
  <2>2. Append(held[s], m) \in Seq(Messages)
    BY <1>1, AppendProperties DEF TypeOK
  <2> QED BY <2>1, <2>2 DEF TypeOK
<1> QED BY <1>2, <1>3

\* What Post does to the pipes.
LEMMA Posts ==
  ASSUME TypeOK, NEW s \in Sides, NEW cmd, NEW u \in Conns, NEW data,
         Message(cmd, u, data) \in Messages,
         Post(s, cmd, u, data), \A q \in Sides : Writing(q)' = Writing(q)
  PROVE  /\ Pipe(Peer(s))' = Pipe(Peer(s))
         /\ Sent(s, u, Message(cmd, u, data))
         /\ lost' = lost \/ lost' = lost \cup {u}
         /\ \A j : j # u => Flows(j)
<1>1. Pipe(s) \in Seq(Messages)
  BY PipeTyped DEF MailTyped
<1>2. Longer(Append(Pipe(s), Message(cmd, u, data)), Pipe(s), Message(cmd, u, data))
  BY <1>1, AppendsOne
<1>3. /\ Pipe(Peer(s))' = Pipe(Peer(s))
      /\ \/ /\ Pipe(s)' = Append(Pipe(s), Message(cmd, u, data))
            /\ lost' = lost
         \/ Pipe(s)' = Pipe(s) /\ lost' = lost \cup {u}
      /\ \A j : j # u => Flows(j)
  BY PostMoves
<1>4. Sent(s, u, Message(cmd, u, data))
  BY <1>2, <1>3 DEF Sent
<1>5. lost' = lost \/ lost' = lost \cup {u}
  BY <1>3
<1> QED BY <1>3, <1>4, <1>5

\* What a message of k that makes no connection changes of k.
LEMMA OwnGrown ==
  ASSUME NEW q, NEW m, NEW l, NEW k, Longer(l, q, m) \/ l = q,
         m.uuid = k, m.cmd \notin {"CREATE_SOCK", "CREATE_SOCK_SUCCESS"}
  PROVE  /\ \A cmd : Has(l, k, cmd) => Has(q, k, cmd) \/ m.cmd = cmd
         /\ ConfirmsOnce(q, k) => ConfirmsOnce(l, k)
         /\ AsksAlone(q, k) /\ ~ Has(q, k, "CREATE_SOCK") => AsksAlone(l, k)
<1>1. CASE Longer(l, q, m)
  BY <1>1, Grown
<1>2. CASE l = q
  BY <1>2
<1> QED BY <1>1, <1>2

\* What a message of k that is no piece changes of k.
LEMMA LastGrown ==
  ASSUME NEW q, NEW m, NEW l, NEW k, Longer(l, q, m), m.uuid = k,
         m.cmd # "RAW_DATA"
  PROVE  /\ Has(l, k, "CLOSE_SOCK") =>
              Has(q, k, "CLOSE_SOCK") \/ m.cmd = "CLOSE_SOCK"
         /\ ClosesLast(q, k) => ClosesLast(l, k)
         /\ Keeps(l, q, k)
<1>1. ~ Piece(m, k)
  BY DEF Piece
<1> QED BY <1>1, Grown

\* A message that is no piece is sent.
LEMMA StreamGrows ==
  ASSUME NEW p \in Sides, NEW k \in Conns, StreamOK(p, k),
         Grows(k), out'[Peer(p)][k] = out[Peer(p)][k],
         Top(p, k)' = Top(p, k), Reading(p, k)' => Reading(p, k),
         NEW m, Sent(p, k, m), ~ Piece(m, k)
  PROVE  StreamOK(p, k)'
<1>1. Given(Peer(p), k)' = Given(Peer(p), k)
  BY DEF Given, Promise!Given
<1>2. k \notin shut'[Peer(p)] => k \notin shut[Peer(p)]
  BY TwoSides DEF Grows
<1>3. k \notin lost' => k \notin lost
  BY DEF Grows
<1>4. CASE Longer(Pipe(p)', Pipe(p), m)
  <2>1. /\ Flow(Pipe(p)', k, Given(Peer(p), k), Top(p, k))
        /\ k \notin lost' \cup shut'[Peer(p)] =>
             /\ Connected(Pipe(p)', k, Given(Peer(p), k))
             /\ Reading(p, k)' => Dense(Pipe(p)', k, Given(Peer(p), k), Top(p, k))
    BY <1>2, <1>3, <1>4, NoPiece DEF StreamOK
  <2> QED BY <2>1, <1>1 DEF StreamOK
<1>5. CASE Pipe(p)' = Pipe(p) /\ k \in lost'
  BY <1>1, <1>5 DEF StreamOK
<1> QED BY <1>4, <1>5 DEF Sent

\* A message that is no piece is sent, and the stream is closed only when it
\* is sent completely.
LEMMA EndGrows ==
  ASSUME NEW p \in Sides, NEW k \in Conns, EndOK(p, k),
         Grows(k), out'[Peer(p)][k] = out[Peer(p)][k],
         taken'[p][k] = taken[p][k], wrote'[p][k] = wrote[p][k],
         reader'[p][k].pc \in Holding => reader[p][k].pc \in Holding,
         NEW m, Sent(p, k, m), m.uuid = k, m.cmd # "RAW_DATA",
         m.cmd = "CLOSE_SOCK" \/ k \in shut'[p]
           \/ (reader'[p][k].pc \in Ending /\ reader'[p][k].sock # 0)
           => Excused(Peer(p), k) \/ AllSent(p, k),
         m.cmd = "CLOSE_SOCK" => Excused(p, k),
         Doing(Peer(p), k)' = "close" => Doing(Peer(p), k) = "close",
         Doing(p, k)' = "deny" => k \in shut[p] \cup refused
  PROVE  EndOK(p, k)'
<1>1. Given(Peer(p), k)' = Given(Peer(p), k)
  BY DEF Given, Promise!Given
<1>2. \A q \in Sides : Excused(q, k) => Excused(q, k)'
  BY DEF Excused, Grows
<1>3. k \in fin[p] /\ Given(Peer(p), k) = wrote[p][k] =>
        (k \in fin[p] /\ Given(Peer(p), k) = wrote[p][k])'
  BY <1>1 DEF Grows
<1>4. CASE Longer(Pipe(p)', Pipe(p), m)
  <2>1. /\ Has(Pipe(p)', k, "CLOSE_SOCK") =>
             Has(Pipe(p), k, "CLOSE_SOCK") \/ m.cmd = "CLOSE_SOCK"
        /\ ClosesLast(Pipe(p), k) => ClosesLast(Pipe(p)', k)
        /\ Keeps(Pipe(p)', Pipe(p), k)
    BY <1>4, LastGrown
  <2>2. AllSent(p, k) => AllSent(p, k)'
    BY <2>1, AllSentFrame DEF AllSent
  <2>3. ~ Has(Pipe(p), k, "CLOSE_SOCK") => ClosesLast(Pipe(p), k)
    BY DEF ClosesLast, Has
  <2> QED BY <1>1, <1>2, <1>3, <2>1, <2>2, <2>3, TwoSides DEF EndOK, Grows
<1>5. CASE k \in lost'
  <2>1. \A q \in Sides : Excused(q, k)'
    BY <1>5 DEF Excused
  <2> QED BY <2>1, TwoSides DEF EndOK, Grows
<1> QED BY <1>4, <1>5 DEF Sent

\* A piece of the stream, or its end, is sent by a side that has made k.
LEMMA CreationGrows ==
  ASSUME TypeOK, NEW p \in Sides, NEW k \in Conns, CreationOK(k), Grows(k),
         ~ Young(k), ~ Young(k)',
         NEW m, Sent(p, k, m), m.uuid = k, m.cmd \in {"RAW_DATA", "CLOSE_SOCK"},
         m.cmd = "RAW_DATA" => k \in up["S"],
         Pipe(Peer(p))' = Pipe(Peer(p)),
         UNCHANGED <<up, refused, out>>,
         \A s \in Sides : reader'[s][k].pc = "none" <=> reader[s][k].pc = "none",
         Doing("S", k)' \in {Doing("S", k), "idle"},
         Accepting(k)' <=> Accepting(k)
  PROVE  CreationOK(k)'
<1>0. /\ Longer(Pipe(p)', Pipe(p), m) \/ Pipe(p)' = Pipe(p)
      /\ m.cmd \notin {"CREATE_SOCK", "CREATE_SOCK_SUCCESS"}
  BY DEF Sent
<1>1. /\ Has(Pipe(p)', k, "CREATE_SOCK") => Has(Pipe(p), k, "CREATE_SOCK")
      /\ Has(Pipe(p)', k, "CREATE_SOCK_SUCCESS") => Has(Pipe(p), k, "CREATE_SOCK_SUCCESS")
      /\ Has(Pipe(p)', k, "RAW_DATA") => Has(Pipe(p), k, "RAW_DATA") \/ k \in up["S"]
      /\ ConfirmsOnce(Pipe(p), k) => ConfirmsOnce(Pipe(p)', k)
  <2>1. /\ \A cmd : Has(Pipe(p)', k, cmd) => Has(Pipe(p), k, cmd) \/ m.cmd = cmd
        /\ ConfirmsOnce(Pipe(p), k) => ConfirmsOnce(Pipe(p)', k)
    BY <1>0, OwnGrown
  <2> QED BY <1>0, <2>1
<1>2. ASSUME NEW s \in Sides
      PROVE  /\ Has(Pipe(s)', k, "CREATE_SOCK") => Has(Pipe(s), k, "CREATE_SOCK")
             /\ Has(Pipe(s)', k, "CREATE_SOCK_SUCCESS")
                  => Has(Pipe(s), k, "CREATE_SOCK_SUCCESS")
             /\ Has(Pipe(s)', k, "RAW_DATA")
                  => Has(Pipe(s), k, "RAW_DATA") \/ k \in up["S"]
             /\ ConfirmsOnce(Pipe(s), k) => ConfirmsOnce(Pipe(s)', k)
  <2>1. s = p \/ s = Peer(p)
    BY TwoSides
  <2> QED BY <1>1, <2>1
<1>3. ~ Unborn(k)
  BY DEF Unborn, Young
<1> USE TwoSides DEF CreationOK
<1>4. YoungOK(k)'
  BY DEF YoungOK
<1>5. UnaskedOK(k)'
  BY <1>3 DEF UnaskedOK
<1>6. AskedOK(k)'
  BY <1>2, <1>3 DEF AskedOK
<1>7. MakingOK(k)'
  BY DEF MakingOK
<1>8. MadeOK(k)'
  BY <1>2 DEF MadeOK
<1>9. ConfirmedOK(k)'
  BY <1>2 DEF ConfirmedOK
<1> QED BY <1>4, <1>5, <1>6, <1>7, <1>8, <1>9

\* The reader of k moves and sends a message of k.
ReaderPosts(s, k, r, cmd, data) ==
  /\ Now(s, k, r) /\ r \in Readers
  /\ Post(s, cmd, k, data)
  /\ Message(cmd, k, data) \in Messages
  /\ UNCHANGED <<sockVars, appVars, links, tox, main, taken, out>>

\* A reader that sends touches no descriptor.
LEMMA PostsBase ==
  ASSUME TypeOK, Desk, NEW s \in Sides, NEW k \in Conns, NEW r, NEW cmd,
         NEW data, ReaderPosts(s, k, r, cmd, data)
  PROVE  /\ TypeOK' /\ Desk'
         /\ \A j \in Conns : Grows(j)
         /\ \A j : j # k => Flows(j)
         /\ Pipe(Peer(s))' = Pipe(Peer(s))
         /\ Sent(s, k, Message(cmd, k, data))
         /\ \A q \in Sides, c \in Conns :
              reader'[q][c] = IF q = s /\ c = k THEN r ELSE reader[q][c]
         /\ \A q \in Sides, c \in Conns :
              /\ Doing(q, c)' = Doing(q, c)
              /\ Accepting(c)' <=> Accepting(c)
<1>1. /\ UNCHANGED <<files, socks, shut, up, wrote, fin, refused>>
      /\ UNCHANGED <<linked, online, ends, tox, main, out, taken>>
      /\ Now(s, k, r) /\ r \in Readers
  BY DEF ReaderPosts, sockVars, appVars, links
<1>2. TypeOK'
  <2>1. reader' \in [Sides -> [Conns -> Readers]]
    BY <1>1, NowTyped
  <2>2. /\ net' \in [Sides -> Seq(Messages)]
        /\ held' \in [Sides -> Seq(Messages)]
        /\ lost' \subseteq Conns
    BY PostTyped DEF ReaderPosts
  <2> QED BY <1>1, <2>1, <2>2 DEF TypeOK
<1>3. Desk'
  <2>1. \A q \in Sides : SideStays(q) /\ up'[q] = up[q] /\ SameMaking(q)
    BY <1>1 DEF SideStays, SameMaking, Creating, Unnamed, Doing
  <2>2. \A q \in Sides : FilesOK(q)' /\ RecordsOK(q)'
    BY <2>1, StaysOK
  <2>3. \A q, c, f : Mine(q, c, f)' <=> Mine(q, c, f)
    BY <1>1 DEF Mine
  <2>4. MainOK' /\ ToxOK'
    BY <1>1, <2>3 DEF Desk, MainOK, ToxOK, WithSock
  <2> QED BY <2>2, <2>4 DEF Desk
<1>5. /\ Pipe(Peer(s))' = Pipe(Peer(s))
      /\ Sent(s, k, Message(cmd, k, data))
      /\ lost' = lost \/ lost' = lost \cup {k}
      /\ \A j : j # k => Flows(j)
  <2>1. \A q \in Sides : Writing(q)' = Writing(q)
    BY <1>1 DEF Writing
  <2> QED BY <2>1, Posts DEF ReaderPosts
<1>4. \A j \in Conns : Grows(j)
  BY <1>1, <1>5 DEF Grows, Mine
<1>6. \A q \in Sides, c \in Conns : /\ Doing(q, c)' = Doing(q, c)
                                    /\ Accepting(c)' <=> Accepting(c)
  BY <1>1 DEF Doing, Accepting
<1> QED BY <1>1, <1>2, <1>3, <1>4, <1>5, <1>6, NowTyped

\* A reader sends: what is left to show is about its own connection.
LEMMA PostsMoves ==
  ASSUME IInv, NEW s \in Sides, NEW k \in Conns, NEW r, NEW cmd,
         NEW data, ReaderPosts(s, k, r, cmd, data),
         CreationOK(k)', ReaderOK(s, k)', StreamOK(s, k)', EndOK(s, k)'
  PROVE  IInv'
<1>0. TypeOK /\ Desk /\ \A j \in Conns : Life(j)
  BY DEF IInv
<1>1. /\ TypeOK' /\ Desk'
      /\ \A j \in Conns : Grows(j)
      /\ \A j : j # k => Flows(j)
      /\ Pipe(Peer(s))' = Pipe(Peer(s))
      /\ \A q \in Sides, c \in Conns :
           reader'[q][c] = IF q = s /\ c = k THEN r ELSE reader[q][c]
      /\ \A q \in Sides, c \in Conns :
           /\ Doing(q, c)' = Doing(q, c)
           /\ Accepting(c)' <=> Accepting(c)
  BY <1>0, PostsBase
<1>2. UNCHANGED <<wrote, out, up, shut, refused, fin, taken>>
  BY DEF ReaderPosts, sockVars, appVars
<1>3. ASSUME NEW j \in Conns, j # k PROVE Still(j)
  BY <1>1, <1>2, <1>3 DEF Still, Flows
<1>4. OutOK(s, k)' /\ OutOK(Peer(s), k)'
  BY <1>0, <1>1, <1>2, OutFrame, TwoSides DEF Life
<1>5. ReaderOK(Peer(s), k)' /\ StreamOK(Peer(s), k)' /\ EndOK(Peer(s), k)'
  <2> DEFINE q == Peer(s)
  <2>0. q \in Sides /\ q # s /\ Peer(q) = s
    BY TwoSides
  <2> HIDE DEF q
  <2>1. /\ reader'[q][k] = reader[q][k] /\ taken'[q][k] = taken[q][k]
        /\ ReaderOK(q, k) /\ StreamOK(q, k) /\ EndOK(q, k)
    BY <2>0, <1>0, <1>1, <1>2 DEF Life
  <2>2. Pipe(q) \in Seq(Messages) /\ Pipe(q)' = Pipe(q)
    BY <1>0, <1>1, <2>0, PipeTyped DEF MailTyped, q
  <2>3. PartOf(Pipe(q)', Pipe(q), k) /\ Keeps(Pipe(q)', Pipe(q), k)
    BY <2>2, PartSame
  <2>4. ReaderOK(q, k)'
    BY <2>0, <2>1, <1>0, <1>1, <1>2, ReaderFrame DEF ReaderOK
  <2>5. StreamOK(q, k)'
    <3>1. Top(q, k)' = Top(q, k) /\ (Reading(q, k)' => Reading(q, k))
      BY <2>1, <1>2 DEF Top, Reading
    <3> QED BY <3>1, <2>0, <2>1, <2>3, <1>0, <1>1, <1>2, StreamFrame
  <2>6. EndOK(q, k)'
    BY <2>0, <2>1, <2>3, <1>0, <1>1, <1>2, EndFrame
  <2> QED BY <2>4, <2>5, <2>6 DEF q
<1>6. \A q \in Sides : ReaderOK(q, k)' /\ StreamOK(q, k)' /\ OutOK(q, k)'
                       /\ EndOK(q, k)'
  BY <1>4, <1>5, TwoSides
<1> QED BY <1>1, <1>3, <1>6, Focus

\* A reader tells the other side that k is closed.
LEMMA TellClosedStep ==
  ASSUME IInv, NEW s \in Sides, NEW k \in Conns, TellClosed(s, k)
  PROVE  IInv'
<1> DEFINE o == reader[s][k]
           r == [o EXCEPT !.pc = "close"]
           m == Message("CLOSE_SOCK", k, <<>>)
<1>0. o \in Readers /\ o.pc = "tell" /\ TypeOK /\ Desk
  BY TwoSides, ReaderTyped DEF TellClosed, Is, IInv
<1>a. /\ ReaderOK(s, k) /\ StreamOK(s, k) /\ EndOK(s, k) /\ o.sock \in Fds
      /\ CreationOK(k)
  BY <1>0, Settled, ReaderKnows DEF IInv, Life
<1>b. o.uuid = k /\ o.sock # 0 /\ k # NoUuid
  BY <1>0, <1>a, Names DEF ReaderOK
<1>1. r \in Readers /\ r.pc = "close" /\ r.addr = o.addr /\ r.sock = o.sock
      /\ r.uuid = o.uuid
  BY <1>0 DEF Readers
<1>c. m \in Messages /\ m.uuid = k /\ m.cmd = "CLOSE_SOCK" /\ ~ Piece(m, k)
  BY DEF Message, Messages, Piece
<1>2. ReaderPosts(s, k, r, "CLOSE_SOCK", <<>>)
  BY <1>0, <1>1, <1>b, <1>c DEF TellClosed, Goto, ReaderPosts
<1> HIDE DEF r, m
<1>3. /\ Grows(k) /\ reader'[s][k] = r
      /\ Pipe(Peer(s))' = Pipe(Peer(s)) /\ Sent(s, k, m)
      /\ \A q \in Sides, c \in Conns :
           reader'[q][c] = IF q = s /\ c = k THEN r ELSE reader[q][c]
      /\ \A q \in Sides : Doing(q, k)' = Doing(q, k)
      /\ Accepting(k)' <=> Accepting(k)
  BY <1>0, <1>2, PostsBase DEF m
<1>4. UNCHANGED <<wrote, shut, fin, taken, out, up, refused>>
  BY <1>2 DEF ReaderPosts, sockVars, appVars
<1>5. ReaderOK(s, k)'
  BY <1>0, <1>a, <1>b, <1>1, <1>3, <1>4 DEF ReaderOK, Grows, Holding, Ending
<1>6. StreamOK(s, k)'
  <2>1. Top(s, k)' = Top(s, k) /\ (Reading(s, k)' => Reading(s, k))
    BY <1>0, <1>1, <1>3, <1>4 DEF Top, Reading, Holding
  <2> QED BY <1>a, <1>c, <1>3, <1>4, <2>1, StreamGrows
<1>7. EndOK(s, k)'
  <2>1. Excused(Peer(s), k) \/ AllSent(s, k)
    BY <1>0, <1>a, <1>b DEF EndOK, Ending
  <2>2. reader'[s][k].pc \notin Holding
    BY <1>1, <1>3 DEF Holding
  <2>3. /\ Doing(Peer(s), k)' = Doing(Peer(s), k)
        /\ Doing(s, k)' = "deny" => k \in shut[s] \cup refused
    BY <1>3, <1>a, TwoSides DEF EndOK
  <2>4. Excused(s, k)
    BY <1>0, <1>a, <1>b DEF ReaderOK, Ending, Excused
  <2> QED BY <1>a, <1>c, <1>3, <1>4, <2>1, <2>2, <2>3, <2>4, EndGrows
<1>8. CreationOK(k)'
  <2>1. ~ Young(k) /\ ~ Young(k)'
    <3>1. CASE s = "S"
      BY <3>1, <1>0, <1>1, <1>3 DEF Young
    <3>2. CASE s = "C"
      <4>1. ~ Dormant(k) /\ reader'["S"][k] = reader["S"][k]
        BY <3>2, <1>0, <1>3, TwoSides DEF Dormant
      <4> QED BY <4>1, <1>a, <1>4 DEF CreationOK, YoungOK, Young
    <3> QED BY <3>1, <3>2 DEF Sides
  <2>2. \A q \in Sides : reader'[q][k].pc = "none" <=> reader[q][k].pc = "none"
    BY <1>0, <1>1, <1>3
  <2>3. Doing("S", k)' = Doing("S", k)
    BY <1>3, TwoSides
  <2> QED BY <1>0, <1>a, <1>c, <1>3, <1>4, <2>1, <2>2, <2>3, CreationGrows
<1> QED BY <1>2, <1>5, <1>6, <1>7, <1>8, PostsMoves

\* A reader sends its piece.
LEMMA SendDataStep ==
  ASSUME IInv, NEW s \in Sides, NEW k \in Conns, SendData(s, k)
  PROVE  IInv'
<1> DEFINE o == reader[s][k]
           n == taken[s][k]
           r == [o EXCEPT !.pc = "read", !.data = <<>>, !.label = NoUuid]
           m == Message("RAW_DATA", k, <<k, n>>)
<1>0. o \in Readers /\ o.pc = "send" /\ TypeOK /\ Desk /\ n \in Nat
  BY TwoSides, ReaderTyped DEF SendData, Is, IInv
<1>a. /\ ReaderOK(s, k) /\ StreamOK(s, k) /\ EndOK(s, k) /\ o.sock \in Fds
      /\ CreationOK(k) /\ k \in up["S"]
  BY <1>0, Settled, ReaderKnows DEF IInv, Life
<1>b. o.sock # 0 /\ k # NoUuid /\ o.label = k /\ o.data = <<k, n>>
  BY <1>0, <1>a, Names DEF ReaderOK, Holding
<1>1. r \in Readers /\ r.pc = "read" /\ r.addr = o.addr /\ r.sock = o.sock
      /\ r.uuid = o.uuid
  BY <1>0 DEF Readers
<1> HIDE DEF r, n
<1>c. /\ m \in Messages /\ m.uuid = k /\ m.cmd = "RAW_DATA" /\ Piece(m, k)
      /\ m.data = <<k, n>>
  BY <1>0 DEF Message, Messages, Piece
<1>2. ReaderPosts(s, k, r, "RAW_DATA", <<k, n>>)
  BY <1>0, <1>1, <1>b, <1>c DEF SendData, Goto, ReaderPosts, r
<1> HIDE DEF m
<1>3. /\ Grows(k) /\ reader'[s][k] = r /\ TypeOK'
      /\ Pipe(Peer(s))' = Pipe(Peer(s)) /\ Sent(s, k, m)
      /\ \A q \in Sides, c \in Conns :
           reader'[q][c] = IF q = s /\ c = k THEN r ELSE reader[q][c]
      /\ \A q \in Sides : Doing(q, k)' = Doing(q, k)
      /\ Accepting(k)' <=> Accepting(k)
  BY <1>0, <1>2, PostsBase DEF m
<1>4. UNCHANGED <<wrote, shut, fin, taken, out, up, refused>>
  BY <1>2 DEF ReaderPosts, sockVars, appVars
<1>5. ReaderOK(s, k)'
  BY <1>0, <1>a, <1>b, <1>1, <1>3, <1>4 DEF ReaderOK, Grows, Holding, Ending
<1>6. StreamOK(s, k)'
  <2> DEFINE low == Given(Peer(s), k)
             top == Top(s, k)
  <2>1. /\ top = n - 1 /\ Top(s, k)' = n /\ n > 0 /\ low \in Nat /\ low <= top
        /\ Given(Peer(s), k)' = low
    <3>1. Given(Peer(s), k)' = low
      BY <1>4 DEF Given, Promise!Given
    <3> QED BY <3>1, <1>0, <1>a, <1>1, <1>3, <1>4
            DEF Top, Holding, ReaderOK, StreamOK, n
  <2>2. /\ Flow(Pipe(s), k, low, top)
        /\ k \notin lost \cup shut[Peer(s)] =>
             Connected(Pipe(s), k, low) /\ Dense(Pipe(s), k, low, top)
    BY <1>0, <1>a DEF StreamOK, Reading, Holding
  <2> HIDE DEF low, top
  <2>3. top \in Nat /\ top + 1 = n
    BY <1>0, <2>1
  <2>4. CASE Longer(Pipe(s)', Pipe(s), m) /\ lost' = lost
    <3>1. /\ Flow(Pipe(s)', k, low, top + 1)
          /\ Dense(Pipe(s), k, low, top) => Dense(Pipe(s)', k, low, top + 1)
          /\ Connected(Pipe(s), k, low) /\ Dense(Pipe(s), k, low, top)
               => Connected(Pipe(s)', k, low)
      BY <2>4, <1>c, <2>1, <2>2, <2>3, NextPiece
    <3> QED BY <3>1, <2>1, <2>2, <2>3, <2>4, <1>4 DEF StreamOK
  <2>5. CASE Pipe(s)' = Pipe(s) /\ k \in lost'
    <3>1. Flow(Pipe(s), k, low, n)
      BY <2>1, <2>2, <2>3, <1>0 DEF Flow
    <3> QED BY <3>1, <2>1, <2>3, <2>5 DEF StreamOK
  <2> QED BY <2>4, <2>5, <1>3 DEF Sent
<1>7. EndOK(s, k)'
  <2>1. ~ AllSent(s, k)
    BY <1>0 DEF AllSent, Holding
  <2>2. \A q \in Sides : Excused(q, k) => Excused(q, k)'
    BY <1>3, TwoSides DEF Excused, Grows
  <2>3. Has(Pipe(s)', k, "CLOSE_SOCK") => Has(Pipe(s), k, "CLOSE_SOCK")
    <3>1. Longer(Pipe(s)', Pipe(s), m) \/ Pipe(s)' = Pipe(s)
      BY <1>3 DEF Sent
    <3>2. Has(Pipe(s)', k, "CLOSE_SOCK") =>
            Has(Pipe(s), k, "CLOSE_SOCK") \/ m.cmd = "CLOSE_SOCK"
      BY <3>1, <1>c, OwnGrown
    <3> QED BY <3>2, <1>c
  <2>4. Given(Peer(s), k)' = Given(Peer(s), k)
    BY <1>4 DEF Given, Promise!Given
  <2> QED BY <1>1, <1>3, <1>4, <1>a, <2>1, <2>2, <2>3, <2>4, TwoSides
          DEF EndOK, Ending
<1>8. CreationOK(k)'
  <2>1. ~ Young(k) /\ ~ Young(k)'
    <3>1. CASE s = "S"
      BY <3>1, <1>0, <1>1, <1>3 DEF Young
    <3>2. CASE s = "C"
      <4>1. ~ Dormant(k) /\ reader'["S"][k] = reader["S"][k]
        BY <3>2, <1>0, <1>3, TwoSides DEF Dormant
      <4> QED BY <4>1, <1>a, <1>4 DEF CreationOK, YoungOK, Young
    <3> QED BY <3>1, <3>2 DEF Sides
  <2>2. \A q \in Sides : reader'[q][k].pc = "none" <=> reader[q][k].pc = "none"
    BY <1>0, <1>1, <1>3
  <2>3. Doing("S", k)' = Doing("S", k)
    BY <1>3, TwoSides
  <2> QED BY <1>0, <1>a, <1>c, <1>3, <1>4, <2>1, <2>2, <2>3, CreationGrows
<1> QED BY <1>2, <1>5, <1>6, <1>7, <1>8, PostsMoves

\* What a message that confirms k changes of k, if there was none of k.
LEMMA ConfirmGrown ==
  ASSUME NEW q, NEW m, NEW l, NEW k, Longer(l, q, m) \/ l = q,
         m.uuid = k, m.cmd = "CREATE_SOCK_SUCCESS", Silent(q, k)
  PROVE  /\ \A cmd : Has(l, k, cmd) => cmd = "CREATE_SOCK_SUCCESS"
         /\ ConfirmsOnce(l, k)
<1>1. \A cmd : ~ Has(q, k, cmd)
  BY DEF Has, Silent
<1>2. ConfirmsOnce(q, k)
  BY DEF ConfirmsOnce, Silent
<1>3. CASE Longer(l, q, m)
  <2>1. \A cmd : Has(l, k, cmd) => Has(q, k, cmd) \/ m.cmd = cmd
    BY <1>3, Grown
  <2>2. ~ Has(q, k, "CREATE_SOCK_SUCCESS")
    BY <1>1
  <2>3. ConfirmsOnce(l, k)
    BY <1>2, <1>3, <2>2, Grown
  <2>4. \A cmd : Has(l, k, cmd) => cmd = "CREATE_SOCK_SUCCESS"
    BY <1>1, <2>1
  <2> QED BY <2>3, <2>4
<1>4. CASE l = q
  BY <1>1, <1>2, <1>4
<1> QED BY <1>3, <1>4

\* The reader of side S confirms the connection.
LEMMA SendSuccessStep ==
  ASSUME IInv, NEW k \in Conns, SendSuccess(k)
  PROVE  IInv'
<1> DEFINE o == reader["S"][k]
           r == [o EXCEPT !.pc = "read"]
           m == Message("CREATE_SOCK_SUCCESS", k, <<>>)
<1>0. o \in Readers /\ o.pc = "success" /\ TypeOK /\ Desk /\ "S" \in Sides
      /\ "C" \in Sides /\ Peer("S") = "C"
  BY TwoSides, ReaderTyped DEF SendSuccess, Is, IInv, Peer
<1>a. /\ ReaderOK("S", k) /\ StreamOK("S", k) /\ EndOK("S", k) /\ o.sock \in Fds
      /\ CreationOK(k) /\ k \in up["S"] \ refused
      /\ Dormant(k) /\ k \notin shut["S"] /\ o.sock # 0
  BY <1>0, Settled, ReaderKnows, YoungFacts DEF IInv, Life
<1>b. o.uuid = k /\ o.addr /\ k # NoUuid
  BY <1>0, <1>a, Names DEF ReaderOK
<1>1. r \in Readers /\ r.pc = "read" /\ r.addr = o.addr /\ r.sock = o.sock
      /\ r.uuid = o.uuid
  BY <1>0 DEF Readers
<1>c. m \in Messages /\ m.uuid = k /\ m.cmd = "CREATE_SOCK_SUCCESS" /\ ~ Piece(m, k)
  BY DEF Message, Messages, Piece
<1>2. ReaderPosts("S", k, r, "CREATE_SOCK_SUCCESS", <<>>)
  BY <1>0, <1>1, <1>b, <1>c DEF SendSuccess, Goto, ReaderPosts
<1> HIDE DEF r, m
<1>3. /\ Grows(k) /\ reader'["S"][k] = r
      /\ Pipe("C")' = Pipe("C") /\ Sent("S", k, m)
      /\ \A q \in Sides, c \in Conns :
           reader'[q][c] = IF q = "S" /\ c = k THEN r ELSE reader[q][c]
      /\ \A q \in Sides : Doing(q, k)' = Doing(q, k)
      /\ Accepting(k)' <=> Accepting(k)
  BY <1>0, <1>2, PostsBase DEF m
<1>4. UNCHANGED <<wrote, shut, fin, taken, out, up, refused>>
  BY <1>2 DEF ReaderPosts, sockVars, appVars
<1>5. ReaderOK("S", k)'
  BY <1>0, <1>a, <1>b, <1>1, <1>3, <1>4 DEF ReaderOK, Grows, Holding, Ending
<1>6. StreamOK("S", k)'
  <2>1. Top("S", k)' = Top("S", k) /\ (Reading("S", k)' => Reading("S", k))
    BY <1>0, <1>1, <1>3, <1>4 DEF Top, Reading, Holding
  <2> QED BY <1>0, <1>a, <1>c, <1>3, <1>4, <2>1, StreamGrows
<1>7. EndOK("S", k)'
  <2>1. /\ k \notin shut'["S"] /\ reader'["S"][k].pc \notin Ending
        /\ reader'["S"][k].pc \notin Holding
    BY <1>a, <1>1, <1>3, <1>4 DEF Ending, Holding
  <2>2. /\ Doing("C", k)' = Doing("C", k)
        /\ Doing("S", k)' = "deny" => k \in shut["S"] \cup refused
    BY <1>0, <1>3, <1>a DEF EndOK
  <2> QED BY <1>0, <1>a, <1>c, <1>3, <1>4, <2>1, <2>2, EndGrows
<1>8. CreationOK(k)'
  <2>1. ~ Young(k)' /\ reader'["C"][k] = reader["C"][k]
    BY <1>0, <1>1, <1>3 DEF Young
  <2>2. Silent(Pipe("S"), k) /\ reader["C"][k].pc = "none"
    BY <1>a DEF Dormant
  <2>3. /\ \A cmd : Has(Pipe("S")', k, cmd) => cmd = "CREATE_SOCK_SUCCESS"
        /\ ConfirmsOnce(Pipe("S")', k)
    <3>1. Longer(Pipe("S")', Pipe("S"), m) \/ Pipe("S")' = Pipe("S")
      BY <1>3 DEF Sent
    <3> QED BY <3>1, <2>2, <1>c, ConfirmGrown
  <2>4. ~ Unborn(k)
    BY <1>a DEF Unborn
  <2> USE <1>0, <1>a, <1>1, <1>3, <1>4 DEF CreationOK
  <2>5. YoungOK(k)'
    BY <2>1 DEF YoungOK
  <2>6. UnaskedOK(k)'
    BY <2>4 DEF UnaskedOK
  <2>7. AskedOK(k)'
    BY <2>4 DEF AskedOK
  <2>8. MakingOK(k)'
    BY DEF MakingOK
  <2>9. MadeOK(k)'
    BY <2>1, <2>3 DEF MadeOK
  <2>10. ConfirmedOK(k)'
    BY <2>1, <2>2, <2>3 DEF ConfirmedOK
  <2> QED BY <2>5, <2>6, <2>7, <2>8, <2>9, <2>10
<1> QED BY <1>0, <1>2, <1>5, <1>6, <1>7, <1>8, PostsMoves

\* Another thread than a reader sends a message of k that is no piece.
LEMMA QuietPost ==
  ASSUME IInv, TypeOK', Desk', NEW s \in Sides, NEW k \in Conns, NEW cmd,
         Message(cmd, k, <<>>) \in Messages, cmd # "RAW_DATA",
         Post(s, cmd, k, <<>>),
         UNCHANGED <<sockVars, appVars, links, reader, taken, out>>,
         \A q \in Sides : Writing(q)' = Writing(q),
         \A q \in Sides, j \in Conns : j # k => Doing(q, j)' = Doing(q, j),
         \A j \in Conns : j # k => (Accepting(j)' <=> Accepting(j)),
         \A q \in Sides : Doing(q, k)' \in {Doing(q, k), "idle"},
         cmd = "CLOSE_SOCK" => /\ Excused(s, k)
                               /\ Excused(Peer(s), k) \/ AllSent(s, k),
         CreationOK(k)'
  PROVE  IInv'
<1> DEFINE m == Message(cmd, k, <<>>)
<1>0. TypeOK /\ Desk /\ \A j \in Conns : Life(j)
  BY DEF IInv
<1>1. /\ Pipe(Peer(s))' = Pipe(Peer(s)) /\ Sent(s, k, m)
      /\ lost' = lost \/ lost' = lost \cup {k}
      /\ \A j : j # k => Flows(j)
  BY <1>0, Posts
<1>a. m \in Messages /\ m.uuid = k /\ m.cmd = cmd /\ ~ Piece(m, k)
  BY DEF Message, Piece
<1> HIDE DEF m
<1>2. UNCHANGED <<files, socks, wrote, out, up, shut, refused, fin,
                  taken,
                  reader>>
  BY DEF sockVars, appVars
<1>3. \A j \in Conns : Grows(j)
  BY <1>1, <1>2 DEF Grows, Mine
<1>4. ASSUME NEW j \in Conns, j # k PROVE Still(j)
  BY <1>1, <1>2, <1>3, <1>4 DEF Still, Flows
<1>5. ASSUME NEW q \in Sides
      PROVE  ReaderOK(q, k)' /\ StreamOK(q, k)' /\ OutOK(q, k)' /\ EndOK(q, k)'
  <2>0. ReaderOK(q, k) /\ StreamOK(q, k) /\ OutOK(q, k) /\ EndOK(q, k)
    BY <1>0 DEF Life
  <2>1. ReaderOK(q, k)' /\ OutOK(q, k)'
    BY <2>0, <1>0, <1>2, <1>3, ReaderFrame, OutFrame DEF ReaderOK
  <2>2. Top(q, k)' = Top(q, k) /\ (Reading(q, k)' => Reading(q, k))
    BY <1>2 DEF Top, Reading
  <2>d. /\ Doing(Peer(q), k)' = "close" => Doing(Peer(q), k) = "close"
        /\ Doing(q, k)' = "deny" => Doing(q, k) = "deny"
    BY TwoSides
  <2>3. CASE q = s
    <3>1. StreamOK(s, k)'
      BY <2>0, <2>2, <2>3, <1>a, <1>1, <1>2, <1>3, StreamGrows
    <3>2. k \in shut[s] \/ (reader[s][k].pc \in Ending /\ reader[s][k].sock # 0)
             => Excused(Peer(s), k) \/ AllSent(s, k)
      BY <2>0, <2>3 DEF EndOK
    <3>3. Doing(s, k)' = "deny" => k \in shut[s] \cup refused
      BY <2>0, <2>d, <2>3 DEF EndOK
    <3>4. EndOK(s, k)'
      BY <2>0, <2>d, <2>3, <3>2, <3>3, <1>a, <1>1, <1>2, <1>3, EndGrows
    <3> QED BY <2>1, <2>3, <3>1, <3>4
  <2>4. CASE q = Peer(s)
    <3>1. Pipe(q) \in Seq(Messages) /\ Pipe(q)' = Pipe(q)
      BY <1>0, <1>1, <2>4, PipeTyped DEF MailTyped
    <3>2. PartOf(Pipe(q)', Pipe(q), k) /\ Keeps(Pipe(q)', Pipe(q), k)
      BY <3>1, PartSame
    <3>3. StreamOK(q, k)'
      BY <2>0, <2>2, <3>2, <1>0, <1>2, <1>3, StreamFrame
    <3>4. EndOK(q, k)'
      BY <2>0, <2>d, <3>2, <1>0, <1>2, <1>3, EndFrame
    <3> QED BY <2>1, <3>3, <3>4
  <2> QED BY <2>3, <2>4, TwoSides
<1> QED BY <1>4, <1>5, Focus

\* The Tox thread answers that there is no such connection.
LEMMA DenyStep ==
  ASSUME IInv, NEW s \in Sides, Deny(s)
  PROVE  IInv'
<1>k. tox[s].msg.uuid \in Conns /\ tox[s].pc = "deny"
  BY DEF Deny, IInv, TypeOK, Messages
<1>1. PICK k \in Conns : k = tox[s].msg.uuid
  BY <1>k
<1>0. /\ TypeOK /\ Desk /\ tox[s].pc = "deny" /\ ToxIdle(s)
      /\ Post(s, "CLOSE_SOCK", k, <<>>)
      /\ UNCHANGED <<sockVars, appVars, main, reader, taken, out, links>>
  BY <1>1 DEF Deny, IInv
<1>2. /\ \A q \in Sides : tox'[q] = IF q = s THEN Idle ELSE tox[q]
      /\ tox' \in [Sides -> Tasks]
  <2>1. Idle \in Tasks /\ tox' = [tox EXCEPT ![s] = Idle]
    BY <1>0, Names DEF Idle, Tasks, ToxIdle
  <2> QED BY <1>0, <2>1, SideChange DEF TypeOK
<1>3. UNCHANGED <<files, socks, shut, up, wrote, fin, refused, main,
                  reader, taken, out, linked, online, ends>>
  BY <1>0 DEF sockVars, appVars, links
<1>4. Message("CLOSE_SOCK", k, <<>>) \in Messages
  BY <1>1 DEF Message, Messages
<1>5. \A q \in Sides : Writing(q)' = Writing(q)
  BY <1>0, <1>2 DEF Writing, Idle
<1>6. /\ \A q \in Sides, j \in Conns : j # k => Doing(q, j)' = Doing(q, j)
      /\ \A q \in Sides : Doing(q, k)' = IF q = s THEN "idle" ELSE Doing(q, k)
      /\ Doing(s, k) = "deny"
  BY <1>0, <1>1, <1>2 DEF Doing, Idle
<1>7. \A j \in Conns : Accepting(j)' <=> Accepting(j)
  BY <1>3 DEF Accepting
<1>8. TypeOK'
  <2>1. /\ net' \in [Sides -> Seq(Messages)]
        /\ held' \in [Sides -> Seq(Messages)]
        /\ lost' \subseteq Conns
    BY <1>0, <1>1, <1>4, PostTyped
  <2>2. \A q \in Sides : tox'[q].pc # "idle" => tox'[q].msg \in Messages
    BY <1>0, <1>2 DEF TypeOK, Idle
  <2> QED BY <1>0, <1>2, <1>3, <2>1, <2>2 DEF TypeOK
<1>9. Desk'
  <2>1. \A q \in Sides : SideStays(q) /\ up'[q] = up[q] /\ SameMaking(q)
    BY <1>0, <1>2, <1>3, TwoSides
       DEF SideStays, SameMaking, Creating, Unnamed, Doing, Idle
  <2>2. \A q \in Sides : FilesOK(q)' /\ RecordsOK(q)'
    BY <1>0, <2>1, StaysOK
  <2>3. \A q, c, f : Mine(q, c, f)' <=> Mine(q, c, f)
    BY <1>3 DEF Mine
  <2>4. MainOK'
    BY <1>0, <1>3, <2>3 DEF Desk, MainOK, WithSock
  <2>5. ToxOK'
    BY <1>0, <1>2, <1>3, <2>3, TwoSides DEF Desk, ToxOK, WithSock, Idle
  <2> QED BY <2>2, <2>4, <2>5 DEF Desk
<1>10. Grows(k)
  <2>1. lost' = lost \/ lost' = lost \cup {k}
    BY <1>0, <1>1, <1>4, <1>5, Posts
  <2> QED BY <1>3, <2>1 DEF Grows, Mine
<1>11. CreationOK(k) /\ ~ Young(k) /\ EndOK(s, k)
  <2>1. Life(k)
    BY <1>1 DEF IInv
  <2>2. ~ Dormant(k)
    BY <1>6 DEF Dormant, Sides
  <2> QED BY <2>1, <2>2 DEF Life, CreationOK, YoungOK
<1>12. Excused(s, k) /\ (Excused(Peer(s), k) \/ AllSent(s, k))
  BY <1>6, <1>11 DEF EndOK, Excused
<1>13. CreationOK(k)'
  <2> DEFINE m == Message("CLOSE_SOCK", k, <<>>)
  <2>1. /\ Pipe(Peer(s))' = Pipe(Peer(s)) /\ Sent(s, k, m)
    BY <1>0, <1>1, <1>4, <1>5, Posts
  <2>2. m.uuid = k /\ m.cmd = "CLOSE_SOCK"
    BY DEF Message
  <2>3. ~ Young(k)'
    BY <1>3, <1>11 DEF Young
  <2>4. Doing("S", k)' \in {Doing("S", k), "idle"}
    BY <1>6, TwoSides
  <2> HIDE DEF m
  <2> QED BY <1>0, <1>1, <1>3, <1>7, <1>10, <1>11, <2>1, <2>2, <2>3, <2>4,
             CreationGrows
<1>14. \A q \in Sides : Doing(q, k)' \in {Doing(q, k), "idle"}
  BY <1>6
<1> QED BY <1>0, <1>1, <1>4, <1>5, <1>6, <1>7, <1>8, <1>9, <1>12, <1>13,
           <1>14,
           QuietPost

\* What a message that asks for k changes of k, if there was none of k.
LEMMA AskGrown ==
  ASSUME NEW q, NEW m, NEW l, NEW k, Longer(l, q, m) \/ l = q,
         m.uuid = k, m.cmd = "CREATE_SOCK", Silent(q, k)
  PROVE  /\ ~ Has(l, k, "CREATE_SOCK_SUCCESS") /\ ~ Has(l, k, "RAW_DATA")
         /\ OnlyAsks(l, k) /\ AsksAlone(l, k)
<1>1. (\A cmd : ~ Has(q, k, cmd)) /\ OnlyAsks(q, k) /\ AsksAlone(q, k)
  BY DEF Has, Silent, OnlyAsks, AsksAlone
<1>2. CASE Longer(l, q, m)
  <2>1. \A cmd : Has(l, k, cmd) => Has(q, k, cmd) \/ m.cmd = cmd
    BY <1>2, Grown
  <2>2. OnlyAsks(l, k) /\ AsksAlone(l, k)
    BY <1>1, <1>2, Grown
  <2>3. ~ Has(l, k, "CREATE_SOCK_SUCCESS") /\ ~ Has(l, k, "RAW_DATA")
    BY <1>1, <2>1
  <2> QED BY <2>2, <2>3
<1>3. CASE l = q
  BY <1>1, <1>3
<1> QED BY <1>2, <1>3

\* The main thread asks for the connection it has accepted.
LEMMA CreateRemoteStep ==
  ASSUME IInv, CreateRemote
  PROVE  IInv'
<1>k. TypeOK /\ Desk /\ MainOK /\ main.pc = "create" /\ main.conn \in up["C"]
  BY DEF CreateRemote, IInv, Desk, MainOK
<1>l. main.conn \in Conns /\ main.sock \in Fds
  BY <1>k, TwoSides DEF TypeOK, Mains
<1>1. PICK k \in Conns : k = main.conn
  BY <1>l
<1>2. UuidOf("C", main.sock) = k /\ k # NoUuid /\ k \in up["C"] \ shut["C"]
  <2>1. Mine("C", k, main.sock) /\ k \notin shut["C"] /\ ~ Creating("C", k)
    BY <1>k, <1>1 DEF MainOK, Creating
  <2>2. main.sock \in Fds /\ "C" \in Sides /\ TypeOK /\ Desk
    BY <1>k, <1>l, TwoSides
  <2>3. UuidOf("C", main.sock) = k
    BY <2>1, <2>2, Known
  <2> QED BY <2>1, <2>3, <1>k, <1>1, Names
<1>0. /\ Post("C", "CREATE_SOCK", k, <<>>)
      /\ main' = [pc |-> "accept", conn |-> NoUuid, sock |-> 0]
      /\ UNCHANGED <<sockVars, appVars, tox, reader, taken, out, links>>
  BY <1>2 DEF CreateRemote
<1>3. UNCHANGED <<files, socks, shut, up, wrote, fin, refused, tox,
                  reader, taken, out, linked, online, ends>>
  BY <1>0 DEF sockVars, appVars, links
<1>4. Message("CREATE_SOCK", k, <<>>) \in Messages
  BY <1>1 DEF Message, Messages
<1>5. \A q \in Sides : Writing(q)' = Writing(q)
  BY <1>3 DEF Writing
<1>6. \A q \in Sides, j \in Conns : Doing(q, j)' = Doing(q, j)
  BY <1>3 DEF Doing
<1>7. /\ \A j \in Conns : ~ Accepting(j)'
      /\ \A j \in Conns : Accepting(j) <=> j = k
  BY <1>0, <1>1, <1>k DEF Accepting
<1>8. TypeOK'
  <2>1. /\ net' \in [Sides -> Seq(Messages)]
        /\ held' \in [Sides -> Seq(Messages)]
        /\ lost' \subseteq Conns
    BY <1>k, <1>0, <1>4, PostTyped, TwoSides
  <2>2. main' \in Mains
    BY <1>0, Names DEF Mains
  <2> QED BY <1>k, <1>3, <2>1, <2>2 DEF TypeOK
<1>9. Desk'
  <2>1. \A q \in Sides : SideStays(q) /\ up'[q] = up[q] /\ SameMaking(q)
    BY <1>k, <1>0, <1>3 DEF SideStays, SameMaking, Creating, Unnamed, Doing
  <2>2. \A q \in Sides : FilesOK(q)' /\ RecordsOK(q)'
    BY <1>k, <2>1, StaysOK
  <2>3. \A q, c, f : Mine(q, c, f)' <=> Mine(q, c, f)
    BY <1>3 DEF Mine
  <2>4. MainOK'
    BY <1>0 DEF MainOK
  <2>5. ToxOK'
    BY <1>k, <1>3, <2>3 DEF Desk, ToxOK, WithSock
  <2> QED BY <2>2, <2>4, <2>5 DEF Desk
<1>10. CreationOK(k) /\ UnaskedOK(k)
  BY <1>1 DEF IInv, Life, CreationOK
<1>11. Unborn(k) /\ Silent(Pipe("C"), k)
  BY <1>7, <1>10 DEF UnaskedOK
<1>12. Dormant(k)
  BY <1>10, <1>11 DEF CreationOK, YoungOK, Young, Unborn
<1>13. CreationOK(k)'
  <2> DEFINE m == Message("CREATE_SOCK", k, <<>>)
  <2>0. /\ Pipe("S")' = Pipe("S") /\ Sent("C", k, m)
        /\ lost' = lost \/ lost' = lost \cup {k}
    <3>1. Peer("C") = "S" /\ "C" \in Sides
      BY TwoSides DEF Peer
    <3> QED BY <1>k, <1>0, <1>1, <1>4, <1>5, <3>1, Posts
  <2>1. m.uuid = k /\ m.cmd = "CREATE_SOCK"
    BY DEF Message
  <2>2. /\ ~ Has(Pipe("C")', k, "CREATE_SOCK_SUCCESS")
        /\ ~ Has(Pipe("C")', k, "RAW_DATA")
        /\ OnlyAsks(Pipe("C")', k) /\ AsksAlone(Pipe("C")', k)
    <3>1. Longer(Pipe("C")', Pipe("C"), m) \/ Pipe("C")' = Pipe("C")
      BY <2>0 DEF Sent
    <3>2. Silent(Pipe("C"), k)
      BY <1>11
    <3> HIDE DEF m
    <3>3. /\ ~ Has(Pipe("C")', k, "CREATE_SOCK_SUCCESS")
          /\ ~ Has(Pipe("C")', k, "RAW_DATA")
      BY <3>1, <3>2, <2>1, AskGrown
    <3>4. OnlyAsks(Pipe("C")', k)
      BY <3>1, <3>2, <2>1, AskGrown
    <3>5. AsksAlone(Pipe("C")', k)
      BY <3>1, <3>2, <2>1, AskGrown
    <3> QED BY <3>3, <3>4, <3>5
  <2> USE <1>3, <1>6, <1>10, TwoSides DEF CreationOK
  <2>3. Unborn(k)'
    BY <1>11 DEF Unborn
  <2>4. YoungOK(k)'
    <3>1. Dormant(k)'
      BY <1>12, <2>0, <2>2, <1>7 DEF Dormant
    <3> QED BY <3>1 DEF YoungOK
  <2>5. UnaskedOK(k)'
    BY <1>2, <1>7 DEF UnaskedOK
  <2>6. AskedOK(k)'
    BY <2>2, <2>3 DEF AskedOK
  <2>7. MakingOK(k)'
    BY DEF MakingOK
  <2>8. MadeOK(k)'
    <3>1. ~ Has(Pipe("C")', k, "RAW_DATA")
      BY <2>2
    <3> QED BY <3>1, <2>0 DEF MadeOK, Sides
  <2>9. ConfirmedOK(k)'
    <3>1. ~ Has(Pipe("C")', k, "CREATE_SOCK_SUCCESS")
      BY <2>2
    <3> QED BY <3>1, <2>0 DEF ConfirmedOK
  <2> QED BY <2>4, <2>5, <2>6, <2>7, <2>8, <2>9
<1>14. \A q \in Sides : Doing(q, k)' \in {Doing(q, k), "idle"}
  BY <1>6
<1>15. \A j \in Conns : j # k => (Accepting(j)' <=> Accepting(j))
  BY <1>7
<1> QED BY <1>0, <1>4, <1>5, <1>6, <1>8, <1>9, <1>13, <1>14, <1>15,
           QuietPost, TwoSides

-----------------------------------------------------------------------------
(* Handling what arrives.                                                   *)

\* Only what the Tox threads do changes on the desks.
LEMMA DeskTurns ==
  ASSUME TypeOK, Desk, UNCHANGED <<sockVars, up, main>>, ToxOK',
         \A q \in Sides : SameMaking(q)
  PROVE  Desk'
<1>1. UNCHANGED <<files, socks, shut, up, main>>
  BY DEF sockVars
<1>2. \A q \in Sides : SideStays(q) /\ up'[q] = up[q]
  BY <1>1 DEF SideStays
<1>3. \A q \in Sides : FilesOK(q)' /\ RecordsOK(q)'
  BY <1>2, StaysOK
<1>4. \A q, c, f : Mine(q, c, f)' <=> Mine(q, c, f)
  BY <1>1 DEF Mine
<1>5. MainOK'
  BY <1>1, <1>4 DEF Desk, MainOK, WithSock
<1> QED BY <1>3, <1>5 DEF Desk

\* The oldest message of p, one of k, has left.
Left(p, k, m) == /\ Shorter(Pipe(p)', Pipe(p)) /\ Head(Pipe(p)) = m
                 /\ PartOf(Pipe(p)', Pipe(p), k) /\ m.uuid = k

\* The oldest message is dealt with, and is no piece.
LEMMA StreamShrinks ==
  ASSUME TypeOK, TypeOK', NEW p \in Sides, NEW k \in Conns, StreamOK(p, k),
         Grows(k), out'[Peer(p)][k] = out[Peer(p)][k],
         Top(p, k)' = Top(p, k), Reading(p, k)' => Reading(p, k),
         NEW m, Left(p, k, m), m.cmd # "RAW_DATA" \/ k \in shut[Peer(p)]
  PROVE  StreamOK(p, k)'
<1>1. Given(Peer(p), k)' = Given(Peer(p), k)
  BY DEF Given, Promise!Given
<1>2. Flow(Pipe(p)', k, Given(Peer(p), k), Top(p, k))
  BY PipeTyped, PipeTypedNext, PartKeeps DEF StreamOK, MailTyped, Left
<1>3. k \notin lost' \cup shut'[Peer(p)] =>
        k \notin lost \cup shut[Peer(p)] /\ m.cmd # "RAW_DATA"
  BY TwoSides DEF Grows
<1>4. ASSUME m.cmd # "RAW_DATA"
      PROVE  /\ \A low, top : Dense(Pipe(p), k, low, top) => Dense(Pipe(p)', k, low, top)
             /\ \A low : Connected(Pipe(p), k, low) => Connected(Pipe(p)', k, low)
  <2>1. Shorter(Pipe(p)', Pipe(p)) /\ ~ Piece(Head(Pipe(p)), k)
    BY <1>4 DEF Left, Piece
  <2> QED BY <2>1, NoPieceLeft
<1> QED BY <1>1, <1>2, <1>3, <1>4 DEF StreamOK

\* A message that is no piece leaves: the end of k stays in order.
LEMMA EndShrinks ==
  ASSUME TypeOK, TypeOK', NEW p \in Sides, NEW k \in Conns, EndOK(p, k),
         Grows(k), out'[Peer(p)][k] = out[Peer(p)][k],
         taken'[p][k] = taken[p][k], wrote'[p][k] = wrote[p][k],
         k \in shut'[p] => k \in shut[p],
         reader'[p][k].pc \in Ending /\ reader'[p][k].sock # 0 =>
           reader[p][k].pc \in Ending /\ reader[p][k].sock # 0,
         reader'[p][k].pc \in Holding => reader[p][k].pc \in Holding,
         NEW m, Left(p, k, m), m.cmd # "RAW_DATA" \/ k \in shut[Peer(p)],
         Doing(p, k)' = "deny" => k \in shut[p] \cup refused,
         Doing(Peer(p), k)' = "close" =>
           /\ Excused(p, k)
           /\ \/ Excused(Peer(p), k)
              \/ k \in fin[p] /\ Given(Peer(p), k) = wrote[p][k]
  PROVE  EndOK(p, k)'
<1>1. Given(Peer(p), k)' = Given(Peer(p), k)
  BY DEF Given, Promise!Given
<1>2. \A q \in Sides : Excused(q, k) => Excused(q, k)'
  BY DEF Excused, Grows
<1>3. k \in fin[p] /\ Given(Peer(p), k) = wrote[p][k] =>
        (k \in fin[p] /\ Given(Peer(p), k) = wrote[p][k])'
  BY <1>1 DEF Grows
<1>4. /\ Has(Pipe(p)', k, "CLOSE_SOCK") => Has(Pipe(p), k, "CLOSE_SOCK")
      /\ ClosesLast(Pipe(p), k) => ClosesLast(Pipe(p)', k)
  BY PipeTyped, PipeTypedNext, PartKeeps DEF MailTyped, Left
<1>5. CASE m.cmd # "RAW_DATA"
  <2>1. Shorter(Pipe(p)', Pipe(p)) /\ ~ Piece(Head(Pipe(p)), k)
    BY <1>5 DEF Left, Piece
  <2>2. Dense(Pipe(p), k, Given(Peer(p), k), wrote[p][k])
          => Dense(Pipe(p)', k, Given(Peer(p), k), wrote[p][k])
    BY <2>1, NoPieceLeft
  <2>3. AllSent(p, k) => AllSent(p, k)'
    BY <2>2, <1>1 DEF AllSent, Grows
  <2> QED BY <1>1, <1>2, <1>3, <1>4, <2>3, TwoSides DEF EndOK, Grows
<1>6. CASE k \in shut[Peer(p)]
  <2>1. Excused(Peer(p), k)'
    BY <1>2, <1>6, TwoSides DEF Excused
  <2> QED BY <2>1, <1>2, <1>4 DEF EndOK, Grows
<1> QED BY <1>5, <1>6

\* Nothing is left to be told of the creation of k, but that it is confirmed.
LEMMA CreationShrinks ==
  ASSUME TypeOK, TypeOK', NEW k \in Conns, CreationOK(k), ~ Young(k),
         \A s \in Sides : PartOf(Pipe(s)', Pipe(s), k),
         UNCHANGED <<up, refused>>,
         reader'["S"][k] = reader["S"][k],
         \/ reader'["C"][k].pc = "none" <=> reader["C"][k].pc = "none"
         \/ k \in up["S"] /\ ~ Has(Pipe("S")', k, "CREATE_SOCK_SUCCESS"),
         k \notin up["S"] => \A s \in Sides : out'[s][k] = out[s][k],
         Doing("S", k)' \notin {"connect", "add", "set"},
         Accepting(k)' <=> Accepting(k)
  PROVE  CreationOK(k)'
<1>2. \A s \in Sides :
        /\ \A cmd : Has(Pipe(s)', k, cmd) => Has(Pipe(s), k, cmd)
        /\ Silent(Pipe(s), k) => Silent(Pipe(s)', k)
        /\ ConfirmsOnce(Pipe(s), k) => ConfirmsOnce(Pipe(s)', k)
  BY PipeTyped, PipeTypedNext, PartKeeps DEF MailTyped
<1>3. ~ Unborn(k) /\ ~ Young(k)'
  BY DEF Unborn, Young
<1> USE TwoSides DEF CreationOK
<1>6. YoungOK(k)'
  BY <1>3 DEF YoungOK
<1>7. UnaskedOK(k)'
  BY <1>3 DEF UnaskedOK
<1>8. AskedOK(k)'
  BY <1>2, <1>3 DEF AskedOK
<1>9. MakingOK(k)'
  BY DEF MakingOK
<1>10. MadeOK(k)'
  BY <1>2 DEF MadeOK
<1>11. ConfirmedOK(k)'
  BY <1>2 DEF ConfirmedOK
<1> QED BY <1>6, <1>7, <1>8, <1>9, <1>10, <1>11

\* The oldest message on its way to s is dealt with.
LEMMA Handles ==
  ASSUME TypeOK, NEW s \in Sides, NEW m \in Messages,
         \/ /\ Writing(s) = <<>> /\ net[s] # <<>> /\ m = Head(net[s])
            /\ net'[s] = Tail(net[s])
         \/ /\ Writing(s) = <<m>> /\ net'[s] = net[s],
         Writing(s)' = <<>>, Writing(Peer(s))' = Writing(Peer(s)),
         net'[Peer(s)] = net[Peer(s)], held' = held
  PROVE  /\ Pipe(s)' = Pipe(s)
         /\ PartOf(Pipe(s)', Pipe(s), m.uuid) /\ Keeps(Pipe(s)', Pipe(s), m.uuid)
         /\ Left(Peer(s), m.uuid, m)
         /\ Has(Pipe(Peer(s)), m.uuid, m.cmd)
         /\ \A j : j # m.uuid => Flows(j)
<1> DEFINE p == Peer(s)
<1>0. /\ Pipe(s) \in Seq(Messages) /\ Pipe(p) \in Seq(Messages) /\ p \in Sides
  BY PipeTyped, TwoSides DEF MailTyped
<1>1. /\ Pipe(s)' = Pipe(s)
      /\ Pipe(p) # <<>> /\ Pipe(p)' = Tail(Pipe(p))
      /\ Head(Pipe(p)) = m
      /\ \A j : PartOf(Pipe(p)', Pipe(p), j)
      /\ \A j : j # m.uuid => Flows(j)
  BY OldestLeaves
<1> HIDE DEF p
<1>2. Shorter(Pipe(p)', Pipe(p))
  BY <1>0, <1>1, TailsOne
<1>3. Left(p, m.uuid, m)
  BY <1>1, <1>2 DEF Left
<1>4. Has(Pipe(p), m.uuid, m.cmd)
  BY <1>1, <1>2 DEF Shorter, Has
<1>5. PartOf(Pipe(s)', Pipe(s), m.uuid) /\ Keeps(Pipe(s)', Pipe(s), m.uuid)
  BY <1>0, <1>1, PartSame
<1> QED BY <1>1, <1>3, <1>4, <1>5 DEF p

\* What a message that arrives changes.
LEMMA ArrivedFacts ==
  ASSUME TypeOK, NEW s \in Sides, NEW cmd, Arrived(s, cmd)
  PROVE  /\ Head(net[s]) \in Messages /\ Head(net[s]).uuid \in Conns
         /\ Head(net[s]).cmd = cmd
         /\ tox[s].pc = "idle" /\ Writing(s) = <<>> /\ net[s] # <<>>
         /\ net'[s] = Tail(net[s]) /\ net'[Peer(s)] = net[Peer(s)]
         /\ held' = held /\ lost' = lost
         /\ net' \in [Sides -> Seq(Messages)]
<1>1. /\ tox[s].pc = "idle" /\ net[s] # <<>> /\ Head(net[s]).cmd = cmd
      /\ net' = [net EXCEPT ![s] = Tail(@)] /\ held' = held /\ lost' = lost
  BY DEF Arrived
<1>2. net \in [Sides -> Seq(Messages)] /\ net[s] \in Seq(Messages)
  BY DEF TypeOK
<1>3. Head(net[s]) \in Messages /\ Tail(net[s]) \in Seq(Messages)
  BY <1>1, <1>2, HeadTailProperties
<1>4. Head(net[s]).uuid \in Conns
  BY <1>3 DEF Messages
<1>5. Writing(s) = <<>>
  BY <1>1 DEF Writing
<1> QED BY <1>1, <1>2, <1>3, <1>4, <1>5, TwoSides

\* A message that arrives is one the other side has sent.
LEMMA Arriving ==
  ASSUME TypeOK, NEW s \in Sides, Writing(s) = <<>>, net[s] # <<>>,
         NEW m, m = Head(net[s])
  PROVE  Has(Pipe(Peer(s)), m.uuid, m.cmd)
<1> DEFINE b == net[s]
           c == held[Peer(s)]
<1>1. /\ b \in Seq(Messages) /\ c \in Seq(Messages) /\ b # <<>>
      /\ Pipe(Peer(s)) \in Seq(Messages)
  BY PipeTyped, TwoSides DEF MailTyped
<1>2. Pipe(Peer(s)) = <<>> \o b \o c
  BY TwoSides DEF Pipe
<1>3. m = Head(b)
  OBVIOUS
<1> HIDE DEF b, c
<1>4. <<>> \o b = b
  BY <1>1, ConcatEmptySeq
<1>5. b \o c # <<>> /\ Head(b \o c) = Head(b)
  BY <1>1
<1>6. Pipe(Peer(s)) # <<>> /\ Head(Pipe(Peer(s))) = m
  BY <1>2, <1>3, <1>4, <1>5
<1>7. Shorter(Tail(Pipe(Peer(s))), Pipe(Peer(s)))
  BY <1>1, <1>6, TailsOne
<1> QED BY <1>6, <1>7 DEF Shorter, Has

\* What a Tox thread turns to is about the messages of k only.
ToxTurns(s, k, t) ==
  /\ tox' = [tox EXCEPT ![s] = t] /\ t \in Tasks
  /\ t.pc # "idle" => t.msg \in Messages /\ t.msg.uuid = k
  /\ tox[s].pc # "idle" => tox[s].msg.uuid = k

\* What changes when a Tox thread turns to something else.
LEMMA ToxTyped ==
  ASSUME TypeOK, NEW s \in Sides, NEW k, NEW t, ToxTurns(s, k, t)
  PROVE  /\ tox' \in [Sides -> Tasks]
         /\ \A q \in Sides : tox'[q].pc # "idle" => tox'[q].msg \in Messages
         /\ tox'[s] = t
         /\ \A q \in Sides : q # s => tox'[q] = tox[q]
         /\ \A q \in Sides, j \in Conns : j # k => Doing(q, j)' = Doing(q, j)
         /\ Doing(s, k)' = t.pc /\ Doing(s, k) = tox[s].pc
         /\ \A q \in Sides : q # s => Doing(q, k)' = Doing(q, k)
         /\ Writing(Peer(s))' = Writing(Peer(s))
         /\ Writing(s)' = IF t.pc = "write" THEN <<t.msg>> ELSE <<>>
<1>1. /\ \A q \in Sides : tox'[q] = IF q = s THEN t ELSE tox[q]
      /\ tox' \in [Sides -> Tasks]
  BY DEF ToxTurns, TypeOK
<1>2. \A q \in Sides : tox'[q].pc # "idle" => tox'[q].msg \in Messages
  BY <1>1 DEF ToxTurns, TypeOK
<1>3. \A q \in Sides, j \in Conns : j # k => Doing(q, j)' = Doing(q, j)
  BY <1>1 DEF Doing, ToxTurns
<1>4. Doing(s, k)' = t.pc /\ Doing(s, k) = tox[s].pc
  BY <1>1 DEF Doing, ToxTurns
<1>5. \A q \in Sides : q # s => Doing(q, k)' = Doing(q, k)
  BY <1>1 DEF Doing
<1>6. /\ Writing(Peer(s))' = Writing(Peer(s))
      /\ Writing(s)' = IF t.pc = "write" THEN <<t.msg>> ELSE <<>>
  BY <1>1, TwoSides DEF Writing
<1> QED BY <1>1, <1>2, <1>3, <1>4, <1>5, <1>6

\* A Tox thread deals with a message of k.
LEMMA ToxFocus ==
  ASSUME IInv, TypeOK', Desk', NEW s \in Sides, NEW k \in Conns, NEW t,
         ToxTurns(s, k, t),
         UNCHANGED <<sockVars, appVars, main, taken, lost>>,
         \A q \in Sides, c \in Conns :
           q # s \/ c # k => /\ reader'[q][c] = reader[q][c]
                             /\ out'[q][c] = out[q][c],
         \/ reader'[s][k] = reader[s][k]
         \/ reader[s][k].pc = "none" /\ reader'[s][k].pc = "start",
         \A j : j # k => Flows(j),
         PartOf(Pipe(s)', Pipe(s), k), Keeps(Pipe(s)', Pipe(s), k),
         t.pc = "deny" => k \in shut[s] \cup refused,
         CreationOK(k)', ReaderOK(s, k)', OutOK(s, k)',
         StreamOK(Peer(s), k)', EndOK(Peer(s), k)'
  PROVE  IInv'
<1>0. TypeOK /\ Desk /\ \A j \in Conns : Life(j)
  BY DEF IInv
<1>1. UNCHANGED <<files, socks, shut, up, wrote, fin, refused>>
  BY DEF sockVars, appVars
<1>2. /\ \A q \in Sides, j \in Conns : j # k => Doing(q, j)' = Doing(q, j)
      /\ Doing(s, k)' = t.pc
      /\ \A q \in Sides : q # s => Doing(q, k)' = Doing(q, k)
  BY <1>0, ToxTyped
<1>3. \A j \in Conns : Grows(j)
  BY <1>1 DEF Grows, Mine
<1>4. \A j \in Conns : Accepting(j)' <=> Accepting(j)
  BY DEF Accepting
<1>5. ASSUME NEW j \in Conns, j # k PROVE Still(j)
  BY <1>1, <1>2, <1>3, <1>4, <1>5 DEF Still, Flows
<1> DEFINE p == Peer(s)
<1>a. p \in Sides /\ p # s /\ Peer(p) = s /\ \A q \in Sides : q = s \/ q = p
  BY TwoSides
<1> HIDE DEF p
<1>6. ReaderOK(p, k)' /\ OutOK(p, k)'
  <2>1. ReaderOK(p, k) /\ OutOK(p, k) /\ reader'[p][k] = reader[p][k]
        /\ out'[p][k] = out[p][k]
    BY <1>0, <1>a DEF Life
  <2> QED BY <2>1, <1>0, <1>1, <1>3, <1>a, ReaderFrame, OutFrame DEF ReaderOK
<1>7. StreamOK(s, k)'
  <2>1. Top(s, k)' = Top(s, k) /\ (Reading(s, k)' => Reading(s, k))
    BY <1>1 DEF Top, Reading, Holding
  <2>2. StreamOK(s, k) /\ out'[Peer(s)][k] = out[Peer(s)][k]
    BY <1>0, TwoSides DEF Life
  <2> QED BY <2>1, <2>2, <1>0, <1>1, <1>3, StreamFrame
<1>8. EndOK(s, k)'
  <2>1. EndOK(s, k) /\ out'[Peer(s)][k] = out[Peer(s)][k]
    BY <1>0, TwoSides DEF Life
  <2>2. /\ reader'[s][k].pc \in Ending /\ reader'[s][k].sock # 0 =>
             reader[s][k].pc \in Ending /\ reader[s][k].sock # 0
        /\ reader'[s][k].pc \in Holding => reader[s][k].pc \in Holding
    BY DEF Ending, Holding
  <2>3. /\ Doing(s, k)' = "deny" => k \in shut[s] \cup refused
        /\ Doing(Peer(s), k)' = Doing(Peer(s), k)
    BY <1>2, TwoSides
  <2> QED BY <2>1, <2>2, <2>3, <1>0, <1>1, <1>3, EndFrame
<1>9. \A q \in Sides : ReaderOK(q, k)' /\ StreamOK(q, k)' /\ OutOK(q, k)'
                       /\ EndOK(q, k)'
  BY <1>6, <1>7, <1>8, <1>a DEF p
<1> QED BY <1>5, <1>9, Focus

\* A Tox thread turns to something else and no descriptor changes.
LEMMA ToxDesk ==
  ASSUME TypeOK, Desk, NEW s \in Sides, NEW k, NEW t, ToxTurns(s, k, t),
         UNCHANGED <<sockVars, up, main>>,
         tox[s].pc \notin {"add", "set"},
         t.pc \in {"idle", "write", "deny", "close"} \/ (t.pc = "connect" /\ s = "S"),
         t.pc = "write" => t.msg.cmd = "RAW_DATA" /\ Mine(s, k, t.sock),
         t.pc = "close" => t.sock = 0 \/ Mine(s, k, t.sock)
  PROVE  Desk'
<1>1. UNCHANGED <<files, socks, shut, up, main>>
  BY DEF sockVars
<1>2. /\ \A q \in Sides : tox'[q] = IF q = s THEN t ELSE tox[q]
      /\ t.pc # "idle" => t.msg.uuid = k
  BY ToxTyped DEF ToxTurns
<1>3. \A q, c, f : Mine(q, c, f)' <=> Mine(q, c, f)
  BY <1>1 DEF Mine
<1>4. ToxOK'
  <2>1. tox'["C"].pc \notin {"connect", "add", "set"}
    BY <1>2, TwoSides DEF Desk, ToxOK
  <2>2. ASSUME NEW q \in Sides
        PROVE  (/\ tox[q].pc = "write" => /\ tox[q].msg.cmd = "RAW_DATA"
                                          /\ Mine(q, tox[q].msg.uuid, tox[q].sock)
                /\ tox[q].pc = "close" => \/ tox[q].sock = 0
                                          \/ Mine(q, tox[q].msg.uuid, tox[q].sock))'
    <3>1. CASE q = s
      BY <3>1, <1>2, <1>3
    <3>2. CASE q # s
      <4>1. tox'[q] = tox[q]
        BY <3>2, <1>2
      <4>2. /\ tox[q].pc = "write" => /\ tox[q].msg.cmd = "RAW_DATA"
                                      /\ Mine(q, tox[q].msg.uuid, tox[q].sock)
            /\ tox[q].pc = "close" => \/ tox[q].sock = 0
                                      \/ Mine(q, tox[q].msg.uuid, tox[q].sock)
        BY DEF Desk, ToxOK
      <4> QED BY <4>1, <4>2, <1>3
    <3> QED BY <3>1, <3>2
  <2>3. tox'["S"].pc \in {"add", "set"} => s # "S" /\ tox'["S"] = tox["S"]
    BY <1>2, TwoSides
  <2> QED BY <2>1, <2>2, <2>3, <1>1, <1>3 DEF Desk, ToxOK, WithSock
<1>5. ASSUME NEW q \in Sides PROVE SameMaking(q)
  <2>1. CASE s = "S"
    BY <2>1, <1>1, <1>2 DEF SameMaking, Creating, Unnamed, Doing
  <2>2. CASE s # "S"
    <3>1. tox'["S"] = tox["S"]
      BY <2>2, <1>2, TwoSides
    <3> QED BY <3>1, <1>1 DEF SameMaking, Creating, Unnamed, Doing
  <2> QED BY <2>1, <2>2
<1> QED BY <1>1, <1>4, <1>5, DeskTurns

\* A message of k is on its way that does not ask for it.
LEMMA Heard ==
  ASSUME IInv, NEW p \in Sides, NEW k \in Conns, NEW cmd,
         Has(Pipe(p), k, cmd), cmd # "CREATE_SOCK"
  PROVE  /\ ~ Young(k) /\ k \in up["C"] /\ ~ Accepting(k) /\ CreationOK(k)
         /\ cmd = "RAW_DATA" => k \in up["S"]
         /\ Doing("S", k) \notin {"connect", "add", "set"}
<1>1. CreationOK(k)
  BY DEF IInv, Life
<1>2. ~ Dormant(k)
  BY TwoSides DEF Dormant, Has, Silent, OnlyAsks, Sides
<1>3. ~ Young(k)
  BY <1>1, <1>2 DEF CreationOK, YoungOK
<1>4. ~ Unborn(k)
  BY <1>3 DEF Unborn, Young
<1>5. k \in up["C"] /\ ~ Accepting(k)
  BY <1>1, <1>4 DEF CreationOK, UnaskedOK
<1>6. cmd = "RAW_DATA" => k \in up["S"]
  BY <1>1 DEF CreationOK, MadeOK
<1>7. Doing("S", k) \notin {"connect", "add", "set"}
  BY <1>1, <1>3 DEF CreationOK, MakingOK, Young
<1> QED BY <1>1, <1>3, <1>5, <1>6, <1>7

\* A Tox thread looks up where a piece belongs.
LEMMA OnRawDataStep ==
  ASSUME IInv, NEW s \in Sides, OnRawData(s)
  PROVE  IInv'
<1>0. TypeOK /\ Desk /\ Arrived(s, "RAW_DATA")
  BY DEF IInv, OnRawData
<1>1. PICK m \in Messages : m = Head(net[s])
  BY <1>0, ArrivedFacts
<1>2. PICK k \in Conns : k = m.uuid
  BY <1>0, <1>1, ArrivedFacts
<1>3. PICK f \in Fds : f = SockOf(s, k)
  BY <1>0, Found
<1>4. PICK t : t = [pc |-> IF f # 0 THEN "write" ELSE "deny", msg |-> m, sock |-> f]
  OBVIOUS
<1>5. /\ m.cmd = "RAW_DATA"
      /\ tox[s].pc = "idle" /\ Writing(s) = <<>> /\ net[s] # <<>>
      /\ net'[s] = Tail(net[s]) /\ net'[Peer(s)] = net[Peer(s)]
      /\ held' = held /\ lost' = lost
      /\ net' \in [Sides -> Seq(Messages)]
  BY <1>0, <1>1, ArrivedFacts
<1>6. ToxTurns(s, k, t)
  <2>1. t \in Tasks /\ t.msg = m
    BY <1>1, <1>3, <1>4 DEF Tasks
  <2>2. tox' = [tox EXCEPT ![s] = t]
    BY <1>1, <1>2, <1>3, <1>4 DEF OnRawData, ToxNow
  <2> QED BY <2>1, <2>2, <1>2, <1>5 DEF ToxTurns
<1>7. UNCHANGED <<sockVars, appVars, main, reader, taken, out, links>>
  BY DEF OnRawData
<1>8. UNCHANGED <<files, socks, shut, up, wrote, fin, refused, main,
                  reader,
                  taken, out, linked, online, ends>>
  BY <1>7 DEF sockVars, appVars, links
<1>9. TypeOK'
  <2>1. /\ tox' \in [Sides -> Tasks]
        /\ \A q \in Sides : tox'[q].pc # "idle" => tox'[q].msg \in Messages
    BY <1>0, <1>6, ToxTyped
  <2> QED BY <1>0, <1>5, <1>8, <2>1 DEF TypeOK
<1>10. f # 0 => Mine(s, k, f)
  BY <1>0, <1>3, Found
<1>11. Desk'
  BY <1>0, <1>4, <1>5, <1>6, <1>8, <1>10, ToxDesk DEF sockVars
<1>12. /\ Writing(Peer(s))' = Writing(Peer(s))
       /\ Writing(s)' = IF t.pc = "write" THEN <<m>> ELSE <<>>
       /\ Doing(s, k)' = t.pc /\ Doing(Peer(s), k)' = Doing(Peer(s), k)
       /\ t.msg = m
  BY <1>0, <1>4, <1>6, ToxTyped, TwoSides
<1>13. Grows(k)
  BY <1>5, <1>8 DEF Grows, Mine
<1>a. PICK p \in Sides : p = Peer(s) /\ Peer(p) = s /\ p # s
                         /\ \A q \in Sides : q = p \/ q = s
  BY TwoSides
<1>b. ReaderOK(s, k) /\ OutOK(s, k) /\ StreamOK(p, k) /\ EndOK(p, k)
  BY DEF IInv, Life
<1>14. ReaderOK(s, k)' /\ OutOK(s, k)'
  BY <1>b, <1>0, <1>8, <1>13, ReaderFrame, OutFrame DEF ReaderOK
<1>15. /\ Top(p, k)' = Top(p, k) /\ (Reading(p, k)' => Reading(p, k))
       /\ Accepting(k)' <=> Accepting(k)
  BY <1>8 DEF Top, Reading, Accepting
<1>d. /\ ~ Young(k) /\ k \in up["C"] /\ ~ Accepting(k) /\ CreationOK(k)
      /\ k \in up["S"] /\ Doing("S", k) \notin {"connect", "add", "set"}
  <2>1. Has(Pipe(p), k, "RAW_DATA")
    BY <1>0, <1>1, <1>2, <1>5, <1>a, Arriving
  <2> QED BY <2>1, Heard
<1>16. CASE f # 0
  <2>1. /\ \A q \in Sides : Pipe(q)' = Pipe(q)
        /\ \A j : Flows(j)
    BY <1>0, <1>1, <1>4, <1>5, <1>12, <1>16, OldestIsWritten
  <2>2. /\ \A q \in Sides : PartOf(Pipe(q)', Pipe(q), k) /\ Keeps(Pipe(q)', Pipe(q), k)
    BY <1>0, <2>1, PartSame, PipeTyped DEF MailTyped
  <2>3. StreamOK(p, k)'
    BY <1>0, <1>9, <1>13, <1>15, <1>8, <1>a, <1>b, <2>2, StreamFrame
  <2>4. EndOK(p, k)'
    BY <1>0, <1>9, <1>13, <1>12, <1>4, <1>16, <1>8, <1>a, <1>b, <2>2, EndFrame
  <2>5. CreationOK(k)'
    <3>3. Doing("S", k)' \notin {"connect", "add", "set"}
      BY <1>4, <1>12, <1>a, <1>d, TwoSides
    <3> QED BY <3>3, <1>d, <2>2, <1>0, <1>8, <1>9, <1>15, CreationShrinks
  <2> QED BY <1>6, <1>7, <1>8, <1>9, <1>11, <1>14, <1>4, <1>5, <1>16, <1>a,
             <2>1,
             <2>2, <2>3, <2>4, <2>5, ToxFocus
<1>17. CASE f = 0
  <2>1. /\ Pipe(s)' = Pipe(s)
        /\ PartOf(Pipe(s)', Pipe(s), k) /\ Keeps(Pipe(s)', Pipe(s), k)
        /\ Left(p, k, m)
        /\ \A j : j # k => Flows(j)
    BY <1>0, <1>1, <1>2, <1>4, <1>5, <1>12, <1>17, <1>a, Handles
  <2>2. k \in shut[s]
    <3>1. ~ HasRecord(s, k)
      BY <1>0, <1>3, <1>17, Found
    <3>2. ~ Creating(s, k)
      BY <1>d, <1>5 DEF Creating, Accepting, Doing
    <3>3. k \in up[s]
      BY <1>d, TwoSides DEF Sides
    <3> QED BY <1>0, <3>1, <3>2, <3>3 DEF Desk, FilesOK
  <2>3. StreamOK(p, k)'
    BY <1>0, <1>9, <1>13, <1>15, <1>8, <1>a, <1>b, <2>1, <2>2, StreamShrinks
  <2>4. EndOK(p, k)'
    <3>1. /\ Doing(p, k)' = "deny" => k \in shut[p] \cup refused
          /\ Doing(s, k)' # "close"
      BY <1>4, <1>12, <1>17, <1>a, <1>b DEF EndOK
    <3> QED BY <3>1, <1>0, <1>9, <1>13, <1>8, <1>a, <1>b, <2>1, <2>2,
               EndShrinks
  <2>5. CreationOK(k)'
    <3>3. Doing("S", k)' \notin {"connect", "add", "set"}
      BY <1>4, <1>12, <1>a, <1>d, TwoSides
    <3>4. \A q \in Sides : PartOf(Pipe(q)', Pipe(q), k)
      BY <2>1, <1>a DEF Left
    <3> QED BY <3>3, <3>4, <1>d, <1>0, <1>8, <1>9, <1>15, CreationShrinks
  <2> QED BY <1>6, <1>7, <1>8, <1>9, <1>11, <1>14, <1>4, <1>5, <1>17, <1>a,
             <2>1,
             <2>2, <2>3, <2>4, <2>5, ToxFocus
<1> QED BY <1>16, <1>17

\* A Tox thread looks up what the other side has closed.
LEMMA OnCloseSockStep ==
  ASSUME IInv, NEW s \in Sides, OnCloseSock(s)
  PROVE  IInv'
<1>0. TypeOK /\ Desk /\ Arrived(s, "CLOSE_SOCK")
  BY DEF IInv, OnCloseSock
<1>1. PICK m \in Messages : m = Head(net[s])
  BY <1>0, ArrivedFacts
<1>2. PICK k \in Conns : k = m.uuid
  BY <1>0, <1>1, ArrivedFacts
<1>3. PICK f \in Fds : f = SockOf(s, k)
  BY <1>0, Found
<1>4. PICK t : t = [pc |-> "close", msg |-> m, sock |-> f]
  OBVIOUS
<1>5. /\ m.cmd = "CLOSE_SOCK"
      /\ tox[s].pc = "idle" /\ Writing(s) = <<>> /\ net[s] # <<>>
      /\ net'[s] = Tail(net[s]) /\ net'[Peer(s)] = net[Peer(s)]
      /\ held' = held /\ lost' = lost
      /\ net' \in [Sides -> Seq(Messages)]
  BY <1>0, <1>1, ArrivedFacts
<1>6. ToxTurns(s, k, t)
  <2>1. t \in Tasks /\ t.msg = m
    BY <1>1, <1>3, <1>4 DEF Tasks
  <2>2. tox' = [tox EXCEPT ![s] = t]
    BY <1>1, <1>2, <1>3, <1>4 DEF OnCloseSock, ToxNow
  <2> QED BY <2>1, <2>2, <1>2, <1>5 DEF ToxTurns
<1>7. UNCHANGED <<sockVars, appVars, main, reader, taken, out, links>>
  BY DEF OnCloseSock
<1>8. UNCHANGED <<files, socks, shut, up, wrote, fin, refused, main,
                  reader,
                  taken, out, linked, online, ends>>
  BY <1>7 DEF sockVars, appVars, links
<1>9. TypeOK'
  <2>1. /\ tox' \in [Sides -> Tasks]
        /\ \A q \in Sides : tox'[q].pc # "idle" => tox'[q].msg \in Messages
    BY <1>0, <1>6, ToxTyped
  <2> QED BY <1>0, <1>5, <1>8, <2>1 DEF TypeOK
<1>10. f # 0 => Mine(s, k, f)
  BY <1>0, <1>3, Found
<1>11. Desk'
  BY <1>0, <1>4, <1>5, <1>6, <1>8, <1>10, ToxDesk DEF sockVars
<1>12. /\ Writing(Peer(s))' = Writing(Peer(s)) /\ Writing(s)' = <<>>
       /\ Doing(s, k)' = "close" /\ Doing(Peer(s), k)' = Doing(Peer(s), k)
       /\ t.pc = "close"
  BY <1>0, <1>4, <1>6, ToxTyped, TwoSides
<1>13. Grows(k)
  BY <1>5, <1>8 DEF Grows, Mine
<1>a. PICK p \in Sides : p = Peer(s) /\ Peer(p) = s /\ p # s
                         /\ \A q \in Sides : q = p \/ q = s
  BY TwoSides
<1>b. ReaderOK(s, k) /\ OutOK(s, k) /\ StreamOK(p, k) /\ EndOK(p, k)
  BY DEF IInv, Life
<1>14. ReaderOK(s, k)' /\ OutOK(s, k)'
  BY <1>b, <1>0, <1>8, <1>13, ReaderFrame, OutFrame DEF ReaderOK
<1>15. /\ Top(p, k)' = Top(p, k) /\ (Reading(p, k)' => Reading(p, k))
       /\ Accepting(k)' <=> Accepting(k)
  BY <1>8 DEF Top, Reading, Accepting
<1>d. /\ Has(Pipe(p), k, "CLOSE_SOCK") /\ ~ Young(k) /\ CreationOK(k)
      /\ Doing("S", k) \notin {"connect", "add", "set"}
  <2>1. Has(Pipe(p), k, "CLOSE_SOCK")
    BY <1>0, <1>1, <1>2, <1>5, <1>a, Arriving
  <2> QED BY <2>1, Heard
<1>e. /\ PartOf(Pipe(s)', Pipe(s), k) /\ Keeps(Pipe(s)', Pipe(s), k)
      /\ Left(p, k, m)
      /\ \A j : j # k => Flows(j)
  BY <1>0, <1>1, <1>2, <1>5, <1>12, <1>a, Handles
<1>16. StreamOK(p, k)'
  BY <1>0, <1>5, <1>9, <1>13, <1>15, <1>8, <1>a, <1>b, <1>e, StreamShrinks
<1>17. Excused(s, k) \/ (k \in fin[p] /\ Given(s, k) = wrote[p][k])
  <2>1. SUFFICES ASSUME ~ Excused(s, k)
                 PROVE  k \in fin[p] /\ Given(s, k) = wrote[p][k]
    OBVIOUS
  <2>2. AllSent(p, k) /\ ClosesLast(Pipe(p), k)
    BY <2>1, <1>a, <1>b, <1>d DEF EndOK
  <2>3. ~ Has(Pipe(p)', k, "RAW_DATA")
    BY <2>2, <1>5, <1>e, Shrunk DEF Left
  <2>4. Dense(Pipe(p)', k, Given(s, k), wrote[p][k])
    <3>1. Shorter(Pipe(p)', Pipe(p)) /\ ~ Piece(Head(Pipe(p)), k)
      BY <1>5, <1>e DEF Left, Piece
    <3>2. Dense(Pipe(p), k, Given(s, k), wrote[p][k])
      BY <2>2, <1>a DEF AllSent
    <3> QED BY <3>1, <3>2, NoPieceLeft
  <2>5. \A n : n \notin Given(s, k) + 1..wrote[p][k]
    BY <2>3, <2>4 DEF Dense, Has, Piece
  <2>6. /\ Given(s, k) \in Nat /\ Given(s, k) <= wrote[p][k]
        /\ wrote[p][k] \in Nat
    <3>1. Top(p, k) = wrote[p][k]
      BY <2>2 DEF AllSent, Top
    <3> QED BY <3>1, <1>0, <1>a, <1>b, ReaderTyped DEF StreamOK
  <2>7. Given(s, k) = wrote[p][k]
    BY <2>5, <2>6
  <2> QED BY <2>2, <2>7 DEF AllSent
<1>18. EndOK(p, k)'
  <2>1. Doing(p, k)' = "deny" => k \in shut[p] \cup refused
    BY <1>12, <1>a, <1>b DEF EndOK
  <2>2. Excused(p, k)
    BY <1>a, <1>b, <1>d DEF EndOK
  <2> QED BY <2>1, <2>2, <1>0, <1>5, <1>9, <1>13, <1>8, <1>a, <1>b, <1>e,
             <1>17,
             EndShrinks
<1>19. CreationOK(k)'
  <2>1. Doing("S", k)' \notin {"connect", "add", "set"}
    BY <1>12, <1>a, <1>d, TwoSides
  <2>2. \A q \in Sides : PartOf(Pipe(q)', Pipe(q), k)
    BY <1>e, <1>a DEF Left
  <2> QED BY <2>1, <2>2, <1>d, <1>0, <1>8, <1>9, <1>15, CreationShrinks
<1> QED BY <1>6, <1>7, <1>8, <1>9, <1>11, <1>12, <1>14, <1>5, <1>a, <1>e,
           <1>16, <1>18, <1>19, ToxFocus

\* The other side confirms k: its reader starts on the descriptor of k, or on
\* standard input if its record is gone.
LEMMA OnCreateSuccessStep ==
  ASSUME IInv, OnCreateSuccess
  PROVE  IInv'
<1>s. PICK s \in Sides : s = "C"
  BY TwoSides
<1>0. TypeOK /\ Desk /\ Arrived(s, "CREATE_SOCK_SUCCESS")
  BY <1>s DEF IInv, OnCreateSuccess
<1>1. PICK m \in Messages : m = Head(net[s])
  BY <1>0, ArrivedFacts
<1>2. PICK k \in Conns : k = m.uuid
  BY <1>0, <1>1, ArrivedFacts
<1>3. PICK f \in Fds : f = SockOf(s, k)
  BY <1>0, Found
<1>r. PICK r : r = [NoReader EXCEPT !.pc = "start", !.sock = f]
  OBVIOUS
<1>5. /\ m.cmd = "CREATE_SOCK_SUCCESS"
      /\ tox[s].pc = "idle" /\ Writing(s) = <<>> /\ net[s] # <<>>
      /\ net'[s] = Tail(net[s]) /\ net'[Peer(s)] = net[Peer(s)]
      /\ held' = held /\ lost' = lost
      /\ net' \in [Sides -> Seq(Messages)]
  BY <1>0, <1>1, ArrivedFacts
<1>4. PICK t : t = tox[s]
  OBVIOUS
<1>6. ToxTurns(s, k, t) /\ t.pc = "idle"
  <2>1. t \in Tasks /\ tox \in [Sides -> Tasks]
    BY <1>0, <1>4 DEF TypeOK
  <2>2. tox' = tox
    BY DEF OnCreateSuccess
  <2> QED BY <2>1, <2>2, <1>4, <1>5 DEF ToxTurns
<1>7. /\ UNCHANGED <<sockVars, appVars, tox, main, taken, out, links>>
      /\ Now(s, k, r)
  BY <1>s, <1>1, <1>2, <1>3, <1>r DEF OnCreateSuccess
<1>8. UNCHANGED <<files, socks, shut, up, wrote, fin, refused, main,
                  tox,
                  taken, out, linked, online, ends>>
  BY <1>7 DEF sockVars, appVars, links
<1>t. /\ r \in Readers /\ r.pc = "start" /\ r.sock = f /\ r.uuid = NoUuid
  BY <1>r, Names DEF Readers, NoReader
<1>9. TypeOK'
  <2>1. reader' \in [Sides -> [Conns -> Readers]]
    BY <1>0, <1>7, <1>t, NowTyped
  <2> QED BY <1>0, <1>5, <1>8, <2>1 DEF TypeOK
<1>10. f # 0 => Mine(s, k, f)
  BY <1>0, <1>3, Found
<1>11. Desk'
  BY <1>0, <1>5, <1>6, <1>8, ToxDesk DEF sockVars
<1>12. /\ Writing(Peer(s))' = Writing(Peer(s)) /\ Writing(s)' = <<>>
       /\ \A q \in Sides : Doing(q, k)' = Doing(q, k)
       /\ \A q \in Sides, c \in Conns :
            reader'[q][c] = IF q = s /\ c = k THEN r ELSE reader[q][c]
  <2>1. \A q \in Sides : Doing(q, k)' = Doing(q, k)
    BY <1>8 DEF Doing
  <2> QED BY <2>1, <1>0, <1>6, <1>7, ToxTyped, NowTyped
<1>13. Grows(k)
  BY <1>5, <1>8 DEF Grows, Mine
<1>a. PICK p \in Sides : p = Peer(s) /\ Peer(p) = s /\ p # s /\ p = "S"
                         /\ \A q \in Sides : q = p \/ q = s
  BY <1>s, TwoSides DEF Peer
<1>b. ReaderOK(s, k) /\ OutOK(s, k) /\ StreamOK(p, k) /\ EndOK(p, k)
  BY DEF IInv, Life
<1>d. /\ Has(Pipe(p), k, "CREATE_SOCK_SUCCESS") /\ ~ Young(k) /\ CreationOK(k)
      /\ Doing("S", k) \notin {"connect", "add", "set"}
  <2>1. Has(Pipe(p), k, "CREATE_SOCK_SUCCESS")
    BY <1>0, <1>1, <1>2, <1>5, <1>a, Arriving
  <2> QED BY <2>1, Heard
<1>e. /\ PartOf(Pipe(s)', Pipe(s), k) /\ Keeps(Pipe(s)', Pipe(s), k)
      /\ Left(p, k, m)
      /\ \A j : j # k => Flows(j)
  BY <1>0, <1>1, <1>2, <1>5, <1>12, <1>a, Handles
<1>f. /\ k \in up["S"] /\ reader[s][k].pc = "none"
      /\ ConfirmsOnce(Pipe(p), k)
  BY <1>d, <1>a, <1>s DEF CreationOK, ConfirmedOK
<1>g. ~ Has(Pipe(p)', k, "CREATE_SOCK_SUCCESS")
  BY <1>5, <1>e, <1>f, Shrunk DEF Left
<1>14. ReaderOK(s, k)'
  <2>1. f # 0 => Mine(s, k, f)'
    BY <1>10, <1>8 DEF Mine
  <2> QED BY <2>1, <1>b, <1>f, <1>t, <1>12, <1>13, <1>8, <1>s
         DEF ReaderOK, Grows, Holding, Ending
<1>h. OutOK(s, k)'
  BY <1>b, <1>8, <1>13, OutFrame
<1>15. /\ Top(p, k)' = Top(p, k) /\ (Reading(p, k)' => Reading(p, k))
       /\ Accepting(k)' <=> Accepting(k)
       /\ reader'[p][k] = reader[p][k]
  BY <1>8, <1>12, <1>a DEF Top, Reading, Accepting
<1>16. StreamOK(p, k)'
  BY <1>0, <1>5, <1>9, <1>13, <1>15, <1>8, <1>a, <1>b, <1>e, StreamShrinks
<1>18. EndOK(p, k)'
  <2>1. Doing(p, k)' = "deny" => k \in shut[p] \cup refused
    BY <1>12, <1>a, <1>b DEF EndOK
  <2>2. Doing(s, k)' # "close"
    BY <1>5, <1>8 DEF Doing
  <2> QED BY <2>1, <2>2, <1>0, <1>5, <1>9, <1>13, <1>15, <1>8, <1>a, <1>b,
             <1>e,
             EndShrinks
<1>19. CreationOK(k)'
  <2>1. Doing("S", k)' \notin {"connect", "add", "set"}
    BY <1>12, <1>a, <1>d
  <2>2. \A q \in Sides : PartOf(Pipe(q)', Pipe(q), k)
    BY <1>e, <1>a DEF Left
  <2>3. reader'["S"][k] = reader["S"][k]
    BY <1>15, <1>a
  <2>4. k \in up["S"] /\ ~ Has(Pipe("S")', k, "CREATE_SOCK_SUCCESS")
    BY <1>f, <1>g, <1>a
  <2> QED BY <2>1, <2>2, <2>3, <2>4, <1>d, <1>0, <1>8, <1>9, <1>15,
             CreationShrinks
<1> QED BY <1>6, <1>7, <1>8, <1>9, <1>11, <1>12, <1>14, <1>h, <1>5, <1>a,
           <1>e,
           <1>f, <1>t, <1>16, <1>18, <1>19, ToxFocus

\* A connection is asked for that nobody has begun to make.
LEMMA AskShrinks ==
  ASSUME TypeOK, TypeOK', NEW k \in Conns, CreationOK(k),
         Unborn(k), Has(Pipe("C"), k, "CREATE_SOCK"), Silent(Pipe("C")', k),
         \A s \in Sides : PartOf(Pipe(s)', Pipe(s), k),
         UNCHANGED <<up, refused, lost, shut, reader, out>>,
         k \in up["C"], ~ Accepting(k),
         Doing("S", k)' = "connect", Doing("C", k)' = Doing("C", k),
         Accepting(k)' <=> Accepting(k)
  PROVE  CreationOK(k)'
<1>2. \A s \in Sides :
        /\ \A cmd : Has(Pipe(s)', k, cmd) => Has(Pipe(s), k, cmd)
        /\ Silent(Pipe(s), k) => Silent(Pipe(s)', k)
        /\ OnlyAsks(Pipe(s), k) => OnlyAsks(Pipe(s)', k)
        /\ ConfirmsOnce(Pipe(s), k) => ConfirmsOnce(Pipe(s)', k)
  BY PipeTyped, PipeTypedNext, PartKeeps DEF MailTyped
<1>3. Dormant(k) /\ Doing("C", k) = "idle"
  <2>1. Dormant(k)
    BY DEF CreationOK, YoungOK, Young, Unborn
  <2>2. ~ Silent(Pipe("C"), k)
    BY DEF Silent, Has
  <2> QED BY <2>1, <2>2 DEF Dormant
<1>6. YoungOK(k)'
  <2>1. Dormant(k)'
    BY <1>2, <1>3, TwoSides DEF Dormant
  <2> QED BY <2>1 DEF YoungOK
<1>7. UnaskedOK(k)'
  BY DEF UnaskedOK
<1>8. AskedOK(k)'
  BY DEF AskedOK, Has, Silent
<1>9. MakingOK(k)'
  BY DEF MakingOK, Unborn
<1>10. MadeOK(k)'
  BY <1>2 DEF MadeOK, CreationOK
<1>11. ConfirmedOK(k)'
  BY <1>2, TwoSides DEF ConfirmedOK, CreationOK
<1> QED BY <1>6, <1>7, <1>8, <1>9, <1>10, <1>11 DEF CreationOK

\* The Tox thread of S begins to make a connection.
LEMMA OnCreateSockStep ==
  ASSUME IInv, OnCreateSock
  PROVE  IInv'
<1>s. PICK s \in Sides : s = "S"
  BY TwoSides
<1>0. TypeOK /\ Desk /\ Arrived(s, "CREATE_SOCK")
  BY <1>s DEF IInv, OnCreateSock
<1>1. PICK m \in Messages : m = Head(net[s])
  BY <1>0, ArrivedFacts
<1>2. PICK k \in Conns : k = m.uuid
  BY <1>0, <1>1, ArrivedFacts
<1>4. PICK t : t = [pc |-> "connect", msg |-> m, sock |-> 0]
  OBVIOUS
<1>5. /\ m.cmd = "CREATE_SOCK"
      /\ tox[s].pc = "idle" /\ Writing(s) = <<>> /\ net[s] # <<>>
      /\ net'[s] = Tail(net[s]) /\ net'[Peer(s)] = net[Peer(s)]
      /\ held' = held /\ lost' = lost
      /\ net' \in [Sides -> Seq(Messages)]
  BY <1>0, <1>1, ArrivedFacts
<1>6. ToxTurns(s, k, t)
  <2>1. t \in Tasks /\ t.msg = m
    BY <1>1, <1>4, Names DEF Tasks
  <2>2. tox' = [tox EXCEPT ![s] = t]
    BY <1>s, <1>1, <1>4 DEF OnCreateSock, ToxNow
  <2> QED BY <2>1, <2>2, <1>2, <1>5 DEF ToxTurns
<1>7. UNCHANGED <<sockVars, appVars, main, reader, taken, out, links>>
  BY DEF OnCreateSock
<1>8. UNCHANGED <<files, socks, shut, up, wrote, fin, refused, main,
                  reader,
                  taken, out, linked, online, ends>>
  BY <1>7 DEF sockVars, appVars, links
<1>9. TypeOK'
  <2>1. /\ tox' \in [Sides -> Tasks]
        /\ \A q \in Sides : tox'[q].pc # "idle" => tox'[q].msg \in Messages
    BY <1>0, <1>6, ToxTyped
  <2> QED BY <1>0, <1>5, <1>8, <2>1 DEF TypeOK
<1>11. Desk'
  BY <1>0, <1>s, <1>4, <1>5, <1>6, <1>8, ToxDesk DEF sockVars
<1>12. /\ Writing(Peer(s))' = Writing(Peer(s)) /\ Writing(s)' = <<>>
       /\ Doing(s, k)' = "connect" /\ Doing(Peer(s), k)' = Doing(Peer(s), k)
       /\ t.pc = "connect"
  BY <1>0, <1>4, <1>6, ToxTyped, TwoSides
<1>13. Grows(k)
  BY <1>5, <1>8 DEF Grows, Mine
<1>a. PICK p \in Sides : p = Peer(s) /\ Peer(p) = s /\ p # s /\ p = "C"
                         /\ \A q \in Sides : q = p \/ q = s
  BY <1>s, TwoSides DEF Peer
<1>b. /\ ReaderOK(s, k) /\ OutOK(s, k) /\ StreamOK(p, k) /\ EndOK(p, k)
      /\ CreationOK(k)
  BY DEF IInv, Life
<1>14. ReaderOK(s, k)' /\ OutOK(s, k)'
  BY <1>b, <1>0, <1>8, <1>13, ReaderFrame, OutFrame DEF ReaderOK
<1>15. /\ Top(p, k)' = Top(p, k) /\ (Reading(p, k)' => Reading(p, k))
       /\ Accepting(k)' <=> Accepting(k)
  BY <1>8 DEF Top, Reading, Accepting
<1>c. Has(Pipe(p), k, "CREATE_SOCK")
  BY <1>0, <1>1, <1>2, <1>5, <1>a, Arriving
<1>d. /\ Unborn(k) /\ AsksAlone(Pipe(p), k)
      /\ k \in up["C"] /\ ~ Accepting(k)
  <2>1. Unborn(k) /\ AsksAlone(Pipe(p), k)
    BY <1>a, <1>b, <1>c DEF CreationOK, AskedOK
  <2>2. ~ Silent(Pipe(p), k)
    BY <1>c DEF Silent, Has
  <2> QED BY <1>a, <1>b, <2>1, <2>2 DEF CreationOK, UnaskedOK
<1>e. /\ PartOf(Pipe(s)', Pipe(s), k) /\ Keeps(Pipe(s)', Pipe(s), k)
      /\ Left(p, k, m)
      /\ \A j : j # k => Flows(j)
  BY <1>0, <1>1, <1>2, <1>5, <1>12, <1>a, Handles
<1>f. Silent(Pipe(p)', k)
  BY <1>5, <1>d, <1>e, Shrunk DEF Left
<1>16. StreamOK(p, k)'
  BY <1>0, <1>5, <1>9, <1>13, <1>15, <1>8, <1>a, <1>b, <1>e, StreamShrinks
<1>18. EndOK(p, k)'
  <2>1. /\ Doing(p, k)' = "deny" => k \in shut[p] \cup refused
        /\ Doing(s, k)' # "close"
    BY <1>12, <1>a, <1>b DEF EndOK
  <2> QED BY <2>1, <1>0, <1>5, <1>9, <1>13, <1>8, <1>a, <1>b, <1>e, EndShrinks
<1>19. CreationOK(k)'
  <2>1. /\ Doing("S", k)' = "connect" /\ Doing("C", k)' = Doing("C", k)
        /\ Silent(Pipe("C")', k) /\ Has(Pipe("C"), k, "CREATE_SOCK")
    BY <1>12, <1>a, <1>s, <1>c, <1>f
  <2>2. \A q \in Sides : PartOf(Pipe(q)', Pipe(q), k)
    BY <1>e, <1>a DEF Left
  <2> QED BY <2>1, <2>2, <1>b, <1>d, <1>0, <1>5, <1>8, <1>9, <1>15, AskShrinks
<1> QED BY <1>6, <1>7, <1>8, <1>9, <1>11, <1>12, <1>14, <1>5, <1>a, <1>e,
           <1>16, <1>18, <1>19, ToxFocus

-----------------------------------------------------------------------------
(* Writing to an application.                                               *)

\* What streams consist of.
Pieces == Conns \X Nat

\* The stream l is q with the piece x behind it.
Behind(l, q, x) ==
  /\ l # <<>> /\ l[Len(l)] = x
  /\ \A i \in DOMAIN l : \/ i \in DOMAIN q /\ l[i] = q[i]
                         \/ i = Len(q) + 1 /\ l[i] = x

\* A piece put behind a stream.
LEMMA OutGrows ==
  ASSUME NEW q \in Seq(Pieces), NEW x \in Pieces
  PROVE  Append(q, x) \in Seq(Pieces) /\ Behind(Append(q, x), q, x)
<1>1. /\ Append(q, x) \in Seq(Pieces) /\ Len(Append(q, x)) = Len(q) + 1
      /\ \A i \in 1..Len(q) : Append(q, x)[i] = q[i]
      /\ Append(q, x)[Len(q) + 1] = x
  BY AppendProperties
<1>2. /\ Len(q) \in Nat /\ DOMAIN q = 1..Len(q)
      /\ DOMAIN Append(q, x) = 1..Len(q) + 1
  BY <1>1, LenProperties
<1>3. Append(q, x) # <<>>
  BY <1>1, <1>2, EmptySeq
<1> QED BY <1>1, <1>2, <1>3 DEF Behind

\* What an application was given.
LEMMA OutTyped ==
  ASSUME TypeOK, NEW s \in Sides, NEW k \in Conns
  PROVE  out[s][k] \in Seq(Pieces)
BY DEF TypeOK, Pieces

\* A stream without holes is as long as it was given.
LEMMA GivenFacts ==
  ASSUME TypeOK, NEW s \in Sides, NEW k \in Conns, OutOK(s, k), k \notin lost
  PROVE  Given(s, k) = Len(out[s][k])
<1>1. out[s][k] \in Seq(Pieces)
  BY DEF TypeOK, Pieces
<1>2. Len(out[s][k]) \in Nat /\ DOMAIN out[s][k] = 1..Len(out[s][k])
  BY <1>1, LenProperties
<1>3. CASE out[s][k] = <<>>
  BY <1>3, EmptySeq DEF Given, Promise!Given
<1>4. CASE out[s][k] # <<>>
  <2>1. Len(out[s][k]) \in DOMAIN out[s][k]
    BY <1>1, <1>2, <1>4, EmptySeq
  <2>2. out[s][k][Len(out[s][k])][2] = Len(out[s][k])
    BY <2>1 DEF OutOK
  <2> QED BY <1>4, <2>2 DEF Given, Promise!Given
<1> QED BY <1>3, <1>4

\* A piece is written to the application.
LEMMA PieceGiven ==
  ASSUME TypeOK, TypeOK', NEW p \in Sides, NEW s \in Sides, s = Peer(p), p = Peer(s),
         NEW k \in Conns, StreamOK(p, k), OutOK(s, k), EndOK(p, k), ReaderOK(p, k),
         k \notin shut[s], Grows(k),
         UNCHANGED <<lost, shut, fin, refused, wrote, taken, reader>>,
         NEW m \in Messages, Left(p, k, m), m.cmd = "RAW_DATA",
         Behind(out'[s][k], out[s][k], m.data),
         Doing(p, k)' = Doing(p, k), Doing(s, k)' # "close"
  PROVE  StreamOK(p, k)' /\ OutOK(s, k)' /\ EndOK(p, k)'
<1>1. PICK low : low = Given(s, k)
  OBVIOUS
<1>2. PICK top : top = Top(p, k)
  OBVIOUS
<1>3. PICK n : n = Num(m)
  OBVIOUS
<1>4. /\ low \in Nat /\ top \in Nat /\ low <= top
      /\ Flow(Pipe(p), k, low, top)
  <2>1. low \in Nat /\ low <= top /\ Flow(Pipe(p), k, low, top)
    BY <1>1, <1>2 DEF StreamOK
  <2>2. top \in Int
    BY <1>2, ReaderTyped DEF Top
  <2> QED BY <2>1, <2>2
<1>5. /\ Shorter(Pipe(p)', Pipe(p)) /\ Piece(Head(Pipe(p)), k) /\ Head(Pipe(p)) = m
  BY DEF Left, Piece
<1>6. /\ m.data = <<k, n>> /\ n \in low + 1..top
      /\ Flow(Pipe(p)', k, n, top)
      /\ Connected(Pipe(p), k, low) => n = low + 1 /\ Connected(Pipe(p)', k, low + 1)
      /\ Dense(Pipe(p), k, low, top) => Dense(Pipe(p)', k, n, top)
  BY <1>3, <1>4, <1>5, PieceLeft
<1>7. n \in Nat
  BY <1>4, <1>6
<1>9. Given(s, k)' = n
  BY <1>6 DEF Behind, Given, Promise!Given
<1>10. Top(p, k)' = top /\ (Reading(p, k)' <=> Reading(p, k))
  BY <1>2 DEF Top, Reading
<1>11. k \notin lost => Connected(Pipe(p), k, low)
  BY <1>1 DEF StreamOK
<1>12. StreamOK(p, k)'
  <2>1. k \notin lost /\ Reading(p, k) => Dense(Pipe(p), k, low, top)
    BY <1>1, <1>2 DEF StreamOK
  <2>2. k \notin lost => Connected(Pipe(p)', k, n)
    BY <1>6, <1>11
  <2>3. n <= top
    BY <1>4, <1>6
  <2> QED BY <1>6, <1>7, <1>9, <1>10, <2>1, <2>2, <2>3 DEF StreamOK
<1>13. OutOK(s, k)'
  <2>1. k \notin lost => n = Len(out[s][k]) + 1
    BY <1>1, <1>6, <1>11, GivenFacts
  <2>2. ASSUME NEW i \in DOMAIN out'[s][k]
        PROVE  /\ out'[s][k][i][1] = k
               /\ k \notin lost => out'[s][k][i][2] = i
    <3>1. \/ i \in DOMAIN out[s][k] /\ out'[s][k][i] = out[s][k][i]
          \/ i = Len(out[s][k]) + 1 /\ out'[s][k][i] = <<k, n>>
      BY <1>6, <2>2 DEF Behind
    <3> QED BY <2>1, <3>1 DEF OutOK
  <2> QED BY <2>2 DEF OutOK
<1>14. EndOK(p, k)'
  <2>1. AllSent(p, k) => AllSent(p, k)'
    <3>1. AllSent(p, k) => top = wrote[p][k]
      BY <1>2 DEF AllSent, Top
    <3>2. AllSent(p, k) => Dense(Pipe(p)', k, n, wrote[p][k])
      BY <1>1, <1>6, <3>1 DEF AllSent
    <3> QED BY <1>9, <3>2 DEF AllSent
  <2>2. \A q \in Sides : Excused(q, k)' <=> Excused(q, k)
    BY DEF Excused
  <2>3. /\ Has(Pipe(p)', k, "CLOSE_SOCK") => Has(Pipe(p), k, "CLOSE_SOCK")
        /\ ClosesLast(Pipe(p), k) => ClosesLast(Pipe(p)', k)
    BY PipeTyped, PipeTypedNext, PartKeeps DEF MailTyped, Left
  <2> QED BY <2>1, <2>2, <2>3 DEF EndOK
<1> QED BY <1>12, <1>13, <1>14

\* What is written is a piece of the connection whose descriptor it was, and
\* that is written to unless it has been closed since.
LEMMA WrittenFacts ==
  ASSUME TypeOK, Desk, NEW s \in Sides, tox[s].pc = "write", NEW k, NEW m,
         m = tox[s].msg, k = m.uuid
  PROVE  /\ m \in Messages /\ k \in Conns /\ m.cmd = "RAW_DATA"
         /\ Writing(s) = <<m>>
         /\ k \in shut[s] => files[s][tox[s].sock] \notin Conns
         /\ k \notin shut[s] => files[s][tox[s].sock] = k
<1>1. m \in Messages /\ Writing(s) = <<m>>
  BY DEF TypeOK, Writing
<1>2. k \in Conns
  BY <1>1 DEF Messages
<1>3. m.cmd = "RAW_DATA" /\ Mine(s, k, tox[s].sock)
  BY DEF Desk, ToxOK
<1>4. tox[s].sock \in Fds
  BY DEF TypeOK, Tasks
<1>5. files[s][tox[s].sock] = k => k \notin shut[s]
  BY <1>2, <1>4 DEF Desk, FilesOK
<1> QED BY <1>1, <1>2, <1>3, <1>5, Names DEF Mine

\* A Tox thread writes a piece to an application.
LEMMA WriteDataStep ==
  ASSUME IInv, NEW s \in Sides, WriteData(s)
  PROVE  IInv'
<1>0. TypeOK /\ Desk /\ tox[s].pc = "write"
  BY DEF IInv, WriteData
<1>1. PICK m : m = tox[s].msg
  OBVIOUS
<1>2. PICK k : k = m.uuid
  OBVIOUS
<1>3. /\ m \in Messages /\ k \in Conns /\ m.cmd = "RAW_DATA"
      /\ Writing(s) = <<m>>
      /\ k \in shut[s] => files[s][tox[s].sock] \notin Conns
      /\ k \notin shut[s] => files[s][tox[s].sock] = k
  BY <1>0, <1>1, <1>2, WrittenFacts
<1>4. PICK t : t = Idle
  OBVIOUS
<1>5. ToxTurns(s, k, t)
  <2>1. t \in Tasks /\ t.pc = "idle"
    BY <1>4, Names DEF Tasks, Idle
  <2>2. tox' = [tox EXCEPT ![s] = t]
    BY <1>4 DEF WriteData, ToxIdle
  <2> QED BY <2>1, <2>2, <1>0, <1>1, <1>2 DEF ToxTurns
<1>7. /\ UNCHANGED <<sockVars, appVars, mail, main, reader, taken, links>>
      /\ out' = IF files[s][tox[s].sock] \in Conns \ shut[s]
                THEN [out EXCEPT ![s][files[s][tox[s].sock]] =
                        Append(@, tox[s].msg.data)]
                ELSE out
  BY DEF WriteData
<1>8. UNCHANGED <<files, socks, shut, up, wrote, fin, refused, net,
                  held,
                  lost, main, reader, taken, linked, online, ends>>
  BY <1>7 DEF sockVars, appVars, links, mail
<1>9. out' = IF k \in shut[s] THEN out
                 ELSE [out EXCEPT ![s][k] = Append(@, m.data)]
  <2>1. CASE k \in shut[s]
    BY <2>1, <1>3, <1>7
  <2>2. CASE k \notin shut[s]
    <3>1. files[s][tox[s].sock] \in Conns \ shut[s] /\ files[s][tox[s].sock] = k
      BY <2>2, <1>3
    <3> QED BY <2>2, <3>1, <1>1, <1>7
  <2> QED BY <2>1, <2>2
<1>11. Desk'
  <2>1. t.pc = "idle"
    BY <1>4 DEF Idle
  <2>2. tox[s].pc \notin {"add", "set"}
    BY <1>0
  <2> QED BY <2>1, <2>2, <1>0, <1>5, <1>8, ToxDesk DEF sockVars
<1>12. /\ Writing(Peer(s))' = Writing(Peer(s)) /\ Writing(s)' = <<>>
       /\ Doing(s, k)' = "idle" /\ Doing(Peer(s), k)' = Doing(Peer(s), k)
       /\ t.pc = "idle"
  <2>1. t.pc = "idle"
    BY <1>4 DEF Idle
  <2> QED BY <2>1, <1>0, <1>3, <1>5, ToxTyped, TwoSides
<1>13. Grows(k)
  BY <1>8 DEF Grows, Mine
<1>a. PICK p \in Sides : p = Peer(s) /\ Peer(p) = s /\ p # s
                         /\ \A q \in Sides : q = p \/ q = s
  BY TwoSides
<1>b. /\ ReaderOK(s, k) /\ OutOK(s, k) /\ StreamOK(p, k) /\ EndOK(p, k)
      /\ ReaderOK(p, k)
  BY <1>3 DEF IInv, Life
<1>e. /\ PartOf(Pipe(s)', Pipe(s), k) /\ Keeps(Pipe(s)', Pipe(s), k)
      /\ Left(p, k, m)
      /\ \A j : j # k => Flows(j)
      /\ Has(Pipe(p), k, m.cmd)
  BY <1>0, <1>2, <1>3, <1>8, <1>12, <1>a, Handles
<1>d. /\ ~ Young(k) /\ k \in up["C"] /\ ~ Accepting(k) /\ CreationOK(k)
      /\ k \in up["S"] /\ Doing("S", k) \notin {"connect", "add", "set"}
  BY <1>3, <1>a, <1>e, Heard
<1>f. m.data \in Pieces
  <2>1. Piece(Head(Pipe(p)), k) /\ Head(Pipe(p)) = m /\ Shorter(Pipe(p)', Pipe(p))
    BY <1>3, <1>e DEF Left, Piece
  <2>2. 1 \in DOMAIN Pipe(p) /\ Pipe(p)[1] = m
    BY <2>1 DEF Shorter
  <2>3. /\ Flow(Pipe(p), k, Given(s, k), Top(p, k)) /\ Given(s, k) \in Nat
        /\ Given(s, k) <= Top(p, k)
    BY <1>a, <1>b DEF StreamOK
  <2>4. Top(p, k) \in Int
    BY <1>0, <1>3, ReaderTyped DEF Top
  <2>5. m.data = <<k, Num(m)>> /\ Num(m) \in Given(s, k) + 1..Top(p, k)
    BY <2>1, <2>2, <2>3 DEF Flow
  <2>6. Num(m) \in Nat
    BY <2>3, <2>4, <2>5
  <2> QED BY <2>5, <2>6, <1>3 DEF Pieces
<1>g. /\ out' \in [Sides -> [Conns -> Seq(Pieces)]]
      /\ \A q \in Sides, c \in Conns : q # s \/ c # k => out'[q][c] = out[q][c]
      /\ k \in shut[s] => out' = out
      /\ k \notin shut[s] => Behind(out'[s][k], out[s][k], m.data)
  <2>0. out \in [Sides -> [Conns -> Seq(Pieces)]]
    BY <1>0 DEF TypeOK, Pieces
  <2>1. CASE k \in shut[s]
    BY <2>0, <2>1, <1>9
  <2>2. CASE k \notin shut[s]
    <3>1. PICK x : x = Append(out[s][k], m.data)
      OBVIOUS
    <3>2. x \in Seq(Pieces) /\ Behind(x, out[s][k], m.data)
      BY <1>0, <1>3, <1>f, <3>1, OutTyped, OutGrows
    <3>3. out' = [out EXCEPT ![s][k] = x]
      BY <1>9, <2>2, <3>1
    <3>4. /\ out' \in [Sides -> [Conns -> Seq(Pieces)]]
          /\ \A q \in Sides, c \in Conns :
               out'[q][c] = IF q = s /\ c = k THEN x ELSE out[q][c]
      BY <1>3, <2>0, <3>2, <3>3, ConnChange
    <3> QED BY <1>3, <2>2, <3>2, <3>4
  <2> QED BY <2>1, <2>2
<1>10. TypeOK'
  <2>1. /\ tox' \in [Sides -> Tasks]
        /\ \A q \in Sides : tox'[q].pc # "idle" => tox'[q].msg \in Messages
    BY <1>0, <1>5, ToxTyped
  <2>2. out' \in [Sides -> [Conns -> Seq(Conns \X Nat)]]
    BY <1>g DEF Pieces
  <2> QED BY <1>0, <1>8, <2>1, <2>2 DEF TypeOK
<1>14. ReaderOK(s, k)'
  BY <1>b, <1>0, <1>3, <1>8, <1>13, ReaderFrame DEF ReaderOK
<1>15. /\ Top(p, k)' = Top(p, k) /\ (Reading(p, k)' => Reading(p, k))
       /\ Accepting(k)' <=> Accepting(k)
  BY <1>8 DEF Top, Reading, Accepting
<1>18. StreamOK(p, k)' /\ OutOK(s, k)' /\ EndOK(p, k)'
  <2>1. CASE k \in shut[s]
    <3>1. out' = out /\ OutOK(s, k)'
      BY <1>3, <2>1, <1>b, <1>g, <1>13, OutFrame
    <3>3. StreamOK(p, k)'
      BY <1>0, <1>3, <1>10, <1>13, <1>15, <2>1, <1>8, <1>a, <1>b, <1>e, <3>1,
         StreamShrinks
    <3>4. EndOK(p, k)'
      <4>1. /\ Doing(p, k)' = "deny" => k \in shut[p] \cup refused
            /\ Doing(s, k)' # "close"
        BY <1>12, <1>a, <1>b DEF EndOK
      <4> QED BY <4>1, <1>0, <1>3, <1>10, <1>13, <2>1, <1>8, <1>a, <1>b,
                 <1>e, <3>1,
                 EndShrinks
    <3> QED BY <3>1, <3>3, <3>4
  <2>2. CASE k \notin shut[s]
    <3>1. Behind(out'[s][k], out[s][k], m.data)
      BY <2>2, <1>g
    <3>2. Doing(p, k)' = Doing(p, k) /\ Doing(s, k)' # "close"
      BY <1>12, <1>a
    <3> QED BY <3>1, <3>2, <2>2, <1>0, <1>3, <1>10, <1>13, <1>8, <1>a, <1>b,
               <1>e,
               PieceGiven
  <2> QED BY <2>1, <2>2
<1>19. CreationOK(k)'
  <2>1. Doing("S", k)' \notin {"connect", "add", "set"}
    BY <1>12, <1>a, <1>d, TwoSides
  <2>2. \A q \in Sides : PartOf(Pipe(q)', Pipe(q), k)
    BY <1>e, <1>a DEF Left
  <2> QED BY <2>1, <2>2, <1>d, <1>0, <1>3, <1>8, <1>10, <1>15, CreationShrinks
<1>20. \A q \in Sides, c \in Conns :
         q # s \/ c # k => reader'[q][c] = reader[q][c] /\ out'[q][c] = out[q][c]
  BY <1>8, <1>g
<1> QED BY <1>3, <1>5, <1>7, <1>8, <1>10, <1>11, <1>12, <1>14, <1>a, <1>e,
           <1>18, <1>19, <1>20, ToxFocus

-----------------------------------------------------------------------------
(* The connection of the programs and the applications.                     *)

\* Nothing happens to the connections, but that messages of them are lost or
\* applications end their streams.
LEMMA AllStill ==
  ASSUME IInv, TypeOK', lost \subseteq lost', \A q \in Sides : fin[q] \subseteq fin'[q],
         UNCHANGED <<sockVars, up, wrote, refused, tox, main, reader, taken,
                     out>>,
         \A j : Flows(j)
  PROVE  IInv'
<1>0. TypeOK /\ Desk
  BY DEF IInv
<1>1. UNCHANGED <<files, socks, shut, up, wrote, refused, tox, main,
                  reader,
                  taken, out>>
  BY DEF sockVars
<1>2. \A q \in Sides : SameMaking(q)
  BY <1>1 DEF SameMaking, Creating, Unnamed, Doing
<1>3. ToxOK'
  BY <1>0, <1>1 DEF Desk, ToxOK, Mine, WithSock
<1>4. Desk'
  BY <1>0, <1>1, <1>2, <1>3, DeskTurns DEF sockVars
<1>5. \A j \in Conns : Grows(j)
  BY <1>1 DEF Grows, Mine
<1>6. ASSUME NEW j \in Conns PROVE Still(j)
  BY <1>1, <1>5 DEF Still, Flows, Doing, Accepting
<1>7. ASSUME NEW j \in Conns PROVE Life(j)'
  BY <1>0, <1>6, StillAlive DEF IInv
<1> QED BY <1>4, <1>7 DEF IInv

\* The programs find each other again.
LEMMA ReconnectStep ==
  ASSUME IInv, Reconnect
  PROVE  IInv'
<1>0. TypeOK
  BY DEF IInv
<1>1. UNCHANGED <<sockVars, appVars, ends, mail, tox, main, reader, taken,
                  out>>
  BY DEF Reconnect
<1>2. UNCHANGED <<files, socks, shut, up, wrote, fin, refused, ends,
                  net, held,
                  lost, tox, main, reader, taken, out>>
  BY <1>1 DEF sockVars, appVars, mail
<1>3. linked' \in BOOLEAN /\ online' \in [Sides -> BOOLEAN]
  BY <1>0 DEF Reconnect, Core!Begin, Core!ComeOnline, TypeOK
<1>4. TypeOK'
  BY <1>0, <1>2, <1>3 DEF TypeOK
<1>5. \A j : Flows(j)
  <2>1. \A s \in Sides : Writing(s)' = Writing(s)
    BY <1>2 DEF Writing
  <2> QED BY <1>0, <1>2, <2>1, MailStays
<1>6. lost \subseteq lost' /\ \A q \in Sides : fin[q] \subseteq fin'[q]
  BY <1>2
<1> QED BY <1>1, <1>2, <1>4, <1>5, <1>6, AllStill

\* A side gives the connection up; what is between the programs is lost.
LEMMA DisconnectStep ==
  ASSUME IInv, NEW s \in Sides, Disconnect(s)
  PROVE  IInv'
<1>0. TypeOK
  BY DEF IInv
<1>1. /\ UNCHANGED <<sockVars, appVars, held, tox, main, reader, taken, out>>
      /\ lost' = lost \cup UNION {Uuids(net[q]) : q \in Sides}
      /\ net' = [q \in Sides |-> <<>>]
  BY DEF Disconnect
<1>2. UNCHANGED <<files, socks, shut, up, wrote, fin, refused, held,
                  tox, main,
                  reader, taken, out>>
  BY <1>1 DEF sockVars, appVars
<1>3. linked' \in BOOLEAN /\ online' \in [Sides -> BOOLEAN]
  BY <1>0 DEF Disconnect, Core!End, TypeOK
<1>4. ends' \in 0..MaxEnds
  <2>1. \/ ends < MaxEnds /\ ends' = ends + 1
        \/ ends' = ends
    BY DEF Disconnect
  <2> QED BY <1>0, <2>1, ConstantsAssumption DEF TypeOK
<1>5. lost' \subseteq Conns
  <2>1. ASSUME NEW q \in Sides, NEW i \in DOMAIN net[q] PROVE net[q][i].uuid \in Conns
    <3>1. net[q][i] \in Messages
      BY <1>0, <2>1, PipeTyped, Indices DEF MailTyped
    <3> QED BY <3>1 DEF Messages
  <2>2. \A q \in Sides : Uuids(net[q]) \subseteq Conns
    BY <2>1 DEF Uuids
  <2>3. lost \subseteq Conns
    BY <1>0 DEF TypeOK
  <2> QED BY <1>1, <2>2, <2>3
<1>6. net' \in [Sides -> Seq(Messages)]
  BY <1>1, EmptySeq
<1>7. TypeOK'
  BY <1>0, <1>2, <1>3, <1>4, <1>5, <1>6 DEF TypeOK
<1>8. \A j : Flows(j)
  <2>1. \A q \in Sides : Writing(q)' = Writing(q)
    BY <1>2 DEF Writing
  <2>2. \A q \in Sides : Uuids(net[q]) \subseteq lost'
    BY <1>1
  <2> QED BY <1>0, <1>1, <1>2, <2>1, <2>2, NetIsCut
<1>9. lost \subseteq lost' /\ \A q \in Sides : fin[q] \subseteq fin'[q]
  BY <1>1, <1>2
<1> QED BY <1>1, <1>2, <1>7, <1>8, <1>9, AllStill

\* An application ends its stream.
LEMMA AppEndsStep ==
  ASSUME IInv, NEW s \in Sides, NEW k \in Conns, AppEnds(s, k)
  PROVE  IInv'
<1>0. TypeOK
  BY DEF IInv
<1>1. /\ UNCHANGED <<sockVars, up, wrote, refused, mail, tox, main, reader,
                     taken,
                     out, links>>
      /\ fin' = [fin EXCEPT ![s] = @ \cup {k}]
  BY DEF AppEnds
<1>2. UNCHANGED <<files, socks, shut, up, wrote, refused, net, held,
                  lost, tox,
                  main, reader, taken, out, linked, online, ends>>
  BY <1>1 DEF sockVars, links, mail
<1>3. fin' \in [Sides -> SUBSET Conns] /\ \A q \in Sides : fin[q] \subseteq fin'[q]
  BY <1>0, <1>1 DEF TypeOK
<1>4. TypeOK'
  BY <1>0, <1>2, <1>3 DEF TypeOK
<1>5. \A j : Flows(j)
  <2>1. \A q \in Sides : Writing(q)' = Writing(q)
    BY <1>2 DEF Writing
  <2> QED BY <1>0, <1>2, <2>1, MailStays
<1> QED BY <1>1, <1>2, <1>3, <1>4, <1>5, AllStill

\* An application writes.
LEMMA AppWritesStep ==
  ASSUME IInv, NEW s \in Sides, NEW k \in Conns, AppWrites(s, k)
  PROVE  IInv'
<1>0. TypeOK /\ Desk
  BY DEF IInv
<1>1. /\ UNCHANGED <<sockVars, up, fin, refused, mail, tox, main, reader,
                     taken,
                     out, links>>
      /\ wrote' = [wrote EXCEPT ![s][k] = @ + 1]
      /\ k \notin fin[s]
  BY DEF AppWrites
<1>2. UNCHANGED <<files, socks, shut, up, fin, refused, net, held,
                  lost, tox,
                  main, reader, taken, out, linked, online, ends>>
  BY <1>1 DEF sockVars, links, mail
<1>3. /\ wrote' \in [Sides -> [Conns -> Nat]]
      /\ \A q \in Sides, j \in Conns :
           wrote'[q][j] = IF q = s /\ j = k THEN wrote[s][k] + 1 ELSE wrote[q][j]
      /\ \A q \in Sides, j \in Conns :
           wrote[q][j] \in Nat /\ taken[q][j] \in Nat
  <2>1. wrote \in [Sides -> [Conns -> Nat]] /\ taken \in [Sides -> [Conns -> Nat]]
    BY <1>0 DEF TypeOK
  <2>2. wrote[s][k] + 1 \in Nat
    BY <2>1
  <2>3. wrote' = [wrote EXCEPT ![s][k] = wrote[s][k] + 1]
    BY <1>1
  <2> QED BY <2>1, <2>2, <2>3, ConnChange
<1>4. TypeOK'
  BY <1>0, <1>2, <1>3 DEF TypeOK
<1>5. \A j : Flows(j)
  <2>1. \A q \in Sides : Writing(q)' = Writing(q)
    BY <1>2 DEF Writing
  <2> QED BY <1>0, <1>2, <2>1, MailStays
<1>6. \A q \in Sides : SameMaking(q)
  BY <1>2 DEF SameMaking, Creating, Unnamed, Doing
<1>7. ToxOK'
  BY <1>0, <1>2 DEF Desk, ToxOK, Mine, WithSock
<1>8. Desk'
  BY <1>0, <1>2, <1>6, <1>7, DeskTurns DEF sockVars
<1>9. \A j \in Conns : Grows(j)
  BY <1>2 DEF Grows, Mine
<1>10. ASSUME NEW j \in Conns, j # k PROVE Still(j)
  BY <1>2, <1>3, <1>5, <1>9, <1>10 DEF Still, Flows, Doing, Accepting
<1>11. CreationOK(k)'
  <2>1. \A q \in Sides : Stage(q, k)' = Stage(q, k) /\ Doing(q, k)' = Doing(q, k)
    BY <1>2 DEF Stage, Doing
  <2>2. Accepting(k)' <=> Accepting(k)
    BY <1>2 DEF Accepting
  <2>3. CreationOK(k)
    BY DEF IInv, Life
  <2> QED BY <2>1, <2>2, <2>3, <1>0, <1>2, <1>4, <1>5, <1>9, CreationFrame
             DEF Flows
<1>12. ASSUME NEW q \in Sides
       PROVE  ReaderOK(q, k)' /\ StreamOK(q, k)' /\ OutOK(q, k)' /\ EndOK(q, k)'
  <2>0. ReaderOK(q, k) /\ StreamOK(q, k) /\ OutOK(q, k) /\ EndOK(q, k)
    BY DEF IInv, Life
  <2>1. ReaderOK(q, k)'
    <3>1. taken[q][k] <= wrote'[q][k]
      BY <1>3, <2>0 DEF ReaderOK
    <3> QED BY <3>1, <2>0, <1>0, <1>2, <1>9, ReaderFrame
  <2>2. StreamOK(q, k)'
    <3>1. Top(q, k)' = Top(q, k) /\ (Reading(q, k)' => Reading(q, k))
      BY <1>2 DEF Top, Reading
    <3> QED BY <3>1, <2>0, <1>0, <1>2, <1>4, <1>5, <1>9, StreamFrame DEF Flows
  <2>3. OutOK(q, k)'
    BY <2>0, <1>2, <1>9, OutFrame
  <2>4. EndOK(q, k)'
    <3>1. /\ k \in fin[q] => taken'[q][k] = taken[q][k] /\ wrote'[q][k] = wrote[q][k]
          /\ Doing(q, k)' = Doing(q, k) /\ Doing(Peer(q), k)' = Doing(Peer(q), k)
      BY <1>1, <1>2, <1>3 DEF Doing
    <3> QED BY <3>1, <2>0, <1>0, <1>2, <1>4, <1>5, <1>9, EndFrame DEF Flows
  <2> QED BY <2>1, <2>2, <2>3, <2>4
<1> QED BY <1>4, <1>8, <1>10, <1>11, <1>12, Focus

-----------------------------------------------------------------------------
(* Sending or dropping what was kept.                                       *)

\* A message that a side holds is in its pipe.
LEMMA Holds ==
  ASSUME TypeOK, NEW s \in Sides, held[s] # <<>>
  PROVE  /\ Head(held[s]) \in Messages /\ Tail(held[s]) \in Seq(Messages)
         /\ Has(Pipe(s), Head(held[s]).uuid, Head(held[s]).cmd)
<1> DEFINE a == Writing(Peer(s)) \o net[Peer(s)]
           c == held[s]
<1>1. a \in Seq(Messages) /\ c \in Seq(Messages)
  BY PipeTyped, TwoSides, ConcatProperties DEF MailTyped
<1>2. Pipe(s) = a \o c
  BY DEF Pipe
<1> HIDE DEF a, c
<1>3. c # <<>>
  BY DEF c
<1>4. Head(c) \in Messages /\ Tail(c) \in Seq(Messages) /\ Head(c) = c[1]
  BY <1>1, <1>3, HeadTailProperties
<1>5. Len(c) \in Nat /\ Len(c) # 0 /\ Len(a) \in Nat
  BY <1>1, <1>3, EmptySeq, LenProperties
<1>6. /\ Len(a \o c) = Len(a) + Len(c) /\ a \o c \in Seq(Messages)
      /\ \A i \in 1..Len(a) + Len(c) :
           (a \o c)[i] = IF i <= Len(a) THEN a[i] ELSE c[i - Len(a)]
  BY <1>1, ConcatProperties
<1>7. Len(a) + 1 \in 1..Len(a) + Len(c) /\ ~ (Len(a) + 1 <= Len(a))
      /\ Len(a) + 1 - Len(a) = 1
  BY <1>5
<1>8. (a \o c)[Len(a) + 1] = Head(c)
  BY <1>4, <1>6, <1>7
<1>9. Len(a) + 1 \in DOMAIN (a \o c)
  BY <1>6, <1>7, LenProperties
<1>10. Has(a \o c, Head(c).uuid, Head(c).cmd)
  BY <1>8, <1>9 DEF Has
<1> QED BY <1>2, <1>4, <1>10 DEF c

\* Only the first message of the second part of a pipe asks for k: without it
\* there is none of k.
LEMMA LeavesSilence ==
  ASSUME NEW a \in Seq(Messages), NEW c \in Seq(Messages), c # <<>>,
         NEW k, Head(c).uuid = k,
         OnlyAsks(a \o c, k), AsksAlone(a \o c, k)
  PROVE  Silent(a \o Tail(c), k)
<1> DEFINE q == a \o c
           t == a \o Tail(c)
<1>1. /\ Tail(c) \in Seq(Messages) /\ Len(Tail(c)) = Len(c) - 1
      /\ \A i \in 1..Len(Tail(c)) : Tail(c)[i] = c[i + 1]
      /\ Head(c) = c[1]
  BY HeadTailProperties
<1>2. Len(c) \in Nat /\ Len(c) # 0 /\ Len(a) \in Nat
  BY EmptySeq, LenProperties
<1>3. /\ q \in Seq(Messages) /\ Len(q) = Len(a) + Len(c)
      /\ \A i \in 1..Len(a) + Len(c) :
           q[i] = IF i <= Len(a) THEN a[i] ELSE c[i - Len(a)]
  BY ConcatProperties
<1>4. /\ t \in Seq(Messages) /\ Len(t) = Len(a) + Len(Tail(c))
      /\ \A i \in 1..Len(a) + Len(Tail(c)) :
           t[i] = IF i <= Len(a) THEN a[i] ELSE Tail(c)[i - Len(a)]
  BY <1>1, ConcatProperties
<1>5. DOMAIN q = 1..Len(a) + Len(c) /\ DOMAIN t = 1..Len(a) + Len(c) - 1
  BY <1>1, <1>2, <1>3, <1>4, LenProperties
<1>a. \A i \in DOMAIN q : q[i] = IF i <= Len(a) THEN a[i] ELSE c[i - Len(a)]
  BY <1>3, <1>5
<1>b. \A i \in DOMAIN t : t[i] = IF i <= Len(a) THEN a[i] ELSE Tail(c)[i - Len(a)]
  BY <1>1, <1>2, <1>4, <1>5
<1> HIDE DEF q, t
<1>6. PICK n \in DOMAIN q : n = Len(a) + 1
  BY <1>2, <1>5
<1>7. q[n] = Head(c)
  BY <1>1, <1>2, <1>a, <1>6
<1>8. ASSUME NEW i \in DOMAIN t
      PROVE  \E j \in DOMAIN q : j # n /\ q[j] = t[i]
  <2>1. CASE i <= Len(a)
    <3>1. i \in DOMAIN q /\ i # n
      BY <2>1, <1>2, <1>5, <1>6
    <3>2. q[i] = t[i]
      BY <2>1, <3>1, <1>a, <1>b
    <3> QED BY <3>1, <3>2
  <2>2. CASE ~ (i <= Len(a))
    <3>1. PICK j \in DOMAIN q : j = i + 1
      BY <2>2, <1>2, <1>5
    <3>2. /\ j # n /\ ~ (j <= Len(a)) /\ j - Len(a) = i - Len(a) + 1
          /\ i - Len(a) \in 1..Len(Tail(c))
      BY <2>2, <3>1, <1>1, <1>2, <1>5, <1>6
    <3>3. t[i] = Tail(c)[i - Len(a)]
      BY <2>2, <1>b
    <3>4. q[j] = c[j - Len(a)]
      BY <3>2, <1>a
    <3>5. Tail(c)[i - Len(a)] = c[i - Len(a) + 1]
      BY <3>2, <1>1
    <3> QED BY <3>2, <3>3, <3>4, <3>5
  <2> QED BY <2>1, <2>2
<1>9. OnlyAsks(q, k) /\ AsksAlone(q, k)
  BY DEF q
<1>10. Silent(t, k)
  BY <1>6, <1>7, <1>8, <1>9 DEF Silent, OnlyAsks, AsksAlone
<1> QED BY <1>10 DEF t

\* A connection that is asked for has no other message.
LEMMA HeldAlone ==
  ASSUME TypeOK, NEW s \in Sides, held[s] # <<>>, held'[s] = Tail(held[s]),
         net'[Peer(s)] = net[Peer(s)], Writing(Peer(s))' = Writing(Peer(s)),
         OnlyAsks(Pipe(s), Head(held[s]).uuid),
         AsksAlone(Pipe(s), Head(held[s]).uuid)
  PROVE  Silent(Pipe(s)', Head(held[s]).uuid)
<1> DEFINE a == Writing(Peer(s)) \o net[Peer(s)]
<1>1. a \in Seq(Messages) /\ held[s] \in Seq(Messages)
  BY PipeTyped, TwoSides, ConcatProperties DEF MailTyped
<1>2. Pipe(s) = a \o held[s] /\ Pipe(s)' = a \o Tail(held[s])
  BY DEF Pipe
<1> HIDE DEF a
<1> QED BY <1>1, <1>2, LeavesSilence

\* A message of k is lost and the local socket of k is going to be closed.
LEMMA CreationAbandoned ==
  ASSUME TypeOK, TypeOK', NEW s \in Sides, NEW k \in Conns, CreationOK(k), Grows(k),
         NEW cmd, Has(Pipe(s), k, cmd),
         UNCHANGED <<up, refused, shut, reader, out>>,
         Doing(s, k) = "idle", Doing(s, k)' = "close",
         Doing(Peer(s), k)' = Doing(Peer(s), k),
         Accepting(k)' <=> Accepting(k),
         k \in lost',
         OnlyAsks(Pipe(s), k) /\ AsksAlone(Pipe(s), k) => Silent(Pipe(s)', k),
         \A q \in Sides : PartOf(Pipe(q)', Pipe(q), k)
  PROVE  CreationOK(k)'
<1>1. \A q \in Sides : Doing(q, k)' = IF q = s THEN "close" ELSE Doing(q, k)
  BY TwoSides
<1>2. \A q \in Sides :
        /\ \A c : Has(Pipe(q)', k, c) => Has(Pipe(q), k, c)
        /\ Silent(Pipe(q), k) => Silent(Pipe(q)', k)
        /\ OnlyAsks(Pipe(q), k) => OnlyAsks(Pipe(q)', k)
        /\ AsksAlone(Pipe(q), k) => AsksAlone(Pipe(q)', k)
        /\ ConfirmsOnce(Pipe(q), k) => ConfirmsOnce(Pipe(q)', k)
  BY PipeTyped, PipeTypedNext, PartKeeps DEF MailTyped
<1>3. ~ Silent(Pipe(s), k)
  BY DEF Silent, Has
<1>4. Dormant(k) => s = "C" /\ Unborn(k) /\ ~ Accepting(k) /\ Silent(Pipe("C")', k)
  <2>1. Dormant(k) => /\ s = "C" /\ Has(Pipe("C"), k, "CREATE_SOCK")
                      /\ OnlyAsks(Pipe("C"), k)
    BY <1>3 DEF Dormant, Sides, OnlyAsks, Has
  <2> QED BY <2>1, <1>3 DEF CreationOK, AskedOK, UnaskedOK
<1>5. Unborn(k) => Unborn(k)'
  BY <1>1, TwoSides DEF Unborn
<1>6. YoungOK(k)'
  <2>1. Dormant(k) => Dormant(k)'
    BY <1>1, <1>2, <1>4, <1>5, TwoSides DEF Dormant
  <2> QED BY <2>1 DEF YoungOK, Young, CreationOK
<1>7. UnaskedOK(k)'
  BY <1>1, <1>2, <1>3, <1>5, TwoSides DEF UnaskedOK, CreationOK
<1>8. AskedOK(k)'
  BY <1>2, <1>5, TwoSides DEF AskedOK, CreationOK
<1>9. MakingOK(k)'
  BY <1>1, TwoSides DEF MakingOK, CreationOK
<1>10. MadeOK(k)'
  BY <1>2 DEF MadeOK, CreationOK
<1>11. ConfirmedOK(k)'
  BY <1>2, TwoSides DEF ConfirmedOK, CreationOK
<1> QED BY <1>6, <1>7, <1>8, <1>9, <1>10, <1>11 DEF CreationOK

\* A message that was kept goes out or is dropped.
LEMMA SendHeldStep ==
  ASSUME IInv, NEW s \in Sides, SendHeld(s)
  PROVE  IInv'
<1>0. TypeOK /\ Desk /\ tox[s].pc = "idle" /\ held[s] # <<>>
  BY DEF IInv, SendHeld
<1>1. PICK m \in Messages : m = Head(held[s])
  BY <1>0, Holds
<1>2. PICK k \in Conns : k = m.uuid
  BY DEF Messages
<1>3. /\ UNCHANGED <<sockVars, appVars, main, reader, taken, out, links>>
      /\ held' = [held EXCEPT ![s] = Tail(@)]
  BY DEF SendHeld
<1>4. UNCHANGED <<files, socks, shut, up, wrote, fin, refused, main,
                  reader,
                  taken, out, linked, online, ends>>
  BY <1>3 DEF sockVars, appVars, links
<1>5. /\ held' \in [Sides -> Seq(Messages)]
      /\ held'[s] = Tail(held[s]) /\ held'[Peer(s)] = held[Peer(s)]
  <2>1. held \in [Sides -> Seq(Messages)] /\ Tail(held[s]) \in Seq(Messages)
    BY <1>0, Holds DEF TypeOK
  <2> QED BY <1>3, <2>1, TwoSides
<1>6. lost \subseteq Conns /\ net \in [Sides -> Seq(Messages)]
  BY <1>0 DEF TypeOK
<1>7. CASE online[s]
  <2>1. Give(s, m) /\ UNCHANGED tox
    BY <1>1, <1>7 DEF SendHeld
  <2>2. /\ net' \in [Sides -> Seq(Messages)] /\ net'[s] = net[s]
        /\ \/ net'[Peer(s)] = Append(net[Peer(s)], m) /\ lost' = lost
           \/ net'[Peer(s)] = net[Peer(s)] /\ lost' = lost \cup {k}
    <3>1. CASE linked
      <4>1. net' = [net EXCEPT ![Peer(s)] = Append(@, m)] /\ lost' = lost
        BY <2>1, <3>1 DEF Give
      <4>2. Append(net[Peer(s)], m) \in Seq(Messages)
        BY <1>6, TwoSides, AppendProperties
      <4> QED BY <4>1, <4>2, <1>6, TwoSides
    <3>2. CASE ~ linked
      BY <2>1, <3>2, <1>2, <1>6 DEF Give
    <3> QED BY <3>1, <3>2
  <2>3. \A q \in Sides : Writing(q)' = Writing(q)
    BY <2>1 DEF Writing
  <2>4. \A j : Flows(j)
    BY <1>0, <1>1, <1>2, <1>5, <2>2, <2>3, HeldLeaves
  <2>5. lost' \subseteq Conns /\ lost \subseteq lost'
    BY <1>6, <2>2
  <2>6. TypeOK'
    BY <1>0, <1>4, <1>5, <2>1, <2>2, <2>5 DEF TypeOK
  <2>7. \A q \in Sides : fin[q] \subseteq fin'[q]
    BY <1>4
  <2> QED BY <1>3, <1>4, <2>1, <2>4, <2>5, <2>6, <2>7, AllStill
<1>8. CASE ~ online[s]
  <2>0. PICK f \in Fds : f = SockOf(s, k)
    BY <1>0, Found
  <2>1. PICK t : t = [pc |-> "close", msg |-> m, sock |-> f]
    OBVIOUS
  <2>2. lost' = lost \cup {k} /\ net' = net /\ tox' = [tox EXCEPT ![s] = t]
    BY <1>1, <1>2, <1>8, <2>0, <2>1 DEF SendHeld
  <2>3. ToxTurns(s, k, t)
    <3>1. t \in Tasks /\ t.msg = m
      BY <2>1 DEF Tasks
    <3> QED BY <3>1, <2>2, <1>0, <1>2 DEF ToxTurns
  <2>4. /\ tox' \in [Sides -> Tasks]
        /\ \A q \in Sides : tox'[q].pc # "idle" => tox'[q].msg \in Messages
        /\ \A q \in Sides, j \in Conns : j # k => Doing(q, j)' = Doing(q, j)
        /\ Doing(s, k)' = "close" /\ Doing(s, k) = "idle"
        /\ Doing(Peer(s), k)' = Doing(Peer(s), k)
        /\ Writing(Peer(s))' = Writing(Peer(s)) /\ Writing(s)' = <<>>
    <3>1. t.pc = "close"
      BY <2>1
    <3> QED BY <3>1, <1>0, <2>3, ToxTyped, TwoSides
  <2>5. \A q \in Sides : Writing(q)' = Writing(q)
    <3>1. Writing(s) = <<>>
      BY <1>0 DEF Writing
    <3> QED BY <3>1, <2>4, TwoSides
  <2>6. \A j : Flows(j)
    BY <1>0, <1>1, <1>2, <1>5, <2>2, <2>5, HeldLeaves
  <2>7. TypeOK'
    <3>1. lost' \subseteq Conns
      BY <1>6, <2>2
    <3> QED BY <3>1, <1>0, <1>4, <1>5, <2>2, <2>4 DEF TypeOK
  <2>8. Desk'
    <3>1. f # 0 => Mine(s, k, f)
      BY <1>0, <2>0, Found
    <3>2. t.pc = "close" /\ t.sock = f
      BY <2>1
    <3> QED BY <3>1, <3>2, <1>0, <1>4, <2>3, ToxDesk DEF sockVars
  <2>9. \A j \in Conns : Grows(j)
    BY <1>4, <2>2 DEF Grows, Mine
  <2>10. \A j \in Conns : Accepting(j)' <=> Accepting(j)
    BY <1>4 DEF Accepting
  <2>11. ASSUME NEW j \in Conns, j # k PROVE Still(j)
    BY <1>4, <2>2, <2>4, <2>6, <2>9, <2>10, <2>11 DEF Still, Flows
  <2>12. CreationOK(k)'
    <3>1. Has(Pipe(s), k, m.cmd)
      BY <1>0, <1>1, <1>2, Holds
    <3>2. CreationOK(k) /\ k \in lost'
      BY <2>2 DEF IInv, Life
    <3>3. OnlyAsks(Pipe(s), k) /\ AsksAlone(Pipe(s), k) => Silent(Pipe(s)', k)
      BY <1>0, <1>1, <1>2, <1>5, <2>2, <2>4, HeldAlone
    <3> QED BY <3>1, <3>2, <3>3, <1>0, <1>4, <2>4, <2>6, <2>7, <2>9, <2>10,
               CreationAbandoned DEF Flows
  <2>13. ASSUME NEW q \in Sides
         PROVE  ReaderOK(q, k)' /\ StreamOK(q, k)' /\ OutOK(q, k)' /\ EndOK(q, k)'
    <3>0. ReaderOK(q, k) /\ StreamOK(q, k) /\ OutOK(q, k) /\ EndOK(q, k)
      BY DEF IInv, Life
    <3>1. ReaderOK(q, k)'
      BY <3>0, <1>0, <1>4, <2>9, ReaderFrame DEF ReaderOK
    <3>2. StreamOK(q, k)'
      <4>1. Top(q, k)' = Top(q, k) /\ (Reading(q, k)' => Reading(q, k))
        BY <1>4 DEF Top, Reading
      <4> QED BY <4>1, <3>0, <1>0, <1>4, <2>6, <2>7, <2>9, StreamFrame
                 DEF Flows
    <3>3. OutOK(q, k)'
      BY <3>0, <1>4, <2>9, OutFrame
    <3>4. EndOK(q, k)'
      <4>1. CASE q = s
        <5>1. /\ Doing(q, k)' # "deny"
              /\ Doing(Peer(q), k)' = Doing(Peer(q), k)
          BY <4>1, <2>4
        <5> QED BY <5>1, <3>0, <1>0, <1>4, <2>6, <2>7, <2>9, EndFrame
                   DEF Flows
      <4>2. CASE q = Peer(s)
        <5>1. Excused(Peer(q), k)' /\ Excused(q, k)'
          BY <2>2 DEF Excused
        <5>2. Doing(q, k)' = "deny" => k \in shut[q] \cup refused
          BY <4>2, <2>4, <3>0 DEF EndOK
        <5> QED BY <5>1, <5>2, <1>4 DEF EndOK
      <4> QED BY <4>1, <4>2, TwoSides
    <3> QED BY <3>1, <3>2, <3>3, <3>4
  <2> QED BY <2>7, <2>8, <2>11, <2>12, <2>13, Focus
<1> QED BY <1>7, <1>8
=============================================================================
