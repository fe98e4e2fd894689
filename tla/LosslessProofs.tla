--------------------------- MODULE LosslessProofs ---------------------------
(***************************************************************************)
(* Lossless, for every value of its constants: its types, that no message  *)
(* is lost while it is outstanding, that the two rings of a direction stay *)
(* on each other, that the nonces that are known never fall behind, that   *)
(* request packets are read as they are meant and heal every loss, and     *)
(* that the connection implements Channel.                                 *)
(*                                                                         *)
(* The invariant counts messages and packets without wrapping around.  For *)
(* each direction there are four numbers, base <= given <= top <= all: the *)
(* sender knows that base messages were received, the other program was    *)
(* given "given" of them, its peer has heard of "top", and "all" were      *)
(* accepted (Rings).  For each peer that sends there are two counters over *)
(* the nonces it used: how many messages it had accepted and how many it   *)
(* had been given with each packet (History).  They say of a packet that   *)
(* comes late how old it can be; the numbers that it tells of do not wrap  *)
(* around further than that.                                               *)
(***************************************************************************)
EXTENDS Lossless, FiniteSetTheorems, SequenceTheorems, WellFoundedInduction,
        TLAPS

-----------------------------------------------------------------------------
(* The bytes of a request packet.                                           *)

\* A set of natural numbers that has 0 and with a number the next one has
\* every number.
LEMMA Induction ==
  ASSUME NEW S, 0 \in S, \A n \in Nat : n \in S => n + 1 \in S
  PROVE  \A n \in Nat : n \in S
<1> SUFFICES ASSUME NEW m \in Nat, m \notin S PROVE FALSE
  OBVIOUS
<1> DEFINE Out == {n \in Nat : n \notin S}
<1>1. \E x \in Out : \A y \in Out : ~ (<<y, x>> \in OpToRel(<, Nat))
  <2>1. Out \subseteq Nat /\ Out # {}
    OBVIOUS
  <2> HIDE DEF Out
  <2> QED BY <2>1, NatLessThanWellFounded, WFMin
<1>2. PICK x \in Out : \A y \in Out : ~ (<<y, x>> \in OpToRel(<, Nat))
  BY <1>1
<1>3. x \in Nat /\ x \notin S /\ x # 0
  OBVIOUS
<1>4. x - 1 \in Nat /\ (x - 1) + 1 = x
  BY <1>3
<1>5. x - 1 \in Out
  BY <1>3, <1>4
<1>6. <<x - 1, x>> \in OpToRel(<, Nat)
  BY <1>3, <1>4 DEF OpToRel
<1> QED BY <1>2, <1>5, <1>6

\* The states of the loop of generate_request_packet: each follows from the
\* one before.
LEMMA ToldSteps ==
  ASSUME NEW ring, Len(ring) \in Nat, NEW room
  PROVE  LET told == Told(ring, room)
         IN /\ told[0] = [bytes |-> <<>>, n |-> 1]
            /\ \A i \in 1..Len(ring) : told[i] = Tell(told[i - 1], ring[i], room)
<1> DEFINE Turn(f, i) == IF i = 0 THEN [bytes |-> <<>>, n |-> 1]
                         ELSE Tell(f[i - 1], ring[i], room)
           S == {m \in Nat : \E f : f = [i \in 0..m |-> Turn(f, i)]}
<1>1. 0 \in S
  <2> DEFINE f == [i \in 0..0 |-> [bytes |-> <<>>, n |-> 1]]
  <2>1. f = [i \in 0..0 |-> Turn(f, i)]
    OBVIOUS
  <2> QED BY <2>1
<1>2. ASSUME NEW m \in Nat, m \in S PROVE m + 1 \in S
  <2>1. PICK f : f = [i \in 0..m |-> Turn(f, i)]
    BY <1>2
  <2> DEFINE g == [i \in 0..m + 1 |->
                     IF i <= m THEN f[i] ELSE Tell(f[m], ring[m + 1], room)]
  <2>2. ASSUME NEW i \in 0..m + 1 PROVE g[i] = Turn(g, i)
    <3>1. CASE i = 0
      <4>1. g[0] = f[0] /\ f[0] = Turn(f, 0)
        BY <2>1
      <4> QED BY <3>1, <4>1
    <3>2. CASE i \in 1..m
      <4>1. g[i] = f[i] /\ g[i - 1] = f[i - 1] /\ i - 1 \in 0..m
        BY <3>2
      <4>2. f[i] = Turn(f, i)
        BY <2>1, <3>2
      <4> QED BY <3>2, <4>1, <4>2
    <3>3. CASE i = m + 1
      <4>1. g[i] = Tell(f[m], ring[m + 1], room) /\ g[m] = f[m] /\ i - 1 = m
        BY <3>3
      <4> QED BY <3>3, <4>1
    <3> QED BY <3>1, <3>2, <3>3
  <2>3. g = [i \in 0..m + 1 |-> Turn(g, i)]
    <3>1. DOMAIN g = 0..m + 1 /\ g = [i \in 0..m + 1 |-> g[i]]
      OBVIOUS
    <3> HIDE DEF g, Turn
    <3> QED BY <2>2, <3>1
  <2>4. \E h : h = [i \in 0..m + 1 |-> Turn(h, i)]
    <3> HIDE DEF g
    <3> QED BY <2>3
  <2> HIDE DEF g, Turn
  <2> QED BY <2>4
<1>3. Len(ring) \in S
  <2> HIDE DEF S
  <2> QED BY <1>1, <1>2, Induction
<1>4. \E f : f = [i \in 0..Len(ring) |-> Turn(f, i)]
  BY <1>3
<1> DEFINE told == Told(ring, room)
<1>5. told = [i \in 0..Len(ring) |-> Turn(told, i)]
  BY <1>4 DEF Told
<1> HIDE DEF told
<1>6. told[0] = [bytes |-> <<>>, n |-> 1]
  BY <1>5
<1>7. \A i \in 1..Len(ring) : told[i] = Tell(told[i - 1], ring[i], room)
  BY <1>5
<1> QED BY <1>6, <1>7 DEF told

\* The states of the loop of handle_request_packet: each follows from the
\* one before.
LEMMA HeardSteps ==
  ASSUME NEW bytes, NEW count \in Nat
  PROVE  LET heard == Heard(bytes, count)
         IN /\ heard[0] = [mark |-> "kept", bytes |-> bytes, n |-> 1]
            /\ \A i \in 1..count : heard[i] = Mark(heard[i - 1])
<1> DEFINE Turn(f, i) == IF i = 0 THEN [mark |-> "kept", bytes |-> bytes, n |-> 1]
                         ELSE Mark(f[i - 1])
           S == {m \in Nat : \E f : f = [i \in 0..m |-> Turn(f, i)]}
<1>1. 0 \in S
  <2> DEFINE f == [i \in 0..0 |-> [mark |-> "kept", bytes |-> bytes, n |-> 1]]
  <2>1. f = [i \in 0..0 |-> Turn(f, i)]
    OBVIOUS
  <2> QED BY <2>1
<1>2. ASSUME NEW m \in Nat, m \in S PROVE m + 1 \in S
  <2>1. PICK f : f = [i \in 0..m |-> Turn(f, i)]
    BY <1>2
  <2> DEFINE g == [i \in 0..m + 1 |->
                     IF i <= m THEN f[i] ELSE Mark(f[m])]
  <2>2. ASSUME NEW i \in 0..m + 1 PROVE g[i] = Turn(g, i)
    <3>1. CASE i = 0
      <4>1. g[0] = f[0] /\ f[0] = Turn(f, 0)
        BY <2>1
      <4> QED BY <3>1, <4>1
    <3>2. CASE i \in 1..m
      <4>1. g[i] = f[i] /\ g[i - 1] = f[i - 1] /\ i - 1 \in 0..m
        BY <3>2
      <4>2. f[i] = Turn(f, i)
        BY <2>1, <3>2
      <4> QED BY <3>2, <4>1, <4>2
    <3>3. CASE i = m + 1
      <4>1. g[i] = Mark(f[m]) /\ g[m] = f[m] /\ i - 1 = m
        BY <3>3
      <4> QED BY <3>3, <4>1
    <3> QED BY <3>1, <3>2, <3>3
  <2>3. g = [i \in 0..m + 1 |-> Turn(g, i)]
    <3>1. DOMAIN g = 0..m + 1 /\ g = [i \in 0..m + 1 |-> g[i]]
      OBVIOUS
    <3> HIDE DEF g, Turn
    <3> QED BY <2>2, <3>1
  <2>4. \E h : h = [i \in 0..m + 1 |-> Turn(h, i)]
    <3> HIDE DEF g
    <3> QED BY <2>3
  <2> HIDE DEF g, Turn
  <2> QED BY <2>4
<1>3. count \in S
  <2> HIDE DEF S
  <2> QED BY <1>1, <1>2, Induction
<1>4. \E f : f = [i \in 0..count |-> Turn(f, i)]
  BY <1>3
<1> DEFINE heard == Heard(bytes, count)
<1>5. heard = [i \in 0..count |-> Turn(heard, i)]
  BY <1>4 DEF Heard
<1> HIDE DEF heard
<1>6. heard[0] = [mark |-> "kept", bytes |-> bytes, n |-> 1]
  BY <1>5
<1>7. \A i \in 1..count : heard[i] = Mark(heard[i - 1])
  BY <1>5
<1> QED BY <1>6, <1>7 DEF heard

\* What the loop of generate_request_packet keeps.
LEMMA ToldTyped ==
  ASSUME NEW ring \in Seq(BOOLEAN), NEW room \in Nat
  PROVE  LET told == Told(ring, room)
         IN \A i \in 0..Len(ring) :
              /\ told[i].bytes \in Seq(Nat) /\ told[i].n \in 1..Gap
              /\ Len(told[i].bytes) <= room
<1> DEFINE told == Told(ring, room)
           P(i) == /\ told[i].bytes \in Seq(Nat) /\ told[i].n \in 1..Gap
                   /\ Len(told[i].bytes) <= room
           S == {i \in Nat : i <= Len(ring) => P(i)}
<1>0. /\ told[0] = [bytes |-> <<>>, n |-> 1]
      /\ \A i \in 1..Len(ring) : told[i] = Tell(told[i - 1], ring[i], room)
  BY ToldSteps
<1> HIDE DEF told
<1>1. 0 \in S
  <2>1. told[0].bytes = <<>> /\ told[0].n = 1
    BY <1>0
  <2>2. <<>> \in Seq(Nat) /\ Len(<<>>) = 0
    OBVIOUS
  <2>3. P(0)
    BY <2>1, <2>2, GapAssumption
  <2> QED BY <2>3
<1>2. ASSUME NEW m \in Nat, m \in S PROVE m + 1 \in S
  <2> SUFFICES ASSUME m + 1 <= Len(ring) PROVE P(m + 1)
    OBVIOUS
  <2>1. P(m)
    BY <1>2
  <2>2. told[m + 1] = Tell(told[m], ring[m + 1], room)
    BY <1>0
  <2>3. ring[m + 1] \in BOOLEAN
    OBVIOUS
  <2> DEFINE t == told[m]
  <2>4. CASE Len(t.bytes) = room
    BY <2>1, <2>2, <2>4 DEF Tell
  <2>5. CASE Len(t.bytes) < room /\ ~ ring[m + 1]
    <3>1. told[m + 1] = [bytes |-> Append(t.bytes, t.n), n |-> 1]
      BY <2>2, <2>5 DEF Tell
    <3>2. /\ Append(t.bytes, t.n) \in Seq(Nat)
          /\ Len(Append(t.bytes, t.n)) = Len(t.bytes) + 1
      BY <2>1, AppendProperties
    <3> QED BY <2>1, <2>5, <3>1, <3>2, GapAssumption
  <2>6. CASE Len(t.bytes) < room /\ ring[m + 1] /\ t.n = Gap
    <3>1. told[m + 1] = [bytes |-> Append(t.bytes, 0), n |-> 1]
      BY <2>2, <2>6 DEF Tell
    <3>2. /\ Append(t.bytes, 0) \in Seq(Nat)
          /\ Len(Append(t.bytes, 0)) = Len(t.bytes) + 1
      BY <2>1, AppendProperties, GapAssumption
    <3> QED BY <2>1, <2>6, <3>1, <3>2, GapAssumption
  <2>7. CASE Len(t.bytes) < room /\ ring[m + 1] /\ t.n # Gap
    <3>1. told[m + 1] = [t EXCEPT !.n = @ + 1]
      BY <2>2, <2>7 DEF Tell
    <3>2. t = Tell(told[m - 1], ring[m], room) \/ t = told[0]
      BY <1>0
    <3>3. told[m + 1].bytes = t.bytes /\ told[m + 1].n = t.n + 1
      BY <3>1, <3>2, <1>0 DEF Tell
    <3> QED BY <2>1, <2>7, <3>3, GapAssumption
  <2> QED BY <2>1, <2>3, <2>4, <2>5, <2>6, <2>7
<1>3. \A i \in Nat : i \in S
  <2> HIDE DEF S
  <2> QED BY <1>1, <1>2, Induction
<1>4. \A i \in 0..Len(ring) : P(i)
  BY <1>3
<1> QED BY <1>4 DEF told

\* What one turn of that loop does.
Turned(old, new, held, room) ==
  IF Len(old.bytes) = room THEN new = old
  ELSE IF ~ held THEN new.bytes = Append(old.bytes, old.n) /\ new.n = 1
  ELSE IF old.n = Gap THEN new.bytes = Append(old.bytes, 0) /\ new.n = 1
  ELSE new.bytes = old.bytes /\ new.n = old.n + 1

\* So do the states of that loop follow each other.
LEMMA OneTell ==
  ASSUME NEW ring \in Seq(BOOLEAN), NEW room \in Nat, NEW i \in 1..Len(ring)
  PROVE  Turned(Told(ring, room)[i - 1], Told(ring, room)[i], ring[i], room)
<1> DEFINE told == Told(ring, room)
<1>1. /\ told[0] = [bytes |-> <<>>, n |-> 1]
      /\ \A j \in 1..Len(ring) : told[j] = Tell(told[j - 1], ring[j], room)
  BY ToldSteps
<1>2. \A j \in 0..Len(ring) :
        /\ told[j].bytes \in Seq(Nat) /\ told[j].n \in 1..Gap
        /\ Len(told[j].bytes) <= room
  BY ToldTyped
<1> HIDE DEF told
<1> DEFINE t == told[i - 1]
<1>3. told[i] = Tell(t, ring[i], room) /\ ring[i] \in BOOLEAN
  BY <1>1
<1>4. t.bytes \in Seq(Nat) /\ Len(t.bytes) \in Nat /\ Len(t.bytes) <= room
  BY <1>2
<1>5. ASSUME Len(t.bytes) = room
      PROVE  Turned(t, told[i], ring[i], room)
  BY <1>3, <1>4, <1>5 DEF Tell, Turned
<1>6. ASSUME Len(t.bytes) < room /\ ~ ring[i]
      PROVE  Turned(t, told[i], ring[i], room)
  BY <1>3, <1>4, <1>6 DEF Tell, Turned
<1>7. ASSUME Len(t.bytes) < room /\ ring[i] /\ t.n = Gap
      PROVE  Turned(t, told[i], ring[i], room)
  BY <1>3, <1>4, <1>7 DEF Tell, Turned
<1>8. ASSUME Len(t.bytes) < room /\ ring[i] /\ t.n # Gap
      PROVE  Turned(t, told[i], ring[i], room)
  <2>1. told[i] = [t EXCEPT !.n = @ + 1]
    BY <1>3, <1>8 DEF Tell
  <2>2. told[i].bytes = t.bytes /\ told[i].n = t.n + 1
    <3>1. CASE i = 1
      <4>1. t = [bytes |-> <<>>, n |-> 1]
        BY <1>1, <3>1
      <4> QED BY <2>1, <4>1
    <3>2. CASE i > 1
      <4>1. t = Tell(told[(i - 1) - 1], ring[i - 1], room)
        BY <1>1, <3>2
      <4> QED BY <2>1, <4>1 DEF Tell
    <3> QED BY <3>1, <3>2
  <2> QED BY <1>4, <1>8, <2>2 DEF Turned
<1>9. Turned(t, told[i], ring[i], room)
  BY <1>3, <1>4, <1>5, <1>6, <1>7, <1>8
<1> QED BY <1>9 DEF told

\* From the state with the bytes a and the count n to the one with b and m: the
\* bytes that are there stay, and the next one is 0 or as much as has been
\* counted by then.
Keeps(a, n, b, m) ==
  /\ Len(a) <= Len(b)
  /\ \A k \in 1..Len(a) : b[k] = a[k]
  /\ Len(b) = Len(a) => m >= n
  /\ Len(b) > Len(a) => b[Len(a) + 1] = 0 \/ b[Len(a) + 1] >= n

\* Keeps is kept by another byte and by counting on.
LEMMA KeepsOn ==
  ASSUME NEW a \in Seq(Nat), NEW n \in Nat, NEW b \in Seq(Nat), NEW m \in Nat,
         Keeps(a, n, b, m), NEW c, NEW o \in Nat,
         \/ c = b /\ o >= m
         \/ \E x \in {0, m} : c = Append(b, x)
  PROVE  Keeps(a, n, c, o)
<1>1. CASE c = b /\ o >= m
  BY <1>1 DEF Keeps
<1>2. ASSUME NEW x \in {0, m}, c = Append(b, x) PROVE Keeps(a, n, c, o)
  <2>1. /\ Len(c) = Len(b) + 1 /\ c[Len(b) + 1] = x
        /\ \A k \in 1..Len(b) : c[k] = b[k]
    BY <1>2
  <2>2. Len(a) \in Nat /\ Len(b) \in Nat /\ Len(a) <= Len(b)
    BY DEF Keeps
  <2>3. \A k \in 1..Len(a) : c[k] = a[k]
    <3>1. \A k \in 1..Len(a) : k \in 1..Len(b) /\ b[k] = a[k]
      BY <2>2 DEF Keeps
    <3> QED BY <2>1, <3>1
  <2>4. c[Len(a) + 1] = 0 \/ c[Len(a) + 1] >= n
    <3>1. CASE Len(b) = Len(a)
      <4>1. m >= n /\ c[Len(a) + 1] = x
        BY <2>1, <3>1 DEF Keeps
      <4> QED BY <4>1
    <3>2. CASE Len(b) > Len(a)
      <4>1. b[Len(a) + 1] = 0 \/ b[Len(a) + 1] >= n
        BY <3>2 DEF Keeps
      <4>2. Len(a) + 1 \in 1..Len(b)
        BY <2>2, <3>2
      <4>3. c[Len(a) + 1] = b[Len(a) + 1]
        BY <2>1, <4>2
      <4> QED BY <4>1, <4>3
    <3> QED BY <2>2, <3>1, <3>2
  <2>5. Len(c) > Len(a)
    BY <2>1, <2>2
  <2> QED BY <2>2, <2>3, <2>4, <2>5 DEF Keeps
<1> QED BY <1>1, <1>2

\* The states of the loop of generate_request_packet one after the other.
LEMMA Later ==
  ASSUME NEW ring \in Seq(BOOLEAN), NEW room \in Nat,
         NEW i \in 0..Len(ring), NEW j \in i..Len(ring)
  PROVE  LET told == Told(ring, room)
         IN Keeps(told[i].bytes, told[i].n, told[j].bytes, told[j].n)
<1> DEFINE told == Told(ring, room)
           P(h) == Keeps(told[i].bytes, told[i].n, told[h].bytes, told[h].n)
           S == {d \in Nat : i + d <= Len(ring) => P(i + d)}
<1>1. \A h \in 0..Len(ring) : told[h].bytes \in Seq(Nat) /\ told[h].n \in Nat
  <2>1. \A h \in 0..Len(ring) : told[h].bytes \in Seq(Nat) /\ told[h].n \in 1..Gap
    BY ToldTyped
  <2> HIDE DEF told
  <2> QED BY <2>1, GapAssumption
<1>2. \A h \in 1..Len(ring) : Turned(told[h - 1], told[h], ring[h], room)
  BY OneTell
<1> HIDE DEF told
<1>3. 0 \in S
  BY <1>1 DEF Keeps
<1>4. ASSUME NEW d \in Nat, d \in S PROVE d + 1 \in S
  <2> SUFFICES ASSUME i + (d + 1) <= Len(ring) PROVE P(i + (d + 1))
    OBVIOUS
  <2>1. PICK h \in 1..Len(ring) : /\ h = i + (d + 1) /\ h - 1 = i + d
                                  /\ h - 1 \in 0..Len(ring)
    OBVIOUS
  <2>2. P(h - 1)
    BY <1>4, <2>1
  <2>3. /\ told[i].bytes \in Seq(Nat) /\ told[i].n \in Nat
        /\ told[h - 1].bytes \in Seq(Nat) /\ told[h - 1].n \in Nat
        /\ told[h].bytes \in Seq(Nat) /\ told[h].n \in Nat
    BY <1>1, <2>1
  <2>4. \/ told[h].bytes = told[h - 1].bytes /\ told[h].n >= told[h - 1].n
        \/ \E x \in {0, told[h - 1].n} :
             told[h].bytes = Append(told[h - 1].bytes, x)
    <3>1. Turned(told[h - 1], told[h], ring[h], room)
      BY <1>2
    <3> HIDE DEF P, S
    <3>2. CASE told[h] = told[h - 1]
      BY <2>3, <3>2
    <3>3. CASE told[h].bytes = Append(told[h - 1].bytes, told[h - 1].n)
      BY <3>3
    <3>4. CASE told[h].bytes = Append(told[h - 1].bytes, 0)
      BY <3>4
    <3>5. CASE told[h].bytes = told[h - 1].bytes /\ told[h].n = told[h - 1].n + 1
      BY <2>3, <3>5
    <3> QED BY <3>1, <3>2, <3>3, <3>4, <3>5 DEF Turned
  <2>5. P(h)
    BY <2>2, <2>3, <2>4, KeepsOn
  <2> QED BY <2>1, <2>5
<1>5. \A d \in Nat : d \in S
  <2> HIDE DEF S
  <2> QED BY <1>3, <1>4, Induction
<1>6. P(j)
  <2>1. j - i \in Nat /\ i + (j - i) = j
    OBVIOUS
  <2>2. j - i \in S
    BY <1>5, <2>1
  <2> HIDE DEF P
  <2> QED BY <2>1, <2>2
<1> QED BY <1>6 DEF told

\* The byte that follows the ones of the state old, and the next state.
Follows(bytes, old, new, held) ==
  LET l == Len(old.bytes)
  IN /\ ~ held => /\ bytes[l + 1] = old.n
                  /\ Len(new.bytes) = l + 1 /\ new.n = 1
     /\ held /\ old.n = Gap => /\ bytes[l + 1] = 0
                               /\ Len(new.bytes) = l + 1 /\ new.n = 1
     /\ held /\ old.n # Gap => /\ bytes[l + 1] # old.n
                               /\ new.bytes = old.bytes /\ new.n = old.n + 1

\* The byte after the ones for the first packets is one of those the loop comes
\* to.
LEMMA NextByte ==
  ASSUME NEW ring \in Seq(BOOLEAN), NEW room \in Nat, NEW i \in 1..Len(ring),
         NEW bytes, bytes = Encode(ring, room),
         NEW old, old = Told(ring, room)[i - 1],
         NEW new, new = Told(ring, room)[i],
         Len(old.bytes) < Len(bytes)
  PROVE  Follows(bytes, old, new, ring[i])
<1> DEFINE l == Len(old.bytes)
<1> DEFINE told == Told(ring, room)
           last == told[Len(ring)].n
<1>1. \A h \in 0..Len(ring) : /\ told[h].bytes \in Seq(Nat)
                              /\ told[h].n \in 1..Gap
                              /\ Len(told[h].bytes) <= room
  BY ToldTyped
<1>2. Turned(old, new, ring[i], room)
  BY OneTell
<1>3. bytes = told[Len(ring)].bytes /\ old = told[i - 1] /\ new = told[i]
  BY DEF Encode
<1>4. Keeps(new.bytes, new.n, bytes, last)
  <2>1. i \in 0..Len(ring) /\ Len(ring) \in i..Len(ring)
    OBVIOUS
  <2> QED BY <1>3, <2>1, Later
<1> HIDE DEF told, last
<1>5. /\ old.bytes \in Seq(Nat) /\ l \in Nat /\ l < room
      /\ new.bytes \in Seq(Nat) /\ new.n \in Nat /\ old.n \in Nat
      /\ bytes \in Seq(Nat)
  <2>1. /\ i - 1 \in 0..Len(ring) /\ Len(ring) \in 0..Len(ring)
        /\ i \in 0..Len(ring)
    OBVIOUS
  <2>2. old.bytes \in Seq(Nat) /\ bytes \in Seq(Nat) /\ Len(bytes) <= room
    BY <1>1, <1>3, <2>1
  <2>3. l \in Nat /\ Len(bytes) \in Nat
    BY <2>2
  <2>4. new.bytes \in Seq(Nat) /\ new.n \in Nat /\ old.n \in Nat
    BY <1>1, <1>3, <2>1
  <2> QED BY <2>2, <2>3, <2>4
<1>6. ASSUME NEW b, new.bytes = Append(old.bytes, b)
      PROVE  Len(new.bytes) = l + 1 /\ bytes[l + 1] = b
  <2>1. Len(new.bytes) = l + 1 /\ new.bytes[l + 1] = b
    BY <1>5, <1>6
  <2>2. l + 1 \in 1..Len(new.bytes)
    BY <2>1, <1>5
  <2>3. bytes[l + 1] = new.bytes[l + 1]
    BY <2>2, <1>4 DEF Keeps
  <2> QED BY <2>1, <2>3
<1>7. CASE ~ ring[i]
  <2>1. new.bytes = Append(old.bytes, old.n) /\ new.n = 1
    BY <1>2, <1>5, <1>7 DEF Turned
  <2>2. Len(new.bytes) = l + 1 /\ bytes[l + 1] = old.n
    BY <2>1, <1>6
  <2> QED BY <1>7, <2>1, <2>2 DEF Follows
<1>8. CASE ring[i] /\ old.n = Gap
  <2>1. new.bytes = Append(old.bytes, 0) /\ new.n = 1
    BY <1>2, <1>5, <1>8 DEF Turned
  <2>2. Len(new.bytes) = l + 1 /\ bytes[l + 1] = 0
    BY <2>1, <1>6
  <2> QED BY <1>8, <2>1, <2>2 DEF Follows
<1>9. CASE ring[i] /\ old.n # Gap
  <2>1. new.bytes = old.bytes /\ new.n = old.n + 1
    BY <1>2, <1>5, <1>9 DEF Turned
  <2>2. bytes[l + 1] = 0 \/ bytes[l + 1] >= old.n + 1
    BY <1>4, <1>5, <2>1 DEF Keeps
  <2>3. old.n # 0
    <3>1. i - 1 \in 0..Len(ring)
      OBVIOUS
    <3> QED BY <1>1, <1>3, <3>1
  <2>4. bytes[l + 1] # old.n
    BY <1>5, <2>2, <2>3
  <2> QED BY <1>9, <2>1, <2>4 DEF Follows
<1> QED BY <1>7, <1>8, <1>9

\* The bytes of a request packet and their number.
LEMMA Bytes ==
  ASSUME NEW ring \in Seq(BOOLEAN), NEW room \in Nat
  PROVE  LET told == Told(ring, room)
             bytes == Encode(ring, room)
         IN /\ bytes \in Seq(Nat) /\ Len(bytes) \in Nat /\ Len(bytes) <= room
            /\ \A i \in 0..Len(ring) :
                 /\ Len(told[i].bytes) \in Nat
                 /\ Len(told[i].bytes) <= Len(bytes)
            /\ told[Len(ring)].bytes = bytes
<1> DEFINE told == Told(ring, room)
           bytes == Encode(ring, room)
<1>1. \A h \in 0..Len(ring) : /\ told[h].bytes \in Seq(Nat)
                              /\ told[h].n \in 1..Gap
                              /\ Len(told[h].bytes) <= room
  BY ToldTyped
<1>2. bytes = told[Len(ring)].bytes
  BY DEF Encode
<1>3. ASSUME NEW i \in 0..Len(ring)
      PROVE  /\ Len(told[i].bytes) \in Nat
             /\ Len(told[i].bytes) <= Len(bytes)
  <2>1. Len(ring) \in i..Len(ring)
    OBVIOUS
  <2>2. Keeps(told[i].bytes, told[i].n, bytes, told[Len(ring)].n)
    BY <1>2, <2>1, Later
  <2> HIDE DEF told, bytes
  <2>3. told[i].bytes \in Seq(Nat)
    BY <1>1
  <2> QED BY <2>2, <2>3 DEF Keeps
<1>4. bytes \in Seq(Nat) /\ Len(bytes) \in Nat /\ Len(bytes) <= room
  <2> HIDE DEF told, bytes
  <2>1. Len(ring) \in 0..Len(ring)
    OBVIOUS
  <2>2. bytes \in Seq(Nat) /\ Len(bytes) <= room
    BY <1>1, <1>2, <2>1
  <2> QED BY <2>2
<1> QED BY <1>2, <1>3, <1>4

\* The bytes after the first l ones.
Rest(bytes, l) == SubSeq(bytes, l + 1, Len(bytes))

\* They are empty at the end.
LEMMA RestEnds ==
  ASSUME NEW bytes \in Seq(Nat)
  PROVE  Rest(bytes, 0) = bytes /\ Rest(bytes, Len(bytes)) = <<>>
BY DEF Rest

\* Before the end they are a byte and the bytes after it.
LEMMA RestFacts ==
  ASSUME NEW bytes \in Seq(Nat), NEW l \in 0..Len(bytes) - 1
  PROVE  /\ Rest(bytes, l) # <<>>
         /\ Head(Rest(bytes, l)) = bytes[l + 1]
         /\ Tail(Rest(bytes, l)) = Rest(bytes, l + 1)
<1>1. l + 1 \in 1..Len(bytes) /\ Len(bytes) \in 1..Len(bytes)
  OBVIOUS
<1>2. /\ Head(Rest(bytes, l)) = bytes[l + 1]
      /\ Tail(Rest(bytes, l)) = Rest(bytes, l + 1)
  <2>1. l + 1 <= Len(bytes) /\ l + 1 \in Int /\ Len(bytes) \in Int
    BY <1>1
  <2> QED BY <1>1, <2>1, HeadTailOfSubSeq DEF Rest
<1>3. Len(Rest(bytes, l)) = Len(bytes) - l /\ Len(<<>>) = 0
  BY <1>1 DEF Rest
<1> QED BY <1>1, <1>2, <1>3

\* After t was told, h has still to read the bytes behind those of t.
ToRead(h, bytes, t) ==
  /\ h.bytes = Rest(bytes, Len(t.bytes))
  /\ Len(t.bytes) < Len(bytes) => h.n = t.n

\* One turn of that loop, for a packet that is held or missing.
Reads(h, bytes, old, new, held) ==
  /\ ToRead(Mark(h), bytes, new)
  /\ Mark(h).mark = IF Len(old.bytes) < Len(bytes)
                    THEN IF held THEN "received" ELSE "again"
                    ELSE "kept"

\* One turn of the loop of handle_request_packet.
LEMMA OneMark ==
  ASSUME NEW bytes \in Seq(Nat), NEW old, NEW new, NEW held \in BOOLEAN,
         NEW h, ToRead(h, bytes, old),
         Len(old.bytes) \in Nat, Len(old.bytes) <= Len(bytes),
         Len(old.bytes) = Len(bytes) => Len(new.bytes) = Len(bytes),
         Len(old.bytes) < Len(bytes) => Follows(bytes, old, new, held)
  PROVE  Reads(h, bytes, old, new, held)
<1>1. CASE Len(old.bytes) = Len(bytes)
  <2>1. Rest(bytes, Len(bytes)) = <<>>
    BY RestEnds
  <2>2. Mark(h) = [mark |-> "kept", bytes |-> <<>>, n |-> h.n]
    BY <1>1, <2>1 DEF Mark, ToRead
  <2>3. Mark(h).mark = "kept" /\ Mark(h).bytes = <<>>
    BY <2>2
  <2>4. ToRead(Mark(h), bytes, new)
    BY <1>1, <2>1, <2>3 DEF ToRead
  <2> QED BY <1>1, <2>3, <2>4 DEF Reads
<1>2. CASE Len(old.bytes) < Len(bytes)
  <2>1. PICK l \in 0..Len(bytes) - 1 : l = Len(old.bytes)
    BY <1>2
  <2>2. h.bytes = Rest(bytes, l) /\ h.n = old.n
    BY <1>2, <2>1 DEF ToRead
  <2>3. /\ h.bytes # <<>> /\ Head(h.bytes) = bytes[l + 1]
        /\ Tail(h.bytes) = Rest(bytes, l + 1)
    <3>1. /\ Rest(bytes, l) # <<>>
          /\ Head(Rest(bytes, l)) = bytes[l + 1]
          /\ Tail(Rest(bytes, l)) = Rest(bytes, l + 1)
      BY RestFacts
    <3> QED BY <2>2, <3>1
  <2>4. /\ Mark(h).mark = (IF held THEN "received" ELSE "again")
        /\ Mark(h).bytes = Rest(bytes, Len(new.bytes)) /\ Mark(h).n = new.n
    <3>1. CASE ~ held
      <4>1. /\ bytes[l + 1] = old.n /\ Len(new.bytes) = l + 1 /\ new.n = 1
        BY <1>2, <2>1, <3>1 DEF Follows
      <4>2. PICK rest : rest = Tail(h.bytes)
        OBVIOUS
      <4>3. Mark(h) = [mark |-> "again", bytes |-> rest, n |-> 1]
        BY <2>2, <2>3, <4>1, <4>2 DEF Mark
      <4>4. /\ Mark(h).mark = "again" /\ Mark(h).bytes = rest
            /\ Mark(h).n = 1
        BY <4>3
      <4>5. rest = Rest(bytes, Len(new.bytes))
        BY <2>3, <4>1, <4>2
      <4> QED BY <3>1, <4>1, <4>4, <4>5
    <3>2. CASE held /\ old.n = Gap
      <4>1. /\ bytes[l + 1] = 0 /\ Len(new.bytes) = l + 1 /\ new.n = 1
        BY <1>2, <2>1, <3>2 DEF Follows
      <4>2. PICK rest : rest = Tail(h.bytes)
        OBVIOUS
      <4>3. Mark(h) = [mark |-> "received", bytes |-> rest, n |-> 1]
        BY <2>2, <2>3, <3>2, <4>1, <4>2, GapAssumption DEF Mark
      <4>4. /\ Mark(h).mark = "received" /\ Mark(h).bytes = rest
            /\ Mark(h).n = 1
        BY <4>3
      <4>5. rest = Rest(bytes, Len(new.bytes))
        BY <2>3, <4>1, <4>2
      <4> QED BY <3>2, <4>1, <4>4, <4>5
    <3>3. CASE held /\ old.n # Gap
      <4>1. /\ bytes[l + 1] # old.n
            /\ new.bytes = old.bytes /\ new.n = old.n + 1
        BY <1>2, <2>1, <3>3 DEF Follows
      <4>2. Mark(h) = [mark |-> "received", bytes |-> h.bytes, n |-> h.n + 1]
        BY <2>2, <2>3, <3>3, <4>1 DEF Mark
      <4> QED BY <2>1, <2>2, <3>3, <4>1, <4>2
    <3> QED BY <3>1, <3>2, <3>3
  <2>5. ToRead(Mark(h), bytes, new)
    BY <2>4 DEF ToRead
  <2> QED BY <1>2, <2>4, <2>5 DEF Reads
<1> QED BY <1>1, <1>2

\* What becomes of packet i of the sender.
MarkOf(ring, room, i) ==
  IF i <= Len(ring) /\ Len(Told(ring, room)[i - 1].bytes)
                         < Len(Encode(ring, room))
  THEN IF ring[i] THEN "received" ELSE "again"
  ELSE "kept"

\* What handle_request_packet does with what generate_request_packet wrote.
LEMMA Marks ==
  ASSUME NEW ring \in Seq(BOOLEAN), NEW room \in Nat, NEW count \in Nat
  PROVE  Decode(Encode(ring, room), count)
           = [i \in 1..count |-> MarkOf(ring, room, i)]
<1> DEFINE n == Len(ring)
           told == Told(ring, room)
           bytes == Encode(ring, room)
           heard == Heard(bytes, count)
           t(i) == IF i <= n THEN told[i] ELSE told[n]
           S == {i \in Nat : i <= count => ToRead(heard[i], bytes, t(i))}
<1>1. /\ heard[0] = [mark |-> "kept", bytes |-> bytes, n |-> 1]
      /\ \A i \in 1..count : heard[i] = Mark(heard[i - 1])
  BY HeardSteps
<1>2. told[0] = [bytes |-> <<>>, n |-> 1]
  BY ToldSteps
<1>3. /\ bytes \in Seq(Nat) /\ Len(bytes) \in Nat /\ n \in Nat
      /\ told[n].bytes = bytes
      /\ \A i \in 0..n : /\ Len(told[i].bytes) \in Nat
                         /\ Len(told[i].bytes) <= Len(bytes)
  BY Bytes
<1>4. ASSUME NEW i \in 1..n, Len(told[i - 1].bytes) = Len(bytes)
      PROVE  Len(told[i].bytes) = Len(bytes)
  <2>1. i - 1 \in 0..n /\ i \in i - 1..n /\ i \in 0..n
    OBVIOUS
  <2>2. Keeps(told[i - 1].bytes, told[i - 1].n, told[i].bytes, told[i].n)
    BY <2>1, Later
  <2> HIDE DEF told, bytes
  <2>3. Len(told[i - 1].bytes) <= Len(told[i].bytes)
    BY <2>2 DEF Keeps
  <2> QED BY <2>1, <2>3, <1>3, <1>4
<1>5. ASSUME NEW i \in 1..n, Len(told[i - 1].bytes) < Len(bytes)
      PROVE  Follows(bytes, told[i - 1], told[i], ring[i])
  BY <1>5, NextByte
<1> HIDE DEF told, bytes, heard, n
<1>6. ASSUME NEW i \in Nat \ {0}, i <= count, ToRead(heard[i - 1], bytes, t(i - 1))
      PROVE  /\ ToRead(heard[i], bytes, t(i))
             /\ heard[i].mark = IF i <= n /\ Len(told[i - 1].bytes) < Len(bytes)
                                THEN IF ring[i] THEN "received" ELSE "again"
                                ELSE "kept"
  <2>1. heard[i] = Mark(heard[i - 1])
    BY <1>1, <1>6
  <2>2. CASE i <= n
    <3>1. i \in 1..n /\ i - 1 \in 0..n /\ i - 1 <= n
      BY <2>2, <1>3
    <3>2. t(i) = told[i] /\ t(i - 1) = told[i - 1]
      BY <2>2, <3>1
    <3>3. ring[i] \in BOOLEAN
      BY <3>1 DEF n
    <3> HIDE DEF t
    <3>4. Len(told[i - 1].bytes) \in Nat /\ Len(told[i - 1].bytes) <= Len(bytes)
      BY <1>3, <3>1
    <3>5. ToRead(heard[i - 1], bytes, told[i - 1])
      BY <1>6, <3>2
    <3>6. PICK old, new, h, held :
            /\ old = told[i - 1] /\ new = told[i]
            /\ h = heard[i - 1] /\ held = ring[i]
      OBVIOUS
    <3>7. Len(old.bytes) = Len(bytes) => Len(new.bytes) = Len(bytes)
      BY <1>4, <3>1, <3>6
    <3>8. Len(old.bytes) < Len(bytes) => Follows(bytes, old, new, held)
      BY <1>5, <3>1, <3>6
    <3>9. /\ bytes \in Seq(Nat) /\ ToRead(h, bytes, old)
          /\ Len(old.bytes) \in Nat /\ Len(old.bytes) <= Len(bytes)
          /\ held \in BOOLEAN
      BY <1>3, <3>3, <3>4, <3>5, <3>6
    <3>10. Reads(h, bytes, old, new, held)
      BY <3>7, <3>8, <3>9, OneMark
    <3> QED BY <2>1, <2>2, <3>2, <3>6, <3>10 DEF Reads
  <2>3. CASE i > n
    <3>1. t(i) = told[n] /\ t(i - 1) = told[n]
      BY <2>3, <1>3
    <3> HIDE DEF t
    <3>2. /\ ToRead(heard[i - 1], bytes, told[n]) /\ TRUE \in BOOLEAN
          /\ Len(told[n].bytes) = Len(bytes)
      BY <1>6, <1>3, <3>1
    <3>3. /\ ToRead(heard[i], bytes, told[n])
          /\ heard[i].mark = "kept"
      <4>1. PICK old, h : old = told[n] /\ h = heard[i - 1]
        OBVIOUS
      <4>2. /\ bytes \in Seq(Nat) /\ ToRead(h, bytes, old)
            /\ Len(old.bytes) \in Nat /\ Len(old.bytes) = Len(bytes)
        BY <1>3, <3>2, <4>1
      <4>3. Len(old.bytes) <= Len(bytes) /\ ~ (Len(old.bytes) < Len(bytes))
        BY <4>2
      <4>4. Reads(h, bytes, old, old, TRUE)
        BY <4>2, <4>3, OneMark
      <4> QED BY <2>1, <4>1, <4>3, <4>4 DEF Reads
    <3> QED BY <1>3, <2>3, <3>1, <3>3
  <2> QED BY <2>2, <2>3, <1>3
<1>7. 0 \in S
  <2>1. t(0) = told[0]
    BY <1>3
  <2>2. bytes = Rest(bytes, 0)
    BY <1>3, RestEnds
  <2>3. Len(<<>>) = 0
    OBVIOUS
  <2>4. ToRead(heard[0], bytes, told[0])
    BY <1>1, <1>2, <2>2, <2>3 DEF ToRead
  <2> QED BY <2>1, <2>4
<1>8. ASSUME NEW i \in Nat, i \in S PROVE i + 1 \in S
  <2>1. i + 1 \in Nat \ {0} /\ (i + 1) - 1 = i
    OBVIOUS
  <2> HIDE DEF t
  <2> QED BY <1>6, <1>8, <2>1
<1>9. \A i \in Nat : i \in S
  <2> HIDE DEF S
  <2> QED BY <1>7, <1>8, Induction
<1>10. ASSUME NEW i \in 1..count PROVE heard[i].mark = MarkOf(ring, room, i)
  <2>1. i - 1 \in Nat /\ i - 1 <= count /\ i \in Nat \ {0} /\ i <= count
    OBVIOUS
  <2>2. ToRead(heard[i - 1], bytes, t(i - 1))
    BY <1>9, <2>1
  <2> HIDE DEF t
  <2> QED BY <2>1, <2>2, <1>6 DEF MarkOf, n, told, bytes
<1>11. Decode(bytes, count) = [i \in 1..count |-> heard[i].mark]
  BY DEF Decode, heard
<1> QED BY <1>10, <1>11 DEF bytes

\* Whatever is held and missing, and however many bytes there is room for: the
\* other peer, which has sent no less, reads of the request packet what it says
\* (generate_request_packet and handle_request_packet).
THEOREM RequestsReadBack ==
  ASSUME NEW ring \in Seq(BOOLEAN), NEW room \in Nat,
         NEW count \in Nat, Len(ring) <= count
  PROVE  ReadBack(Len(ring), {i \in 1..Len(ring) : ~ ring[i]},
                  Encode(ring, room), room, count)
<1> DEFINE told == Told(ring, room)
           bytes == Encode(ring, room)
           n == Len(ring)
           Mk(i) == MarkOf(ring, room, i)
           marks == Decode(bytes, count)
           holes == {i \in 1..n : ~ ring[i]}
           again == {i \in DOMAIN marks : marks[i] = "again"}
           forgotten == {i \in DOMAIN marks : marks[i] = "received"}
<1>1. marks = [i \in 1..count |-> Mk(i)]
  BY Marks
<1>2. /\ Len(bytes) \in Nat /\ Len(bytes) <= room /\ n \in Nat
      /\ \A i \in 0..n : /\ Len(told[i].bytes) \in Nat
                         /\ Len(told[i].bytes) <= Len(bytes)
  <2>1. /\ bytes \in Seq(Nat) /\ Len(bytes) \in Nat /\ Len(bytes) <= room
        /\ \A i \in 0..n : /\ Len(told[i].bytes) \in Nat
                           /\ Len(told[i].bytes) <= Len(bytes)
        /\ told[n].bytes = bytes
    BY Bytes
  <2>2. n \in Nat
    OBVIOUS
  <2> HIDE DEF told, bytes, n
  <2> QED BY <2>1, <2>2
<1>3. ASSUME NEW i \in 1..n, ~ ring[i], ~ (Len(told[i - 1].bytes) < Len(bytes))
      PROVE  Len(bytes) = room
  <2>1. Turned(told[i - 1], told[i], ring[i], room)
    BY OneTell
  <2>2. i \in 0..n /\ i - 1 \in 0..n
    OBVIOUS
  <2>3. told[i - 1].bytes \in Seq(Nat)
    BY <2>2, ToldTyped
  <2> HIDE DEF told, bytes
  <2>4. Len(told[i - 1].bytes) = Len(bytes) /\ Len(told[i].bytes) <= Len(bytes)
    BY <1>2, <1>3, <2>2
  <2>5. CASE Len(told[i - 1].bytes) = room
    BY <2>4, <2>5
  <2>6. CASE told[i].bytes = Append(told[i - 1].bytes, told[i - 1].n)
    <3>1. Len(told[i].bytes) = Len(told[i - 1].bytes) + 1
      BY <2>3, <2>6
    <3> QED BY <3>1, <2>4, <1>2
  <2> QED BY <2>1, <2>5, <2>6, <1>3 DEF Turned
<1>4. ASSUME NEW i \in 1..n, NEW j \in 1..n, j < i,
             Len(told[i - 1].bytes) < Len(bytes)
      PROVE  Len(told[j - 1].bytes) < Len(bytes)
  <2>1. /\ i - 1 \in 0..n /\ j - 1 \in 0..n /\ i - 1 \in j - 1..n
    BY <1>4
  <2>2. Keeps(told[j - 1].bytes, told[j - 1].n, told[i - 1].bytes, told[i - 1].n)
    BY <2>1, Later
  <2> HIDE DEF told, bytes
  <2>3. Len(told[j - 1].bytes) <= Len(told[i - 1].bytes)
    BY <2>2 DEF Keeps
  <2> QED BY <1>2, <1>4, <2>1, <2>3
<1>5. \A i : i \in again <=> i \in 1..count /\ Mk(i) = "again"
  BY <1>1
<1>6. \A i : i \in forgotten <=> i \in 1..count /\ Mk(i) = "received"
  BY <1>1
<1> HIDE DEF marks, again, forgotten
<1>7. ASSUME NEW i \in again
      PROVE  i \in holes /\ Len(told[i - 1].bytes) < Len(bytes)
  BY <1>5 DEF MarkOf
<1>8. ASSUME NEW i \in holes, Len(told[i - 1].bytes) < Len(bytes)
      PROVE  i \in again
  BY <1>5, <1>8 DEF MarkOf
<1>9. forgotten \subseteq 1..n \ holes
  BY <1>6 DEF MarkOf
<1> HIDE DEF told, bytes, n, holes
<1>10. again \subseteq holes
  BY <1>7
<1>11. again = holes \/ Len(bytes) = room
  <2>1. ASSUME NEW i \in holes, i \notin again PROVE Len(bytes) = room
    <3>1. i \in 1..n /\ ~ ring[i]
      BY DEF holes
    <3> QED BY <1>3, <1>8, <2>1, <3>1
  <2> QED BY <1>10, <2>1
<1>12. \A i \in again, j \in holes : j < i => j \in again
  <2> SUFFICES ASSUME NEW i \in again, NEW j \in holes, j < i PROVE j \in again
    OBVIOUS
  <2>1. i \in 1..n /\ j \in 1..n
    BY <1>10 DEF holes
  <2>2. Len(told[j - 1].bytes) < Len(bytes)
    BY <1>4, <1>7, <2>1
  <2> QED BY <1>8, <2>2
<1> QED BY <1>9, <1>10, <1>11, <1>12
        DEF ReadBack, n, holes, bytes, again, forgotten, marks

-----------------------------------------------------------------------------
(* Numbers that wrap around.                                                *)

\* A number is a multiple of N and its remainder.
LEMMA Remainder ==
  ASSUME NEW N \in Nat \ {0}, NEW x \in Int
  PROVE  x % N \in 0..N - 1 /\ \E k \in Int : x = (N * k) + (x % N)
<1>1. x % N \in 0..N - 1
  OBVIOUS
<1>2. x \div N \in Int /\ x = (N * (x \div N)) + (x % N)
  OBVIOUS
<1> QED BY <1>1, <1>2

\* What is added to a multiple of N is the remainder, if it is small enough.
LEMMA RemainderOf ==
  ASSUME NEW N \in Nat \ {0}, NEW k \in Int, NEW r \in 0..N - 1
  PROVE  ((N * k) + r) % N = r
OBVIOUS

\* A multiple of N more or less does not matter.
LEMMA Shift ==
  ASSUME NEW N \in Nat \ {0}, NEW x \in Int, NEW k \in Int
  PROVE  (x + (N * k)) % N = x % N
<1>1. PICK i \in Int : x = (N * i) + (x % N)
  BY Remainder
<1>2. PICK r \in 0..N - 1 : r = x % N
  BY Remainder
<1>3. x + (N * k) = (N * (i + k)) + r
  BY <1>1, <1>2
<1>4. i + k \in Int
  OBVIOUS
<1> QED BY <1>2, <1>3, <1>4, RemainderOf

\* Numbers with the same remainder that are not far from each other are equal.
LEMMA SameRemainder ==
  ASSUME NEW N \in Nat \ {0}, NEW x \in Int, NEW y \in Int,
         x % N = y % N, x - y < N, y - x < N
  PROVE  x = y
<1>1. PICK i \in Int : x = (N * i) + (x % N)
  BY Remainder
<1>2. PICK j \in Int : y = (N * j) + (y % N)
  BY Remainder
<1>3. x - y = N * (i - j)
  BY <1>1, <1>2, Remainder
<1>4. PICK d \in Int : d = i - j
  OBVIOUS
<1>5. N * d < N /\ N * d > 0 - N
  BY <1>3, <1>4
<1>6. d < 1
  <2> SUFFICES ASSUME d >= 1 PROVE FALSE
    OBVIOUS
  <2>1. N * d >= N
    OBVIOUS
  <2> QED BY <2>1, <1>5
<1>7. d > 0 - 1
  <2> SUFFICES ASSUME 0 - d >= 1 PROVE FALSE
    OBVIOUS
  <2>1. N * (0 - d) >= N
    OBVIOUS
  <2>2. N * (0 - d) = 0 - (N * d)
    OBVIOUS
  <2> QED BY <2>1, <2>2, <1>5
<1>8. d = 0
  BY <1>6, <1>7
<1> QED BY <1>3, <1>4, <1>8

\* The same for numbers that differ by a multiple of N.
LEMMA Congruent ==
  ASSUME NEW N \in Nat \ {0}, NEW x \in Int, NEW y \in Int, NEW k \in Int,
         x = y + (N * k)
  PROVE  x % N = y % N
<1>1. (y + (N * k)) % N = y % N
  BY Shift
<1> QED BY <1>1

\* The remainder can be taken before adding.
LEMMA RemainderPlus ==
  ASSUME NEW N \in Nat \ {0}, NEW x \in Int, NEW y \in Int
  PROVE  ((x % N) + y) % N = (x + y) % N
<1>1. PICK i \in Int : x = (N * i) + (x % N)
  BY Remainder
<1>2. PICK r \in Int : r = x % N
  BY Remainder
<1>3. PICK u \in Int : u = x + y
  OBVIOUS
<1>4. PICK v \in Int : v = r + y
  OBVIOUS
<1>5. u = v + (N * i)
  BY <1>1, <1>2, <1>3, <1>4
<1>6. u % N = v % N
  BY <1>5, Congruent
<1> QED BY <1>2, <1>3, <1>4, <1>6

\* The remainders can be taken before subtracting.
LEMMA RemainderMinus ==
  ASSUME NEW N \in Nat \ {0}, NEW x \in Int, NEW y \in Int
  PROVE  ((x % N) - (y % N)) % N = (x - y) % N
<1>1. PICK i \in Int : x = (N * i) + (x % N)
  BY Remainder
<1>2. PICK r \in Int : r = x % N
  BY Remainder
<1>3. PICK j \in Int : y = (N * j) + (y % N)
  BY Remainder
<1>4. PICK s \in Int : s = y % N
  BY Remainder
<1>5. x = (N * i) + r /\ y = (N * j) + s
  BY <1>1, <1>2, <1>3, <1>4
<1>6. PICK d \in Int : d = i - j
  OBVIOUS
<1>7. N * d = (N * i) - (N * j)
  BY <1>6
<1>8. PICK u \in Int : u = x - y
  OBVIOUS
<1>9. PICK v \in Int : v = r - s
  OBVIOUS
<1>10. u = v + (N * d)
  BY <1>5, <1>7, <1>8, <1>9
<1>11. u % N = v % N
  BY <1>10, Congruent
<1> QED BY <1>2, <1>4, <1>8, <1>9, <1>11

\* The remainder of a remainder, if the one number divides the other.
LEMMA RemainderTwice ==
  ASSUME NEW N \in Nat \ {0}, NEW S \in Nat \ {0}, N % S = 0, NEW x \in Int
  PROVE  (x % N) % S = x % S
<1>1. PICK i \in Int : x = (N * i) + (x % N)
  BY Remainder
<1>2. PICK r \in Int : r = x % N
  BY Remainder
<1>3. PICK k \in Int : N = (S * k) + (N % S)
  <2>1. N \in Int
    OBVIOUS
  <2> QED BY <2>1, Remainder
<1>4. N = S * k
  BY <1>3
<1>5. PICK d \in Int : d = k * i
  OBVIOUS
<1>6. N * i = S * d
  BY <1>4, <1>5
<1>7. x = r + (S * d)
  BY <1>1, <1>2, <1>6
<1>8. x % S = r % S
  BY <1>7, Congruent
<1> QED BY <1>2, <1>8

\* What is assumed of the constants.
LEMMA Constants ==
  /\ Size \in Nat \ {0} /\ Threshold \in Nat \ {0} /\ MaxListed \in Nat \ {0}
  /\ Numbers \in Nat \ {0} /\ Nonces \in Nat \ {0} /\ First \in Int
  /\ Numbers % Size = 0 /\ Numbers >= 2 * Size + Window
  /\ Window = 3 * Threshold + 1 /\ Window \in Nat \ {0}
  /\ Nonces % Window = 0
BY ConstantsAssumption DEF Window

\* Packet numbers: Wrap is a remainder, so it can be left out under Wrap.
LEMMA WrapFacts ==
  ASSUME NEW x \in Int, NEW y \in Int
  PROVE  /\ Wrap(x) \in 0..Numbers - 1
         /\ Wrap(Wrap(x) + y) = Wrap(x + y)
         /\ Wrap(Wrap(x) - Wrap(y)) = Wrap(x - y)
         /\ x \in 0..Numbers - 1 => Wrap(x) = x
         /\ x \in (0 - Numbers)..(0 - 1) => Wrap(x) = x + Numbers
<1>1. Numbers \in Nat \ {0}
  BY Constants
<1>2. Wrap(x) \in 0..Numbers - 1
  BY <1>1, Remainder DEF Wrap
<1>3. Wrap(Wrap(x) + y) = Wrap(x + y)
  BY <1>1, RemainderPlus DEF Wrap
<1>4. Wrap(Wrap(x) - Wrap(y)) = Wrap(x - y)
  BY <1>1, RemainderMinus DEF Wrap
<1>5. x \in 0..Numbers - 1 => Wrap(x) = x
  BY <1>1 DEF Wrap
<1>6. ASSUME x \in (0 - Numbers)..(0 - 1) PROVE Wrap(x) = x + Numbers
  <2>1. x + Numbers \in 0..Numbers - 1 /\ x = (Numbers * (0 - 1)) + (x + Numbers)
    BY <1>1, <1>6
  <2>2. PICK r \in 0..Numbers - 1, k \in Int : r = x + Numbers /\ k = 0 - 1
    BY <2>1
  <2>3. ((Numbers * k) + r) % Numbers = r
    BY <1>1, RemainderOf
  <2> QED BY <2>1, <2>2, <2>3 DEF Wrap
<1> QED BY <1>2, <1>3, <1>4, <1>5, <1>6

\* The number of message n, which is its place in the rings before it wraps
\* around.
Num(n) == First + n - 1

\* The slot of message n.
Slot(n) == Num(n) % Size

\* A number that wrapped around has the same slot.
LEMMA WrapSlot ==
  ASSUME NEW x \in Int
  PROVE  Wrap(x) % Size = x % Size
<1>1. Numbers \in Nat \ {0} /\ Size \in Nat \ {0} /\ Numbers % Size = 0
  BY Constants
<1>2. (x % Numbers) % Size = x % Size
  BY <1>1, RemainderTwice
<1> QED BY <1>2 DEF Wrap

\* Messages that are not far from each other have different slots.
LEMMA Slots ==
  ASSUME NEW m \in Int, NEW n \in Int
  PROVE  /\ Slot(n) \in 0..Size - 1
         /\ Slot(m) = Slot(n) /\ m - n < Size /\ n - m < Size => m = n
<1> USE Constants
<1>1. Num(m) \in Int /\ Num(n) \in Int
  BY DEF Num
<1>2. Slot(n) \in 0..Size - 1
  BY <1>1, Remainder DEF Slot
<1>3. ASSUME Slot(m) = Slot(n), m - n < Size, n - m < Size PROVE m = n
  <2>1. Num(m) - Num(n) < Size /\ Num(n) - Num(m) < Size
    BY <1>3 DEF Num
  <2>2. Num(m) = Num(n)
    BY <1>1, <1>3, <2>1, SameRemainder DEF Slot
  <2> QED BY <2>2 DEF Num
<1> QED BY <1>2, <1>3

-----------------------------------------------------------------------------
(* One ring.                                                                *)

\* The sizes, without the remainders.
LEMMA Sizes ==
  /\ Size \in Nat \ {0} /\ Threshold \in Nat \ {0} /\ MaxListed \in Nat \ {0}
  /\ Numbers \in Nat \ {0} /\ First \in Int
  /\ Numbers >= 2 * Size + 3 * Threshold + 1
BY Constants

\* A packet number is an integer.
LEMMA WrapType ==
  ASSUME NEW x \in Int
  PROVE  Wrap(x) \in Int /\ 0 <= Wrap(x) /\ Wrap(x) < Numbers
<1>1. Wrap(x) \in 0..Numbers - 1
  BY WrapFacts
<1> QED BY <1>1, Sizes

\* The slots are used in turn.
LEMMA SlotTurn ==
  ASSUME NEW n \in Int
  PROVE  Slot(n + Size) = Slot(n)
<1>1. PICK x \in Int : x = Num(n)
  BY Sizes DEF Num
<1>2. PICK y \in Int : y = Num(n + Size)
  BY Sizes DEF Num
<1>3. PICK k \in Int : k = 1 /\ y = x + (Size * k)
  BY <1>1, <1>2, Sizes DEF Num
<1>4. y % Size = x % Size
  BY <1>3, Sizes, Congruent
<1> QED BY <1>1, <1>2, <1>4 DEF Slot

\* How far one packet number is from another.
LEMMA Distance ==
  ASSUME NEW x \in Int, NEW y \in Int
  PROVE  LET d == Wrap(Wrap(First + x) - Wrap(First + y))
         IN /\ x - y \in 0..Numbers - 1 => d = x - y
            /\ x - y \in (0 - Numbers)..(0 - 1) => d = (x - y) + Numbers
<1>1. PICK u \in Int : u = First + x
  BY Sizes
<1>2. PICK v \in Int : v = First + y
  BY Sizes
<1>3. PICK z \in Int : z = x - y
  OBVIOUS
<1>4. u - v = z
  BY <1>1, <1>2, <1>3, Sizes
<1>5. Wrap(Wrap(u) - Wrap(v)) = Wrap(z)
  BY <1>4, WrapFacts
<1>6. /\ z \in 0..Numbers - 1 => Wrap(z) = z
      /\ z \in (0 - Numbers)..(0 - 1) => Wrap(z) = z + Numbers
  BY WrapFacts
<1> QED BY <1>1, <1>2, <1>3, <1>5, <1>6

\* A ring for the messages b + 1 to e.
Ring(a, b, e) ==
  /\ a \in [start : Int, end : Int, slot : [0..Size - 1 -> Nat \cup Sent \cup {Empty}]]
  /\ b \in Nat /\ e \in Nat /\ b <= e /\ e <= b + Size
  /\ a.start = Wrap(First + b) /\ a.end = Wrap(First + e)

\* What a ring holds for message n.
Cell(a, n) == a.slot[Slot(n)]

\* How many packets a ring spans.
LEMMA RingCount ==
  ASSUME NEW a, NEW b, NEW e, Ring(a, b, e)
  PROVE  Count(a) = e - b
<1>1. e - b \in 0..Numbers - 1
  BY Sizes DEF Ring
<1>2. b \in Int /\ e \in Int
  BY DEF Ring
<1>3. Wrap(Wrap(First + e) - Wrap(First + b)) = e - b
  BY <1>1, <1>2, Distance
<1> QED BY <1>3 DEF Ring, Count

\* A remainder can be taken before adding to it.
LEMMA WrapPlace ==
  ASSUME NEW x \in Int, NEW i \in Int
  PROVE  (Wrap(x) + i) % Size = (x + i) % Size
<1>1. PICK w \in Int : w = Wrap(x)
  BY WrapFacts
<1>2. w % Size = x % Size
  BY <1>1, WrapSlot
<1>3. PICK r \in Int : r = x % Size
  BY Sizes, Remainder
<1>4. (r + i) % Size = (w + i) % Size
  <2>1. ((w % Size) + i) % Size = (w + i) % Size
    BY Sizes, RemainderPlus
  <2> QED BY <2>1, <1>2, <1>3
<1>5. (r + i) % Size = (x + i) % Size
  BY <1>3, Sizes, RemainderPlus
<1> QED BY <1>1, <1>4, <1>5

\* The slot i places after the start.
LEMMA RingPlace ==
  ASSUME NEW a, NEW b, NEW e, Ring(a, b, e), NEW i \in Int
  PROVE  At(a, i) = Slot(b + 1 + i)
<1>1. PICK x \in Int : x = First + b
  BY Sizes DEF Ring
<1>2. (Wrap(x) + i) % Size = (x + i) % Size
  BY WrapPlace
<1>3. Num(b + 1 + i) = x + i
  BY <1>1, Sizes DEF Num, Ring
<1>4. a.start = Wrap(x)
  BY <1>1 DEF Ring
<1> QED BY <1>2, <1>3, <1>4 DEF At, Slot

\* Every slot is the one of a message.
LEMMA RingSlots ==
  ASSUME NEW a, NEW b, NEW e, Ring(a, b, e), NEW j \in 0..Size - 1
  PROVE  LET i == (j - a.start) % Size
         IN i \in 0..Size - 1 /\ At(a, i) = j /\ Slot(b + 1 + i) = j
<1>1. PICK w \in Int : w = a.start
  BY DEF Ring
<1>2. PICK x \in Int : x = j - w
  OBVIOUS
<1>3. PICK i \in 0..Size - 1 : i = x % Size
  BY Sizes, Remainder
<1>4. (i + w) % Size = (x + w) % Size
  BY <1>3, Sizes, RemainderPlus
<1>5. x + w = j /\ i + w = w + i
  BY <1>2
<1>6. j % Size = j
  BY Sizes
<1>7. (w + i) % Size = j
  BY <1>4, <1>5, <1>6
<1>8. At(a, i) = j
  BY <1>1, <1>7 DEF At
<1>9. Slot(b + 1 + i) = j
  BY <1>8, RingPlace
<1> QED BY <1>1, <1>2, <1>3, <1>8, <1>9

\* The place of a message in a ring.
LEMMA PlaceOf ==
  ASSUME NEW a, NEW b, NEW e, Ring(a, b, e), NEW n \in b + 1..b + Size
  PROVE  (Slot(n) - a.start) % Size = n - (b + 1)
<1>0. b \in Nat /\ n \in Int
  BY DEF Ring
<1>1. PICK j \in 0..Size - 1 : j = Slot(n)
  BY <1>0, Slots
<1>2. PICK i \in 0..Size - 1 : i = (j - a.start) % Size /\ Slot(b + 1 + i) = j
  BY RingSlots
<1>3. PICK m \in Int : m = b + 1 + i
  BY <1>0
<1>4. m - n < Size /\ n - m < Size
  BY <1>0, <1>3, Sizes
<1>5. m = n
  BY <1>0, <1>1, <1>2, <1>3, <1>4, Slots
<1> QED BY <1>0, <1>1, <1>2, <1>3, <1>5

\* The first k packets are taken out of a ring.
LEMMA Dropped ==
  ASSUME NEW a, NEW b, NEW e, Ring(a, b, e), NEW k \in 0..e - b
  PROVE  LET d == DropFirst(a, k)
         IN /\ Ring(d, b + k, e)
            /\ \A n \in b + k + 1..b + Size : Cell(d, n) = Cell(a, n)
            /\ \A n \in b + Size + 1..b + k + Size : Cell(d, n) = Empty
<1> DEFINE d == DropFirst(a, k)
<1>0. b \in Nat /\ e \in Nat /\ k \in Nat /\ k <= Size /\ b + k <= e
  BY Sizes DEF Ring
<1>1. d.start = Wrap(First + (b + k)) /\ d.end = a.end
  <2>1. PICK x \in Int : x = First + b
    BY <1>0, Sizes
  <2>2. Wrap(Wrap(x) + k) = Wrap(x + k)
    BY <1>0, WrapFacts
  <2>3. x + k = First + (b + k)
    BY <2>1, <1>0, Sizes
  <2>4. d.start = Wrap(a.start + k) /\ d.end = a.end
    BY DEF Ring, DropFirst
  <2> QED BY <2>1, <2>2, <2>3, <2>4 DEF Ring
<1>2. d \in [start : Int, end : Int,
             slot : [0..Size - 1 -> Nat \cup Sent \cup {Empty}]]
  <2>1. Wrap(a.start + k) \in Int
    <3>1. a.start + k \in Int
      BY <1>0 DEF Ring
    <3> QED BY <3>1, WrapType
  <2> QED BY <2>1 DEF Ring, DropFirst
<1>3. ASSUME NEW n \in b + 1..b + k + Size
      PROVE  /\ n \in b + k + 1..b + Size => Cell(d, n) = Cell(a, n)
             /\ n \in b + Size + 1..b + k + Size => Cell(d, n) = Empty
  <2>0. n \in Int
    BY <1>0
  <2>1. PICK j \in 0..Size - 1 : j = Slot(n)
    BY <2>0, Slots
  <2>2. d.slot[j] = IF \E i \in 0..k - 1 : At(a, i) = j THEN Empty ELSE a.slot[j]
    BY DEF Ring, DropFirst
  <2>3. ASSUME n \in b + k + 1..b + Size, NEW i \in 0..k - 1, At(a, i) = j
        PROVE  FALSE
    <3>1. PICK m \in Int : m = b + 1 + i
      BY <1>0
    <3>2. Slot(m) = j
      BY <2>3, <3>1, RingPlace
    <3>3. m - n < Size /\ n - m < Size /\ m # n
      BY <2>3, <3>1, <1>0, Sizes
    <3> QED BY <3>2, <3>3, <2>0, <2>1, Slots
  <2>4. ASSUME n \in b + Size + 1..b + k + Size
        PROVE  \E i \in 0..k - 1 : At(a, i) = j
    <3>1. PICK i \in 0..k - 1 : i = n - (b + Size + 1)
      BY <2>4, <1>0, Sizes
    <3>2. PICK m \in Int : m = b + 1 + i
      BY <1>0
    <3>3. n = m + Size
      BY <3>1, <3>2, <1>0, Sizes
    <3>4. Slot(m) = j
      BY <3>3, <2>1, SlotTurn
    <3>5. At(a, i) = j
      BY <3>2, <3>4, <1>0, RingPlace
    <3> QED BY <3>5
  <2> QED BY <2>1, <2>2, <2>3, <2>4 DEF Cell
<1>4. Ring(d, b + k, e)
  BY <1>0, <1>1, <1>2, Sizes DEF Ring
<1> QED BY <1>0, <1>3, <1>4, Sizes

-----------------------------------------------------------------------------
(* The two rings of a direction.                                            *)

\* Empty is no message.
LEMMA EmptyApart == Empty \notin Nat /\ Empty \notin Sent
BY ConstantsAssumption

\* A send ring for the messages b + 1 to e.
SendRing(a, b, e) ==
  /\ Ring(a, b, e)
  /\ a.slot \in [0..Size - 1 -> Sent \cup {Empty}]
  /\ \A n \in b + 1..b + Size :
       Cell(a, n) # Empty => n <= e /\ Cell(a, n).msg = n

\* A receiving ring for the messages b + 1 to e.
RecvRing(a, b, e) ==
  /\ Ring(a, b, e)
  /\ a.slot \in [0..Size - 1 -> Nat \cup {Empty}]
  /\ \A n \in b + 1..b + Size : Cell(a, n) # Empty => n <= e /\ Cell(a, n) = n

\* The two rings of a direction: what is not given and not in the send ring
\* any more is in the receiving ring, and that one is read as far as it goes.
Rings(s, r, base, given, top, all) ==
  /\ SendRing(s, base, all) /\ RecvRing(r, given, top)
  /\ base <= given /\ top <= all
  /\ Cell(r, given + 1) = Empty
  /\ \A n \in given + 1..all : Cell(s, n) = Empty => Cell(r, n) # Empty

\* The numbers of the rings.
LEMMA RingsTyped ==
  ASSUME NEW s, NEW r, NEW base, NEW given, NEW top, NEW all,
         Rings(s, r, base, given, top, all)
  PROVE  /\ base \in Nat /\ given \in Nat /\ top \in Nat /\ all \in Nat
         /\ base <= given /\ given <= top /\ top <= all /\ all <= base + Size
BY Sizes DEF Rings, SendRing, RecvRing, Ring

\* Where the rings start and end.
LEMMA RingsFacts ==
  ASSUME NEW s, NEW r, NEW base, NEW given, NEW top, NEW all,
         Rings(s, r, base, given, top, all)
  PROVE  /\ Ring(s, base, all) /\ Ring(r, given, top)
         /\ s.start = Wrap(First + base) /\ s.end = Wrap(First + all)
         /\ r.start = Wrap(First + given) /\ r.end = Wrap(First + top)
         /\ Count(s) = all - base /\ Count(r) = top - given
<1>1. Ring(s, base, all) /\ Ring(r, given, top)
  BY DEF Rings, SendRing, RecvRing
<1>2. Count(s) = all - base /\ Count(r) = top - given
  BY <1>1, RingCount
<1> QED BY <1>1, <1>2 DEF Ring

\* A message is accepted.
LEMMA RingsAccept ==
  ASSUME NEW s, NEW r, NEW base, NEW given, NEW top, NEW all,
         Rings(s, r, base, given, top, all), all < base + Size,
         NEW wait \in BOOLEAN
  PROVE  Rings([s EXCEPT !.slot[s.end % Size] = [msg |-> all + 1, wait |-> wait],
                         !.end = Wrap(s.end + 1)],
               r, base, given, top, all + 1)
<1> DEFINE j == s.end % Size
           m == [msg |-> all + 1, wait |-> wait]
           w == Wrap(s.end + 1)
           t == [s EXCEPT !.slot[j] = m, !.end = w]
<1>0. /\ base \in Nat /\ given \in Nat /\ top \in Nat /\ all \in Nat
      /\ base <= given /\ given <= top /\ top <= all /\ all <= base + Size
  BY RingsTyped
<1>1. j = Slot(all + 1) /\ j \in 0..Size - 1
  <2>1. PICK x \in Int : x = First + all
    BY <1>0, Sizes
  <2>2. Wrap(x) % Size = x % Size
    BY WrapSlot
  <2>3. Num(all + 1) = x /\ s.end = Wrap(x)
    BY <1>0, <2>1, Sizes DEF Num, Rings, SendRing, Ring
  <2> QED BY <1>0, <2>2, <2>3, Slots DEF Slot
<1>2. w = Wrap(First + (all + 1)) /\ w \in Int
  <2>1. PICK x \in Int : x = First + all
    BY <1>0, Sizes
  <2>2. Wrap(Wrap(x) + 1) = Wrap(x + 1)
    BY WrapFacts
  <2>3. x + 1 = First + (all + 1) /\ s.end = Wrap(x)
    BY <1>0, <2>1, Sizes DEF Rings, SendRing, Ring
  <2> QED BY <2>2, <2>3, WrapType
<1>3. m \in Sent /\ m.msg = all + 1 /\ m # Empty
  BY <1>0, EmptyApart DEF Sent
<1> HIDE DEF j, w, m
<1>4. /\ s \in [start : Int, end : Int,
                slot : [0..Size - 1 -> Nat \cup Sent \cup {Empty}]]
      /\ s.slot \in [0..Size - 1 -> Sent \cup {Empty}]
      /\ s.start = Wrap(First + base)
  BY DEF Rings, SendRing, Ring
<1>5. /\ t.start = s.start /\ t.end = w
      /\ t.slot = [s.slot EXCEPT ![j] = m]
      /\ t \in [start : Int, end : Int,
                slot : [0..Size - 1 -> Nat \cup Sent \cup {Empty}]]
  BY <1>1, <1>2, <1>3, <1>4
<1>6. t.slot \in [0..Size - 1 -> Sent \cup {Empty}]
  BY <1>1, <1>3, <1>4, <1>5
<1> HIDE DEF t
<1>7. Ring(t, base, all + 1)
  BY <1>0, <1>2, <1>4, <1>5, Sizes DEF Ring
<1>8. ASSUME NEW n \in base + 1..base + Size
      PROVE  Cell(t, n) = IF n = all + 1 THEN m ELSE Cell(s, n)
  <2>0. n \in Int
    BY <1>0, Sizes
  <2>1. PICK i \in 0..Size - 1 : i = Slot(n)
    BY <2>0, Slots
  <2>2. t.slot[i] = IF i = j THEN m ELSE s.slot[i]
    BY <1>4, <1>5
  <2>3. PICK l \in Int : l = all + 1
    BY <1>0
  <2>4. i = j => n = l
    <3>1. n - l < Size /\ l - n < Size
      BY <2>3, <1>0, Sizes
    <3> QED BY <3>1, <2>0, <2>1, <2>3, <1>1, Slots
  <2> QED BY <2>1, <2>2, <2>3, <2>4, <1>1 DEF Cell
<1>9. SendRing(t, base, all + 1)
  <2>1. ASSUME NEW n \in base + 1..base + Size, Cell(t, n) # Empty
        PROVE  n <= all + 1 /\ Cell(t, n).msg = n
    <3>1. CASE n = all + 1
      BY <3>1, <1>0, <1>3, <1>8
    <3>2. CASE n # all + 1
      <4>1. Cell(t, n) = Cell(s, n)
        BY <3>2, <1>8
      <4>2. n <= all /\ Cell(s, n).msg = n
        BY <4>1, <2>1 DEF Rings, SendRing
      <4> QED BY <4>1, <4>2, <1>0
    <3> QED BY <3>1, <3>2
  <2> QED BY <1>6, <1>7, <2>1 DEF SendRing
<1>10. ASSUME NEW n \in given + 1..all + 1, Cell(t, n) = Empty
       PROVE  Cell(r, n) # Empty
  <2>1. n \in base + 1..base + Size
    BY <1>0, <1>10, Sizes
  <2>2. n # all + 1 /\ Cell(s, n) = Empty
    BY <2>1, <1>3, <1>8, <1>10
  <2>3. n \in given + 1..all
    BY <2>2, <1>0
  <2> QED BY <2>2, <2>3 DEF Rings
<1>11. Rings(t, r, base, given, top, all + 1)
  BY <1>0, <1>9, <1>10 DEF Rings
<1> QED BY <1>11 DEF t, j, m, w

\* The messages of the send ring stay, whether or not they wait.
LEMMA RingsWait ==
  ASSUME NEW s, NEW r, NEW base, NEW given, NEW top, NEW all,
         Rings(s, r, base, given, top, all),
         NEW t, t \in [start : Int, end : Int,
                       slot : [0..Size - 1 -> Sent \cup {Empty}]],
         t.start = s.start, t.end = s.end,
         \A j \in 0..Size - 1 : \/ t.slot[j] = s.slot[j]
                                \/ /\ t.slot[j] # Empty /\ s.slot[j] # Empty
                                   /\ t.slot[j].msg = s.slot[j].msg
  PROVE  Rings(t, r, base, given, top, all)
<1>0. /\ base \in Nat /\ given \in Nat /\ top \in Nat /\ all \in Nat
      /\ base <= given /\ given <= top /\ top <= all /\ all <= base + Size
  BY RingsTyped
<1>1. Ring(t, base, all)
  BY DEF Rings, SendRing, Ring
<1>2. ASSUME NEW n \in Int
      PROVE  /\ Cell(t, n) = Empty <=> Cell(s, n) = Empty
             /\ Cell(s, n) # Empty => Cell(t, n).msg = Cell(s, n).msg
  <2>1. Slot(n) \in 0..Size - 1
    BY Slots
  <2> QED BY <2>1 DEF Cell
<1>3. SendRing(t, base, all)
  <2>1. ASSUME NEW n \in base + 1..base + Size, Cell(t, n) # Empty
        PROVE  n <= all /\ Cell(t, n).msg = n
    <3>1. n \in Int
      BY <1>0, Sizes
    <3>2. n <= all /\ Cell(s, n).msg = n
      BY <3>1, <2>1, <1>2 DEF Rings, SendRing
    <3> QED BY <3>1, <3>2, <2>1, <1>2
  <2> QED BY <1>1, <2>1 DEF SendRing
<1>4. ASSUME NEW n \in given + 1..all, Cell(t, n) = Empty
      PROVE  Cell(r, n) # Empty
  <2>1. n \in Int
    BY <1>0
  <2> QED BY <2>1, <1>2, <1>4 DEF Rings
<1> QED BY <1>0, <1>3, <1>4 DEF Rings

\* What the other peer says of its receiving ring is believed if it is not
\* behind the send ring.
LEMMA AckBelieved ==
  ASSUME NEW s, NEW base, NEW all, SendRing(s, base, all), NEW e \in base..all
  PROVE  LET n == Wrap(First + e)
         IN Wrap(n - s.start) = e - base /\ (n = s.start \/ ~ CannotClear(s, n))
<1>0. base \in Nat /\ all \in Nat /\ base <= all /\ all <= base + Size /\ e \in Int
  BY Sizes DEF SendRing, Ring
<1>1. s.start = Wrap(First + base) /\ s.end = Wrap(First + all)
      /\ Count(s) = all - base
  BY RingCount DEF SendRing, Ring
<1>2. Wrap(Wrap(First + e) - Wrap(First + base)) = e - base
  <2>1. e - base \in 0..Numbers - 1
    BY <1>0, Sizes
  <2> QED BY <2>1, <1>0, Distance
<1>3. Wrap(Wrap(First + all) - Wrap(First + e)) = all - e
  <2>1. all - e \in 0..Numbers - 1
    BY <1>0, Sizes
  <2> QED BY <2>1, <1>0, Distance
<1>4. e = base \/ ~ CannotClear(s, Wrap(First + e))
  BY <1>0, <1>1, <1>2, <1>3 DEF CannotClear
<1> QED BY <1>1, <1>2, <1>4

\* If it is behind, and not so far that the numbers wrap around, it is not.
LEMMA AckRefused ==
  ASSUME NEW s, NEW base, NEW all, SendRing(s, base, all), NEW e \in Nat,
         e < base, all - e < Numbers
  PROVE  LET n == Wrap(First + e) IN n # s.start /\ CannotClear(s, n)
<1>0. base \in Nat /\ all \in Nat /\ base <= all /\ all <= base + Size
  BY Sizes DEF SendRing, Ring
<1>1. s.start = Wrap(First + base) /\ s.end = Wrap(First + all)
      /\ Count(s) = all - base
  BY RingCount DEF SendRing, Ring
<1>2. Wrap(Wrap(First + all) - Wrap(First + e)) = all - e
  <2>1. all - e \in 0..Numbers - 1
    BY <1>0, Sizes
  <2> QED BY <2>1, <1>0, Distance
<1>3. Wrap(Wrap(First + all) - Wrap(First + base)) = all - base
  <2>1. all - base \in 0..Numbers - 1
    BY <1>0, Sizes
  <2> QED BY <2>1, <1>0, Distance
<1>4. Wrap(First + e) # Wrap(First + base)
  BY <1>0, <1>2, <1>3
<1> QED BY <1>0, <1>1, <1>2, <1>4 DEF CannotClear

\* What the other peer has is taken out of the send ring.
LEMMA RingsAcked ==
  ASSUME NEW s, NEW r, NEW base, NEW given, NEW top, NEW all,
         Rings(s, r, base, given, top, all), NEW e \in base..given
  PROVE  Rings(DropFirst(s, e - base), r, e, given, top, all)
<1>0. /\ base \in Nat /\ given \in Nat /\ top \in Nat /\ all \in Nat
      /\ base <= given /\ given <= top /\ top <= all /\ all <= base + Size
      /\ e \in Int
  BY RingsTyped
<1>1. PICK k \in 0..all - base : k = e - base /\ base + k = e
  BY <1>0
<1> DEFINE d == DropFirst(s, k)
<1>2. /\ Ring(d, base + k, all)
      /\ \A n \in base + k + 1..base + Size : Cell(d, n) = Cell(s, n)
      /\ \A n \in base + Size + 1..base + k + Size : Cell(d, n) = Empty
  BY Dropped DEF Rings, SendRing
<1>3. d.slot \in [0..Size - 1 -> Sent \cup {Empty}]
  BY DEF Rings, SendRing, Ring, DropFirst
<1> HIDE DEF d
<1>4. ASSUME NEW n \in e + 1..e + Size
      PROVE  /\ n <= base + Size => Cell(d, n) = Cell(s, n)
             /\ n > base + Size => Cell(d, n) = Empty
  BY <1>0, <1>1, <1>2, Sizes
<1>5. SendRing(d, e, all)
  <2>1. ASSUME NEW n \in e + 1..e + Size, Cell(d, n) # Empty
        PROVE  n <= all /\ Cell(d, n).msg = n
    <3>1. n \in base + 1..base + Size /\ Cell(d, n) = Cell(s, n)
      BY <2>1, <1>0, <1>4, Sizes
    <3> QED BY <3>1, <2>1 DEF Rings, SendRing
  <2> QED BY <2>1, <1>1, <1>2, <1>3 DEF SendRing
<1>6. ASSUME NEW n \in given + 1..all, Cell(d, n) = Empty
      PROVE  Cell(r, n) # Empty
  <2>1. n \in e + 1..e + Size /\ n <= base + Size
    BY <1>0, Sizes
  <2> QED BY <2>1, <1>4, <1>6 DEF Rings
<1>7. Rings(d, r, e, given, top, all)
  BY <1>0, <1>5, <1>6 DEF Rings
<1> QED BY <1>1, <1>7 DEF d

\* The peer has message n, given to the program or in the ring.
Has(r, given, n) == n <= given \/ (n <= given + Size /\ Cell(r, n) # Empty)

\* What a request packet says changes nothing but the packets that wait and
\* the ones the other peer has.
LEMMA RingsMarked ==
  ASSUME NEW s, NEW r, NEW base, NEW given, NEW top, NEW all,
         Rings(s, r, base, given, top, all), NEW bytes,
         \A i \in 1..all - base :
           LET mark == Decode(bytes, all - base)[i]
           IN /\ mark \in {"kept", "again", "received"}
              /\ mark = "received" => Has(r, given, base + i)
  PROVE  Rings(MarkMissing(s, bytes), r, base, given, top, all)
<1>0. /\ base \in Nat /\ given \in Nat /\ top \in Nat /\ all \in Nat
      /\ base <= given /\ given <= top /\ top <= all /\ all <= base + Size
  BY RingsTyped
<1>1. Count(s) = all - base
  BY RingCount DEF Rings, SendRing
<1> DEFINE marks == Decode(bytes, all - base)
           place(j) == (j - s.start) % Size
           t == MarkMissing(s, bytes)
<1>2. Ring(s, base, all) /\ s.slot \in [0..Size - 1 -> Sent \cup {Empty}]
  BY DEF Rings, SendRing
<1>3. /\ t.start = s.start /\ t.end = s.end /\ DOMAIN t.slot = 0..Size - 1
      /\ \A j \in 0..Size - 1 :
           t.slot[j] = IF place(j) >= all - base THEN s.slot[j]
                       ELSE Marked(s.slot[j], marks[place(j) + 1])
      /\ t = [s EXCEPT !.slot = t.slot]
  BY <1>1, <1>2 DEF MarkMissing, Ring
<1>4. ASSUME NEW j \in 0..Size - 1, NEW mark \in {"kept", "again", "received"}
      PROVE  LET c == Marked(s.slot[j], mark)
             IN /\ c \in Sent \cup {Empty}
                /\ c # Empty => s.slot[j] # Empty /\ c.msg = s.slot[j].msg
                /\ c = Empty => s.slot[j] = Empty \/ mark = "received"
  <2>1. PICK c \in Sent \cup {Empty} : c = s.slot[j]
    BY <1>2
  <2>2. CASE c = Empty \/ mark = "kept"
    BY <2>1, <2>2 DEF Marked
  <2>3. CASE c # Empty /\ mark = "again"
    <3>1. Marked(c, mark) = [c EXCEPT !.wait = TRUE]
      BY <2>3 DEF Marked
    <3>2. c \in [msg : Nat, wait : BOOLEAN]
      BY <2>1, <2>3 DEF Sent
    <3>3. /\ [c EXCEPT !.wait = TRUE] \in [msg : Nat, wait : BOOLEAN]
          /\ [c EXCEPT !.wait = TRUE].msg = c.msg
      BY <3>2
    <3> QED BY <2>1, <2>3, <3>1, <3>3, EmptyApart DEF Sent
  <2>4. CASE c # Empty /\ mark = "received"
    BY <2>1, <2>4 DEF Marked
  <2> QED BY <2>2, <2>3, <2>4
<1> HIDE DEF t, marks
<1>5. ASSUME NEW j \in 0..Size - 1
      PROVE  /\ t.slot[j] \in Sent \cup {Empty}
             /\ t.slot[j] # Empty =>
                  s.slot[j] # Empty /\ t.slot[j].msg = s.slot[j].msg
             /\ t.slot[j] = Empty /\ s.slot[j] # Empty =>
                  place(j) < all - base /\ marks[place(j) + 1] = "received"
  <2>1. place(j) \in 0..Size - 1
    BY <1>2, RingSlots
  <2>2. PICK i \in 0..Size - 1 : i = place(j)
    BY <2>1
  <2>3. CASE i >= all - base
    BY <2>2, <2>3, <1>2, <1>3
  <2>4. CASE i < all - base
    <3>1. i + 1 \in 1..all - base
      BY <2>4, <1>0
    <3>2. PICK mark \in {"kept", "again", "received"} : mark = marks[i + 1]
      BY <3>1 DEF marks
    <3>3. t.slot[j] = Marked(s.slot[j], mark)
      BY <2>2, <2>4, <3>2, <1>0, <1>3
    <3> QED BY <2>2, <2>4, <3>2, <3>3, <1>4
  <2> QED BY <2>3, <2>4, <1>0
<1> HIDE DEF place
<1>6. t.slot \in [0..Size - 1 -> Sent \cup {Empty}]
  <2>1. t.slot = [j \in 0..Size - 1 |-> t.slot[j]]
    BY <1>2 DEF t, MarkMissing, Ring
  <2> QED BY <2>1, <1>5
<1>7. Ring(t, base, all)
  BY <1>2, <1>3, <1>6 DEF Ring
<1>8. SendRing(t, base, all)
  <2>1. ASSUME NEW n \in base + 1..base + Size, Cell(t, n) # Empty
        PROVE  n <= all /\ Cell(t, n).msg = n
    <3>1. Slot(n) \in 0..Size - 1
      BY <1>0, Sizes, Slots
    <3>2. Cell(s, n) # Empty /\ Cell(t, n).msg = Cell(s, n).msg
      BY <3>1, <2>1, <1>5 DEF Cell
    <3> QED BY <3>2 DEF Rings, SendRing
  <2> QED BY <1>6, <1>7, <2>1 DEF SendRing
<1>9. ASSUME NEW n \in given + 1..all, Cell(t, n) = Empty
      PROVE  Cell(r, n) # Empty
  <2>0. n \in Int /\ n > given /\ n \in base + 1..base + Size /\ n <= all
    BY <1>0, Sizes
  <2>1. PICK j \in 0..Size - 1 : j = Slot(n)
    BY <2>0, Slots
  <2>2. CASE Cell(s, n) = Empty
    BY <2>2 DEF Rings
  <2>3. CASE Cell(s, n) # Empty
    <3>1. place(j) < all - base /\ marks[place(j) + 1] = "received"
      BY <2>1, <2>3, <1>5, <1>9 DEF Cell
    <3>2. place(j) = n - (base + 1)
      BY <2>0, <2>1, <1>2, PlaceOf DEF place
    <3>3. PICK i \in 1..all - base : i = n - base /\ place(j) + 1 = i
      BY <3>2, <2>0, <1>0
    <3>4. Has(r, given, base + i)
      BY <3>1, <3>3 DEF marks
    <3>5. base + i = n
      BY <3>3, <2>0, <1>0
    <3> QED BY <3>4, <3>5, <2>0, <1>0 DEF Has
  <2> QED BY <2>2, <2>3
<1>10. Rings(t, r, base, given, top, all)
  BY <1>8, <1>9 DEF Rings
<1> QED BY <1>10 DEF t

\* The end of the other ring is heard of.
LEMMA RingsEnd ==
  ASSUME NEW s, NEW r, NEW base, NEW given, NEW top, NEW all,
         Rings(s, r, base, given, top, all), NEW e \in top..all
  PROVE  LET t == SetEnd(r, Wrap(First + e))
         IN Rings(s, t, base, given, e, all) /\ t.slot = r.slot
<1> DEFINE n == Wrap(First + e)
           t == SetEnd(r, n)
<1>0. /\ base \in Nat /\ given \in Nat /\ top \in Nat /\ all \in Nat
      /\ base <= given /\ given <= top /\ top <= all /\ all <= base + Size
      /\ e \in Nat /\ top <= e /\ e <= all
  BY RingsTyped
<1>1. /\ Ring(r, given, top) /\ r.slot \in [0..Size - 1 -> Nat \cup {Empty}]
      /\ r.start = Wrap(First + given) /\ r.end = Wrap(First + top)
  BY DEF Rings, RecvRing, Ring
<1>2. Wrap(n - r.start) = e - given
  <2>1. e - given \in 0..Numbers - 1
    BY <1>0, Sizes
  <2> QED BY <2>1, <1>0, <1>1, Distance
<1>3. Wrap(n - r.end) = e - top
  <2>1. e - top \in 0..Numbers - 1
    BY <1>0, Sizes
  <2> QED BY <2>1, <1>0, <1>1, Distance
<1>4. n \in Int
  BY <1>0, Sizes, WrapType
<1>5. t = [r EXCEPT !.end = n]
  BY <1>0, <1>2, <1>3, Sizes DEF SetEnd
<1>6. /\ t.start = r.start /\ t.end = n /\ t.slot = r.slot
      /\ t \in [start : Int, end : Int,
                slot : [0..Size - 1 -> Nat \cup Sent \cup {Empty}]]
  BY <1>1, <1>4, <1>5 DEF Ring
<1>7. Ring(t, given, e)
  BY <1>0, <1>1, <1>6, Sizes DEF Ring
<1> HIDE DEF t, n
<1>8. \A m : Cell(t, m) = Cell(r, m)
  BY <1>6 DEF Cell
<1>9. RecvRing(t, given, e)
  <2>1. ASSUME NEW m \in given + 1..given + Size, Cell(t, m) # Empty
        PROVE  m <= e /\ Cell(t, m) = m
    <3>1. m \in Int
      BY <1>0, Sizes
    <3>2. m <= top /\ Cell(r, m) = m
      BY <2>1, <1>8 DEF Rings, RecvRing
    <3> QED BY <3>1, <3>2, <1>0, <1>8
  <2> QED BY <2>1, <1>1, <1>6, <1>7 DEF RecvRing
<1>10. Rings(s, t, base, given, e, all)
  BY <1>0, <1>8, <1>9 DEF Rings
<1> QED BY <1>6, <1>10 DEF t, n

\* An end that is behind is not believed, if it is not so far behind that the
\* numbers wrap around.
LEMMA EndRefused ==
  ASSUME NEW s, NEW r, NEW base, NEW given, NEW top, NEW all,
         Rings(s, r, base, given, top, all),
         NEW e \in Nat, e < top, top - e < Numbers - Size
  PROVE  SetEnd(r, Wrap(First + e)) = r
<1> DEFINE n == Wrap(First + e)
<1>0. given \in Nat /\ top \in Nat /\ given <= top
  BY RingsTyped
<1>1. r.end = Wrap(First + top)
  BY DEF Rings, RecvRing, Ring
<1>2. Wrap(n - r.end) = (e - top) + Numbers
  <2>1. e - top \in (0 - Numbers)..(0 - 1)
    BY <1>0, Sizes
  <2> QED BY <2>1, <1>0, <1>1, Distance
<1>3. Wrap(n - r.end) > Size
  BY <1>0, <1>2, Sizes
<1> QED BY <1>3 DEF SetEnd

\* A set of numbers up to n has a greatest one.
LEMMA Greatest ==
  ASSUME NEW n \in Nat, NEW K \in SUBSET (0..n), K # {}
  PROVE  Max(K) \in K /\ \A k \in K : k <= Max(K)
<1> DEFINE Top(L) == \E x \in L : \A y \in L : x >= y
           S == {m \in Nat : \A L \in SUBSET (0..m) : L # {} => Top(L)}
<1>1. 0 \in S
  <2> SUFFICES ASSUME NEW L \in SUBSET (0..0), L # {} PROVE Top(L)
    OBVIOUS
  <2>1. PICK x \in L : TRUE
    OBVIOUS
  <2>2. x = 0 /\ \A y \in L : y = 0
    BY <2>1
  <2> QED BY <2>1, <2>2
<1>2. ASSUME NEW m \in Nat, m \in S PROVE m + 1 \in S
  <2> SUFFICES ASSUME NEW L \in SUBSET (0..m + 1), L # {} PROVE Top(L)
    OBVIOUS
  <2>1. CASE m + 1 \in L
    <3>1. \A y \in L : m + 1 >= y
      OBVIOUS
    <3> QED BY <2>1, <3>1
  <2>2. CASE m + 1 \notin L
    <3>1. L \in SUBSET (0..m)
      BY <2>2
    <3> QED BY <3>1, <1>2
  <2> QED BY <2>1, <2>2
<1> HIDE DEF Top
<1>3. n \in S
  <2>1. \A m \in Nat : m \in S => m + 1 \in S
    BY <1>2
  <2> HIDE DEF S
  <2> QED BY <2>1, <1>1, Induction
<1>4. Top(K)
  BY <1>3
<1>5. Max(K) \in K /\ \A y \in K : Max(K) >= y
  BY <1>4 DEF Top, Max
<1>6. PICK x \in K : x = Max(K)
  BY <1>5
<1>7. x \in Int /\ \A y \in K : y \in Int
  OBVIOUS
<1> QED BY <1>5, <1>6, <1>7

\* The packet number of message n.
Number(n) == Wrap(First + (n - 1))

\* Where it is kept.
LEMMA NumberSlot ==
  ASSUME NEW n \in Int
  PROVE  Number(n) % Size = Slot(n)
<1>1. PICK x \in Int : x = First + (n - 1)
  BY Sizes
<1>2. Wrap(x) % Size = x % Size
  BY WrapSlot
<1>3. Num(n) = x
  BY <1>1, Sizes DEF Num
<1> QED BY <1>1, <1>2, <1>3 DEF Number, Slot

\* A message that was given already is not taken, if it is not so old that the
\* numbers wrap around.
LEMMA DataRefused ==
  ASSUME NEW s, NEW r, NEW base, NEW given, NEW top, NEW all,
         Rings(s, r, base, given, top, all),
         NEW n \in Nat, n <= given, given + 1 - n < Numbers - Size
  PROVE  ~ Takes(r, Number(n))
<1>0. given \in Nat /\ top \in Nat /\ r.start = Wrap(First + given)
  BY RingsTyped, RingsFacts
<1>1. PICK x \in Int : x = n - 1
  OBVIOUS
<1>2. Wrap(Wrap(First + x) - Wrap(First + given)) = (x - given) + Numbers
  <2>1. x - given \in (0 - Numbers)..(0 - 1)
    BY <1>0, <1>1, Sizes
  <2> QED BY <2>1, <1>0, Distance
<1>3. Wrap(Number(n) - r.start) = (x - given) + Numbers
  BY <1>0, <1>1, <1>2 DEF Number
<1>4. Wrap(Number(n) - r.start) > Size
  BY <1>0, <1>1, <1>3, Sizes
<1> QED BY <1>0, <1>3, <1>4, Sizes DEF Takes

\* How far a message that was not given is from the start.
LEMMA DataAhead ==
  ASSUME NEW s, NEW r, NEW base, NEW given, NEW top, NEW all,
         Rings(s, r, base, given, top, all), NEW n \in given + 1..all
  PROVE  /\ Wrap(Number(n) - r.start) = n - (given + 1)
         /\ n \in Nat /\ n > given /\ n <= given + Size /\ n <= all
         /\ Takes(r, Number(n)) <=> Cell(r, n) = Empty
<1>0. /\ given \in Nat /\ top \in Nat /\ base \in Nat /\ all \in Nat
      /\ r.start = Wrap(First + given) /\ base <= given /\ all <= base + Size
      /\ n \in Nat
  BY RingsTyped, RingsFacts
<1>1. PICK x \in Int : x = n - 1
  BY <1>0
<1>2. Wrap(Wrap(First + x) - Wrap(First + given)) = x - given
  <2>1. x - given \in 0..Numbers - 1
    BY <1>0, <1>1, Sizes
  <2> QED BY <2>1, <1>0, Distance
<1>3. Wrap(Number(n) - r.start) = n - (given + 1)
  BY <1>0, <1>1, <1>2 DEF Number
<1>4. n > given /\ n <= given + Size /\ n <= all
  BY <1>0, Sizes
<1>5. Number(n) % Size = Slot(n)
  BY <1>0, NumberSlot
<1> QED BY <1>0, <1>3, <1>4, <1>5, Sizes DEF Takes, Cell

\* The receiving ring keeps a message that is new.
LEMMA RecvPut ==
  ASSUME NEW s, NEW r, NEW base, NEW given, NEW top, NEW all,
         Rings(s, r, base, given, top, all), NEW n \in given + 1..all,
         NEW e, e = IF n > top THEN n ELSE top
  PROVE  LET t == Put(r, Number(n), n)
         IN /\ RecvRing(t, given, e)
            /\ \A m \in given + 1..given + Size :
                 Cell(t, m) = IF m = n THEN n ELSE Cell(r, m)
<1> DEFINE t == Put(r, Number(n), n)
<1>0. /\ given \in Nat /\ top \in Nat /\ base \in Nat /\ all \in Nat
      /\ base <= given /\ given <= top /\ top <= all /\ all <= base + Size
  BY RingsTyped
<1>1. /\ Wrap(Number(n) - r.start) = n - (given + 1)
      /\ n \in Nat /\ n > given /\ n <= given + Size /\ n <= all
  BY DataAhead
<1>2. /\ Ring(r, given, top) /\ r.slot \in [0..Size - 1 -> Nat \cup {Empty}]
      /\ r.start = Wrap(First + given) /\ r.end = Wrap(First + top)
      /\ Count(r) = top - given
  BY RingCount DEF Rings, RecvRing, Ring
<1>3. PICK j \in 0..Size - 1 : j = Slot(n) /\ j = Number(n) % Size
  BY <1>1, NumberSlot, Slots
<1>4. Wrap(Number(n) + 1) = Wrap(First + n)
  <2>1. PICK x \in Int : x = First + (n - 1)
    BY <1>1, Sizes
  <2>2. Wrap(Wrap(x) + 1) = Wrap(x + 1)
    BY WrapFacts
  <2>3. x + 1 = First + n
    BY <2>1, <1>1, Sizes
  <2> QED BY <2>1, <2>2, <2>3 DEF Number
<1>5. PICK w \in Int : w = Wrap(First + e) /\ t = [r EXCEPT !.slot[j] = n, !.end = w]
  <2>1. CASE n > top
    <3>1. n - (given + 1) >= top - given /\ e = n
      BY <2>1, <1>0, <1>1
    <3>2. t = [r EXCEPT !.slot[j] = n, !.end = Wrap(First + n)]
      BY <3>1, <1>1, <1>2, <1>3, <1>4 DEF Put
    <3>3. Wrap(First + n) \in Int
      BY <1>1, Sizes, WrapType
    <3> QED BY <3>1, <3>2, <3>3
  <2>2. CASE ~ n > top
    <3>1. ~ n - (given + 1) >= top - given /\ e = top
      BY <2>2, <1>0, <1>1
    <3>2. t = [r EXCEPT !.slot[j] = n, !.end = r.end]
      BY <3>1, <1>1, <1>2, <1>3 DEF Put
    <3>3. r.end \in Int
      BY <1>2 DEF Ring
    <3> QED BY <3>1, <3>2, <3>3, <1>2
  <2> QED BY <2>1, <2>2
<1> HIDE DEF t
<1>6. r \in [start : Int, end : Int,
             slot : [0..Size - 1 -> Nat \cup Sent \cup {Empty}]]
  BY <1>2 DEF Ring
<1>7. /\ t.start = r.start /\ t.end = w /\ t.slot = [r.slot EXCEPT ![j] = n]
      /\ t \in [start : Int, end : Int,
                slot : [0..Size - 1 -> Nat \cup Sent \cup {Empty}]]
  BY <1>1, <1>5, <1>6
<1>8. t.slot \in [0..Size - 1 -> Nat \cup {Empty}]
  BY <1>1, <1>2, <1>7
<1>9. e \in Nat /\ given <= e /\ e <= given + Size /\ n <= e /\ top <= e
  BY <1>0, <1>1, <1>2, Sizes
<1>10. Ring(t, given, e)
  BY <1>0, <1>2, <1>5, <1>7, <1>9 DEF Ring
<1>11. ASSUME NEW m \in given + 1..given + Size
       PROVE  Cell(t, m) = IF m = n THEN n ELSE Cell(r, m)
  <2>0. m \in Int
    BY <1>0, Sizes
  <2>1. PICK i \in 0..Size - 1 : i = Slot(m)
    BY <2>0, Slots
  <2>2. t.slot[i] = IF i = j THEN n ELSE r.slot[i]
    BY <1>2, <1>7
  <2>3. i = j => m = n
    <3>1. m - n < Size /\ n - m < Size
      BY <1>0, <1>1, Sizes
    <3>2. ASSUME i = j PROVE Slot(m) = Slot(n)
      BY <3>2, <2>1, <1>3
    <3>3. Slot(m) = Slot(n) => m = n
      BY <3>1, <2>0, <1>1, Slots
    <3> QED BY <3>2, <3>3
  <2> QED BY <2>1, <2>2, <2>3, <1>3 DEF Cell
<1>12. ASSUME NEW m \in given + 1..given + Size, Cell(t, m) # Empty
       PROVE  m <= e /\ Cell(t, m) = m
  <2>1. CASE m = n
    BY <2>1, <1>9, <1>11
  <2>2. CASE m # n
    <3>1. m <= top /\ Cell(r, m) = m /\ m \in Int
      BY <2>2, <1>0, <1>11, <1>12, Sizes DEF Rings, RecvRing
    <3> QED BY <3>1, <2>2, <1>0, <1>9, <1>11
  <2> QED BY <2>1, <2>2
<1>13. RecvRing(t, given, e)
  BY <1>8, <1>10, <1>12 DEF RecvRing
<1> QED BY <1>11, <1>13 DEF t

\* What is in order is read.
LEMMA ReadyFacts ==
  ASSUME NEW a, NEW b, NEW e, RecvRing(a, b, e)
  PROVE  LET k == Ready(a)
         IN /\ k \in 0..e - b
            /\ \A i \in 1..k : Cell(a, b + i) = b + i
            /\ k = e - b \/ Cell(a, b + k + 1) = Empty
<1>0. b \in Nat /\ e \in Nat /\ b <= e /\ e <= b + Size /\ Ring(a, b, e)
  BY DEF RecvRing, Ring
<1>1. PICK n \in Nat : n = e - b /\ n = Count(a) /\ n <= Size
  BY <1>0, RingCount, Sizes
<1>2. Min({n, Size}) = n
  <2>1. \A x \in {n, Size} : n <= x
    BY <1>1, Sizes
  <2>2. \A x \in {n, Size} : (\A y \in {n, Size} : x <= y) => x = n
    BY <1>1, Sizes
  <2> QED BY <2>1, <2>2 DEF Min
<1> DEFINE Full(i) == a.slot[At(a, i)] # Empty
           K == {k \in 0..n : \A i \in 0..k - 1 : Full(i)}
           k == Max(K)
<1>3. Ready(a) = k
  BY <1>1, <1>2 DEF Ready
<1>4. ASSUME NEW i \in Int PROVE Full(i) <=> Cell(a, b + 1 + i) # Empty
  BY <1>0, RingPlace DEF Cell
<1> HIDE DEF Full
<1>5. k \in K /\ \A x \in K : x <= k
  <2>1. 0 \in K
    BY <1>1
  <2>2. K \in SUBSET (0..n) /\ K # {}
    BY <2>1
  <2> HIDE DEF K
  <2> QED BY <2>2, Greatest
<1> HIDE DEF k
<1>6. PICK l \in Nat : l <= n /\ l = k /\ \A i \in 0..l - 1 : Full(i)
  BY <1>1, <1>5
<1>7. ASSUME NEW i \in 1..l PROVE Cell(a, b + i) = b + i
  <2>1. PICK h \in 0..l - 1 : h = i - 1
    OBVIOUS
  <2>2. b + 1 + h = b + i /\ b + i \in b + 1..b + Size
    BY <2>1, <1>0, <1>1, <1>6, Sizes
  <2>3. Cell(a, b + i) # Empty
    BY <2>1, <2>2, <1>4, <1>6
  <2> QED BY <2>2, <2>3 DEF RecvRing
<1>8. l = n \/ Cell(a, b + l + 1) = Empty
  <2> SUFFICES ASSUME l # n, Cell(a, b + l + 1) # Empty PROVE FALSE
    OBVIOUS
  <2>1. b + 1 + l = b + l + 1
    BY <1>0
  <2>2. Full(l)
    BY <2>1, <1>4
  <2>3. l + 1 \in 0..n /\ \A i \in 0..(l + 1) - 1 : i = l \/ i \in 0..l - 1
    BY <1>6
  <2>4. l + 1 \in K
    BY <2>2, <2>3, <1>6
  <2> QED BY <2>4, <1>5, <1>6
<1> QED BY <1>1, <1>3, <1>6, <1>7, <1>8 DEF k

\* A message is taken, and with it goes to the program what is in order.
LEMMA RingsTaken ==
  ASSUME NEW s, NEW r, NEW base, NEW given, NEW top, NEW all,
         Rings(s, r, base, given, top, all), NEW n \in given + 1..all
  PROVE  LET t == Put(r, Number(n), n)
             k == Ready(t)
             d == DropFirst(t, k)
         IN /\ k \in Nat /\ k <= Size
            /\ [i \in 1..k |-> t.slot[At(t, i - 1)]] = [i \in 1..k |-> given + i]
            /\ Rings(s, d, base, given + k, IF n > top THEN n ELSE top, all)
            /\ \A m \in Nat : Has(r, given, m) => Has(d, given + k, m)
<1> DEFINE t == Put(r, Number(n), n)
           d == DropFirst(t, Ready(t))
<1>0. /\ given \in Nat /\ top \in Nat /\ base \in Nat /\ all \in Nat
      /\ base <= given /\ given <= top /\ top <= all /\ all <= base + Size
      /\ n \in Nat /\ n > given /\ n <= all
  BY RingsTyped
<1>1. PICK e \in Nat : /\ e = IF n > top THEN n ELSE top
                       /\ top <= e /\ e <= all
  BY <1>0
<1>2. /\ RecvRing(t, given, e)
      /\ \A m \in given + 1..given + Size :
           Cell(t, m) = IF m = n THEN n ELSE Cell(r, m)
  BY <1>1, RecvPut
<1> HIDE DEF t
<1>3. PICK k \in Nat : k = Ready(t)
  BY <1>2, ReadyFacts
<1>4. /\ k \in 0..e - given
      /\ \A i \in 1..k : Cell(t, given + i) = given + i
      /\ k = e - given \/ Cell(t, given + k + 1) = Empty
  BY <1>2, <1>3, ReadyFacts
<1>5. k <= Size /\ given + k <= e /\ e <= given + Size
  BY <1>0, <1>1, <1>4, Sizes
<1>6. Ring(t, given, e) /\ t.slot \in [0..Size - 1 -> Nat \cup {Empty}]
  BY <1>2 DEF RecvRing
<1>7. /\ Ring(d, given + k, e)
      /\ \A m \in given + k + 1..given + Size : Cell(d, m) = Cell(t, m)
      /\ \A m \in given + Size + 1..given + k + Size : Cell(d, m) = Empty
  BY <1>3, <1>4, <1>6, Dropped
<1>8. d.slot \in [0..Size - 1 -> Nat \cup {Empty}]
  BY <1>6 DEF Ring, DropFirst
<1> HIDE DEF d
<1>9. ASSUME NEW i \in 1..k PROVE t.slot[At(t, i - 1)] = given + i
  <2>1. PICK h \in Int : h = i - 1
    OBVIOUS
  <2>2. At(t, h) = Slot(given + 1 + h)
    BY <1>6, RingPlace
  <2>3. given + 1 + h = given + i
    BY <2>1, <1>0, <1>3
  <2> QED BY <2>1, <2>2, <2>3, <1>4 DEF Cell
<1>10. \A m \in given + k + 1..given + k + Size :
         \/ m <= given + Size /\ m \in given + 1..given + Size
              /\ Cell(d, m) = Cell(t, m)
         \/ m > given + Size /\ Cell(d, m) = Empty
  BY <1>0, <1>5, <1>7, Sizes
<1>11. Cell(d, given + k + 1) = Empty
  <2>1. PICK m \in given + k + 1..given + k + Size : m = given + k + 1
    BY <1>0, Sizes
  <2>2. CASE m <= given + Size /\ k = e - given
    <3>1. m = e + 1 /\ m \in given + 1..given + Size /\ Cell(d, m) = Cell(t, m)
      BY <2>1, <2>2, <1>0, <1>1, <1>10, Sizes
    <3>2. Cell(t, m) # Empty => m <= e
      BY <3>1, <1>2 DEF RecvRing
    <3> QED BY <3>1, <3>2, <2>1, <1>1
  <2>3. CASE m <= given + Size /\ k # e - given
    <3>1. Cell(t, m) = Empty
      BY <2>1, <2>3, <1>4
    <3> QED BY <3>1, <2>1, <2>3, <1>0, <1>10, Sizes
  <2>4. CASE ~ m <= given + Size
    BY <2>1, <2>4, <1>0, <1>10, Sizes
  <2> QED BY <2>2, <2>3, <2>4
<1>12. ASSUME NEW m \in given + k + 1..given + k + Size, Cell(d, m) # Empty
       PROVE  m <= e /\ Cell(d, m) = m
  <2>1. m \in given + 1..given + Size /\ Cell(d, m) = Cell(t, m)
    BY <1>10, <1>12
  <2> QED BY <2>1, <1>2, <1>12 DEF RecvRing
<1>13. RecvRing(d, given + k, e)
  BY <1>7, <1>8, <1>12 DEF RecvRing
<1>14. ASSUME NEW m \in Nat, m > given + k, m <= given + Size,
              Cell(r, m) # Empty
       PROVE  Cell(d, m) # Empty
  <2>1. m \in given + k + 1..given + Size /\ m \in given + 1..given + Size
    BY <1>0, <1>14, Sizes
  <2>2. Cell(d, m) = IF m = n THEN n ELSE Cell(r, m)
    BY <2>1, <1>2, <1>7
  <2> QED BY <2>2, <1>0, <1>14, EmptyApart
<1>15. ASSUME NEW m \in given + k + 1..all, Cell(s, m) = Empty
       PROVE  Cell(d, m) # Empty
  <2>1. m \in Nat /\ m > given + k /\ m <= given + Size /\ m \in given + 1..all
    BY <1>0, Sizes
  <2>2. Cell(r, m) # Empty
    BY <2>1, <1>15 DEF Rings
  <2> QED BY <2>1, <2>2, <1>14
<1>16. Rings(s, d, base, given + k, e, all)
  BY <1>0, <1>1, <1>11, <1>13, <1>15 DEF Rings
<1>17. ASSUME NEW m \in Nat, Has(r, given, m) PROVE Has(d, given + k, m)
  <2>1. CASE m <= given + k
    BY <2>1 DEF Has
  <2>2. CASE m > given + k
    <3>1. m <= given + Size /\ Cell(r, m) # Empty
      BY <2>2, <1>0, <1>17 DEF Has
    <3>2. Cell(d, m) # Empty
      BY <3>1, <2>2, <1>14
    <3>3. m <= given + k + Size
      BY <3>1, <1>0, Sizes
    <3> QED BY <3>2, <3>3 DEF Has
  <2> QED BY <2>1, <2>2, <1>0
<1> QED BY <1>1, <1>3, <1>5, <1>9, <1>16, <1>17 DEF t, d

\* A request packet tells of every packet of the ring.
LEMMA HeldFacts ==
  ASSUME NEW r, NEW given, NEW top, Ring(r, given, top)
  PROVE  /\ Held(r) \in Seq(BOOLEAN) /\ Len(Held(r)) = top - given
         /\ \A i \in 1..top - given : Held(r)[i] = (Cell(r, given + i) # Empty)
<1>0. given \in Nat /\ top \in Nat /\ given <= top
  BY DEF Ring
<1>1. PICK c \in Nat : c = top - given /\ c = Count(r)
  BY <1>0, RingCount
<1>2. Held(r) = [i \in 1..c |-> r.slot[At(r, i - 1)] # Empty]
  BY <1>1 DEF Held
<1>3. ASSUME NEW i \in 1..c
      PROVE  (r.slot[At(r, i - 1)] # Empty) = (Cell(r, given + i) # Empty)
  <2>1. PICK h \in Int : h = i - 1
    OBVIOUS
  <2>2. At(r, h) = Slot(given + 1 + h)
    BY RingPlace
  <2>3. given + 1 + h = given + i
    BY <2>1, <1>0
  <2> QED BY <2>1, <2>2, <2>3 DEF Cell
<1>4. Held(r) \in [1..c -> BOOLEAN]
  BY <1>2
<1>5. Held(r) \in Seq(BOOLEAN) /\ Len(Held(r)) = c
  BY <1>4
<1>6. \A i \in 1..c : Held(r)[i] = (Cell(r, given + i) # Empty)
  BY <1>2, <1>3
<1> QED BY <1>1, <1>5, <1>6

\* What is read of a request packet.
LEMMA DecodeFacts ==
  ASSUME NEW ring \in Seq(BOOLEAN), NEW count \in Nat, NEW i \in 1..count
  PROVE  LET mark == Decode(Encode(ring, MaxListed), count)[i]
         IN /\ mark \in {"kept", "again", "received"}
            /\ mark = "received" => i <= Len(ring) /\ ring[i]
<1>1. Decode(Encode(ring, MaxListed), count)[i] = MarkOf(ring, MaxListed, i)
  BY Marks, Sizes
<1> QED BY <1>1 DEF MarkOf

\* The packet i places after the start of the send ring.
LEMMA CopyOf ==
  ASSUME NEW s, NEW base, NEW all, SendRing(s, base, all),
         NEW i \in 0..all - base - 1, s.slot[At(s, i)] # Empty
  PROVE  /\ Wrap(s.start + i) = Number(base + 1 + i)
         /\ Number(base + 1 + i) % Size = At(s, i)
         /\ s.slot[At(s, i)] \in Sent
         /\ s.slot[At(s, i)].msg = base + 1 + i
<1>0. /\ base \in Nat /\ all \in Nat /\ base <= all /\ all <= base + Size
      /\ s.start = Wrap(First + base) /\ Ring(s, base, all)
  BY DEF SendRing, Ring
<1>1. PICK n \in base + 1..base + Size : n = base + 1 + i
  BY <1>0, Sizes
<1>2. n \in Int
  BY <1>0, <1>1
<1>3. At(s, i) = Slot(n)
  BY <1>0, <1>1, RingPlace
<1>4. Wrap(s.start + i) = Number(n)
  <2>1. PICK x \in Int : x = First + base
    BY <1>0, Sizes
  <2>2. Wrap(Wrap(x) + i) = Wrap(x + i)
    BY WrapFacts
  <2>3. x + i = First + (n - 1)
    BY <2>1, <1>0, <1>1, Sizes
  <2> QED BY <2>1, <2>2, <2>3, <1>0 DEF Number
<1>5. Cell(s, n) # Empty /\ Cell(s, n).msg = n
  BY <1>1, <1>3 DEF SendRing, Cell
<1>6. Slot(n) \in 0..Size - 1
  BY <1>2, Slots
<1>7. s.slot[Slot(n)] \in Sent \cup {Empty}
  BY <1>6 DEF SendRing
<1> QED BY <1>1, <1>2, <1>3, <1>4, <1>5, <1>7, NumberSlot DEF Cell

-----------------------------------------------------------------------------
(* Counters over the nonces.                                                *)

\* A product grows with its factor.
LEMMA Times ==
  ASSUME NEW N \in Nat, NEW a \in Int, NEW b \in Int, a <= b
  PROVE  (N * a) \in Int /\ (N * b) \in Int /\ (N * a) <= (N * b)
<1>1. PICK d \in Nat : d = b - a
  OBVIOUS
<1>2. (N * d) \in Nat
  OBVIOUS
<1>3. (N * b) - (N * a) = (N * d)
  BY <1>1
<1> QED BY <1>2, <1>3

\* A counter over the nonces: what it was when n packets had been sent, for
\* each n up to s.  A packet adds at most step to it.
Counter(f, s, step) ==
  /\ f \in [Nat -> Nat] /\ f[0] = 0 /\ s \in Nat
  /\ \A x, y \in 0..s :
       x <= y => f[x] <= f[y] /\ f[y] <= f[x] + (step * (y - x))

\* The counter moves to v, and n packets are sent.
Extended(f, s, v) == [x \in Nat |-> IF x <= s THEN f[x] ELSE v]

\* A counter that moves by at most one step stays a counter.
LEMMA CounterGoesOn ==
  ASSUME NEW f, NEW s, NEW step \in Nat, Counter(f, s, step),
         NEW v \in Nat, f[s] <= v, v <= f[s] + step, NEW n \in Nat
  PROVE  Counter(Extended(f, s, v), s + n, step)
<1> DEFINE g == Extended(f, s, v)
<1>0. f \in [Nat -> Nat] /\ f[0] = 0 /\ s \in Nat
  BY DEF Counter
<1>1. /\ g \in [Nat -> Nat] /\ s + n \in Nat
      /\ \A x \in 0..s : x \in Nat /\ g[x] = f[x]
      /\ \A x \in Nat : x > s => g[x] = v
      /\ \A x \in Nat : x <= s => x \in 0..s
  BY <1>0 DEF Extended
<1>2. g[0] = 0
  BY <1>0, <1>1
<1> HIDE DEF g
<1>3. ASSUME NEW x \in 0..s + n, NEW y \in 0..s + n, x <= y
      PROVE  g[x] <= g[y] /\ g[y] <= g[x] + (step * (y - x))
  <2>0. x \in Nat /\ y \in Nat
    BY <1>0
  <2>1. CASE y <= s
    <3>1. x \in 0..s /\ y \in 0..s
      BY <2>0, <2>1, <1>0, <1>3
    <3>2. f[x] <= f[y] /\ f[y] <= f[x] + (step * (y - x))
      BY <3>1, <1>3 DEF Counter
    <3> QED BY <3>1, <3>2, <1>1
  <2>2. CASE x <= s /\ y > s
    <3>1. x \in 0..s /\ s \in 0..s
      BY <2>0, <2>2, <1>0
    <3>2. f[x] <= f[s] /\ f[s] <= f[x] + (step * (s - x))
      BY <3>1, <2>2, <1>0 DEF Counter
    <3>3. g[x] = f[x] /\ g[y] = v /\ f[x] \in Nat /\ f[s] \in Nat
      BY <3>1, <2>0, <2>2, <1>0, <1>1
    <3>4. /\ (step * ((s - x) + 1)) \in Int /\ (step * (y - x)) \in Int
          /\ (step * ((s - x) + 1)) <= (step * (y - x))
      <4>1. (s - x) + 1 \in Int /\ y - x \in Int /\ (s - x) + 1 <= y - x
        BY <2>0, <2>2, <1>0
      <4> QED BY <4>1, Times
    <3>5. PICK z \in Int : z = s - x
      BY <2>0, <1>0
    <3>6. (step * (z + 1)) = (step * z) + step /\ (step * z) \in Int
      OBVIOUS
    <3>7. PICK w \in Int : w = step * z
      BY <3>6
    <3>8. PICK u \in Int : u = step * (y - x)
      BY <3>4
    <3>9. w + step <= u /\ f[s] <= f[x] + w
      BY <3>2, <3>4, <3>5, <3>6, <3>7, <3>8
    <3>10. v <= f[x] + u
      BY <3>3, <3>9
    <3>11. f[x] <= v
      BY <3>2, <3>3
    <3> QED BY <3>3, <3>8, <3>10, <3>11
  <2>3. CASE x > s
    <3>1. g[x] = v /\ g[y] = v
      BY <2>0, <2>3, <1>0, <1>1, <1>3
    <3>2. (step * (y - x)) \in Int /\ (step * 0) <= (step * (y - x))
      <4>1. 0 \in Int /\ y - x \in Int /\ 0 <= y - x
        BY <2>0, <1>3
      <4> QED BY <4>1, Times
    <3>3. (step * 0) = 0
      OBVIOUS
    <3> QED BY <3>1, <3>2, <3>3
  <2> QED BY <2>0, <2>1, <2>2, <2>3, <1>0
<1>4. Counter(g, s + n, step)
  BY <1>1, <1>2, <1>3 DEF Counter
<1> QED BY <1>4 DEF g

\* How far a counter moves at most.
LEMMA CounterMoves ==
  ASSUME NEW f, NEW s, NEW step \in Nat, Counter(f, s, step),
         NEW x \in 0..s, NEW y \in 0..s, NEW d \in Nat, y <= x + d
  PROVE  /\ f[x] \in Nat /\ f[y] \in Nat /\ (step * d) \in Nat
         /\ f[y] <= f[x] + (step * d)
         /\ y <= x => f[y] <= f[x]
<1>0. f \in [Nat -> Nat] /\ s \in Nat /\ x \in Nat /\ y \in Nat
  <2>1. f \in [Nat -> Nat] /\ s \in Nat
    BY DEF Counter
  <2> QED BY <2>1
<1>1. f[x] \in Nat /\ f[y] \in Nat
  BY <1>0
<1>2. (step * d) \in Nat
  OBVIOUS
<1>3. CASE y <= x
  <2>1. f[y] <= f[x]
    BY <1>3 DEF Counter
  <2> QED BY <2>1, <1>1, <1>2
<1>4. CASE x < y
  <2>1. f[y] <= f[x] + (step * (y - x))
    BY <1>4, <1>0 DEF Counter
  <2>2. (step * (y - x)) \in Int /\ (step * (y - x)) <= (step * d)
    <3>1. y - x \in Int /\ d \in Int /\ y - x <= d
      BY <1>0
    <3> QED BY <3>1, Times
  <2>3. PICK w \in Int : w = step * (y - x)
    BY <2>2
  <2>4. PICK u \in Nat : u = step * d
    BY <1>2
  <2>5. f[y] <= f[x] + u
    BY <2>1, <2>2, <2>3, <2>4, <1>1
  <2> QED BY <2>4, <2>5, <1>0, <1>1, <1>2, <1>4
<1> QED BY <1>0, <1>3, <1>4

\* A packet that can be decrypted is not behind the known nonce, and not far
\* ahead of it.
LEMMA NonceAhead ==
  ASSUME NEW R \in Nat, NEW x \in Nat, NEW m \in Nat, R <= m, x <= m,
         m + Window <= Nonces,
         (R + ((x - R) % Window)) % Nonces = x
  PROVE  x = R + ((x - R) % Window) /\ R <= x /\ x <= R + 3 * Threshold
<1>1. Window \in Nat \ {0} /\ Window = 3 * Threshold + 1 /\ Threshold \in Nat
      /\ Nonces \in Nat \ {0}
  BY Constants
<1>2. PICK z \in Int : z = x - R
  OBVIOUS
<1>3. PICK a \in 0..Window - 1 : a = z % Window
  BY <1>1, Remainder
<1>4. PICK y \in Nat : y = R + a /\ y < Nonces
  BY <1>1
<1>5. y % Nonces = y
  BY <1>1, <1>4
<1>6. y % Nonces = x
  BY <1>2, <1>3, <1>4
<1>7. x = R + a
  BY <1>4, <1>5, <1>6
<1>8. R <= x /\ x <= R + 3 * Threshold
  BY <1>1, <1>7
<1> QED BY <1>2, <1>3, <1>7, <1>8

-----------------------------------------------------------------------------
(* The inductive invariant.                                                 *)

\* How many messages of p the other peer is known to have, how many it has
\* given to its program, and how far it knows that p has sent.
Base(p) == accepted[p] - Count(send[p])
Given(p) == Len(got[Other(p)])
Top(p) == Len(got[Other(p)]) + Count(recv[Other(p)])

\* The two rings of the direction from p.
Direction(p) == Rings(send[p], recv[Other(p)], Base(p), Given(p), Top(p),
                      accepted[p])

\* The nonces that q knows.
NoncesOK(q) ==
  /\ recvNonce[q] \in Nat /\ newest[q] \in Nat /\ sentNonce[q] \in Nat
  /\ recvNonce[q] <= newest[q] /\ newest[q] <= recvNonce[q] + 2 * Threshold + 1
  /\ newest[q] <= sentNonce[Other(q)] /\ sentNonce[q] <= MaxNonce[q]

\* A packet of a peer that sent s packets, the x-th one: f[x] messages were
\* accepted and g[x] given there when it was sent.  What it tells of is still
\* held in the ring r or given.
Good(k, f, g, s, r, given) ==
  \E x \in 1..s :
    /\ k.nonce = x - 1 /\ k.ack = Wrap(First + g[x])
    /\ \/ \E n \in Nat \ {0} :
            /\ k.body = [data |-> n] /\ k.num = Number(n)
            /\ n <= f[x] /\ f[x] < n + Size
       \/ \E ring \in Seq(BOOLEAN) :
            /\ k.body = [missing |-> Encode(ring, MaxListed)]
            /\ k.num = Wrap(First + f[x])
            /\ \A i \in 1..Len(ring) : ring[i] => Has(r, given, g[x] + i)

\* The packets of a peer whose histories are f and g.
GoodPackets(f, g, s, r, given) == {k \in Packets : Good(k, f, g, s, r, given)}

\* What became of the packets that p sent.
History(p, f, g) ==
  LET q == Other(p)
  IN /\ Counter(f, sentNonce[p], 1) /\ Counter(g, sentNonce[p], Size)
     /\ f[sentNonce[p]] = accepted[p] /\ g[sentNonce[p]] <= Len(got[p])
     /\ Base(q) <= g[newest[q]] /\ Top(p) <= f[newest[q]]
     /\ net[q] \in Seq(GoodPackets(f, g, sentNonce[p], recv[p], Len(got[p])))

\* The inductive invariant.
IInv ==
  /\ TypeOK
  /\ \A p \in Peers : Direction(p) /\ NoncesOK(p)
  /\ \A p \in Peers : \E f, g : History(p, f, g)

\* There are two peers, each the other one of the other.
LEMMA TwoPeers ==
  \A p \in Peers : /\ Other(p) \in Peers /\ Other(p) # p
                   /\ Other(Other(p)) = p
                   /\ \A q \in Peers : q = p \/ q = Other(p)
<1>1. ASSUME NEW p \in Peers PROVE \E q : Peers \ {p} = {q}
  <2>1. IsFiniteSet(Peers \ {p}) /\ Cardinality(Peers \ {p}) = 1
    BY ConstantsAssumption, FS_RemoveElement
  <2> QED BY <2>1, FS_Singleton
<1>2. ASSUME NEW p \in Peers
      PROVE  /\ Other(p) \in Peers /\ Other(p) # p
             /\ \A q \in Peers : q = p \/ q = Other(p)
  <2>1. PICK q : Peers \ {p} = {q}
    BY <1>1
  <2> QED BY <2>1 DEF Other
<1> QED BY <1>2

\* The x-th packet, a message.
LEMMA GoodData ==
  ASSUME NEW f, NEW g, NEW s \in Nat, NEW r, NEW given,
         f \in [Nat -> Nat], g \in [Nat -> Nat], s < Nonces,
         NEW x \in 1..s, NEW nonce, nonce = x - 1, NEW n \in Nat \ {0}, NEW ack,
         ack = Wrap(First + g[x]), n <= f[x], f[x] < n + Size
  PROVE  [nonce |-> nonce, ack |-> ack, num |-> Number(n), body |-> [data |-> n]]
           \in GoodPackets(f, g, s, r, given)
<1> DEFINE k == [nonce |-> nonce, ack |-> ack, num |-> Number(n),
                 body |-> [data |-> n]]
<1>1. /\ k.nonce = x - 1 /\ k.ack = ack /\ k.num = Number(n)
      /\ k.body = [data |-> n]
  OBVIOUS
<1>2. ack \in 0..Numbers - 1 /\ Number(n) \in 0..Numbers - 1
  <2>1. PICK y \in Nat : y = g[x]
    OBVIOUS
  <2>2. First + y \in Int /\ First + (n - 1) \in Int
    BY Sizes
  <2> QED BY <2>1, <2>2, WrapFacts DEF Number
<1>3. nonce \in 0..Nonces - 1
  BY Constants
<1>4. k \in Packets
  BY <1>2, <1>3 DEF Packets
<1> HIDE DEF k
<1>5. Good(k, f, g, s, r, given)
  BY <1>1 DEF Good
<1>6. k \in GoodPackets(f, g, s, r, given)
  BY <1>4, <1>5 DEF GoodPackets
<1> QED BY <1>6 DEF k

\* The x-th packet, a request packet.
LEMMA GoodRequest ==
  ASSUME NEW f, NEW g, NEW s \in Nat, NEW r, NEW given,
         f \in [Nat -> Nat], g \in [Nat -> Nat], s < Nonces,
         NEW x \in 1..s, NEW nonce, nonce = x - 1,
         NEW ring \in Seq(BOOLEAN), NEW ack, NEW num,
         ack = Wrap(First + g[x]), num = Wrap(First + f[x]),
         \A i \in 1..Len(ring) : ring[i] => Has(r, given, g[x] + i)
  PROVE  [nonce |-> nonce, ack |-> ack, num |-> num,
          body |-> [missing |-> Encode(ring, MaxListed)]]
           \in GoodPackets(f, g, s, r, given)
<1> DEFINE bytes == Encode(ring, MaxListed)
           k == [nonce |-> nonce, ack |-> ack, num |-> num,
                 body |-> [missing |-> bytes]]
<1>1. /\ k.nonce = x - 1 /\ k.ack = ack /\ k.num = num
      /\ k.body = [missing |-> bytes]
  OBVIOUS
<1>2. ack \in 0..Numbers - 1 /\ num \in 0..Numbers - 1
  <2>1. PICK y \in Nat : y = g[x]
    OBVIOUS
  <2>2. PICK z \in Nat : z = f[x]
    OBVIOUS
  <2>3. First + y \in Int /\ First + z \in Int
    BY Sizes
  <2> QED BY <2>1, <2>2, <2>3, WrapFacts
<1>3. nonce \in 0..Nonces - 1
  BY Constants
<1>4. bytes \in Seq(Nat)
  BY Bytes, Sizes
<1> HIDE DEF bytes
<1>5. k \in Packets
  BY <1>2, <1>3, <1>4 DEF Packets
<1> HIDE DEF k
<1>6. Good(k, f, g, s, r, given)
  BY <1>1 DEF Good, bytes
<1>7. k \in GoodPackets(f, g, s, r, given)
  BY <1>5, <1>6 DEF GoodPackets
<1> QED BY <1>7 DEF k, bytes

\* A peer goes on: it sends more, and has what it had.
Onward(f, g, s, r, given, f2, g2, s2, r2, given2) ==
  /\ g \in [Nat -> Nat] /\ s \in Nat /\ s2 \in Nat /\ s <= s2
  /\ \A x \in 1..s : f2[x] = f[x] /\ g2[x] = g[x]
  /\ \A m \in Nat : Has(r, given, m) => Has(r2, given2, m)

\* Its packets stay what they are.
LEMMA GoodStays ==
  ASSUME NEW f, NEW g, NEW s, NEW r, NEW given,
         NEW f2, NEW g2, NEW s2, NEW r2, NEW given2,
         Onward(f, g, s, r, given, f2, g2, s2, r2, given2)
  PROVE  GoodPackets(f, g, s, r, given) \subseteq GoodPackets(f2, g2, s2, r2, given2)
<1>0. /\ g \in [Nat -> Nat] /\ s \in Nat /\ s2 \in Nat /\ s <= s2
      /\ \A x \in 1..s : f2[x] = f[x] /\ g2[x] = g[x]
      /\ \A m \in Nat : Has(r, given, m) => Has(r2, given2, m)
  BY DEF Onward
<1> SUFFICES ASSUME NEW k \in Packets, Good(k, f, g, s, r, given)
             PROVE  Good(k, f2, g2, s2, r2, given2)
  BY DEF GoodPackets
<1>1. PICK x \in 1..s :
        /\ k.nonce = x - 1 /\ k.ack = Wrap(First + g[x])
        /\ \/ \E n \in Nat \ {0} :
                /\ k.body = [data |-> n] /\ k.num = Number(n)
                /\ n <= f[x] /\ f[x] < n + Size
           \/ \E ring \in Seq(BOOLEAN) :
                /\ k.body = [missing |-> Encode(ring, MaxListed)]
                /\ k.num = Wrap(First + f[x])
                /\ \A i \in 1..Len(ring) : ring[i] => Has(r, given, g[x] + i)
  BY DEF Good
<1>2. x \in 1..s2 /\ f2[x] = f[x] /\ g2[x] = g[x]
  BY <1>0
<1>3. CASE \E n \in Nat \ {0} :
             /\ k.body = [data |-> n] /\ k.num = Number(n)
             /\ n <= f[x] /\ f[x] < n + Size
  BY <1>1, <1>2, <1>3 DEF Good
<1>4. ASSUME NEW ring \in Seq(BOOLEAN),
             k.body = [missing |-> Encode(ring, MaxListed)],
             k.num = Wrap(First + f[x]),
             \A i \in 1..Len(ring) : ring[i] => Has(r, given, g[x] + i)
      PROVE  Good(k, f2, g2, s2, r2, given2)
  <2>1. ASSUME NEW i \in 1..Len(ring), ring[i]
        PROVE  Has(r2, given2, g2[x] + i)
    <3>1. PICK y \in Nat : y = g[x]
      BY <1>0
    <3>2. y + i \in Nat
      OBVIOUS
    <3>3. Has(r, given, y + i)
      BY <3>1, <2>1, <1>4
    <3> QED BY <3>1, <3>2, <3>3, <1>0, <1>2
  <2> QED BY <2>1, <1>1, <1>2, <1>4 DEF Good
<1> QED BY <1>1, <1>3, <1>4

\* Sequences of more.
LEMMA SeqMore ==
  ASSUME NEW S, NEW T, S \subseteq T, NEW q \in Seq(S)
  PROVE  q \in Seq(T)
<1>1. Len(q) \in Nat /\ q \in [1..Len(q) -> S]
  OBVIOUS
<1>2. q \in [1..Len(q) -> T]
  BY <1>1
<1> QED BY <1>1, <1>2

\* An element is taken out.
LEMMA SeqLess ==
  ASSUME NEW S, NEW q \in Seq(S), NEW i \in DOMAIN q
  PROVE  q[i] \in S /\ RemoveAt(q, i) \in Seq(S)
<1>1. i \in 1..Len(q) /\ Len(q) \in Nat
  OBVIOUS
<1>2. SubSeq(q, 1, i - 1) \in Seq(S) /\ SubSeq(q, i + 1, Len(q)) \in Seq(S)
  BY <1>1
<1>3. SubSeq(q, 1, i - 1) \o SubSeq(q, i + 1, Len(q)) \in Seq(S)
  BY <1>2
<1> QED BY <1>1, <1>3 DEF RemoveAt

-----------------------------------------------------------------------------
(* A peer sends packets.                                                    *)

\* The numbers of two rings are those of a direction.
LEMMA RingsAre ==
  ASSUME NEW s, NEW r, NEW base, NEW given, NEW top, NEW all,
         Rings(s, r, base, given, top, all)
  PROVE  base = all - Count(s) /\ top = given + Count(r)
BY RingsTyped, RingsFacts

\* The numbers of a direction.
LEMMA DirectionFacts ==
  ASSUME NEW p, Direction(p)
  PROVE  /\ Base(p) \in Nat /\ Given(p) \in Nat /\ Top(p) \in Nat
         /\ accepted[p] \in Nat
         /\ Base(p) <= Given(p) /\ Given(p) <= Top(p) /\ Top(p) <= accepted[p]
         /\ accepted[p] <= Base(p) + Size
BY RingsTyped DEF Direction

\* The counter h goes on where g stands, at s, with l for n packets.
GoesOn(h, g, s, n, l, step) ==
  /\ s \in Nat /\ l \in Nat /\ Counter(h, s + n, step)
  /\ \A x \in 0..s : h[x] = g[x]
  /\ \A x \in s + 1..s + n : h[x] = l

\* A peer is not given more between two packets than the other one keeps.
LEMMA GivenCounts ==
  ASSUME IInv, NEW p \in Peers, NEW f, NEW g, History(p, f, g), NEW n \in Nat
  PROVE  GoesOn(Extended(g, sentNonce[p], Len(got[p])), g, sentNonce[p], n,
                Len(got[p]), Size)
<1> DEFINE s == sentNonce[p]
           q == Other(p)
           l == Len(got[p])
           g2 == Extended(g, s, l)
<1>1. q \in Peers /\ Other(q) = p
  BY TwoPeers
<1>2. /\ newest[q] \in Nat /\ s \in Nat /\ newest[q] <= s
  BY <1>1 DEF IInv, NoncesOK
<1>3. /\ Counter(g, s, Size) /\ g[s] <= l /\ Base(q) <= g[newest[q]]
  BY DEF History
<1>4. /\ Base(q) \in Nat /\ l \in Nat /\ accepted[q] \in Nat
      /\ l <= accepted[q] /\ accepted[q] <= Base(q) + Size
  <2>1. Given(q) = l
    BY <1>1 DEF Given
  <2> QED BY <2>1, <1>1, DirectionFacts DEF IInv
<1>5. g[newest[q]] \in Nat /\ g[s] \in Nat /\ g[newest[q]] <= g[s]
  <2>1. newest[q] \in 0..s /\ s \in 0..s /\ newest[q] <= s + 0
    BY <1>2
  <2> QED BY <2>1, <1>3, Sizes, CounterMoves
<1>6. l <= g[s] + Size
  BY <1>3, <1>4, <1>5, Sizes
<1> HIDE DEF s, l
<1>7. Counter(g2, s + n, Size)
  BY <1>2, <1>3, <1>4, <1>6, Sizes, CounterGoesOn
<1>8. /\ \A x \in 0..s : g2[x] = g[x]
      /\ \A x \in s + 1..s + n : g2[x] = l
  BY <1>2 DEF Extended
<1> QED BY <1>2, <1>4, <1>7, <1>8 DEF GoesOn, s, l

\* A peer that sends packets again has accepted what it had.
LEMMA AcceptedCounts ==
  ASSUME IInv, NEW p \in Peers, NEW f, NEW g, History(p, f, g), NEW n \in Nat
  PROVE  GoesOn(Extended(f, sentNonce[p], accepted[p]), f, sentNonce[p], n,
                accepted[p], 1)
<1> DEFINE s == sentNonce[p]
           a == accepted[p]
<1>1. s \in Nat /\ a \in Nat
  BY DirectionFacts DEF IInv, NoncesOK
<1>2. Counter(f, s, 1) /\ f[s] = a
  BY DEF History
<1> HIDE DEF s, a
<1>3. Counter(Extended(f, s, a), s + n, 1)
  <2>1. f[s] <= a /\ a <= f[s] + 1 /\ 1 \in Nat
    BY <1>1, <1>2
  <2> QED BY <2>1, <1>1, <1>2, CounterGoesOn
<1>4. /\ \A x \in 0..s : Extended(f, s, a)[x] = f[x]
      /\ \A x \in s + 1..s + n : Extended(f, s, a)[x] = a
  BY <1>1 DEF Extended
<1> QED BY <1>1, <1>3, <1>4 DEF GoesOn, s, a

\* The peer p, with the history f and g, sends n packets to q; afterwards the
\* history is f2 and g2.
SendStep(p, q, n, f, g, f2, g2) ==
  /\ n \in Nat \ {0} /\ sentNonce[p] + n <= MaxNonce[p]
  /\ Counter(f2, sentNonce[p] + n, 1)
  /\ \A x \in 0..sentNonce[p] : f2[x] = f[x]
  /\ f2[sentNonce[p] + n] = accepted'[p]
  /\ g2 = Extended(g, sentNonce[p], Len(got[p]))
  /\ UNCHANGED <<recv, got, newest, recvNonce>>
  /\ send'[q] = send[q] /\ accepted'[q] = accepted[q]
  /\ sentNonce'[q] = sentNonce[q] /\ net'[p] = net[p]
  /\ sentNonce'[p] = sentNonce[p] + n
  /\ Rings(send'[p], recv[q], Base(p), Given(p), Top(p), accepted'[p])
  /\ net'[q] \in Seq(GoodPackets(f2, g2, sentNonce[p] + n, recv[p],
                                 Len(got[p])))

\* What is in order stays so.
LEMMA SenderStep ==
  ASSUME IInv, NEW p \in Peers, NEW q, q = Other(p),
         NEW f, NEW g, History(p, f, g),
         NEW n, NEW f2, NEW g2, SendStep(p, q, n, f, g, f2, g2)
  PROVE  /\ \A r \in Peers : (Direction(r) /\ NoncesOK(r))'
         /\ \A r \in Peers : (\E u, v : History(r, u, v))'
<1> USE DEF SendStep
<1>1. /\ q \in Peers /\ Other(q) = p /\ q # p
      /\ \A r \in Peers : r = p \/ r = q
  BY TwoPeers
<1>2. Direction(p) /\ Direction(q) /\ NoncesOK(p) /\ NoncesOK(q)
  BY <1>1 DEF IInv
<1>3. /\ Base(p) = accepted'[p] - Count(send'[p])
      /\ Top(p) = Given(p) + Count(recv[q])
  BY RingsAre
<1>4. /\ Base(p)' = Base(p) /\ Given(p)' = Given(p) /\ Top(p)' = Top(p)
      /\ Base(q)' = Base(q) /\ Given(q)' = Given(q) /\ Top(q)' = Top(q)
  <2>1. Base(p)' = Base(p)
    BY <1>3 DEF Base
  <2>2. Base(q)' = Base(q)
    BY DEF Base
  <2>3. Given(p)' = Given(p) /\ Top(p)' = Top(p)
    BY DEF Given, Top
  <2>4. Given(q)' = Given(q) /\ Top(q)' = Top(q)
    BY DEF Given, Top
  <2> QED BY <2>1, <2>2, <2>3, <2>4
<1>5. Direction(p)' /\ Direction(q)'
  <2>1. recv'[q] = recv[q] /\ recv'[Other(q)] = recv[Other(q)]
    OBVIOUS
  <2>2. Direction(p)'
    BY <2>1, <1>4 DEF Direction
  <2>3. Direction(q)'
    BY <2>1, <1>2, <1>4 DEF Direction
  <2> QED BY <2>2, <2>3
<1>6. NoncesOK(p)' /\ NoncesOK(q)'
  BY <1>1, <1>2 DEF NoncesOK
<1>7. /\ Counter(g2, sentNonce[p] + n, Size)
      /\ \A x \in 0..sentNonce[p] : g2[x] = g[x]
      /\ \A x \in sentNonce[p] + 1..sentNonce[p] + n : g2[x] = Len(got[p])
      /\ sentNonce[p] \in Nat /\ Len(got[p]) \in Nat
  <2>1. n \in Nat
    OBVIOUS
  <2>2. GoesOn(g2, g, sentNonce[p], n, Len(got[p]), Size)
    BY <2>1, GivenCounts
  <2> QED BY <2>2 DEF GoesOn
<1>8. History(p, f2, g2)'
  <2>1. newest[q] \in 0..sentNonce[p]
    BY <1>1, <1>2, <1>7 DEF NoncesOK
  <2>2. f2[newest[q]] = f[newest[q]] /\ g2[newest[q]] = g[newest[q]]
    BY <2>1, <1>7
  <2>3. Base(q)' <= g2[newest'[q]] /\ Top(p)' <= f2[newest'[q]]
    BY <2>2, <1>4 DEF History
  <2>4. sentNonce[p] + n \in sentNonce[p] + 1..sentNonce[p] + n
    BY <1>7
  <2>5. g2[sentNonce[p] + n] <= Len(got'[p])
    BY <2>4, <1>7
  <2> QED BY <2>3, <2>5, <1>7 DEF History
<1>9. PICK u, v : History(q, u, v)
  BY <1>1 DEF IInv
<1>10. History(q, u, v)'
  BY <1>1, <1>4, <1>9 DEF History
<1> QED BY <1>1, <1>5, <1>6, <1>8, <1>10

\* The sum does not wrap around.
LEMMA NonceSum ==
  ASSUME NEW p \in Peers, NEW s \in Nat, s <= MaxNonce[p]
  PROVE  s % Nonces = s /\ s \in 0..Nonces - 1
<1>1. MaxNonce[p] + Window <= Nonces /\ MaxNonce[p] \in Nat
  BY ConstantsAssumption
<1>2. Window \in Nat \ {0} /\ Nonces \in Nat \ {0}
  BY Constants
<1>3. s \in 0..Nonces - 1
  BY <1>1, <1>2
<1> QED BY <1>2, <1>3

\* The peer p, with the history f and g, uses n nonces to send "out" to q,
\* and has then the send ring t and accepted a messages.
Sending(p, q, n, f, g, f2, g2, out, t, a) ==
  /\ n \in Nat \ {0} /\ sentNonce[p] + n <= MaxNonce[p]
  /\ Counter(f2, sentNonce[p] + n, 1)
  /\ \A x \in 0..sentNonce[p] : f2[x] = f[x]
  /\ a \in Nat /\ f2[sentNonce[p] + n] = a
  /\ g2 = Extended(g, sentNonce[p], Len(got[p]))
  /\ out \in Seq(GoodPackets(f2, g2, sentNonce[p] + n, recv[p], Len(got[p])))
  /\ t \in RingsOf(Sent) /\ Rings(t, recv[q], Base(p), Given(p), Top(p), a)
  /\ UNCHANGED <<recv, got, newest, recvNonce>>
  /\ send' = [send EXCEPT ![p] = t]
  /\ accepted' = [accepted EXCEPT ![p] = a]
  /\ sentNonce' = [sentNonce EXCEPT ![p] = (@ + n) % Nonces]
  /\ net' = [net EXCEPT ![q] = @ \o out]
  /\ lost' \in 0..MaxLost /\ speed' \in [Peers -> BOOLEAN]

\* All of the invariant.
LEMMA Sends ==
  ASSUME IInv, NEW p \in Peers, NEW q, q = Other(p),
         NEW f, NEW g, History(p, f, g),
         NEW n, NEW f2, NEW g2, NEW out, NEW t, NEW a,
         Sending(p, q, n, f, g, f2, g2, out, t, a)
  PROVE  IInv'
<1> USE DEF Sending
<1> DEFINE s == sentNonce[p]
           G == GoodPackets(f2, g2, s + n, recv[p], Len(got[p]))
<1>0. q \in Peers /\ Other(q) = p /\ q # p
  BY TwoPeers
<1>1. TypeOK
  BY DEF IInv
<1>2. GoesOn(g2, g, s, n, Len(got[p]), Size)
  <2>1. n \in Nat
    OBVIOUS
  <2> QED BY <2>1, GivenCounts
<1>3. s \in Nat /\ s + n \in Nat /\ (s + n) % Nonces = s + n
      /\ s + n \in 0..Nonces - 1
  <2>1. s \in Nat /\ s + n \in Nat
    BY <1>2 DEF GoesOn
  <2> QED BY <2>1, NonceSum
<1>4. G \subseteq Packets
  BY DEF GoodPackets
<1>5. net[q] \in Seq(G)
  <2>1. net[q] \in Seq(GoodPackets(f, g, s, recv[p], Len(got[p])))
    BY DEF History
  <2>2. GoodPackets(f, g, s, recv[p], Len(got[p])) \subseteq G
    <3>1. g \in [Nat -> Nat]
      BY DEF History, Counter
    <3>2. \A x \in 1..s : f2[x] = f[x] /\ g2[x] = g[x]
      BY <1>2, <1>3 DEF GoesOn
    <3>3. s \in Nat /\ s + n \in Nat /\ s <= s + n
      BY <1>2 DEF GoesOn
    <3> HIDE DEF s
    <3>4. Onward(f, g, s, recv[p], Len(got[p]), f2, g2, s + n, recv[p],
                 Len(got[p]))
      BY <3>1, <3>2, <3>3 DEF Onward
    <3> QED BY <3>4, GoodStays
  <2> HIDE DEF G
  <2> QED BY <2>1, <2>2, SeqMore
<1> HIDE DEF G
<1>6. out \in Seq(G)
  BY DEF G
<1>7. net[q] \o out \in Seq(G)
  BY <1>5, <1>6
<1>8. /\ net'[q] = net[q] \o out /\ net'[p] = net[p]
      /\ net' \in [Peers -> Seq(Packets)]
  <2>1. net \in [Peers -> Seq(Packets)]
    BY <1>1 DEF TypeOK
  <2>2. net[q] \o out \in Seq(Packets)
    BY <1>4, <1>7, SeqMore
  <2> QED BY <2>1, <2>2, <1>0
<1>9. /\ send'[p] = t /\ send'[q] = send[q]
      /\ send' \in [Peers -> RingsOf(Sent)]
  BY <1>0, <1>1 DEF TypeOK
<1>10. /\ accepted'[p] = a /\ accepted'[q] = accepted[q]
       /\ accepted' \in [Peers -> Nat]
  BY <1>0, <1>1 DEF TypeOK
<1>11. /\ sentNonce'[p] = s + n /\ sentNonce'[q] = sentNonce[q]
       /\ sentNonce' \in [Peers -> 0..Nonces - 1]
  BY <1>0, <1>1, <1>3 DEF TypeOK
<1>12. TypeOK'
  BY <1>1, <1>8, <1>9, <1>10, <1>11 DEF TypeOK, nonceVars
<1>13. /\ \A r \in Peers : (Direction(r) /\ NoncesOK(r))'
       /\ \A r \in Peers : (\E u, v : History(r, u, v))'
  <2>1. SendStep(p, q, n, f, g, f2, g2)
    BY <1>7, <1>8, <1>9, <1>10, <1>11 DEF SendStep, G
  <2> QED BY <2>1, SenderStep
<1> QED BY <1>12, <1>13 DEF IInv

\* The rings of a direction have the types of the variables.
LEMMA RingTyped ==
  /\ \A a, b, e : SendRing(a, b, e) => a \in RingsOf(Sent)
  /\ \A a, b, e : RecvRing(a, b, e) => a \in RingsOf(Nat)
<1>1. ASSUME NEW a, NEW b, NEW e, Ring(a, b, e)
      PROVE  /\ a.start \in 0..Numbers - 1 /\ a.end \in 0..Numbers - 1
             /\ a = [start |-> a.start, end |-> a.end, slot |-> a.slot]
  <2>1. First + b \in Int /\ First + e \in Int
    BY <1>1, Sizes DEF Ring
  <2>2. Wrap(First + b) \in 0..Numbers - 1 /\ Wrap(First + e) \in 0..Numbers - 1
    BY <2>1, WrapFacts
  <2> QED BY <1>1, <2>2 DEF Ring
<1>2. ASSUME NEW a, NEW b, NEW e, SendRing(a, b, e) PROVE a \in RingsOf(Sent)
  BY <1>1, <1>2 DEF SendRing, RingsOf
<1>3. ASSUME NEW a, NEW b, NEW e, RecvRing(a, b, e) PROVE a \in RingsOf(Nat)
  BY <1>1, <1>3 DEF RecvRing, RingsOf
<1> QED BY <1>2, <1>3

\* The newest packet, if it could not be sent.
LEMMA UnsentFacts ==
  ASSUME IInv, NEW p \in Peers, Unsent(p)
  PROVE  LET n == Wrap(send[p].end - 1)
             j == n % Size
         IN /\ accepted[p] > Base(p) /\ n = Number(accepted[p])
            /\ j \in 0..Size - 1 /\ send[p].slot[j] \in Sent
            /\ send[p].slot[j].msg = accepted[p]
<1> DEFINE s == send[p]
           n == Wrap(s.end - 1)
           a == accepted[p]
           b == Base(p)
<1>1. Direction(p)
  BY DEF IInv
<1>2. /\ a \in Nat /\ b \in Nat /\ b <= a /\ a <= b + Size
  BY <1>1, DirectionFacts
<1>3. /\ SendRing(s, b, a) /\ Count(s) = a - b
      /\ s.start = Wrap(First + b) /\ s.end = Wrap(First + a)
  BY <1>1, RingsFacts DEF Direction, Rings
<1>4. Wrap(n - s.start) < Count(s) /\ s.slot[n % Size] # Empty
  BY DEF Unsent, Holds
<1> HIDE DEF s, b, a
<1>5. n = Number(a)
  <2>1. PICK x \in Int : x = First + a
    BY <1>2, Sizes
  <2>2. Wrap(Wrap(x) + (0 - 1)) = Wrap(x + (0 - 1))
    BY WrapFacts
  <2>3. PICK w \in Int : w = Wrap(x)
    BY WrapType
  <2>4. w + (0 - 1) = w - 1 /\ x + (0 - 1) = First + (a - 1)
    BY <2>1, <1>2, Sizes
  <2> QED BY <2>1, <2>2, <2>3, <2>4, <1>3 DEF Number
<1> HIDE DEF n
<1>6. a > b
  <2> SUFFICES ASSUME a = b PROVE FALSE
    BY <1>2
  <2>1. n - s.start \in Int
    <3>1. First + b \in Int /\ First + (a - 1) \in Int
      BY <1>2, Sizes
    <3>2. n \in Int /\ s.start \in Int
      BY <3>1, <1>3, <1>5, WrapType DEF Number
    <3> QED BY <3>2
  <2>2. Wrap(n - s.start) \in Int /\ 0 <= Wrap(n - s.start)
    BY <2>1, WrapType
  <2> QED BY <2>2, <1>2, <1>3, <1>4
<1>7. PICK i \in 0..a - b - 1 : i = (a - b) - 1 /\ b + 1 + i = a
  BY <1>2, <1>6
<1>8. n % Size = Slot(a) /\ Slot(a) \in 0..Size - 1
  BY <1>2, <1>5, NumberSlot, Slots
<1>9. At(s, i) = Slot(a)
  BY <1>3, <1>7, RingPlace DEF SendRing
<1>10. s.slot[Slot(a)] \in Sent /\ s.slot[Slot(a)].msg = a
  BY <1>3, <1>4, <1>7, <1>8, <1>9, CopyOf
<1> QED BY <1>5, <1>6, <1>8, <1>10 DEF s, n, a, b

\* Sending it changes nothing of the rings but that it does not wait.
LEMMA ResentFacts ==
  ASSUME IInv, NEW p \in Peers
  PROVE  /\ Rings(Resent(p), recv[Other(p)], Base(p), Given(p), Top(p),
                  accepted[p])
         /\ Resent(p).end = send[p].end
<1> DEFINE s == send[p]
           t == Resent(p)
           j == Wrap(s.end - 1) % Size
<1>1. Rings(s, recv[Other(p)], Base(p), Given(p), Top(p), accepted[p])
  BY DEF IInv, Direction
<1>2. s \in [start : Int, end : Int, slot : [0..Size - 1 -> Sent \cup {Empty}]]
  BY <1>1 DEF Rings, SendRing, Ring
<1>3. CASE ~ Unsent(p)
  BY <1>1, <1>3 DEF Resent
<1>4. CASE Unsent(p)
  <2>1. /\ j \in 0..Size - 1 /\ s.slot[j] \in Sent
    BY <1>4, UnsentFacts
  <2>2. t = [s EXCEPT !.slot[j].wait = FALSE]
    BY <1>4 DEF Resent
  <2> HIDE DEF s, t, j
  <2>3. PICK c \in Sent : c = s.slot[j]
    BY <2>1
  <2>4. PICK d \in Sent : d = [c EXCEPT !.wait = FALSE] /\ d.msg = c.msg
    <3>1. /\ [c EXCEPT !.wait = FALSE] \in Sent
          /\ [c EXCEPT !.wait = FALSE].msg = c.msg
      BY DEF Sent
    <3> QED BY <3>1
  <2>5. t = [s EXCEPT !.slot = [s.slot EXCEPT ![j] = d]]
    BY <2>2, <2>3, <2>4
  <2>6. /\ t.start = s.start /\ t.end = s.end /\ t.slot = [s.slot EXCEPT ![j] = d]
        /\ t \in [start : Int, end : Int,
                  slot : [0..Size - 1 -> Sent \cup {Empty}]]
    BY <2>1, <2>5, <1>2
  <2>7. ASSUME NEW i \in 0..Size - 1
        PROVE  \/ t.slot[i] = s.slot[i]
               \/ /\ t.slot[i] # Empty /\ s.slot[i] # Empty
                  /\ t.slot[i].msg = s.slot[i].msg
    <3>1. s.slot \in [0..Size - 1 -> Sent \cup {Empty}]
      BY <1>2
    <3>2. CASE i = j
      BY <3>1, <3>2, <2>3, <2>4, <2>6, EmptyApart
    <3>3. CASE i # j
      BY <3>1, <3>3, <2>6
    <3> QED BY <3>2, <3>3
  <2>8. Rings(t, recv[Other(p)], Base(p), Given(p), Top(p), accepted[p])
    BY <2>6, <2>7, <1>1, RingsWait
  <2> QED BY <2>6, <2>8 DEF s, t
<1> QED BY <1>3, <1>4

\* The receiving ring of a peer.
LEMMA OwnRecv ==
  ASSUME IInv, NEW p \in Peers
  PROVE  /\ RecvRing(recv[p], Len(got[p]), Top(Other(p)))
         /\ recv[p].start = Wrap(First + Len(got[p]))
         /\ Top(Other(p)) <= Len(got[p]) + Size
         /\ Len(got[p]) \in Nat /\ Top(Other(p)) \in Nat
<1>1. Other(p) \in Peers /\ Other(Other(p)) = p
  BY TwoPeers
<1>2. Direction(Other(p)) /\ Given(Other(p)) = Len(got[p])
  BY <1>1 DEF IInv, Given
<1>3. RecvRing(recv[p], Len(got[p]), Top(Other(p)))
  BY <1>1, <1>2 DEF Direction, Rings
<1> QED BY <1>3 DEF RecvRing, Ring

\* The nonce of the k-th packet of a step, which uses n of them.
LEMMA NonceOf ==
  ASSUME IInv, NEW p \in Peers, NEW n \in Nat \ {0},
         sentNonce[p] + n <= MaxNonce[p], NEW k \in 0..n - 1, NEW num, NEW body
  PROVE  /\ Packet(p, k, num, body) =
              [nonce |-> sentNonce[p] + k, ack |-> recv[p].start,
               num |-> num, body |-> body]
         /\ sentNonce[p] \in Nat /\ sentNonce[p] + k + 1 \in 1..sentNonce[p] + n
         /\ sentNonce[p] + n \in Nat /\ sentNonce[p] + n < Nonces
<1> DEFINE s == sentNonce[p]
<1>1. s \in Nat
  BY DEF IInv, NoncesOK
<1> HIDE DEF s
<1>2. MaxNonce[p] \in Nat
  BY ConstantsAssumption
<1>3. s + k \in Nat /\ s + k <= MaxNonce[p] /\ s + n \in Nat
      /\ s + k + 1 \in 1..s + n
  BY <1>1, <1>2 DEF s
<1>4. (s + k) % Nonces = s + k
  BY <1>3, NonceSum
<1>5. s + n < Nonces
  <2>1. s + n <= MaxNonce[p]
    BY DEF s
  <2>2. s + n \in 0..Nonces - 1
    BY <1>3, <2>1, NonceSum
  <2>3. Nonces \in Nat
    BY Constants
  <2> QED BY <2>2, <2>3
<1> QED BY <1>1, <1>3, <1>4, <1>5 DEF Packet, s

\* The x-th packet tells how many messages the peer was given.
Tells(p, f2, g2, x) ==
  /\ f2 \in [Nat -> Nat] /\ g2 \in [Nat -> Nat] /\ g2[x] = Len(got[p])

\* A message that is sent.
LEMMA DataPacket ==
  ASSUME IInv, NEW p \in Peers, NEW n \in Nat \ {0},
         sentNonce[p] + n <= MaxNonce[p], NEW k \in 0..n - 1,
         NEW f2, NEW g2, Tells(p, f2, g2, sentNonce[p] + k + 1),
         NEW m \in Nat \ {0}, m <= f2[sentNonce[p] + k + 1],
         f2[sentNonce[p] + k + 1] < m + Size
  PROVE  Packet(p, k, Number(m), [data |-> m])
           \in GoodPackets(f2, g2, sentNonce[p] + n, recv[p], Len(got[p]))
<1>1. /\ Packet(p, k, Number(m), [data |-> m]) =
           [nonce |-> sentNonce[p] + k, ack |-> recv[p].start,
            num |-> Number(m), body |-> [data |-> m]]
      /\ sentNonce[p] \in Nat /\ sentNonce[p] + k + 1 \in 1..sentNonce[p] + n
      /\ sentNonce[p] + n \in Nat /\ sentNonce[p] + n < Nonces
  BY NonceOf
<1>2. PICK x \in 1..sentNonce[p] + n : x = sentNonce[p] + k + 1
  BY <1>1
<1>3. PICK nonce : nonce = sentNonce[p] + k
  OBVIOUS
<1>4. nonce = x - 1
  BY <1>1, <1>2, <1>3
<1>5. PICK ack : ack = recv[p].start /\ ack = Wrap(First + g2[x])
  BY <1>2, OwnRecv DEF Tells
<1>6. [nonce |-> nonce, ack |-> ack, num |-> Number(m), body |-> [data |-> m]]
        \in GoodPackets(f2, g2, sentNonce[p] + n, recv[p], Len(got[p]))
  <2>1. /\ f2 \in [Nat -> Nat] /\ g2 \in [Nat -> Nat]
        /\ m <= f2[x] /\ f2[x] < m + Size
    BY <1>2 DEF Tells
  <2> QED BY <1>1, <1>4, <1>5, <2>1, GoodData
<1> QED BY <1>1, <1>3, <1>5, <1>6

\* A request packet that is sent.
LEMMA RequestPacket ==
  ASSUME IInv, NEW p \in Peers, sentNonce[p] + 1 <= MaxNonce[p],
         NEW f2, NEW g2, Tells(p, f2, g2, sentNonce[p] + 1),
         f2[sentNonce[p] + 1] = accepted[p]
  PROVE  Packet(p, 0, send[p].end, [missing |-> Missing(recv[p])])
           \in GoodPackets(f2, g2, sentNonce[p] + 1, recv[p], Len(got[p]))
<1> DEFINE num == send[p].end
           ring == Held(recv[p])
<1>1. /\ Packet(p, 0, num, [missing |-> Missing(recv[p])]) =
           [nonce |-> sentNonce[p] + 0, ack |-> recv[p].start,
            num |-> num, body |-> [missing |-> Missing(recv[p])]]
      /\ sentNonce[p] \in Nat /\ sentNonce[p] + 0 + 1 \in 1..sentNonce[p] + 1
      /\ sentNonce[p] + 1 \in Nat /\ sentNonce[p] + 1 < Nonces
  <2>1. 1 \in Nat \ {0} /\ 0 \in 0..1 - 1
    OBVIOUS
  <2> QED BY <2>1, NonceOf
<1>2. PICK x \in 1..sentNonce[p] + 1 : x = sentNonce[p] + 1
  BY <1>1
<1>3. PICK nonce : nonce = sentNonce[p] + 0
  OBVIOUS
<1>4. nonce = x - 1
  BY <1>1, <1>2, <1>3
<1>5. PICK ack : ack = recv[p].start /\ ack = Wrap(First + g2[x])
  BY <1>2, OwnRecv DEF Tells
<1>6. num = Wrap(First + f2[x])
  BY <1>2, RingsFacts DEF IInv, Direction
<1>7. /\ ring \in Seq(BOOLEAN)
      /\ \A i \in 1..Len(ring) : ring[i] => Has(recv[p], Len(got[p]), g2[x] + i)
  <2> DEFINE l == Len(got[p])
             top == Top(Other(p))
  <2>1. /\ Ring(recv[p], l, top) /\ top <= l + Size /\ l \in Nat /\ top \in Nat
    BY OwnRecv DEF RecvRing
  <2> HIDE DEF l, top
  <2>2. /\ ring \in Seq(BOOLEAN) /\ Len(ring) = top - l
        /\ \A i \in 1..top - l : ring[i] = (Cell(recv[p], l + i) # Empty)
    BY <2>1, HeldFacts
  <2>3. ASSUME NEW i \in 1..top - l PROVE l + i <= l + Size
    BY <2>1, Sizes
  <2>4. g2[x] = l
    BY <1>2 DEF Tells, l
  <2> QED BY <2>2, <2>3, <2>4 DEF Has, l
<1> HIDE DEF num, ring
<1>8. [nonce |-> nonce, ack |-> ack, num |-> num,
       body |-> [missing |-> Encode(ring, MaxListed)]]
        \in GoodPackets(f2, g2, sentNonce[p] + 1, recv[p], Len(got[p]))
  <2>1. f2 \in [Nat -> Nat] /\ g2 \in [Nat -> Nat]
    BY DEF Tells
  <2> QED BY <1>1, <1>4, <1>5, <1>6, <1>7, <2>1, GoodRequest
<1>9. Missing(recv[p]) = Encode(ring, MaxListed)
  BY DEF Missing, ring
<1> QED BY <1>1, <1>3, <1>5, <1>8, <1>9 DEF num

\* What Transmit leaves to show.
LEMMA TransmitFacts ==
  ASSUME IInv, NEW p \in Peers, NEW n \in Nat \ {0}, NEW out,
         Len(out) \in Nat, Len(out) <= n, Transmit(p, n, out)
  PROVE  /\ sentNonce[p] + n <= MaxNonce[p]
         /\ sentNonce' = [sentNonce EXCEPT ![p] = (@ + n) % Nonces]
         /\ net' = [net EXCEPT ![Other(p)] = @ \o out]
         /\ lost' \in 0..MaxLost
<1>1. lost \in 0..MaxLost /\ MaxLost \in Nat
  BY ConstantsAssumption DEF IInv, TypeOK
<1>2. lost' \in 0..MaxLost
  BY <1>1 DEF Transmit
<1> QED BY <1>2 DEF Transmit

\* The histories of a peer that sends n packets and accepts nothing.
NowF(p, f) == Extended(f, sentNonce[p], accepted[p])
NowG(p, g) == Extended(g, sentNonce[p], Len(got[p]))

\* The packets of p after the n next ones, whose history is f2.
Outgoing(p, n, f2, g) ==
  Seq(GoodPackets(f2, NowG(p, g), sentNonce[p] + n, recv[p], Len(got[p])))

\* Every one of those packets tells how far p has sent: all that it accepted.
LEMMA NowFacts ==
  ASSUME IInv, NEW p \in Peers, NEW f, NEW g, History(p, f, g),
         NEW n \in Nat \ {0}, NEW k \in 0..n - 1
  PROVE  /\ Tells(p, NowF(p, f), NowG(p, g), sentNonce[p] + k + 1)
         /\ NowF(p, f)[sentNonce[p] + k + 1] = accepted[p]
         /\ NowF(p, f)[sentNonce[p] + n] = accepted[p]
         /\ Counter(NowF(p, f), sentNonce[p] + n, 1)
         /\ \A x \in 0..sentNonce[p] : NowF(p, f)[x] = f[x]
<1> DEFINE s == sentNonce[p]
<1>1. n \in Nat
  OBVIOUS
<1>2. GoesOn(NowF(p, f), f, s, n, accepted[p], 1)
  BY <1>1, AcceptedCounts DEF NowF
<1>3. GoesOn(NowG(p, g), g, s, n, Len(got[p]), Size)
  BY <1>1, GivenCounts DEF NowG
<1>4. s \in Nat /\ s + k + 1 \in s + 1..s + n /\ s + n \in s + 1..s + n
  BY <1>2 DEF GoesOn
<1>5. NowF(p, f) \in [Nat -> Nat] /\ NowG(p, g) \in [Nat -> Nat]
  BY <1>2, <1>3 DEF GoesOn, Counter
<1> QED BY <1>2, <1>3, <1>4, <1>5 DEF GoesOn, Tells

\* A message of the send ring that is sent again.
LEMMA CopyPacket ==
  ASSUME IInv, NEW p \in Peers, NEW f, NEW g, History(p, f, g),
         NEW n \in Nat \ {0}, sentNonce[p] + n <= MaxNonce[p],
         NEW k \in 0..n - 1, NEW m \in Base(p) + 1..accepted[p]
  PROVE  Packet(p, k, Number(m), [data |-> m])
           \in GoodPackets(NowF(p, f), NowG(p, g), sentNonce[p] + n, recv[p],
                           Len(got[p]))
<1> DEFINE f2 == NowF(p, f)
           g2 == NowG(p, g)
<1>1. Tells(p, f2, g2, sentNonce[p] + k + 1) /\ f2[sentNonce[p] + k + 1] = accepted[p]
  BY NowFacts
<1>2. Base(p) \in Nat /\ accepted[p] \in Nat /\ accepted[p] <= Base(p) + Size
  BY DirectionFacts DEF IInv
<1>3. m \in Nat \ {0} /\ m <= accepted[p] /\ accepted[p] < m + Size
  BY <1>2, Sizes
<1> HIDE DEF f2, g2
<1>4. m <= f2[sentNonce[p] + k + 1] /\ f2[sentNonce[p] + k + 1] < m + Size
  BY <1>1, <1>3
<1>5. Packet(p, k, Number(m), [data |-> m])
           \in GoodPackets(f2, g2, sentNonce[p] + n, recv[p], Len(got[p]))
  BY <1>1, <1>3, <1>4, DataPacket
<1> QED BY <1>5 DEF f2, g2

\* The peer p sends "out": no message is new.
SendingAgain(p, n, f, g, out, t) ==
  /\ n \in Nat \ {0} /\ sentNonce[p] + n <= MaxNonce[p]
  /\ out \in Outgoing(p, n, NowF(p, f), g)
  /\ Rings(t, recv[Other(p)], Base(p), Given(p), Top(p), accepted[p])
  /\ UNCHANGED <<recv, got, newest, recvNonce, accepted>>
  /\ send' = [send EXCEPT ![p] = t]
  /\ sentNonce' = [sentNonce EXCEPT ![p] = (@ + n) % Nonces]
  /\ net' = [net EXCEPT ![Other(p)] = @ \o out]
  /\ lost' \in 0..MaxLost /\ speed' \in [Peers -> BOOLEAN]

\* A peer that sends packets and accepts no message keeps the invariant.
LEMMA SendsAgain ==
  ASSUME IInv, NEW p \in Peers, NEW f, NEW g, History(p, f, g),
         NEW n, NEW out, NEW t, SendingAgain(p, n, f, g, out, t)
  PROVE  IInv'
<1> DEFINE q == Other(p)
           f2 == NowF(p, f)
           g2 == NowG(p, g)
<1>1. n \in Nat \ {0} /\ 0 \in 0..n - 1
  BY DEF SendingAgain
<1>2. /\ Counter(f2, sentNonce[p] + n, 1) /\ f2[sentNonce[p] + n] = accepted[p]
      /\ \A x \in 0..sentNonce[p] : f2[x] = f[x]
  BY <1>1, NowFacts
<1>3. accepted \in [Peers -> Nat]
  BY DEF IInv, TypeOK
<1>4. accepted' = [accepted EXCEPT ![p] = accepted[p]]
  BY <1>3 DEF SendingAgain
<1>5. t \in RingsOf(Sent)
  BY RingTyped DEF SendingAgain, Rings
<1>6. Sending(p, q, n, f, g, f2, g2, out, t, accepted[p])
  BY <1>2, <1>3, <1>4, <1>5 DEF SendingAgain, Sending, Outgoing, NowG
<1> QED BY <1>6, Sends

\* WriteBlocked sends nothing.
LEMMA WriteBlockedKeeps ==
  ASSUME IInv, NEW p \in Peers, WriteBlocked(p) PROVE IInv'
<1>1. PICK f, g : History(p, f, g)
  BY DEF IInv
<1>2. TypeOK /\ Direction(p) /\ Other(p) \in Peers
  BY TwoPeers DEF IInv
<1>3. net' = [net EXCEPT ![Other(p)] = @ \o << >>]
  <2>1. net \in [Peers -> Seq(Packets)]
    BY <1>2 DEF TypeOK
  <2>2. net[Other(p)] \o << >> = net[Other(p)]
    BY <2>1, <1>2
  <2>3. net = [net EXCEPT ![Other(p)] = net[Other(p)]]
    BY <2>1, <1>2
  <2> QED BY <2>2, <2>3 DEF WriteBlocked
<1>4. send' = [send EXCEPT ![p] = send[p]]
  BY <1>2 DEF TypeOK, WriteBlocked
<1>5. sentNonce[p] + 1 <= MaxNonce[p]
  BY ConstantsAssumption DEF WriteBlocked, IInv, NoncesOK
<1>6. << >> \in Outgoing(p, 1, NowF(p, f), g)
  BY DEF Outgoing
<1>7. /\ UNCHANGED <<recv, got, newest, recvNonce, accepted>>
      /\ lost' \in 0..MaxLost /\ speed' \in [Peers -> BOOLEAN]
      /\ sentNonce' = [sentNonce EXCEPT ![p] = (@ + 1) % Nonces]
  BY <1>2 DEF WriteBlocked, nonceVars, TypeOK
<1>8. Rings(send[p], recv[Other(p)], Base(p), Given(p), Top(p), accepted[p])
  BY <1>2 DEF Direction
<1>9. 1 \in Nat \ {0}
  OBVIOUS
<1>10. SendingAgain(p, 1, f, g, << >>, send[p])
  BY <1>3, <1>4, <1>5, <1>6, <1>7, <1>8, <1>9 DEF SendingAgain
<1> QED BY <1>1, <1>10, SendsAgain

\* The packet that had to wait.
LEMMA AgainPacket ==
  ASSUME IInv, NEW p \in Peers, NEW f, NEW g, History(p, f, g), Unsent(p),
         NEW n \in Nat \ {0}, sentNonce[p] + n <= MaxNonce[p]
  PROVE  /\ Again(p) = <<Packet(p, 0, Number(accepted[p]),
                                [data |-> accepted[p]])>>
         /\ accepted[p] \in Base(p) + 1..accepted[p]
<1>1. /\ accepted[p] > Base(p)
      /\ Wrap(send[p].end - 1) = Number(accepted[p])
      /\ send[p].slot[Wrap(send[p].end - 1) % Size].msg = accepted[p]
  BY UnsentFacts
<1>2. Base(p) \in Nat /\ accepted[p] \in Nat
  BY DirectionFacts DEF IInv
<1> QED BY <1>1, <1>2 DEF Again, Copy

\* WriteFull sends the packet that had to wait.
LEMMA WriteFullKeeps ==
  ASSUME IInv, NEW p \in Peers, WriteFull(p) PROVE IInv'
<1> DEFINE out == Again(p)
<1>1. PICK f, g : History(p, f, g)
  BY DEF IInv
<1>2. Unsent(p) /\ Transmit(p, 1, out)
  BY DEF WriteFull
<1>3. Len(out) \in Nat /\ Len(out) <= 1
  BY <1>2 DEF Again
<1>4. /\ sentNonce[p] + 1 <= MaxNonce[p]
      /\ sentNonce' = [sentNonce EXCEPT ![p] = (@ + 1) % Nonces]
      /\ net' = [net EXCEPT ![Other(p)] = @ \o out]
      /\ lost' \in 0..MaxLost
  <2> HIDE DEF out
  <2>1. 1 \in Nat \ {0}
    OBVIOUS
  <2> QED BY <2>1, <1>2, <1>3, TransmitFacts
<1>5. out \in Outgoing(p, 1, NowF(p, f), g)
  <2>1. 1 \in Nat \ {0} /\ 0 \in 0..1 - 1
    OBVIOUS
  <2>2. /\ out = <<Packet(p, 0, Number(accepted[p]), [data |-> accepted[p]])>>
        /\ accepted[p] \in Base(p) + 1..accepted[p]
    BY <2>1, <1>1, <1>2, <1>4, AgainPacket
  <2>3. Packet(p, 0, Number(accepted[p]), [data |-> accepted[p]])
          \in GoodPackets(NowF(p, f), NowG(p, g), sentNonce[p] + 1, recv[p],
                          Len(got[p]))
    BY <2>1, <2>2, <1>1, <1>4, CopyPacket
  <2> QED BY <2>2, <2>3 DEF Outgoing
<1>6. Rings(Resent(p), recv[Other(p)], Base(p), Given(p), Top(p), accepted[p])
  BY ResentFacts
<1>7. SendingAgain(p, 1, f, g, out, Resent(p))
  BY <1>4, <1>5, <1>6 DEF SendingAgain, WriteFull, nonceVars, IInv, TypeOK
<1> QED BY <1>1, <1>7, SendsAgain

\* SendRequest sends a request packet.
LEMMA SendRequestKeeps ==
  ASSUME IInv, NEW p \in Peers, SendRequest(p) PROVE IInv'
<1> DEFINE k == Packet(p, 0, send[p].end, [missing |-> Missing(recv[p])])
           out == <<k>>
<1>1. PICK f, g : History(p, f, g)
  BY DEF IInv
<1>2. Transmit(p, 1, out)
  BY DEF SendRequest
<1>3. Len(out) \in Nat /\ Len(out) <= 1
  OBVIOUS
<1>4. /\ sentNonce[p] + 1 <= MaxNonce[p]
      /\ sentNonce' = [sentNonce EXCEPT ![p] = (@ + 1) % Nonces]
      /\ net' = [net EXCEPT ![Other(p)] = @ \o out]
      /\ lost' \in 0..MaxLost
  <2> HIDE DEF out
  <2>1. 1 \in Nat \ {0}
    OBVIOUS
  <2> QED BY <2>1, <1>2, <1>3, TransmitFacts
<1>5. out \in Outgoing(p, 1, NowF(p, f), g)
  <2>1. 1 \in Nat \ {0} /\ 0 \in 0..1 - 1
    OBVIOUS
  <2>2. /\ Tells(p, NowF(p, f), NowG(p, g), sentNonce[p] + 0 + 1)
        /\ NowF(p, f)[sentNonce[p] + 0 + 1] = accepted[p]
    BY <2>1, <1>1, NowFacts
  <2>3. sentNonce[p] + 0 + 1 = sentNonce[p] + 1
    BY DEF IInv, NoncesOK
  <2>4. k \in GoodPackets(NowF(p, f), NowG(p, g), sentNonce[p] + 1, recv[p],
                          Len(got[p]))
    BY <2>2, <2>3, <1>4, RequestPacket
  <2> HIDE DEF k
  <2> QED BY <2>4 DEF Outgoing
<1>6. Rings(send[p], recv[Other(p)], Base(p), Given(p), Top(p), accepted[p])
  BY DEF IInv, Direction
<1>7. send' = [send EXCEPT ![p] = send[p]]
  BY DEF IInv, TypeOK, SendRequest
<1> HIDE DEF out
<1>8. /\ UNCHANGED <<recv, got, newest, recvNonce, accepted>>
      /\ speed' \in [Peers -> BOOLEAN] /\ 1 \in Nat \ {0}
  BY DEF SendRequest, nonceVars, IInv, TypeOK
<1>9. SendingAgain(p, 1, f, g, out, send[p])
  BY <1>4, <1>5, <1>6, <1>7, <1>8 DEF SendingAgain
<1> QED BY <1>1, <1>9, SendsAgain

\* SendRequested sends messages of the ring again.
LEMMA SendRequestedKeeps ==
  ASSUME IInv, NEW p \in Peers, NEW n \in 1..Size, SendRequested(p, n)
  PROVE  IInv'
<1> DEFINE s == send[p]
           b == Base(p)
           a == accepted[p]
<1>1. PICK f, g : History(p, f, g)
  BY DEF IInv
<1>2. PICK places \in [1..n -> Waiting(p)] :
        /\ Transmit(p, n, [k \in 1..n |-> Copy(p, k - 1, Wrap(s.start + places[k]))])
        /\ send' = [send EXCEPT ![p].slot = [j \in DOMAIN @ |->
                     IF \E k \in 1..n : At(s, places[k]) = j
                     THEN [@[j] EXCEPT !.wait = FALSE] ELSE @[j]]]
  BY DEF SendRequested
<1> DEFINE out == [k \in 1..n |-> Copy(p, k - 1, Wrap(s.start + places[k]))]
           t == [s EXCEPT !.slot = [j \in DOMAIN @ |->
                     IF \E k \in 1..n : At(s, places[k]) = j
                     THEN [@[j] EXCEPT !.wait = FALSE] ELSE @[j]]]
<1>3. n \in Nat \ {0}
  BY Sizes
<1>4. out \in Seq({out[k] : k \in 1..n}) /\ Len(out) = n
  BY <1>3
<1>5. /\ sentNonce[p] + n <= MaxNonce[p]
      /\ sentNonce' = [sentNonce EXCEPT ![p] = (@ + n) % Nonces]
      /\ net' = [net EXCEPT ![Other(p)] = @ \o out]
      /\ lost' \in 0..MaxLost
  <2>1. Transmit(p, n, out)
    BY <1>2
  <2>2. Len(out) \in Nat /\ Len(out) <= n
    BY <1>3, <1>4
  <2> HIDE DEF out
  <2> QED BY <2>1, <2>2, <1>3, TransmitFacts
<1>6. /\ SendRing(s, b, a) /\ Count(s) = a - b /\ a \in Nat /\ b \in Nat
      /\ Rings(s, recv[Other(p)], Base(p), Given(p), Top(p), accepted[p])
  <2>1. Rings(s, recv[Other(p)], Base(p), Given(p), Top(p), accepted[p])
    BY DEF IInv, Direction
  <2> QED BY <2>1, RingsFacts, RingsTyped DEF Rings
<1>7. ASSUME NEW k \in 1..n
      PROVE  LET i == places[k]
             IN /\ i \in 0..a - b - 1 /\ s.slot[At(s, i)] \in Sent
                /\ Copy(p, k - 1, Wrap(s.start + i)) =
                     Packet(p, k - 1, Number(b + 1 + i), [data |-> b + 1 + i])
  <2> DEFINE i == places[k]
  <2>1. i \in 0..a - b - 1 /\ s.slot[At(s, i)] # Empty
    BY <1>6 DEF Waiting
  <2> HIDE DEF i, s, b, a
  <2>2. /\ Wrap(s.start + i) = Number(b + 1 + i)
        /\ Number(b + 1 + i) % Size = At(s, i)
        /\ s.slot[At(s, i)] \in Sent
        /\ s.slot[At(s, i)].msg = b + 1 + i
    BY <2>1, <1>6, CopyOf
  <2> QED BY <2>1, <2>2 DEF Copy, i, s
<1>8. out \in Outgoing(p, n, NowF(p, f), g)
  <2> DEFINE G == GoodPackets(NowF(p, f), NowG(p, g), sentNonce[p] + n, recv[p],
                              Len(got[p]))
  <2>1. ASSUME NEW k \in 1..n PROVE out[k] \in G
    <3>1. PICK i \in 0..a - b - 1 :
            out[k] = Packet(p, k - 1, Number(b + 1 + i), [data |-> b + 1 + i])
      BY <1>7
    <3>2. PICK m \in b + 1..a : m = b + 1 + i
      BY <1>6
    <3>3. PICK l \in 0..n - 1 : l = k - 1
      BY <1>3
    <3> HIDE DEF out
    <3>4. Packet(p, l, Number(m), [data |-> m]) \in G
      BY <1>1, <1>3, <1>5, CopyPacket
    <3> QED BY <3>1, <3>2, <3>3, <3>4
  <2> HIDE DEF G
  <2>2. [k \in 1..n |-> Copy(p, k - 1, Wrap(s.start + places[k]))] \in [1..n -> G]
    BY <2>1
  <2>3. out \in Seq(G)
    BY <2>2, <1>3
  <2> QED BY <2>3 DEF Outgoing, G
<1>9. Rings(t, recv[Other(p)], Base(p), Given(p), Top(p), accepted[p])
  <2>1. s \in [start : Int, end : Int, slot : [0..Size - 1 -> Sent \cup {Empty}]]
    BY <1>6 DEF SendRing, Ring
  <2> DEFINE spot(j) == IF \E k \in 1..n : At(s, places[k]) = j
                        THEN [s.slot[j] EXCEPT !.wait = FALSE] ELSE s.slot[j]
             w == [j \in 0..Size - 1 |-> spot(j)]
  <2>2. /\ t.start = s.start /\ t.end = s.end /\ t.slot = w
        /\ t = [start |-> s.start, end |-> s.end, slot |-> w]
    <3>1. DOMAIN s.slot = 0..Size - 1
      BY <2>1
    <3>2. t = [s EXCEPT !.slot = w]
      BY <3>1
    <3> HIDE DEF t, w
    <3> QED BY <3>2, <2>1
  <2>3. ASSUME NEW j \in 0..Size - 1, NEW k \in 1..n, At(s, places[k]) = j
        PROVE  /\ [s.slot[j] EXCEPT !.wait = FALSE] \in Sent
               /\ [s.slot[j] EXCEPT !.wait = FALSE].msg = s.slot[j].msg
               /\ s.slot[j] # Empty
    <3>1. s.slot[j] \in Sent
      BY <1>7, <2>3
    <3>2. PICK c \in Sent : c = s.slot[j]
      BY <3>1
    <3>3. /\ [c EXCEPT !.wait = FALSE] \in Sent
          /\ [c EXCEPT !.wait = FALSE].msg = c.msg
      BY DEF Sent
    <3> QED BY <3>2, <3>3, EmptyApart
  <2> HIDE DEF t, s
  <2>4. w \in [0..Size - 1 -> Sent \cup {Empty}]
    <3>1. ASSUME NEW j \in 0..Size - 1 PROVE spot(j) \in Sent \cup {Empty}
      <4>1. CASE \E k \in 1..n : At(s, places[k]) = j
        BY <4>1, <2>3
      <4>2. CASE ~ \E k \in 1..n : At(s, places[k]) = j
        BY <4>2, <2>1
      <4> QED BY <4>1, <4>2
    <3> HIDE DEF spot
    <3> QED BY <3>1
  <2>5. t \in [start : Int, end : Int, slot : [0..Size - 1 -> Sent \cup {Empty}]]
    BY <2>1, <2>2, <2>4
  <2>6. ASSUME NEW j \in 0..Size - 1
        PROVE  \/ t.slot[j] = s.slot[j]
               \/ /\ t.slot[j] # Empty /\ s.slot[j] # Empty
                  /\ t.slot[j].msg = s.slot[j].msg
    BY <2>2, <2>3, EmptyApart
  <2> HIDE DEF w
  <2>7. t.start = s.start /\ t.end = s.end
    BY <2>2
  <2> QED BY <2>5, <2>6, <2>7, <1>6, RingsWait
<1>10. send' = [send EXCEPT ![p] = t]
  BY <1>2
<1>11. /\ UNCHANGED <<recv, got, newest, recvNonce, accepted>>
       /\ speed' \in [Peers -> BOOLEAN]
  BY DEF SendRequested, nonceVars, IInv, TypeOK
<1> HIDE DEF out, t
<1>12. SendingAgain(p, n, f, g, out, t)
  BY <1>3, <1>5, <1>8, <1>9, <1>10, <1>11 DEF SendingAgain
<1> QED BY <1>1, <1>12, SendsAgain

\* The history of a peer that sends c packets and then a new message.
NewF(p, f, c) == Extended(NowF(p, f), sentNonce[p] + c, accepted[p] + 1)

\* Before the new message p tells of its old messages, with it of one more.
LEMMA NewFacts ==
  ASSUME IInv, NEW p \in Peers, NEW f, NEW g, History(p, f, g), NEW c \in {0, 1}
  PROVE  LET s == sentNonce[p]
             f2 == NewF(p, f, c)
         IN /\ Counter(f2, s + c + 1, 1) /\ f2[s + c + 1] = accepted[p] + 1
            /\ \A x \in 0..s : f2[x] = f[x]
            /\ c = 1 => f2[s + 1] = accepted[p]
            /\ Tells(p, f2, NowG(p, g), s + 1)
            /\ Tells(p, f2, NowG(p, g), s + c + 1)
<1> DEFINE s == sentNonce[p]
           a == accepted[p]
           f1 == NowF(p, f)
           f2 == NewF(p, f, c)
           g2 == NowG(p, g)
<1>1. GoesOn(f1, f, s, c, a, 1)
  <2>1. c \in Nat
    OBVIOUS
  <2> QED BY <2>1, AcceptedCounts DEF NowF
<1>2. GoesOn(g2, g, s, c + 1, Len(got[p]), Size)
  <2>1. c + 1 \in Nat
    OBVIOUS
  <2> QED BY <2>1, GivenCounts DEF NowG
<1>3. f[s] = a
  BY DEF History
<1> HIDE DEF s, a, f1, f2, g2
<1>4. /\ s \in Nat /\ a \in Nat /\ Counter(f1, s + c, 1)
      /\ \A x \in 0..s : f1[x] = f[x]
      /\ \A x \in s + 1..s + c : f1[x] = a
  BY <1>1 DEF GoesOn
<1>5. f1[s + c] = a
  <2>1. CASE c = 0
    BY <2>1, <1>3, <1>4
  <2>2. CASE c = 1
    BY <2>2, <1>4
  <2> QED BY <2>1, <2>2
<1>6. f2 = Extended(f1, s + c, a + 1)
  BY DEF f2, NewF, s, a, f1
<1>7. Counter(f2, s + c + 1, 1)
  <2>1. /\ f1[s + c] <= a + 1 /\ a + 1 <= f1[s + c] + 1 /\ 1 \in Nat
        /\ a + 1 \in Nat
    BY <1>4, <1>5
  <2> QED BY <2>1, <1>4, <1>6, CounterGoesOn
<1>8. /\ \A x \in 0..s : f2[x] = f1[x]
      /\ c = 1 => f2[s + 1] = f1[s + 1]
      /\ f2[s + c + 1] = a + 1
  BY <1>4, <1>6 DEF Extended
<1>9. c = 1 => f1[s + 1] = a
  BY <1>4
<1>10. f2 \in [Nat -> Nat]
  BY <1>7 DEF Counter
<1>11. /\ g2 \in [Nat -> Nat] /\ g2[s + 1] = Len(got[p])
       /\ g2[s + c + 1] = Len(got[p])
  BY <1>2 DEF GoesOn, Counter
<1> QED BY <1>4, <1>7, <1>8, <1>9, <1>10, <1>11 DEF Tells, s, a, f2, g2

\* Sequences that are joined.
LEMMA SeqJoin ==
  ASSUME NEW S, NEW a \in Seq(S), NEW b \in Seq(S)
  PROVE  /\ a \o b \in Seq(S) /\ Len(a \o b) = Len(a) + Len(b)
         /\ << >> \in Seq(S) /\ a \o << >> = a /\ Len(a) \in Nat
  OBVIOUS

\* A sequence of one element.
LEMMA SeqOne ==
  ASSUME NEW S, NEW x \in S
  PROVE  <<x>> \in Seq(S) /\ Len(<<x>>) = 1 /\ <<x>>[1] = x
  OBVIOUS

\* Write accepts a message and sends the packet that had to wait first.
LEMMA WriteKeeps ==
  ASSUME IInv, NEW p \in Peers, NEW leaves \in BOOLEAN, Write(p, leaves)
  PROVE  IInv'
<1> DEFINE q == Other(p)
           s == sentNonce[p]
           a == accepted[p]
           m == accepted[p] + 1
           again == Again(p)
           c == Len(again)
           n == send[p].end
           new == <<Packet(p, c, n, [data |-> m])>>
           out == again \o (IF leaves THEN new ELSE << >>)
           t == [Resent(p) EXCEPT !.slot[n % Size] = [msg |-> m, wait |-> ~ leaves],
                                  !.end = Wrap(n + 1)]
<1>1. PICK f, g : History(p, f, g)
  BY DEF IInv
<1>2. /\ Count(send[p]) < Size /\ send' = [send EXCEPT ![p] = t]
      /\ Transmit(p, c + 1, out) /\ accepted' = [accepted EXCEPT ![p] = m]
      /\ speed' = [speed EXCEPT ![p] = ~ leaves]
      /\ UNCHANGED <<recv, got, newest, recvNonce>>
  <2>1. accepted' = [accepted EXCEPT ![p] = m]
    BY DEF Write
  <2> QED BY <2>1 DEF Write, nonceVars
<1>3. /\ c \in {0, 1}
      /\ c = 0 => again = << >>
      /\ c = 1 => Unsent(p)
      /\ again \in Seq({again[1]})
  <2>1. CASE Unsent(p)
    <3> DEFINE k == Copy(p, 0, Wrap(send[p].end - 1))
    <3>1. again = <<k>>
      BY <2>1 DEF Again
    <3> HIDE DEF k, again
    <3>2. again[1] = k
      BY <3>1
    <3> QED BY <3>1, <3>2, <2>1, SeqOne
  <2>2. CASE ~ Unsent(p)
    <3>1. again = << >>
      BY <2>2 DEF Again
    <3> HIDE DEF again
    <3> QED BY <3>1
  <2> QED BY <2>1, <2>2
<1>4. c + 1 \in Nat \ {0} /\ c \in 0..(c + 1) - 1
  BY <1>3
<1>5. Len(out) \in Nat /\ Len(out) <= c + 1
  <2>1. CASE leaves
    <3>1. out = again \o new
      BY <2>1
    <3>2. new \in Seq({new[1]}) /\ Len(new) = 1
      OBVIOUS
    <3> HIDE DEF new, again, out
    <3>3. Len(again \o new) = c + 1
      <4>1. again \in Seq({again[1], new[1]}) /\ new \in Seq({again[1], new[1]})
        BY <1>3, <3>2
      <4>2. Len(again \o new) = Len(again) + Len(new)
        BY <4>1, SeqJoin
      <4> QED BY <4>2, <3>2
    <3> QED BY <3>1, <3>3, <1>3
  <2>2. CASE ~ leaves
    <3>1. out = again \o << >>
      BY <2>2
    <3> HIDE DEF again, out
    <3>2. again \o << >> = again
      BY <1>3
    <3> QED BY <3>1, <3>2, <1>3
  <2> QED BY <2>1, <2>2
<1>6. /\ s + (c + 1) <= MaxNonce[p]
      /\ sentNonce' = [sentNonce EXCEPT ![p] = (@ + (c + 1)) % Nonces]
      /\ net' = [net EXCEPT ![q] = @ \o out]
      /\ lost' \in 0..MaxLost
  <2> HIDE DEF out, again
  <2> QED BY <1>2, <1>4, <1>5, TransmitFacts
<1> DEFINE f2 == NewF(p, f, c)
           g2 == NowG(p, g)
           G == GoodPackets(f2, g2, s + (c + 1), recv[p], Len(got[p]))
<1>7. /\ Rings(Resent(p), recv[q], Base(p), Given(p), Top(p), a)
      /\ Resent(p).end = n
  BY ResentFacts
<1>8. /\ a \in Nat /\ Base(p) \in Nat /\ a < Base(p) + Size
      /\ n = Wrap(First + a) /\ s \in Nat
  <2>1. Rings(send[p], recv[q], Base(p), Given(p), Top(p), a)
    BY DEF IInv, Direction
  <2>2. /\ a \in Nat /\ Base(p) \in Nat /\ Count(send[p]) = a - Base(p)
        /\ n = Wrap(First + a)
    BY <2>1, RingsTyped, RingsFacts
  <2> QED BY <2>2, <1>2, Sizes DEF IInv, NoncesOK
<1>9. /\ Counter(f2, s + c + 1, 1) /\ f2[s + c + 1] = m
      /\ \A x \in 0..s : f2[x] = f[x]
      /\ c = 1 => f2[s + 1] = a
      /\ Tells(p, f2, g2, s + 1) /\ Tells(p, f2, g2, s + c + 1)
  <2>1. c \in {0, 1}
    BY <1>3
  <2> HIDE DEF again, c
  <2>2. Counter(f2, s + c + 1, 1) /\ f2[s + c + 1] = m
    BY <1>1, <2>1, NewFacts
  <2>3. (\A x \in 0..s : f2[x] = f[x]) /\ (c = 1 => f2[s + 1] = a)
    BY <1>1, <2>1, NewFacts
  <2>4. Tells(p, f2, g2, s + 1) /\ Tells(p, f2, g2, s + c + 1)
    BY <1>1, <2>1, NewFacts
  <2> HIDE DEF f2, g2, m, a, s
  <2> QED BY <2>2, <2>3, <2>4
<1>10. again \in Seq(G)
  <2>1. CASE c = 0
    <3> HIDE DEF again
    <3> QED BY <2>1, <1>3
  <2>2. CASE c = 1
    <3> DEFINE k == Packet(p, 0, Number(a), [data |-> a])
    <3>1. again = <<k>> /\ a \in Base(p) + 1..a
      <4> HIDE DEF again
      <4>1. again = Again(p)
        BY DEF again
      <4> QED BY <4>1, <2>2, <1>1, <1>3, <1>4, <1>6, AgainPacket
    <3>2. a \in Nat \ {0} /\ a < a + Size
      BY <3>1, <1>8, Sizes
    <3>3. c + 1 = 2 /\ 0 \in 0..(c + 1) - 1 /\ s + 0 + 1 = s + 1
      BY <2>2, <1>8
    <3> HIDE DEF again, s, a, f2, g2
    <3>4. Tells(p, f2, g2, s + 0 + 1) /\ a <= f2[s + 0 + 1] /\ f2[s + 0 + 1] < a + Size
      BY <3>2, <3>3, <1>9, <2>2
    <3>5. k \in G
      BY <3>2, <3>3, <3>4, <1>4, <1>6, DataPacket DEF s
    <3> HIDE DEF k, G
    <3> QED BY <3>1, <3>5
  <2> QED BY <2>1, <2>2, <1>3
<1>11. out \in Seq(G)
  <2>1. new[1] \in G /\ new = <<new[1]>>
    <3>1. n = Number(m) /\ m \in Nat \ {0} /\ m < m + Size
      <4>1. First + (m - 1) = First + a
        BY <1>8, Sizes
      <4> QED BY <4>1, <1>8, Sizes DEF Number
    <3> HIDE DEF again
    <3> DEFINE k == Packet(p, c, Number(m), [data |-> m])
    <3>2. new = <<k>>
      BY <3>1
    <3> HIDE DEF s, m, f2, g2
    <3>3. m <= f2[s + c + 1] /\ f2[s + c + 1] < m + Size
      BY <3>1, <1>9
    <3>4. k \in G
      BY <3>1, <3>3, <1>4, <1>6, <1>9, DataPacket DEF s
    <3> HIDE DEF k, new, G
    <3> QED BY <3>2, <3>4
  <2>2. out = again \o new \/ out = again \o << >>
    BY DEF out
  <2> HIDE DEF out, again, new, G
  <2>3. new \in Seq(G)
    BY <2>1, SeqOne
  <2>4. again \o new \in Seq(G) /\ again \o << >> \in Seq(G)
    <3>1. again \o << >> = again
      BY <1>10, SeqJoin
    <3> QED BY <3>1, <2>3, <1>10, SeqJoin
  <2> QED BY <2>2, <2>4
<1>12. Rings(t, recv[q], Base(p), Given(p), Top(p), m) /\ t \in RingsOf(Sent)
  <2> DEFINE r == Resent(p)
             u == [r EXCEPT !.slot[r.end % Size] = [msg |-> a + 1, wait |-> ~ leaves],
                            !.end = Wrap(r.end + 1)]
  <2>1. t = u
    <3> HIDE DEF r
    <3>1. r.end = n
      BY <1>7 DEF r
    <3> QED BY <3>1 DEF r
  <2> HIDE DEF a, r
  <2>2. (~ leaves) \in BOOLEAN
    OBVIOUS
  <2>3. Rings(u, recv[q], Base(p), Given(p), Top(p), a + 1)
    BY <2>2, <1>7, <1>8, RingsAccept DEF r
  <2>4. u \in RingsOf(Sent)
    BY <2>3, RingTyped DEF Rings
  <2> QED BY <2>1, <2>3, <2>4 DEF a
<1>13. speed' \in [Peers -> BOOLEAN]
  BY <1>2 DEF IInv, TypeOK
<1>14. m \in Nat /\ s + (c + 1) = s + c + 1
  BY <1>3, <1>8
<1> HIDE DEF t, out, again, s, m, a, G
<1>15. Sending(p, q, c + 1, f, g, f2, g2, out, t, m)
  <2>1. out \in Seq(GoodPackets(f2, g2, sentNonce[p] + (c + 1), recv[p],
                                Len(got[p])))
    BY <1>11 DEF G, s
  <2> HIDE DEF f2
  <2> QED BY <2>1, <1>2, <1>4, <1>6, <1>9, <1>12, <1>13, <1>14
          DEF Sending, NowG, s
<1> QED BY <1>1, <1>15, Sends

-----------------------------------------------------------------------------
(* A packet is lost, or arrives.                                            *)

\* The peer q, to which the other one sends with the history f and g, has then
\* the rings s and r, was given l, and knows of the nonces R and N; the packets
\* o are on their way to it.
Arriving(q, f, g, s, r, l, R, N, o, base, top) ==
  LET p == Other(q)
  IN /\ Rings(send[p], r, Base(p), Len(l), top, accepted[p])
     /\ Rings(s, recv[p], base, Given(q), Top(q), accepted[q])
     /\ l \in Seq(Nat) /\ Len(got[q]) <= Len(l)
     /\ \A m \in Nat : Has(recv[q], Len(got[q]), m) => Has(r, Len(l), m)
     /\ base <= g[N] /\ top <= f[N]
     /\ R \in Nat /\ N \in Nat /\ R <= N /\ N <= R + 2 * Threshold + 1
     /\ N <= sentNonce[p]
     /\ o \in Seq(GoodPackets(f, g, sentNonce[p], recv[p], Len(got[p])))
     /\ send' = [send EXCEPT ![q] = s] /\ recv' = [recv EXCEPT ![q] = r]
     /\ got' = [got EXCEPT ![q] = l]
     /\ recvNonce' = [recvNonce EXCEPT ![q] = R]
     /\ newest' = [newest EXCEPT ![q] = N]
     /\ net' = [net EXCEPT ![q] = o]
     /\ UNCHANGED <<sentNonce, speed, accepted>> /\ lost' \in 0..MaxLost

\* What q sent stays true when q has more.
LEMMA HistoryStays ==
  ASSUME IInv, NEW q \in Peers, NEW u, NEW v, History(q, u, v),
         NEW r, NEW given \in Nat, Len(got[q]) <= given,
         \A m \in Nat : Has(recv[q], Len(got[q]), m) => Has(r, given, m)
  PROVE  /\ net[Other(q)] \in Seq(GoodPackets(u, v, sentNonce[q], r, given))
         /\ v[sentNonce[q]] <= given
<1> DEFINE G == GoodPackets(u, v, sentNonce[q], recv[q], Len(got[q]))
           H == GoodPackets(u, v, sentNonce[q], r, given)
<1>1. /\ v[sentNonce[q]] <= Len(got[q]) /\ v \in [Nat -> Nat]
      /\ net[Other(q)] \in Seq(G)
  BY DEF History, Counter
<1>2. sentNonce[q] \in Nat /\ sentNonce[q] <= sentNonce[q]
  BY DEF IInv, NoncesOK
<1>3. Onward(u, v, sentNonce[q], recv[q], Len(got[q]), u, v, sentNonce[q], r, given)
  <2>1. v \in [Nat -> Nat]
    BY <1>1
  <2> QED BY <2>1, <1>2 DEF Onward
<1>4. G \subseteq H
  BY <1>3, GoodStays
<1> HIDE DEF G, H
<1>5. net[Other(q)] \in Seq(H)
  BY <1>1, <1>4, SeqMore
<1>6. v[sentNonce[q]] <= given
  <2>1. PICK a \in Nat : a = v[sentNonce[q]]
    BY <1>1, <1>2
  <2>2. PICK b \in Nat : b = Len(got[q])
    BY OwnRecv
  <2>3. a <= b /\ b <= given
    BY <2>1, <2>2, <1>1
  <2>4. a <= given
    BY <2>3
  <2> QED BY <2>1, <2>4
<1> QED BY <1>5, <1>6 DEF H

\* A packet that arrives so keeps the invariant.
LEMMA Arrives ==
  ASSUME IInv, NEW q \in Peers, NEW f, NEW g, History(Other(q), f, g),
         NEW s, NEW r, NEW l, NEW R, NEW N, NEW o, NEW base, NEW top,
         Arriving(q, f, g, s, r, l, R, N, o, base, top)
  PROVE  IInv'
<1> DEFINE p == Other(q)
<1> USE DEF Arriving
<1>0. /\ p \in Peers /\ Other(p) = q /\ p # q
      /\ \A x \in Peers : x = p \/ x = q
  BY TwoPeers
<1>1. TypeOK /\ NoncesOK(p) /\ NoncesOK(q)
  BY <1>0 DEF IInv
<1>2. /\ send'[q] = s /\ send'[p] = send[p]
      /\ send' \in [Peers -> RingsOf(Sent)]
  <2>1. s \in RingsOf(Sent)
    BY RingTyped DEF Rings
  <2> QED BY <2>1, <1>0, <1>1 DEF TypeOK
<1>3. /\ recv'[q] = r /\ recv'[p] = recv[p]
      /\ recv' \in [Peers -> RingsOf(Nat)]
  <2>1. r \in RingsOf(Nat)
    BY RingTyped DEF Rings
  <2> QED BY <2>1, <1>0, <1>1 DEF TypeOK
<1>4. /\ got'[q] = l /\ got'[p] = got[p] /\ got' \in [Peers -> Seq(Nat)]
  BY <1>0, <1>1 DEF TypeOK
<1>5. R \in 0..Nonces - 1 /\ N \in 0..Nonces - 1
  <2>1. sentNonce[p] \in 0..Nonces - 1 /\ Nonces \in Nat
    BY <1>0, <1>1, Constants DEF TypeOK
  <2> QED BY <2>1
<1>6. /\ recvNonce'[q] = R /\ recvNonce'[p] = recvNonce[p]
      /\ newest'[q] = N /\ newest'[p] = newest[p]
      /\ recvNonce' \in [Peers -> 0..Nonces - 1]
      /\ newest' \in [Peers -> 0..Nonces - 1]
  BY <1>0, <1>1, <1>5 DEF TypeOK
<1>7. net'[q] = o /\ net'[p] = net[p] /\ net' \in [Peers -> Seq(Packets)]
  <2>1. o \in Seq(Packets)
    <3> DEFINE G == GoodPackets(f, g, sentNonce[p], recv[p], Len(got[p]))
    <3>1. G \subseteq Packets /\ o \in Seq(G)
      BY DEF GoodPackets
    <3> HIDE DEF G
    <3> QED BY <3>1, SeqMore
  <2> QED BY <2>1, <1>0, <1>1 DEF TypeOK
<1>8. TypeOK'
  BY <1>1, <1>2, <1>3, <1>4, <1>6, <1>7 DEF TypeOK
<1>9. /\ Base(p)' = Base(p) /\ Given(p)' = Len(l) /\ Top(p)' = top
      /\ Base(q)' = base /\ Given(q)' = Given(q) /\ Top(q)' = Top(q)
  <2>1. base = accepted[q] - Count(s) /\ top = Len(l) + Count(r)
    BY RingsAre
  <2>2. Base(p)' = Base(p) /\ Base(q)' = base
    BY <2>1, <1>2 DEF Base
  <2>3. Given(p)' = Len(l) /\ Top(p)' = top
    BY <2>1, <1>0, <1>3, <1>4 DEF Given, Top
  <2>4. Given(q)' = Given(q) /\ Top(q)' = Top(q)
    BY <1>3, <1>4 DEF Given, Top
  <2> QED BY <2>2, <2>3, <2>4
<1>10. Direction(p)'
  BY <1>0, <1>2, <1>3, <1>9 DEF Direction
<1>11. Direction(q)'
  BY <1>0, <1>2, <1>3, <1>9 DEF Direction
<1>12. NoncesOK(p)' /\ NoncesOK(q)'
  BY <1>0, <1>1, <1>6 DEF NoncesOK
<1>13. History(p, f, g)'
  BY <1>0, <1>3, <1>4, <1>6, <1>7, <1>9 DEF History
<1>14. PICK u, v : History(q, u, v)
  BY DEF IInv
<1>15. History(q, u, v)'
  <2>1. /\ Counter(v, sentNonce[q], Size)
        /\ Counter(u, sentNonce[q], 1) /\ u[sentNonce[q]] = accepted[q]
        /\ Base(p) <= v[newest[p]] /\ Top(q) <= u[newest[p]]
    BY <1>14 DEF History
  <2>2. /\ net[p] \in Seq(GoodPackets(u, v, sentNonce[q], r, Len(l)))
        /\ v[sentNonce[q]] <= Len(l)
    <3>1. /\ Len(l) \in Nat /\ Len(got[q]) <= Len(l)
          /\ \A m \in Nat : Has(recv[q], Len(got[q]), m) => Has(r, Len(l), m)
      OBVIOUS
    <3> HIDE DEF Arriving
    <3> QED BY <3>1, <1>14, HistoryStays
  <2> QED BY <2>1, <2>2, <1>3, <1>4, <1>6, <1>7, <1>9 DEF History
<1> QED BY <1>0, <1>8, <1>10, <1>11, <1>12, <1>13, <1>15 DEF IInv

\* A packet that nobody looks at, or that is lost.
LEMMA LoseKeeps ==
  ASSUME IInv, NEW q \in Peers, Lose(q) PROVE IInv'
<1> DEFINE p == Other(q)
<1>1. p \in Peers /\ Other(p) = q
  BY TwoPeers
<1>2. PICK f, g : History(p, f, g)
  BY <1>1 DEF IInv
<1>3. PICK i \in DOMAIN net[q] :
        /\ lost < MaxLost /\ lost' = lost + 1
        /\ net' = [net EXCEPT ![q] = RemoveAt(@, i)]
        /\ UNCHANGED <<send, recv, sentNonce, nonceVars, speed, accepted, got>>
  BY DEF Lose
<1>4. net[q] \in Seq(GoodPackets(f, g, sentNonce[p], recv[p], Len(got[p])))
  BY <1>1, <1>2 DEF History
<1>5. RemoveAt(net[q], i)
        \in Seq(GoodPackets(f, g, sentNonce[p], recv[p], Len(got[p])))
  BY <1>3, <1>4, SeqLess
<1>6. TypeOK /\ Direction(p) /\ Direction(q) /\ NoncesOK(q)
  BY <1>1 DEF IInv
<1>7. lost' \in 0..MaxLost
  BY <1>3, <1>6, ConstantsAssumption DEF TypeOK
<1>8. /\ Rings(send[p], recv[q], Base(p), Len(got[q]), Top(p), accepted[p])
      /\ Rings(send[q], recv[p], Base(q), Given(q), Top(q), accepted[q])
  BY <1>1, <1>6 DEF Direction, Given
<1>9. Base(q) <= g[newest[q]] /\ Top(p) <= f[newest[q]]
  BY <1>1, <1>2 DEF History
<1>10. /\ send' = [send EXCEPT ![q] = send[q]]
       /\ recv' = [recv EXCEPT ![q] = recv[q]]
       /\ got' = [got EXCEPT ![q] = got[q]]
       /\ recvNonce' = [recvNonce EXCEPT ![q] = recvNonce[q]]
       /\ newest' = [newest EXCEPT ![q] = newest[q]]
  BY <1>3, <1>6 DEF TypeOK, nonceVars
<1>11. got[q] \in Seq(Nat) /\ Len(got[q]) <= Len(got[q])
  BY <1>6 DEF TypeOK
<1>12. UNCHANGED <<sentNonce, speed, accepted>>
  BY <1>3
<1>13. Arriving(q, f, g, send[q], recv[q], got[q], recvNonce[q], newest[q],
                RemoveAt(net[q], i), Base(q), Top(p))
  BY <1>1, <1>3, <1>5, <1>6, <1>7, <1>8, <1>9, <1>10, <1>11, <1>12
     DEF Arriving, NoncesOK
<1> QED BY <1>2, <1>13, Arrives

\* What the peer q knows of the nonces after it decrypted the x-th packet: a
\* packet that was overtaken is not an old one.
Knows(q, x, R, N) ==
  /\ R \in Nat /\ N \in Nat /\ R <= N /\ N <= R + 2 * Threshold + 1
  /\ N <= sentNonce[Other(q)] /\ x <= N /\ newest[q] <= N
  /\ newest[q] <= x + 2 * Threshold
  /\ N = x \/ N = newest[q]
  /\ recvNonce' = [recvNonce EXCEPT ![q] = R]
  /\ newest' = [newest EXCEPT ![q] = N]

\* A packet that is decrypted is known by its whole nonce although only the low
\* bytes were sent, and it is at most 2 * Threshold packets late.
LEMMA Decrypted ==
  ASSUME IInv, NEW q \in Peers, NEW x \in 1..sentNonce[Other(q)],
         NEW k, k.nonce = x - 1, Opens(q, k), NonceFollows(q, k)
  PROVE  \E R, N : Knows(q, x, R, N)
<1>1. /\ Other(q) \in Peers /\ Other(Other(q)) = q
  BY TwoPeers
<1>2. PICK R \in Nat : R = recvNonce[q]
  BY DEF IInv, NoncesOK
<1>3. PICK m \in Nat : m = newest[q]
  BY DEF IInv, NoncesOK
<1>4. PICK S \in Nat : S = sentNonce[Other(q)]
  BY <1>1 DEF IInv, NoncesOK
<1>5. PICK M \in Nat : M = MaxNonce[Other(q)] /\ M + Window <= Nonces
  BY <1>1, ConstantsAssumption
<1>6. /\ R <= m /\ m <= R + 2 * Threshold + 1 /\ m <= S /\ S <= M
  BY <1>1, <1>2, <1>3, <1>4, <1>5 DEF IInv, NoncesOK
<1>7. PICK T \in Nat \ {0} : T = Threshold
  BY Sizes
<1>8. PICK y \in Nat : y = x - 1 /\ x = y + 1 /\ y < S
  BY <1>4
<1>9. PICK a : a = (y - R) % Window
  OBVIOUS
<1>10. a = Ahead(q, k)
  BY <1>2, <1>8, <1>9 DEF Ahead
<1>11. /\ y = R + a /\ R <= y /\ y <= R + 3 * T
  <2>1. (R + ((y - R) % Window)) % Nonces = y
    BY <1>2, <1>8, <1>9, <1>10 DEF Opens
  <2>2. R <= M /\ y <= M
    BY <1>6, <1>8
  <2>3. y = R + ((y - R) % Window) /\ R <= y /\ y <= R + 3 * Threshold
    BY <2>1, <2>2, <1>5, NonceAhead
  <2> QED BY <2>3, <1>7, <1>9
<1>12. a \in Int /\ a = y - R
  <2>1. Window \in Nat \ {0} /\ y - R \in Int
    BY Constants
  <2>2. a \in Int
    BY <2>1, <1>9, Remainder
  <2> QED BY <2>2, <1>11
<1>13. /\ (m - R) % Nonces = m - R
       /\ (y + 1) % Nonces = y + 1
       /\ (R + T) <= y => (R + T) % Nonces = R + T
  <2>1. /\ m - R \in 0..M /\ y + 1 \in 0..M
        /\ (R + T) <= y => R + T \in 0..M
    BY <1>6, <1>8
  <2>2. Other(q) \in Peers /\ \A z \in 0..M : z \in Nat /\ z <= MaxNonce[Other(q)]
    BY <1>1, <1>5
  <2> QED BY <2>1, <2>2, NonceSum
<1> DEFINE N2 == IF y >= m THEN x ELSE m
           R2 == IF a > 2 * T THEN R + T ELSE R
<1>14. newest' = [newest EXCEPT ![q] = N2]
  <2>1. newest' = IF a >= m - R THEN [newest EXCEPT ![q] = y + 1] ELSE newest
    <3>1. newest' = Newer(q, k)
      BY DEF NonceFollows
    <3>2. (k.nonce + 1) % Nonces = y + 1 /\ (newest[q] - recvNonce[q]) % Nonces = m - R
      BY <1>2, <1>3, <1>8, <1>13
    <3> QED BY <3>1, <3>2, <1>10 DEF Newer
  <2>2. newest \in [Peers -> 0..Nonces - 1]
    BY DEF IInv, TypeOK
  <2>3. newest = [newest EXCEPT ![q] = m]
    BY <2>2, <1>3
  <2>4. (a >= m - R) <=> (y >= m)
    BY <1>12
  <2> QED BY <2>1, <2>3, <2>4, <1>8
<1>15. recvNonce' = [recvNonce EXCEPT ![q] = R2]
  <2>1. recvNonce' = IF a > 2 * T THEN [recvNonce EXCEPT ![q] = (R + T) % Nonces]
                     ELSE recvNonce
    BY <1>2, <1>7, <1>10 DEF NonceFollows
  <2>2. recvNonce \in [Peers -> 0..Nonces - 1]
    BY DEF IInv, TypeOK
  <2>3. recvNonce = [recvNonce EXCEPT ![q] = R]
    BY <2>2, <1>2
  <2>4. a > 2 * T => (R + T) % Nonces = R + T
    BY <1>12, <1>13
  <2> QED BY <2>1, <2>3, <2>4
<1>16. /\ R2 \in Nat /\ N2 \in Nat /\ R2 <= N2 /\ N2 <= R2 + 2 * T + 1
       /\ N2 <= S /\ x <= N2 /\ m <= N2 /\ m <= x + 2 * T /\ (N2 = x \/ N2 = m)
  <2>1. CASE y >= m /\ a > 2 * T
    BY <2>1, <1>6, <1>7, <1>8, <1>11, <1>12
  <2>2. CASE y >= m /\ ~ (a > 2 * T)
    BY <2>2, <1>6, <1>7, <1>8, <1>11, <1>12
  <2>3. CASE ~ (y >= m) /\ a > 2 * T
    BY <2>3, <1>6, <1>7, <1>8, <1>11, <1>12
  <2>4. CASE ~ (y >= m) /\ ~ (a > 2 * T)
    BY <2>4, <1>6, <1>7, <1>8, <1>11, <1>12
  <2> QED BY <2>1, <2>2, <2>3, <2>4
<1> HIDE DEF N2, R2
<1>17. Knows(q, x, R2, N2)
  BY <1>3, <1>4, <1>7, <1>14, <1>15, <1>16 DEF Knows
<1> QED BY <1>17

\* A packet of the other peer, which has the history f and g, arrives at q; the
\* packets o are then on their way.
Comes(q, k, o, f, g) ==
  LET p == Other(q)
      G == GoodPackets(f, g, sentNonce[p], recv[p], Len(got[p]))
  IN /\ History(p, f, g) /\ k \in G /\ o \in Seq(G)
     /\ net' = [net EXCEPT ![q] = o]
     /\ UNCHANGED <<sentNonce, speed, lost, accepted>>

\* The order of four values of a counter.
Ordered(h, s, step, x, m, n, d) ==
  /\ h[x] \in Nat /\ h[m] \in Nat /\ h[n] \in Nat /\ h[s] \in Nat
  /\ h[x] <= h[n] /\ h[m] <= h[n] /\ h[x] <= h[s]
  /\ (step * d) \in Nat /\ h[m] <= h[x] + (step * d)

\* They are ordered as the nonces are, and lateness bounds the difference.
LEMMA CounterOrder ==
  ASSUME NEW h, NEW s, NEW step \in Nat, Counter(h, s, step),
         NEW x \in 0..s, NEW m \in 0..s, NEW n \in 0..s, NEW d \in Nat,
         x <= n, m <= n, m <= x + d
  PROVE  Ordered(h, s, step, x, m, n, d)
<1>1. s \in 0..s /\ x <= s /\ \A y \in 0..s : y \in Nat
  BY DEF Counter
<1>2. \A y \in 0..s, z \in 0..s : y <= z => y <= z + d
  BY <1>1
<1>3. \A y \in 0..s, z \in 0..s : y <= z =>
        h[y] \in Nat /\ h[z] \in Nat /\ h[y] <= h[z]
  <2> SUFFICES ASSUME NEW y \in 0..s, NEW z \in 0..s, y <= z
               PROVE  h[y] \in Nat /\ h[z] \in Nat /\ h[y] <= h[z]
    OBVIOUS
  <2>1. y <= z + d
    BY <1>2
  <2> QED BY <2>1, CounterMoves
<1>4. (step * d) \in Nat /\ h[m] <= h[x] + (step * d)
  BY CounterMoves
<1> QED BY <1>1, <1>3, <1>4 DEF Ordered

\* What the x-th packet tells is not too old.
LEMMA TellsOf ==
  ASSUME IInv, NEW q \in Peers, NEW k, NEW o, NEW f, NEW g, Comes(q, k, o, f, g),
         NEW x \in 1..sentNonce[Other(q)], NEW R, NEW N, Knows(q, x, R, N)
  PROVE  LET p == Other(q)
         IN /\ f[x] \in Nat /\ g[x] \in Nat /\ f[N] \in Nat /\ g[N] \in Nat
            /\ f[x] <= accepted[p] /\ g[x] <= Len(got[p])
            /\ f[x] <= f[N] /\ g[x] <= g[N]
            /\ Base(q) <= g[N] /\ Top(p) <= f[N]
            /\ Base(q) <= g[x] + (Size * (2 * Threshold))
            /\ Top(p) <= f[x] + 2 * Threshold
<1> DEFINE p == Other(q)
<1>1. p \in Peers /\ Other(p) = q
  BY TwoPeers
<1>2. PICK S \in Nat : S = sentNonce[p]
  BY <1>1 DEF IInv, NoncesOK
<1>3. PICK m \in Nat : m = newest[q]
  BY <1>1 DEF IInv, NoncesOK
<1>4. PICK D \in Nat : D = 2 * Threshold
  BY Sizes
<1>5. /\ Counter(f, S, 1) /\ Counter(g, S, Size)
      /\ f[S] = accepted[p] /\ g[S] <= Len(got[p])
      /\ Base(q) <= g[m] /\ Top(p) <= f[m]
  BY <1>1, <1>2, <1>3 DEF Comes, History
<1>6. /\ x \in 0..S /\ m \in 0..S /\ N \in 0..S
      /\ x <= N /\ m <= N /\ m <= x + D
  BY <1>2, <1>3, <1>4 DEF Knows
<1>7. Size \in Nat /\ 1 \in Nat
  BY Sizes
<1>8. /\ f[x] \in Nat /\ f[N] \in Nat /\ f[S] \in Nat /\ f[m] \in Nat
      /\ f[x] <= f[N] /\ f[m] <= f[N] /\ f[x] <= f[S] /\ f[m] <= f[x] + D
  <2>1. Ordered(f, S, 1, x, m, N, D)
    BY <1>5, <1>6, <1>7, CounterOrder
  <2>2. (1 * D) = D
    OBVIOUS
  <2> QED BY <2>1, <2>2 DEF Ordered
<1>9. /\ g[x] \in Nat /\ g[N] \in Nat /\ g[S] \in Nat /\ g[m] \in Nat
      /\ g[x] <= g[N] /\ g[m] <= g[N] /\ g[x] <= g[S]
      /\ (Size * D) \in Nat /\ g[m] <= g[x] + (Size * D)
  <2>1. Ordered(g, S, Size, x, m, N, D)
    BY <1>5, <1>6, <1>7, CounterOrder
  <2> QED BY <2>1 DEF Ordered
<1>10. Base(q) \in Nat /\ Top(p) \in Nat /\ Len(got[p]) \in Nat
  BY <1>1, DirectionFacts, OwnRecv DEF IInv
<1>11. /\ Top(p) <= f[N] /\ Top(p) <= f[x] + D
  <2>1. PICK fm \in Nat, fx \in Nat, fN \in Nat :
          fm = f[m] /\ fx = f[x] /\ fN = f[N]
    BY <1>8
  <2>2. Top(p) <= fm /\ fm <= fN /\ fm <= fx + D
    BY <2>1, <1>5, <1>8
  <2>3. Top(p) <= fN /\ Top(p) <= fx + D
    BY <2>2, <1>10
  <2> QED BY <2>1, <2>3
<1>12. /\ Base(q) <= g[N] /\ Base(q) <= g[x] + (Size * D)
       /\ g[x] <= Len(got[p])
  <2>1. PICK gm \in Nat, gx \in Nat, gN \in Nat, gS \in Nat :
          gm = g[m] /\ gx = g[x] /\ gN = g[N] /\ gS = g[S]
    BY <1>9
  <2>2. PICK w \in Nat : w = (Size * D)
    BY <1>9
  <2>3. PICK l \in Nat : l = Len(got[p])
    BY <1>10
  <2>4. /\ Base(q) <= gm /\ gm <= gN /\ gm <= gx + w /\ gx <= gS /\ gS <= l
    BY <2>1, <2>2, <2>3, <1>5, <1>9
  <2>5. Base(q) <= gN /\ Base(q) <= gx + w /\ gx <= l
    BY <2>4, <1>10
  <2> QED BY <2>1, <2>2, <2>3, <2>5
<1> QED BY <1>4, <1>5, <1>8, <1>9, <1>11, <1>12

\* What the x-th packet says that its sender was given is believed unless it
\* was overtaken, and then the ring keeps what is not known to be received.
LEMMA AckOf ==
  ASSUME IInv, NEW q \in Peers, NEW k, NEW o, NEW f, NEW g, Comes(q, k, o, f, g),
         NEW x \in 1..sentNonce[Other(q)], NEW R, NEW N, Knows(q, x, R, N),
         k.ack = Wrap(First + g[x]), ~ BadAck(q, k)
  PROVE  Rings(Acked(q, k), recv[Other(q)], g[x], Given(q), Top(q), accepted[q])
<1> DEFINE p == Other(q)
           s == send[q]
           b == Base(q)
           a == accepted[q]
<1>1. /\ Rings(s, recv[p], b, Given(q), Top(q), a) /\ Given(q) = Len(got[p])
  BY DEF IInv, Direction, Given
<1>2. /\ b \in Nat /\ a \in Nat /\ Given(q) \in Nat /\ b <= Given(q)
      /\ Given(q) <= a /\ a <= b + Size
      /\ SendRing(s, b, a) /\ s.start = Wrap(First + b)
  <2>1. SendRing(s, b, a)
    BY <1>1 DEF Rings
  <2> HIDE DEF s, b, a
  <2>2. /\ b \in Nat /\ a \in Nat /\ Given(q) \in Nat /\ Top(q) \in Nat
        /\ b <= Given(q) /\ Given(q) <= Top(q) /\ Top(q) <= a /\ a <= b + Size
        /\ s.start = Wrap(First + b)
    BY <1>1, RingsTyped, RingsFacts
  <2> QED BY <2>1, <2>2
<1>3. PICK e \in Nat : e = g[x] /\ e <= Given(q)
                       /\ b <= e + (Size * (2 * Threshold))
  BY <1>1, TellsOf
<1> HIDE DEF s, b, a
<1>4. e >= b
  <2> SUFFICES ASSUME e < b PROVE FALSE
    BY <1>2, <1>3
  <2>1. a - e < Numbers
    <3>1. (Size * (2 * Threshold)) + Size = (2 * Threshold + 1) * Size
      BY Sizes
    <3>2. (2 * Threshold + 1) * Size < Numbers
      BY ConstantsAssumption
    <3>3. PICK w \in Nat : w = (Size * (2 * Threshold))
      BY Sizes
    <3>4. w + Size < Numbers
      BY <3>1, <3>2, <3>3
    <3> QED BY <3>3, <3>4, <1>2, <1>3, Sizes
  <2>2. k.ack # s.start /\ CannotClear(s, k.ack)
    BY <2>1, <1>2, <1>3, AckRefused
  <2> QED BY <2>2 DEF BadAck, s
<1>5. Wrap(k.ack - s.start) = e - b
  <2>1. e \in b..a
    BY <1>2, <1>3, <1>4
  <2> QED BY <2>1, <1>2, <1>3, AckBelieved
<1>6. e \in b..Given(q)
  BY <1>2, <1>3, <1>4
<1>7. Rings(DropFirst(s, e - b), recv[p], e, Given(q), Top(q), a)
  BY <1>1, <1>6, RingsAcked DEF s, b, a
<1> QED BY <1>3, <1>5, <1>7 DEF Acked, s, a

\* The part of Arriving that is not the same for every packet.
Arrived(q, f, g, s, r, l, R, N, base, top) ==
  LET p == Other(q)
  IN /\ Rings(send[p], r, Base(p), Len(l), top, accepted[p])
     /\ Rings(s, recv[p], base, Given(q), Top(q), accepted[q])
     /\ l \in Seq(Nat) /\ Len(got[q]) <= Len(l)
     /\ \A m \in Nat : Has(recv[q], Len(got[q]), m) => Has(r, Len(l), m)
     /\ base <= g[N] /\ top <= f[N]
     /\ R \in Nat /\ N \in Nat /\ R <= N /\ N <= R + 2 * Threshold + 1
     /\ N <= sentNonce[p]
     /\ send' = [send EXCEPT ![q] = s] /\ recv' = [recv EXCEPT ![q] = r]
     /\ got' = [got EXCEPT ![q] = l]
     /\ recvNonce' = [recvNonce EXCEPT ![q] = R]
     /\ newest' = [newest EXCEPT ![q] = N]

\* What arrives so keeps the invariant.
LEMMA SoArrives ==
  ASSUME IInv, NEW q \in Peers, NEW k, NEW o, NEW f, NEW g, Comes(q, k, o, f, g),
         NEW R, NEW N, NEW s, NEW r, NEW l, NEW base, NEW top,
         Arrived(q, f, g, s, r, l, R, N, base, top)
  PROVE  IInv'
<1>1. lost' \in 0..MaxLost /\ UNCHANGED <<sentNonce, speed, accepted>>
  BY DEF Comes, IInv, TypeOK
<1>2. /\ History(Other(q), f, g) /\ net' = [net EXCEPT ![q] = o]
      /\ o \in Seq(GoodPackets(f, g, sentNonce[Other(q)], recv[Other(q)],
                               Len(got[Other(q)])))
  BY DEF Comes
<1>3. Arriving(q, f, g, s, r, l, R, N, o, base, top)
  BY <1>1, <1>2 DEF Arriving, Arrived
<1> QED BY <1>2, <1>3, Arrives

\* The rings of q before the packet.
LEMMA RingsOfQ ==
  ASSUME IInv, NEW q \in Peers
  PROVE  LET p == Other(q)
         IN /\ p \in Peers /\ Other(p) = q /\ Given(p) = Len(got[q])
            /\ Rings(send[p], recv[q], Base(p), Len(got[q]), Top(p), accepted[p])
            /\ Rings(send[q], recv[p], Base(q), Given(q), Top(q), accepted[q])
            /\ got[q] \in Seq(Nat) /\ Len(got[q]) \in Nat /\ Len(got[q]) <= Len(got[q])
            /\ send = [send EXCEPT ![q] = send[q]]
            /\ recv = [recv EXCEPT ![q] = recv[q]]
            /\ got = [got EXCEPT ![q] = got[q]]
            /\ recvNonce = [recvNonce EXCEPT ![q] = recvNonce[q]]
            /\ newest = [newest EXCEPT ![q] = newest[q]]
            /\ net = [net EXCEPT ![q] = net[q]]
            /\ accepted[p] \in Nat /\ Top(p) \in Nat /\ Base(q) \in Nat
            /\ Len(got[q]) <= Top(p) /\ Top(p) <= accepted[p]
<1>1. Other(q) \in Peers /\ Other(Other(q)) = q
  BY TwoPeers
<1>2. TypeOK /\ Direction(Other(q)) /\ Direction(q)
  BY <1>1 DEF IInv
<1>3. Given(Other(q)) = Len(got[q])
  BY <1>1 DEF Given
<1>4. /\ accepted[Other(q)] \in Nat /\ Top(Other(q)) \in Nat /\ Base(q) \in Nat
      /\ Len(got[q]) <= Top(Other(q)) /\ Top(Other(q)) <= accepted[Other(q)]
      /\ Len(got[q]) \in Nat
  BY <1>2, <1>3, DirectionFacts
<1>5. /\ Rings(send[Other(q)], recv[q], Base(Other(q)), Len(got[q]),
               Top(Other(q)), accepted[Other(q)])
      /\ Rings(send[q], recv[Other(q)], Base(q), Given(q), Top(q), accepted[q])
  BY <1>1, <1>2, <1>3 DEF Direction
<1>6. /\ got[q] \in Seq(Nat)
      /\ send = [send EXCEPT ![q] = send[q]]
      /\ recv = [recv EXCEPT ![q] = recv[q]]
      /\ got = [got EXCEPT ![q] = got[q]]
      /\ recvNonce = [recvNonce EXCEPT ![q] = recvNonce[q]]
      /\ newest = [newest EXCEPT ![q] = newest[q]]
      /\ net = [net EXCEPT ![q] = net[q]]
  BY <1>2 DEF TypeOK
<1> QED BY <1>1, <1>3, <1>4, <1>5, <1>6

\* A packet that is not decrypted.
LEMMA RejectKeeps ==
  ASSUME IInv, NEW q \in Peers, NEW k, NEW o, NEW f, NEW g, Comes(q, k, o, f, g),
         Reject(q, k)
  PROVE  IInv'
<1>1. UNCHANGED <<send, recv, recvNonce, newest, got>>
  BY DEF Reject, nonceVars
<1>2. /\ recvNonce[q] \in Nat /\ newest[q] \in Nat /\ recvNonce[q] <= newest[q]
      /\ newest[q] <= recvNonce[q] + 2 * Threshold + 1
      /\ newest[q] <= sentNonce[Other(q)]
  BY DEF IInv, NoncesOK
<1>3. Base(q) <= g[newest[q]] /\ Top(Other(q)) <= f[newest[q]]
  BY RingsOfQ DEF Comes, History
<1>4. \A m \in Nat : Has(recv[q], Len(got[q]), m) => Has(recv[q], Len(got[q]), m)
  OBVIOUS
<1>5. Arrived(q, f, g, send[q], recv[q], got[q], recvNonce[q], newest[q],
              Base(q), Top(Other(q)))
  BY <1>1, <1>2, <1>3, <1>4, RingsOfQ DEF Arrived
<1> QED BY <1>5, SoArrives

\* The x-th packet is a message, or a request packet.
IsData(k, f, x) ==
  \E n \in Nat \ {0} : /\ k.body = [data |-> n] /\ k.num = Number(n)
                       /\ n <= f[x] /\ f[x] < n + Size

IsRequest(k, f, g, x, r, given) ==
  \E ring \in Seq(BOOLEAN) :
    /\ k.body = [missing |-> Encode(ring, MaxListed)]
    /\ k.num = Wrap(First + f[x])
    /\ \A i \in 1..Len(ring) : ring[i] => Has(r, given, g[x] + i)

\* A packet of the network is one that the other peer sent, of one of the kinds.
LEMMA WhichPacket ==
  ASSUME NEW q, NEW k, NEW o, NEW f, NEW g, Comes(q, k, o, f, g)
  PROVE  \E x \in 1..sentNonce[Other(q)] :
           /\ k.nonce = x - 1 /\ k.ack = Wrap(First + g[x])
           /\ "missing" \in DOMAIN k.body =>
                IsRequest(k, f, g, x, recv[Other(q)], Len(got[Other(q)]))
           /\ "data" \in DOMAIN k.body => IsData(k, f, x)
<1> DEFINE r == recv[Other(q)]
           given == Len(got[Other(q)])
<1>1. Good(k, f, g, sentNonce[Other(q)], r, given)
  BY DEF Comes, GoodPackets
<1> HIDE DEF r, given
<1>2. PICK x \in 1..sentNonce[Other(q)] :
        /\ k.nonce = x - 1 /\ k.ack = Wrap(First + g[x])
        /\ IsData(k, f, x) \/ IsRequest(k, f, g, x, r, given)
  BY <1>1 DEF Good, IsData, IsRequest
<1>3. "missing" \in DOMAIN k.body => ~ IsData(k, f, x)
  <2> SUFFICES ASSUME NEW n, k.body = [data |-> n]
               PROVE  "missing" \notin DOMAIN k.body
    BY DEF IsData
  <2>1. DOMAIN k.body = {"data"}
    OBVIOUS
  <2> QED BY <2>1
<1>4. "data" \in DOMAIN k.body => ~ IsRequest(k, f, g, x, r, given)
  <2> SUFFICES ASSUME NEW n, k.body = [missing |-> n]
               PROVE  "data" \notin DOMAIN k.body
    BY DEF IsRequest
  <2>1. DOMAIN k.body = {"missing"}
    OBVIOUS
  <2> QED BY <2>1
<1> QED BY <1>2, <1>3, <1>4 DEF r, given

\* A packet that was overtaken.
LEMMA LateKeeps ==
  ASSUME IInv, NEW q \in Peers, NEW k, NEW o, NEW f, NEW g, Comes(q, k, o, f, g),
         Late(q, k)
  PROVE  IInv'
<1>1. Opens(q, k) /\ NonceFollows(q, k) /\ UNCHANGED <<send, recv, got>>
  BY DEF Late
<1>2. PICK x \in 1..sentNonce[Other(q)] : k.nonce = x - 1
  BY WhichPacket
<1>3. PICK R, N : Knows(q, x, R, N)
  BY <1>1, <1>2, Decrypted
<1>4. Base(q) <= g[N] /\ Top(Other(q)) <= f[N]
  BY <1>3, TellsOf
<1>5. \A m \in Nat : Has(recv[q], Len(got[q]), m) => Has(recv[q], Len(got[q]), m)
  OBVIOUS
<1>6. /\ R \in Nat /\ N \in Nat /\ R <= N /\ N <= R + 2 * Threshold + 1
      /\ N <= sentNonce[Other(q)]
      /\ recvNonce' = [recvNonce EXCEPT ![q] = R]
      /\ newest' = [newest EXCEPT ![q] = N]
  BY <1>3 DEF Knows
<1>7. Arrived(q, f, g, send[q], recv[q], got[q], R, N, Base(q), Top(Other(q)))
  BY <1>1, <1>4, <1>5, <1>6, RingsOfQ DEF Arrived
<1> QED BY <1>7, SoArrives

\* What is the same for every packet that is believed.
Believed(q, k, f, g, x, R, N) ==
  /\ Knows(q, x, R, N) /\ x \in 1..sentNonce[Other(q)]
  /\ Rings(Acked(q, k), recv[Other(q)], g[x], Given(q), Top(q), accepted[q])
  /\ f[x] \in Nat /\ g[x] \in Nat /\ f[N] \in Nat /\ g[N] \in Nat
  /\ f[x] <= accepted[Other(q)] /\ f[x] <= f[N] /\ g[x] <= g[N]
  /\ Top(Other(q)) <= f[N] /\ Top(Other(q)) <= f[x] + 2 * Threshold

\* A packet that is neither late nor has a bad ack is believed rightly.
LEMMA FreshPacket ==
  ASSUME IInv, NEW q \in Peers, NEW k, NEW o, NEW f, NEW g, Comes(q, k, o, f, g),
         Fresh(q, k), NonceFollows(q, k),
         NEW x \in 1..sentNonce[Other(q)], k.nonce = x - 1,
         k.ack = Wrap(First + g[x])
  PROVE  \E R, N : Believed(q, k, f, g, x, R, N)
<1>1. Opens(q, k) /\ ~ BadAck(q, k)
  BY DEF Fresh
<1>2. PICK R, N : Knows(q, x, R, N)
  BY <1>1, Decrypted
<1>3. Rings(Acked(q, k), recv[Other(q)], g[x], Given(q), Top(q), accepted[q])
  BY <1>1, <1>2, AckOf
<1>4. /\ f[x] \in Nat /\ g[x] \in Nat /\ f[N] \in Nat /\ g[N] \in Nat
      /\ f[x] <= accepted[Other(q)] /\ f[x] <= f[N] /\ g[x] <= g[N]
      /\ Top(Other(q)) <= f[N] /\ Top(Other(q)) <= f[x] + 2 * Threshold
  BY <1>2, TellsOf
<1>5. Believed(q, k, f, g, x, R, N)
  BY <1>2, <1>3, <1>4 DEF Believed
<1> QED BY <1>5

\* A request packet.
LEMMA OnRequestKeeps ==
  ASSUME IInv, NEW q \in Peers, NEW k, NEW o, NEW f, NEW g, Comes(q, k, o, f, g),
         OnRequest(q, k)
  PROVE  IInv'
<1> DEFINE p == Other(q)
           bytes == k.body.missing
           s == MarkMissing(Acked(q, k), bytes)
           r == SetEnd(recv[q], k.num)
<1>1. /\ Fresh(q, k) /\ "missing" \in DOMAIN k.body /\ NonceFollows(q, k)
      /\ send' = [send EXCEPT ![q] = s] /\ recv' = [recv EXCEPT ![q] = r]
      /\ got' = got
  BY DEF OnRequest
<1>2. PICK x \in 1..sentNonce[p] :
        /\ k.nonce = x - 1 /\ k.ack = Wrap(First + g[x])
        /\ IsRequest(k, f, g, x, recv[p], Len(got[p]))
  BY <1>1, WhichPacket
<1>3. PICK ring \in Seq(BOOLEAN) :
        /\ k.body = [missing |-> Encode(ring, MaxListed)]
        /\ k.num = Wrap(First + f[x])
        /\ \A i \in 1..Len(ring) : ring[i] => Has(recv[p], Len(got[p]), g[x] + i)
  BY <1>2 DEF IsRequest
<1>4. PICK R, N : Believed(q, k, f, g, x, R, N)
  BY <1>1, <1>2, FreshPacket
<1>5. bytes = Encode(ring, MaxListed)
  BY <1>3
<1>6. Rings(s, recv[p], g[x], Given(q), Top(q), accepted[q])
  <2> DEFINE b == g[x]
             a == accepted[q]
             u == Acked(q, k)
  <2>1. Rings(u, recv[p], b, Given(q), Top(q), a)
    BY <1>4 DEF Believed
  <2> HIDE DEF b, a, u
  <2>2. a \in Nat /\ b \in Nat /\ b <= a
    BY <2>1, RingsTyped
  <2>3. PICK c \in Nat : c = a - b
    BY <2>2
  <2>4. Given(q) = Len(got[p])
    BY DEF Given
  <2>5. ASSUME NEW i \in 1..c
        PROVE  LET mark == Decode(bytes, c)[i]
               IN /\ mark \in {"kept", "again", "received"}
                  /\ mark = "received" => Has(recv[p], Given(q), b + i)
    <3> DEFINE mark == Decode(bytes, c)[i]
    <3>1. /\ mark \in {"kept", "again", "received"}
          /\ mark = "received" => i <= Len(ring) /\ ring[i]
      BY <1>5, DecodeFacts
    <3>2. i \in 1..Len(ring) /\ ring[i] => Has(recv[p], Len(got[p]), b + i)
      BY <1>3 DEF b
    <3> HIDE DEF mark
    <3>3. i <= Len(ring) => i \in 1..Len(ring)
      OBVIOUS
    <3>4. mark = "received" => Has(recv[p], Given(q), b + i)
      BY <3>1, <3>2, <3>3, <2>4
    <3> QED BY <3>1, <3>4 DEF mark
  <2> HIDE DEF bytes
  <2>6. Rings(MarkMissing(u, bytes), recv[p], b, Given(q), Top(q), a)
    BY <2>1, <2>3, <2>5, RingsMarked
  <2> QED BY <2>6 DEF b, a, u
<1>7. \E top : /\ Rings(send[p], r, Base(p), Len(got[q]), top, accepted[p])
               /\ r.slot = recv[q].slot /\ top <= f[N]
  <2> DEFINE top0 == Top(p)
             given == Len(got[q])
             a == accepted[p]
  <2>1. /\ Rings(send[p], recv[q], Base(p), given, top0, a)
        /\ top0 \in Nat /\ a \in Nat
    BY RingsOfQ
  <2>2. PICK e \in Nat : e = f[x]
    BY <1>4 DEF Believed
  <2>3. e <= a /\ e <= f[N] /\ top0 <= f[N] /\ top0 <= e + 2 * Threshold
    BY <1>4, <2>2 DEF Believed
  <2>4. r = SetEnd(recv[q], Wrap(First + e))
    BY <1>3, <2>2
  <2> HIDE DEF top0, given, a, r
  <2>5. CASE top0 <= e
    <3>1. e \in top0..a
      BY <2>1, <2>3, <2>5
    <3>2. Rings(send[p], r, Base(p), given, e, a) /\ r.slot = recv[q].slot
      BY <3>1, <2>1, <2>4, RingsEnd
    <3> QED BY <3>2, <2>3 DEF given, a
  <2>6. CASE e < top0
    <3>1. top0 - e < Numbers - Size
      BY <2>1, <2>3, Sizes
    <3>2. r = recv[q]
      BY <3>1, <2>1, <2>4, <2>6, EndRefused
    <3> QED BY <3>2, <2>1, <2>3 DEF given, a
  <2> QED BY <2>1, <2>5, <2>6
<1>8. PICK top : /\ Rings(send[p], r, Base(p), Len(got[q]), top, accepted[p])
                 /\ r.slot = recv[q].slot /\ top <= f[N]
  BY <1>7
<1>9. \A m \in Nat : Has(recv[q], Len(got[q]), m) => Has(r, Len(got[q]), m)
  BY <1>8 DEF Has, Cell
<1>10. got[q] \in Seq(Nat) /\ Len(got[q]) <= Len(got[q]) /\ got' = [got EXCEPT ![q] = got[q]]
  BY <1>1, RingsOfQ
<1> HIDE DEF s, r
<1>11. Arrived(q, f, g, s, r, got[q], R, N, g[x], top)
  BY <1>1, <1>4, <1>6, <1>8, <1>9, <1>10 DEF Arrived, Believed, Knows
<1> QED BY <1>11, SoArrives

\* A message: the next c messages of the other peer go to the program.
Passed(q, l, c) ==
  /\ c \in 0..Size /\ Len(got[q]) + c <= accepted[Other(q)]
  /\ l = got[q] \o [i \in 1..c |-> Len(got[q]) + i]

\* What a message does to the rings and to what the program was given.
LEMMA OnDataMoves ==
  ASSUME IInv, NEW q \in Peers, NEW k, NEW o, NEW f, NEW g, Comes(q, k, o, f, g),
         OnData(q, k)
  PROVE  \E s, r, l, R, N, base, top, c :
           Arrived(q, f, g, s, r, l, R, N, base, top) /\ Passed(q, l, c)
<1> DEFINE p == Other(q)
           n == k.body.data
           s == Acked(q, k)
           given == Len(got[q])
           top0 == Top(p)
           a == accepted[p]
           old == recv[q]
<1>1. /\ Fresh(q, k) /\ "data" \in DOMAIN k.body /\ NonceFollows(q, k)
      /\ send' = [send EXCEPT ![q] = s]
  BY DEF OnData
<1>2. PICK x \in 1..sentNonce[p] :
        /\ k.nonce = x - 1 /\ k.ack = Wrap(First + g[x]) /\ IsData(k, f, x)
  BY <1>1, WhichPacket
<1>3. PICK m \in Nat \ {0} : /\ k.body = [data |-> m] /\ k.num = Number(m)
                             /\ m <= f[x] /\ f[x] < m + Size
  BY <1>2 DEF IsData
<1>4. n = m
  BY <1>3
<1>5. PICK R, N : Believed(q, k, f, g, x, R, N)
  BY <1>1, <1>2, FreshPacket
<1>6. /\ Rings(send[p], old, Base(p), given, top0, a)
      /\ top0 \in Nat /\ a \in Nat /\ given \in Nat /\ given <= top0 /\ top0 <= a
  BY RingsOfQ
<1>7. PICK e \in Nat : e = f[x]
  BY <1>5 DEF Believed
<1>8. PICK h \in Nat : h = f[N]
  BY <1>5 DEF Believed
<1>9. /\ m <= e /\ e < m + Size /\ e <= a /\ e <= h /\ top0 <= h
      /\ top0 <= e + 2 * Threshold
  BY <1>3, <1>5, <1>7, <1>8 DEF Believed
<1>10. Takes(old, k.num) => m \in given + 1..a
  <2> HIDE DEF given, a, top0
  <2>1. SUFFICES ASSUME ~ (m \in given + 1..a) PROVE ~ Takes(old, k.num)
    OBVIOUS
  <2>2. m <= given /\ given + 1 - m < Numbers - Size
    BY <2>1, <1>6, <1>9, Sizes
  <2>3. m \in Nat
    OBVIOUS
  <2> QED BY <2>2, <2>3, <1>3, <1>6, DataRefused
<1>11. \E r, l, top, c :
         /\ Rings(send[p], r, Base(p), Len(l), top, a)
         /\ l \in Seq(Nat) /\ given <= Len(l) /\ top <= h
         /\ \A z \in Nat : Has(old, given, z) => Has(r, Len(l), z)
         /\ recv' = [recv EXCEPT ![q] = r] /\ got' = [got EXCEPT ![q] = l]
         /\ Passed(q, l, c)
  <2>1. CASE ~ Takes(old, k.num)
    <3>1. recv' = recv /\ got' = got
      BY <2>1 DEF OnData
    <3>2. /\ recv' = [recv EXCEPT ![q] = old] /\ got' = [got EXCEPT ![q] = got[q]]
          /\ got[q] \in Seq(Nat) /\ given <= given
      BY <3>1, RingsOfQ
    <3>3. Passed(q, got[q], 0)
      <4> DEFINE none == [i \in 1..0 |-> given + i]
      <4>1. none = << >>
        OBVIOUS
      <4> HIDE DEF none
      <4>2. got[q] \o none = got[q]
        BY <4>1, <3>2
      <4>3. 0 \in 0..Size /\ given + 0 <= a
        BY <1>6, Sizes
      <4> QED BY <4>2, <4>3 DEF Passed, none
    <3> QED BY <3>2, <3>3, <1>6, <1>9
  <2>2. CASE Takes(old, k.num)
    <3> DEFINE t == Put(old, Number(m), m)
               c == Ready(t)
               d == DropFirst(t, c)
               more == [i \in 1..c |-> t.slot[At(t, i - 1)]]
               l == got[q] \o more
               top == IF m > top0 THEN m ELSE top0
    <3>1. /\ recv' = [recv EXCEPT ![q] = d] /\ got' = [got EXCEPT ![q] = l]
      BY <2>2, <1>3, <1>4 DEF OnData
    <3>2. m \in given + 1..a
      BY <2>2, <1>10
    <3>3. /\ c \in Nat /\ c <= Size
          /\ more = [i \in 1..c |-> given + i]
          /\ Rings(send[p], d, Base(p), given + c, top, a)
          /\ \A z \in Nat : Has(old, given, z) => Has(d, given + c, z)
      <4> HIDE DEF given, old, a, top0
      <4> QED BY <3>2, <1>6, RingsTaken
    <3>4. top <= h
      BY <1>6, <1>9
    <3>5. l \in Seq(Nat) /\ Len(l) = given + c
      <4>1. got[q] \in Seq(Nat)
        BY RingsOfQ
      <4> HIDE DEF c, more
      <4>2. more \in Seq(Nat) /\ Len(more) = c
        BY <3>3, <1>6
      <4> QED BY <4>1, <4>2, SeqJoin
    <3>6. Passed(q, l, c)
      <4>1. given + c <= a
        <5> HIDE DEF given, a, c, d, top
        <5> QED BY <3>3, <1>6, RingsTyped
      <4>2. l = got[q] \o [i \in 1..c |-> given + i]
        BY <3>3
      <4> HIDE DEF l, c
      <4>3. c \in 0..Size
        BY <3>3, Sizes
      <4> QED BY <4>1, <4>2, <4>3 DEF Passed
    <3> HIDE DEF t, c, d, more, l, top, given, old, a, top0
    <3>7. given <= Len(l)
      BY <3>3, <3>5, <1>6
    <3> QED BY <3>1, <3>3, <3>4, <3>5, <3>6, <3>7
  <2> QED BY <2>1, <2>2
<1>12. PICK r, l, top, c :
         /\ Rings(send[p], r, Base(p), Len(l), top, a)
         /\ l \in Seq(Nat) /\ given <= Len(l) /\ top <= h
         /\ \A z \in Nat : Has(old, given, z) => Has(r, Len(l), z)
         /\ recv' = [recv EXCEPT ![q] = r] /\ got' = [got EXCEPT ![q] = l]
         /\ Passed(q, l, c)
  BY <1>11
<1>13. Arrived(q, f, g, s, r, l, R, N, g[x], top)
  BY <1>1, <1>5, <1>8, <1>12 DEF Arrived, Believed, Knows
<1> QED BY <1>12, <1>13

\* A message keeps the invariant.
LEMMA OnDataKeeps ==
  ASSUME IInv, NEW q \in Peers, NEW k, NEW o, NEW f, NEW g, Comes(q, k, o, f, g),
         OnData(q, k)
  PROVE  IInv'
<1>1. PICK s, r, l, R, N, base, top : Arrived(q, f, g, s, r, l, R, N, base, top)
  BY OnDataMoves
<1> QED BY <1>1, SoArrives

-----------------------------------------------------------------------------
(* Every step.                                                              *)

\* A packet arrives.
LEMMA ReceiveComes ==
  ASSUME IInv, NEW q \in Peers, Receive(q)
  PROVE  \E k, o, f, g :
           /\ Comes(q, k, o, f, g)
           /\ Reject(q, k) \/ Late(q, k) \/ OnRequest(q, k) \/ OnData(q, k)
<1> DEFINE p == Other(q)
<1>1. PICK i \in DOMAIN net[q], kept \in {FALSE, Chaos} :
        /\ net' = IF kept THEN net ELSE [net EXCEPT ![q] = RemoveAt(@, i)]
        /\ \/ Reject(q, net[q][i])
           \/ Late(q, net[q][i])
           \/ OnRequest(q, net[q][i])
           \/ OnData(q, net[q][i])
        /\ UNCHANGED <<sentNonce, speed, lost, accepted>>
  BY DEF Receive
<1>2. p \in Peers /\ Other(p) = q
  BY TwoPeers
<1>3. PICK f, g : History(p, f, g)
  BY <1>2 DEF IInv
<1> DEFINE G == GoodPackets(f, g, sentNonce[p], recv[p], Len(got[p]))
           k == net[q][i]
           o == IF kept THEN net[q] ELSE RemoveAt(net[q], i)
<1>4. net[q] \in Seq(G)
  BY <1>2, <1>3 DEF History
<1>5. k \in G /\ o \in Seq(G)
  <2> HIDE DEF G
  <2> QED BY <1>1, <1>4, SeqLess
<1>6. net' = [net EXCEPT ![q] = o]
  <2>1. net = [net EXCEPT ![q] = net[q]]
    BY RingsOfQ
  <2> QED BY <2>1, <1>1
<1>7. UNCHANGED <<sentNonce, speed, lost, accepted>>
  BY <1>1
<1>8. Comes(q, k, o, f, g)
  <2> HIDE DEF k, o
  <2> QED BY <1>3, <1>5, <1>6, <1>7 DEF Comes
<1>9. Reject(q, k) \/ Late(q, k) \/ OnRequest(q, k) \/ OnData(q, k)
  BY <1>1
<1> HIDE DEF k, o
<1> QED BY <1>8, <1>9

\* Whatever packet arrives, the invariant stays.
LEMMA ReceiveKeeps ==
  ASSUME IInv, NEW q \in Peers, Receive(q) PROVE IInv'
<1>1. PICK k, o, f, g :
        /\ Comes(q, k, o, f, g)
        /\ Reject(q, k) \/ Late(q, k) \/ OnRequest(q, k) \/ OnData(q, k)
  BY ReceiveComes
<1> QED BY <1>1, RejectKeeps, LateKeeps, OnRequestKeeps, OnDataKeeps

\* The rings of a new connection.
LEMMA NewRings == Rings(NoPackets, NoPackets, 0, 0, 0, 0)
<1> DEFINE a == NoPackets
           Cells == [i \in 0..Size - 1 |-> Empty]
<1>1. /\ a.start = First /\ a.end = First /\ a.slot = Cells
      /\ a = [start |-> First, end |-> First, slot |-> Cells]
  BY DEF NoPackets
<1>2. First \in Int /\ First \in 0..Numbers - 1 /\ Size \in Nat \ {0}
  BY Sizes, ConstantsAssumption
<1>3. /\ \A S : Cells \in [0..Size - 1 -> S \cup {Empty}]
      /\ \A j \in 0..Size - 1 : Cells[j] = Empty
  OBVIOUS
<1>4. First = Wrap(First + 0)
  BY <1>2, WrapFacts
<1> HIDE DEF a, Cells
<1>5. Ring(a, 0, 0)
  <2>1. a \in [start : Int, end : Int,
               slot : [0..Size - 1 -> Nat \cup Sent \cup {Empty}]]
    BY <1>1, <1>2, <1>3
  <2> QED BY <2>1, <1>1, <1>2, <1>4 DEF Ring
<1>6. \A n \in Int : Cell(a, n) = Empty
  BY <1>1, <1>3, Slots DEF Cell
<1>7. \A n \in 0 + 1..0 + Size : n \in Int
  BY <1>2
<1>8. SendRing(a, 0, 0) /\ RecvRing(a, 0, 0)
  BY <1>1, <1>3, <1>5, <1>6, <1>7 DEF SendRing, RecvRing
<1>9. Cell(a, 0 + 1) = Empty
  BY <1>6
<1>10. \A n \in 0 + 1..0 : Cell(a, n) = Empty => Cell(a, n) # Empty
  OBVIOUS
<1> QED BY <1>8, <1>9, <1>10 DEF Rings, a

\* The invariant at the start: nobody has sent a packet.
LEMMA InitIInv == ASSUME Init PROVE IInv
<1> DEFINE z == [x \in Nat |-> 0]
<1>0. /\ \A p \in Peers : /\ send[p] = NoPackets /\ recv[p] = NoPackets
                          /\ sentNonce[p] = 0 /\ recvNonce[p] = 0
                          /\ newest[p] = 0 /\ net[p] = << >>
                          /\ accepted[p] = 0 /\ got[p] = << >>
  BY DEF Init
<1>1. NoPackets \in RingsOf(Sent) /\ NoPackets \in RingsOf(Nat)
  BY NewRings, RingTyped DEF Rings
<1>2. TypeOK
  <2>1. 0 \in 0..Nonces - 1 /\ 0 \in 0..MaxLost
    BY Constants, ConstantsAssumption
  <2>2. << >> \in Seq(Packets) /\ << >> \in Seq(Nat)
    OBVIOUS
  <2>3. /\ send \in [Peers -> RingsOf(Sent)] /\ recv \in [Peers -> RingsOf(Nat)]
        /\ net \in [Peers -> Seq(Packets)] /\ got \in [Peers -> Seq(Nat)]
    BY <1>1, <2>2 DEF Init
  <2>4. /\ sentNonce \in [Peers -> 0..Nonces - 1]
        /\ recvNonce \in [Peers -> 0..Nonces - 1]
        /\ newest \in [Peers -> 0..Nonces - 1]
        /\ speed \in [Peers -> BOOLEAN] /\ lost \in 0..MaxLost
        /\ accepted \in [Peers -> Nat]
    BY <2>1 DEF Init
  <2> QED BY <2>3, <2>4 DEF TypeOK
<1>3. Count(NoPackets) = 0
  <2>1. Count(NoPackets) = 0 - 0
    BY NewRings, RingsFacts
  <2> QED BY <2>1
<1>4. ASSUME NEW p \in Peers
      PROVE  /\ Other(p) \in Peers
             /\ Base(p) = 0 /\ Given(p) = 0 /\ Top(p) = 0
             /\ Direction(p) /\ NoncesOK(p)
  <2>1. Other(p) \in Peers
    BY TwoPeers
  <2>2. Base(p) = 0 /\ Given(p) = 0 /\ Top(p) = 0
    BY <2>1, <1>0, <1>3 DEF Base, Given, Top
  <2>3. Direction(p)
    BY <2>1, <2>2, <1>0, NewRings DEF Direction
  <2>4. NoncesOK(p)
    <3>1. Threshold \in Nat /\ MaxNonce[p] \in Nat
      BY Sizes, ConstantsAssumption
    <3> QED BY <3>1, <2>1, <1>0 DEF NoncesOK
  <2> QED BY <2>1, <2>2, <2>3, <2>4
<1>5. ASSUME NEW step \in Nat PROVE Counter(z, 0, step)
  <2>1. z \in [Nat -> Nat] /\ z[0] = 0
    OBVIOUS
  <2>2. \A x \in 0..0 : x = 0
    OBVIOUS
  <2>3. z[0] <= z[0] + (step * (0 - 0))
    <3>1. (step * (0 - 0)) = 0
      OBVIOUS
    <3> QED BY <3>1, <2>1
  <2>4. z[0] <= z[0]
    BY <2>1
  <2> HIDE DEF z
  <2> QED BY <2>1, <2>2, <2>3, <2>4 DEF Counter
<1>6. ASSUME NEW p \in Peers PROVE History(p, z, z)
  <2>1. Counter(z, 0, 1) /\ Counter(z, 0, Size) /\ z[0] = 0
    BY <1>5, Sizes
  <2>2. Len(got[p]) = 0
    BY <1>0
  <2>3. << >> \in Seq(GoodPackets(z, z, sentNonce[p], recv[p], Len(got[p])))
    OBVIOUS
  <2>4. /\ Base(Other(p)) = 0 /\ Top(p) = 0 /\ sentNonce[p] = 0
        /\ accepted[p] = 0 /\ newest[Other(p)] = 0 /\ net[Other(p)] = << >>
    BY <1>0, <1>4
  <2>5. /\ Counter(z, sentNonce[p], 1) /\ Counter(z, sentNonce[p], Size)
        /\ z[sentNonce[p]] = accepted[p]
    BY <2>1, <2>4
  <2>6. z[sentNonce[p]] <= Len(got[p])
    BY <2>1, <2>2, <2>4
  <2>7. Base(Other(p)) <= z[newest[Other(p)]] /\ Top(p) <= z[newest[Other(p)]]
    BY <2>1, <2>4
  <2>8. net[Other(p)]
          \in Seq(GoodPackets(z, z, sentNonce[p], recv[p], Len(got[p])))
    BY <2>3, <2>4
  <2> HIDE DEF z
  <2> QED BY <2>5, <2>6, <2>7, <2>8 DEF History
<1>7. ASSUME NEW p \in Peers PROVE \E f, g : History(p, f, g)
  BY <1>6
<1> QED BY <1>2, <1>4, <1>7 DEF IInv

\* Every step.
LEMMA NextIInv == ASSUME IInv, [Next]_vars PROVE IInv'
<1>1. CASE UNCHANGED vars
  <2>1. UNCHANGED <<send, recv, sentNonce, recvNonce, newest, speed, net, lost,
                    accepted, got>>
    BY <1>1 DEF vars, nonceVars
  <2> QED BY <2>1 DEF IInv, TypeOK, Direction, NoncesOK, History, Base, Given, Top
<1>2. CASE Next
  <2> SUFFICES ASSUME NEW p \in Peers,
                      \/ \E leaves \in BOOLEAN : Write(p, leaves)
                      \/ WriteBlocked(p)
                      \/ WriteFull(p)
                      \/ SendRequest(p)
                      \/ \E n \in 1..Size : SendRequested(p, n)
                      \/ Receive(p)
                      \/ Lose(p)
               PROVE  IInv'
    BY <1>2 DEF Next
  <2>1. ASSUME NEW leaves \in BOOLEAN, Write(p, leaves) PROVE IInv'
    BY <2>1, WriteKeeps
  <2>2. ASSUME NEW n \in 1..Size, SendRequested(p, n) PROVE IInv'
    BY <2>2, SendRequestedKeeps
  <2> QED BY <2>1, <2>2, WriteBlockedKeeps, WriteFullKeeps, SendRequestKeeps,
             ReceiveKeeps, LoseKeeps
<1> QED BY <1>1, <1>2

\* What the peers know of each other stays true whatever packets are sent, lost,
\* repeated and reordered: the inductive invariant.
THEOREM LosslessInvariant == Spec => []IInv
<1>1. Init => IInv
  BY InitIInv
<1>2. IInv /\ [Next]_vars => IInv'
  BY NextIInv
<1> QED BY <1>1, <1>2, PTL DEF Spec

\* The numbers of the rings stay below 2^32, the nonces in their range, and every
\* packet of the network is one that new_data_packet or
\* generate_request_packet makes.
THEOREM LosslessTypes == Spec => []TypeOK
<1>1. IInv => TypeOK
  BY DEF IInv
<1> QED BY <1>1, LosslessInvariant, PTL

-----------------------------------------------------------------------------
(* What follows from the invariant.                                         *)

\* The two rings of a direction, for the properties.
LEMMA BothRings ==
  ASSUME IInv, NEW p \in Peers
  PROVE  LET q == Other(p)
         IN /\ q \in Peers /\ Other(q) = p
            /\ Rings(send[p], recv[q], Base(p), Len(got[q]), Top(p), accepted[p])
<1>1. Other(p) \in Peers /\ Other(Other(p)) = p
  BY TwoPeers
<1> QED BY <1>1 DEF IInv, Direction, Given

\* The places of the two rings on each other.
LEMMA Places ==
  ASSUME NEW s, NEW r, NEW base, NEW given, NEW top, NEW all,
         Rings(s, r, base, given, top, all)
  PROVE  /\ Wrap(r.start - s.start) = given - base
         /\ Wrap(r.end - s.start) = top - base
         /\ Wrap(s.end - r.start) = all - given
         /\ Wrap(r.start - r.start) = 0
         /\ r.start % Size = Slot(given + 1)
<1>1. /\ base \in Nat /\ given \in Nat /\ top \in Nat /\ all \in Nat
      /\ base <= given /\ given <= top /\ top <= all /\ all <= base + Size
  BY RingsTyped
<1>2. /\ s.start = Wrap(First + base) /\ s.end = Wrap(First + all)
      /\ r.start = Wrap(First + given) /\ r.end = Wrap(First + top)
  BY RingsFacts
<1>3. /\ given - base \in 0..Numbers - 1 /\ top - base \in 0..Numbers - 1
      /\ all - given \in 0..Numbers - 1 /\ given - given \in 0..Numbers - 1
  BY <1>1, Sizes
<1>4. /\ base \in Int /\ given \in Int /\ top \in Int /\ all \in Int
  BY <1>1
<1>5. Wrap(r.start - s.start) = given - base
  BY <1>2, <1>3, <1>4, Distance
<1>6. Wrap(r.end - s.start) = top - base
  BY <1>2, <1>3, <1>4, Distance
<1>7. Wrap(s.end - r.start) = all - given
  BY <1>2, <1>3, <1>4, Distance
<1>8. Wrap(r.start - r.start) = 0
  <2>1. Wrap(r.start - r.start) = given - given
    BY <1>2, <1>3, <1>4, Distance
  <2> QED BY <2>1, <1>4
<1>9. r.start % Size = Slot(given + 1)
  <2>1. given + 1 \in Int /\ First + ((given + 1) - 1) = First + given
    BY <1>4, Sizes
  <2>2. r.start = Number(given + 1)
    BY <2>1, <1>2 DEF Number
  <2> QED BY <2>1, <2>2, NumberSlot
<1> QED BY <1>5, <1>6, <1>7, <1>8, <1>9

\* Rings in the order base <= given <= top <= all lie on each other.
LEMMA OverlapOf == ASSUME IInv PROVE RingsOverlap
<1> SUFFICES ASSUME NEW p \in Peers
             PROVE  LET s == send[p]
                        r == recv[Other(p)]
                    IN /\ Count(s) <= Size
                       /\ Wrap(r.start - s.start) <= Wrap(r.end - s.start)
                       /\ Wrap(r.end - s.start) <= Count(s)
  BY DEF RingsOverlap
<1> DEFINE s == send[p]
           r == recv[Other(p)]
<1>1. PICK base, given, top, all : Rings(s, r, base, given, top, all)
  BY BothRings
<1> HIDE DEF s, r
<1>2. /\ base \in Nat /\ given \in Nat /\ top \in Nat /\ all \in Nat
      /\ base <= given /\ given <= top /\ top <= all /\ all <= base + Size
  BY <1>1, RingsTyped
<1>3. Count(s) = all - base
  BY <1>1, RingsFacts
<1>4. /\ Wrap(r.start - s.start) = given - base
      /\ Wrap(r.end - s.start) = top - base
  BY <1>1, Places
<1>5. /\ all - base <= Size /\ given - base <= top - base
      /\ top - base <= all - base
  BY <1>2, Sizes
<1> QED BY <1>3, <1>4, <1>5 DEF s, r

\* The invariant bounds how far the known nonce is behind.
LEMMA DeafOf == ASSUME IInv PROVE NeverDeaf
<1> SUFFICES ASSUME NEW q \in Peers
             PROVE  (newest[q] - recvNonce[q]) % Nonces <= 2 * Threshold + 1
  BY DEF NeverDeaf
<1>1. Other(q) \in Peers
  BY TwoPeers
<1>2. PICK R \in Nat : R = recvNonce[q]
  BY DEF IInv, NoncesOK
<1>3. PICK m \in Nat : m = newest[q]
  BY DEF IInv, NoncesOK
<1>4. R <= m /\ m <= R + 2 * Threshold + 1
  BY <1>2, <1>3 DEF IInv, NoncesOK
<1>5. m <= MaxNonce[Other(q)]
  <2>1. /\ m <= sentNonce[Other(q)] /\ sentNonce[Other(q)] <= MaxNonce[Other(q)]
        /\ sentNonce[Other(q)] \in Nat /\ MaxNonce[Other(q)] \in Nat
    BY <1>1, <1>3, ConstantsAssumption DEF IInv, NoncesOK
  <2> QED BY <2>1
<1>6. PICK d \in Nat : d = m - R /\ d <= 2 * Threshold + 1 /\ d <= m
  BY <1>4, Sizes
<1>7. d <= MaxNonce[Other(q)]
  BY <1>1, <1>5, <1>6, ConstantsAssumption
<1>8. d % Nonces = d
  BY <1>1, <1>7, NonceSum
<1> QED BY <1>2, <1>3, <1>6, <1>8

\* What was accepted and not given is above base, so the send ring holds it.
LEMMA NothingLostOf == ASSUME IInv PROVE NothingLost
<1> SUFFICES ASSUME NEW p \in Peers, NEW m \in Len(got[Other(p)]) + 1..accepted[p]
             PROVE  \/ \E x \in Messages(send[p]) : x.msg = m
                    \/ m \in Messages(recv[Other(p)])
  BY DEF NothingLost
<1> DEFINE s == send[p]
           r == recv[Other(p)]
           given == Len(got[Other(p)])
           all == accepted[p]
           base == Base(p)
           top == Top(p)
<1>1. Rings(s, r, base, given, top, all) /\ m \in given + 1..all
  BY BothRings
<1> HIDE DEF s, r, given, all, base, top
<1>2. /\ base \in Nat /\ given \in Nat /\ top \in Nat /\ all \in Nat
      /\ base <= given /\ given <= top /\ top <= all /\ all <= base + Size
  BY <1>1, RingsTyped
<1>3. m \in Int /\ m \in base + 1..base + Size /\ m \in given + 1..given + Size
  BY <1>1, <1>2, Sizes
<1>4. Slot(m) \in 0..Size - 1
  BY <1>3, Slots
<1>5. DOMAIN s.slot = 0..Size - 1 /\ DOMAIN r.slot = 0..Size - 1
  BY <1>1 DEF Rings, SendRing, RecvRing
<1>6. CASE Cell(s, m) # Empty
  <2>1. Cell(s, m).msg = m
    BY <1>1, <1>3, <1>6 DEF Rings, SendRing
  <2>2. Cell(s, m) \in Messages(s)
    BY <1>4, <1>5, <1>6 DEF Messages, Cell
  <2> QED BY <2>1, <2>2 DEF s
<1>7. CASE Cell(s, m) = Empty
  <2>1. Cell(r, m) # Empty
    BY <1>1, <1>7 DEF Rings
  <2>2. Cell(r, m) = m
    BY <2>1, <1>1, <1>3 DEF Rings, RecvRing
  <2>3. Cell(r, m) \in Messages(r)
    BY <2>1, <1>4, <1>5 DEF Messages, Cell
  <2> QED BY <2>2, <2>3 DEF r
<1> QED BY <1>6, <1>7

\* Request packets are read as they are meant.
LEMMA GapsOf == ASSUME IInv PROVE GapsReadBack
<1> SUFFICES ASSUME NEW p \in Peers
             PROVE  LET r == recv[p]
                        holes == {i \in 1..Count(r) : r.slot[At(r, i - 1)] = Empty}
                    IN ReadBack(Count(r), holes, Missing(r), MaxListed,
                                Wrap(send[Other(p)].end - r.start))
  BY DEF GapsReadBack
<1> DEFINE q == Other(p)
           s == send[q]
           r == recv[p]
           ring == Held(r)
           count == Wrap(s.end - r.start)
<1>1. PICK base, given, top, all : Rings(s, r, base, given, top, all)
  BY BothRings, TwoPeers
<1> HIDE DEF s, r
<1>2. /\ given \in Nat /\ top \in Nat /\ all \in Nat /\ given <= top /\ top <= all
  BY <1>1, RingsTyped
<1>3. Count(r) = top - given /\ Ring(r, given, top)
  BY <1>1, RingsFacts
<1>4. ring \in Seq(BOOLEAN) /\ Len(ring) = top - given
  BY <1>3, HeldFacts
<1>5. count = all - given
  BY <1>1, Places
<1>6. {i \in 1..Count(r) : r.slot[At(r, i - 1)] = Empty}
        = {i \in 1..Len(ring) : ~ ring[i]}
  <2>1. ring = [i \in 1..Count(r) |-> r.slot[At(r, i - 1)] # Empty]
    BY DEF Held
  <2> HIDE DEF ring
  <2> QED BY <2>1, <1>3, <1>4
<1>7. count \in Nat /\ Len(ring) <= count /\ MaxListed \in Nat
  BY <1>2, <1>4, <1>5, Sizes
<1> HIDE DEF ring, count
<1>8. ReadBack(Len(ring), {i \in 1..Len(ring) : ~ ring[i]},
               Encode(ring, MaxListed), MaxListed, count)
  BY <1>4, <1>7, RequestsReadBack
<1>9. Missing(r) = Encode(ring, MaxListed) /\ Count(r) = Len(ring)
  BY <1>3, <1>4 DEF Missing, ring
<1> QED BY <1>6, <1>8, <1>9 DEF r, s, count

\* The first hole of a ring is asked for again: it is in every request packet.
LEMMA FirstHole ==
  ASSUME NEW ring \in Seq(BOOLEAN), Len(ring) > 0, ~ ring[1],
         NEW count \in Nat, count > 0
  PROVE  Decode(Encode(ring, MaxListed), count)[1] = "again"
<1> DEFINE told == Told(ring, MaxListed)
           bytes == Encode(ring, MaxListed)
<1>1. MaxListed \in Nat /\ MaxListed > 0 /\ Len(ring) \in Nat
  BY Sizes
<1>2. /\ Len(bytes) \in Nat
      /\ \A i \in 0..Len(ring) : /\ Len(told[i].bytes) \in Nat
                                 /\ Len(told[i].bytes) <= Len(bytes)
  BY <1>1, Bytes
<1>3. 1 \in 1..Len(ring) /\ 1 \in 0..Len(ring) /\ 0 \in 0..Len(ring) /\ 1 - 1 = 0
  BY <1>1
<1>4. told[0] = [bytes |-> << >>, n |-> 1]
  BY <1>1, ToldSteps
<1>5. Turned(told[1 - 1], told[1], ring[1], MaxListed)
  BY <1>1, <1>3, OneTell
<1> HIDE DEF told, bytes
<1>6. Len(told[0].bytes) = 0
  BY <1>4
<1>7. told[1].bytes = Append(told[0].bytes, told[0].n)
  BY <1>1, <1>3, <1>5, <1>6 DEF Turned
<1>8. Len(told[1].bytes) = 1
  BY <1>4, <1>7
<1>9. Len(bytes) > 0
  <2>1. Len(told[1].bytes) <= Len(bytes)
    BY <1>2, <1>3
  <2>2. PICK l \in Nat : l = Len(bytes)
    BY <1>2
  <2>3. 1 <= l
    BY <2>1, <2>2, <1>8
  <2>4. l > 0
    BY <2>3
  <2> QED BY <2>2, <2>4
<1>10. MarkOf(ring, MaxListed, 1) = "again"
  BY <1>1, <1>3, <1>6, <1>9 DEF MarkOf, told, bytes
<1>11. Decode(Encode(ring, MaxListed), count)
         = [i \in 1..count |-> MarkOf(ring, MaxListed, i)]
  BY <1>1, Marks
<1> QED BY <1>10, <1>11

\* A ring whose oldest message the other peer misses, when its request packet
\* arrives.
LEMMA OldestWaits ==
  ASSUME NEW d, NEW r, NEW given, NEW all,
         Rings(d, r, given, given, all, all), all > given
  PROVE  LET s == MarkMissing(d, Missing(r))
         IN /\ Holds(s, r.start) /\ s.slot[r.start % Size].wait
            /\ Takes(r, r.start)
<1> DEFINE s == MarkMissing(d, Missing(r))
           ring == Held(r)
           bytes == Encode(ring, MaxListed)
           j == Slot(given + 1)
<1>1. given \in Nat /\ all \in Nat /\ all <= given + Size
  BY RingsTyped
<1>2. PICK count \in Nat : count = all - given /\ count > 0
  BY <1>1
<1>3. Ring(r, given, all) /\ Ring(d, given, all) /\ d.start = r.start
  BY RingsFacts
<1>4. /\ ring \in Seq(BOOLEAN) /\ Len(ring) = count
      /\ \A i \in 1..count : ring[i] = (Cell(r, given + i) # Empty)
  BY <1>2, <1>3, HeldFacts
<1>5. Cell(r, given + 1) = Empty /\ Cell(d, given + 1) # Empty
  <2>1. given + 1 \in given + 1..all
    BY <1>1, <1>2
  <2> QED BY <2>1 DEF Rings
<1>6. Missing(r) = bytes
  BY DEF Missing
<1> HIDE DEF ring, bytes
<1>7. Decode(bytes, count)[1] = "again"
  <2>1. 1 \in 1..count /\ Len(ring) > 0
    BY <1>2, <1>4
  <2>2. ~ ring[1]
    BY <2>1, <1>4, <1>5
  <2> QED BY <2>1, <2>2, <1>2, <1>4, FirstHole DEF bytes
<1>8. ASSUME NEW i \in 1..all - given
      PROVE  LET mark == Decode(bytes, all - given)[i]
             IN /\ mark \in {"kept", "again", "received"}
                /\ mark = "received" => Has(r, given, given + i)
  <2>1. /\ Decode(bytes, count)[i] \in {"kept", "again", "received"}
        /\ Decode(bytes, count)[i] = "received" => i <= Len(ring) /\ ring[i]
    BY <1>2, <1>4, DecodeFacts DEF bytes
  <2>2. ring[i] => Has(r, given, given + i)
    <3>1. given + i <= given + Size
      BY <1>1, Sizes
    <3> QED BY <3>1, <1>2, <1>4 DEF Has
  <2> QED BY <2>1, <2>2, <1>2
<1>9. Rings(s, r, given, given, all, all)
  <2> HIDE DEF s
  <2>1. Rings(MarkMissing(d, bytes), r, given, given, all, all)
    BY <1>8, RingsMarked
  <2> QED BY <2>1, <1>6 DEF s
<1> HIDE DEF s
<1>10. Cell(s, given + 1) # Empty /\ s.start = r.start /\ Count(s) = all - given
  <2>1. given + 1 \in given + 1..all
    BY <1>1, <1>2
  <2>2. s.start = r.start /\ Count(s) = all - given
    BY <1>9, RingsFacts
  <2> QED BY <2>1, <2>2, <1>5, <1>9 DEF Rings
<1>11. /\ Wrap(s.end - r.start) = all - given /\ Wrap(r.start - r.start) = 0
       /\ r.start % Size = j
  BY <1>9, Places
<1>12. Holds(s, r.start)
  BY <1>1, <1>2, <1>10, <1>11 DEF Holds, Cell
<1>13. Takes(r, r.start)
  BY <1>5, <1>11, Sizes DEF Takes, Cell
<1>14. s.slot[j].wait
  <2>1. given + 1 \in given + 1..given + Size /\ j \in 0..Size - 1
    BY <1>1, Sizes, Slots
  <2>2. (j - d.start) % Size = 0
    <3>1. PICK n \in given + 1..given + Size : n = given + 1
      BY <2>1
    <3>2. Ring(d, given, all)
      BY <1>3
    <3>3. (Slot(n) - d.start) % Size = n - (given + 1)
      BY <3>2, PlaceOf
    <3>4. n - (given + 1) = 0
      BY <3>1, <1>1
    <3> QED BY <3>1, <3>3, <3>4
  <2>3. Count(d) = count
    BY <1>2, RingsFacts
  <2>4. DOMAIN d.slot = 0..Size - 1 /\ d.slot[j] \in Sent /\ d.slot[j] # Empty
    <3>1. d.slot \in [0..Size - 1 -> Sent \cup {Empty}]
      BY DEF Rings, SendRing
    <3> QED BY <3>1, <2>1, <1>5 DEF Cell
  <2>5. s.slot[j] = Marked(d.slot[j], "again")
    <3> DEFINE marks == Decode(bytes, Count(d))
               w == [x \in DOMAIN d.slot |->
                       LET i == (x - d.start) % Size
                       IN IF i >= Count(d) THEN d.slot[x]
                          ELSE Marked(d.slot[x], marks[i + 1])]
    <3>1. s = [d EXCEPT !.slot = w]
      BY <1>6 DEF s, MarkMissing
    <3>2. w[j] = Marked(d.slot[j], marks[0 + 1])
      BY <2>1, <2>2, <2>3, <2>4, <1>2
    <3>3. marks[0 + 1] = "again"
      BY <2>3, <1>7
    <3> HIDE DEF w, marks
    <3>4. s.slot = w
      <4>1. d \in [start : Int, end : Int,
                   slot : [0..Size - 1 -> Nat \cup Sent \cup {Empty}]]
        BY <1>3 DEF Ring
      <4> QED BY <4>1, <3>1
    <3> QED BY <3>2, <3>3, <3>4
  <2>6. Marked(d.slot[j], "again") = [d.slot[j] EXCEPT !.wait = TRUE]
    BY <2>4 DEF Marked
  <2>7. PICK c \in Sent : c = d.slot[j]
    BY <2>4
  <2>8. [c EXCEPT !.wait = TRUE].wait = TRUE
    BY DEF Sent
  <2> QED BY <2>5, <2>6, <2>7, <2>8
<1> QED BY <1>11, <1>12, <1>13, <1>14, SMTT(60) DEF s

\* One round trip heals.
LEMMA HealsOf == ASSUME IInv PROVE OneRoundHeals
<1> SUFFICES ASSUME NEW p \in Peers, accepted[p] > Len(got[Other(p)])
             PROVE  LET q == Other(p)
                        r == SetEnd(recv[q], send[p].end)
                        s == MarkMissing(DropFirst(send[p],
                                                   Wrap(r.start - send[p].start)),
                                         Missing(r))
                    IN /\ r.start = send[p].start \/ ~ CannotClear(send[p], r.start)
                       /\ Holds(s, r.start)
                       /\ s.slot[r.start % Size].wait
                       /\ Takes(r, r.start)
  BY DEF OneRoundHeals
<1> DEFINE old == send[p]
           r == SetEnd(recv[Other(p)], send[p].end)
           base == Base(p)
           given == Len(got[Other(p)])
           all == accepted[p]
           d == DropFirst(old, Wrap(r.start - old.start))
<1>1. Rings(old, recv[Other(p)], base, given, Top(p), all)
  BY BothRings
<1>2. /\ base \in Nat /\ given \in Nat /\ Top(p) \in Nat /\ all \in Nat
      /\ base <= given /\ given <= Top(p) /\ Top(p) <= all /\ all <= base + Size
      /\ old.end = Wrap(First + all) /\ given < all
  <2> HIDE DEF old, base, given, all
  <2>1. given < all <=> all > given
    BY <1>1, RingsTyped
  <2> QED BY <2>1, <1>1, RingsTyped, RingsFacts DEF given, all
<1>3. Rings(old, r, base, given, all, all)
  <2>1. all \in Top(p)..all
    BY <1>2
  <2>2. r = SetEnd(recv[Other(p)], Wrap(First + all))
    BY <1>2
  <2> HIDE DEF old, base, given, all, r
  <2> QED BY <2>1, <2>2, <1>1, RingsEnd
<1> HIDE DEF old, base, given, all, r
<1>4. r.start = Wrap(First + given) /\ SendRing(old, base, all)
  BY <1>3, RingsFacts DEF Rings
<1>5. /\ Wrap(r.start - old.start) = given - base
      /\ r.start = old.start \/ ~ CannotClear(old, r.start)
  <2>1. given \in base..all
    BY <1>2
  <2> QED BY <2>1, <1>2, <1>4, AckBelieved
<1>6. Rings(d, r, given, given, all, all)
  <2>1. given \in base..given
    BY <1>2
  <2>2. Rings(DropFirst(old, given - base), r, given, given, all, all)
    BY <2>1, <1>3, RingsAcked
  <2> QED BY <2>2, <1>5
<1> HIDE DEF d
<1>7. all > given
  BY <1>2
<1>8. LET s == MarkMissing(d, Missing(r))
      IN /\ Holds(s, r.start) /\ s.slot[r.start % Size].wait
         /\ Takes(r, r.start)
  BY <1>6, <1>7, OldestWaits
<1> QED BY <1>5, <1>8 DEF d, old, r

\* The peers and what is outstanding, as the channel sees them.
LEMMA Outstanding ==
  ASSUME NEW p \in Peers
  PROVE  /\ Promise!Outstanding(p) = accepted[p] - Len(got[Other(p)])
         /\ Promise!Other(p) = Other(p)
<1>1. Promise!Other(p) = Other(p)
  BY DEF Promise!Other, Other
<1> QED BY <1>1 DEF Promise!Outstanding

\* write_cryptpacket accepts a message.
LEMMA WriteAccepts ==
  ASSUME IInv, NEW p \in Peers, NEW leaves \in BOOLEAN, Write(p, leaves)
  PROVE  Promise!Accept(p)
<1>1. /\ Count(send[p]) < Size /\ accepted' = [accepted EXCEPT ![p] = @ + 1]
      /\ got' = got
  BY DEF Write
<1>2. Rings(send[p], recv[Other(p)], Base(p), Len(got[Other(p)]), Top(p),
            accepted[p])
  BY BothRings
<1>3. PICK base, given, all : /\ given = Len(got[Other(p)]) /\ all = accepted[p]
                              /\ base \in Nat /\ given \in Nat /\ all \in Nat
                              /\ base <= given /\ Count(send[p]) = all - base
  BY <1>2, RingsTyped, RingsFacts
<1>4. all - given < Size
  BY <1>1, <1>3, Sizes
<1>5. Promise!Outstanding(p) < Size
  BY <1>3, <1>4, Outstanding
<1> QED BY <1>1, <1>5 DEF Promise!Accept

\* A packet gives the program the next messages, or none.
LEMMA ReceiveGives ==
  ASSUME IInv, NEW q \in Peers, Receive(q)
  PROVE  UNCHANGED <<accepted, got>> \/ \E n \in 1..Size : Promise!Give(q, n)
<1>1. PICK k, o, f, g :
        /\ Comes(q, k, o, f, g)
        /\ Reject(q, k) \/ Late(q, k) \/ OnRequest(q, k) \/ OnData(q, k)
  BY ReceiveComes
<1>2. accepted' = accepted
  BY <1>1 DEF Comes
<1>3. CASE Reject(q, k) \/ Late(q, k) \/ OnRequest(q, k)
  BY <1>2, <1>3 DEF Reject, Late, OnRequest
<1>4. CASE OnData(q, k)
  <2>1. PICK s, r, l, R, N, base, top, c :
          Arrived(q, f, g, s, r, l, R, N, base, top) /\ Passed(q, l, c)
    BY <1>1, <1>4, OnDataMoves
  <2>2. got' = [got EXCEPT ![q] = l]
    BY <2>1 DEF Arrived
  <2>3. /\ c \in 0..Size /\ Len(got[q]) + c <= accepted[Other(q)]
        /\ l = got[q] \o [i \in 1..c |-> Len(got[q]) + i]
    BY <2>1 DEF Passed
  <2>4. CASE c = 0
    <3> DEFINE none == [i \in 1..c |-> Len(got[q]) + i]
    <3>1. none = << >>
      BY <2>4
    <3> HIDE DEF none
    <3>2. got[q] \in Seq(Nat) /\ got = [got EXCEPT ![q] = got[q]]
      BY RingsOfQ
    <3>3. got[q] \o none = got[q]
      BY <3>1, <3>2
    <3>4. l = got[q]
      BY <2>3, <3>3 DEF none
    <3> QED BY <2>2, <3>2, <3>4, <1>2
  <2>5. CASE c \in 1..Size
    <3>1. Other(q) \in Peers /\ Other(Other(q)) = q
      BY TwoPeers
    <3>2. Promise!Outstanding(Promise!Other(q)) = accepted[Other(q)] - Len(got[q])
      BY <3>1, Outstanding
    <3>3. accepted[Other(q)] \in Nat /\ Len(got[q]) \in Nat
      BY RingsOfQ
    <3>4. c <= accepted[Other(q)] - Len(got[q])
      BY <2>3, <2>5, <3>3
    <3>5. got' = [got EXCEPT ![q] = @ \o [i \in 1..c |-> Len(@) + i]]
      BY <2>2, <2>3
    <3>6. Promise!Give(q, c)
      BY <3>2, <3>4, <3>5, <1>2 DEF Promise!Give
    <3> QED BY <3>6, <2>5
  <2> QED BY <2>3, <2>4, <2>5, Sizes
<1> QED BY <1>1, <1>3, <1>4

\* Every step of the connection is a step of the channel, or none.
LEMMA StepImplements ==
  ASSUME IInv, [Next]_vars PROVE [Promise!Next]_<<accepted, got>>
<1>1. CASE UNCHANGED vars
  BY <1>1 DEF vars
<1>2. CASE Next
  <2> SUFFICES ASSUME NEW p \in Peers,
                      \/ \E leaves \in BOOLEAN : Write(p, leaves)
                      \/ WriteBlocked(p)
                      \/ WriteFull(p)
                      \/ SendRequest(p)
                      \/ \E n \in 1..Size : SendRequested(p, n)
                      \/ Receive(p)
                      \/ Lose(p)
               PROVE  [Promise!Next]_<<accepted, got>>
    BY <1>2 DEF Next
  <2>1. ASSUME NEW leaves \in BOOLEAN, Write(p, leaves)
        PROVE  [Promise!Next]_<<accepted, got>>
    BY <2>1, WriteAccepts DEF Promise!Next
  <2>2. CASE \/ WriteBlocked(p) \/ WriteFull(p) \/ SendRequest(p)
             \/ Lose(p) \/ \E n \in 1..Size : SendRequested(p, n)
    <3>1. accepted' = accepted /\ got' = got
      BY <2>2 DEF WriteBlocked, WriteFull, SendRequest, SendRequested, Lose
    <3> QED BY <3>1
  <2>3. CASE Receive(p)
    BY <2>3, ReceiveGives DEF Promise!Next
  <2> QED BY <2>1, <2>2, <2>3
<1> QED BY <1>1, <1>2

\* Whatever the network loses, repeats and reorders, read_data_beg_buffer gives the
\* other program the messages that write_cryptpacket accepted, each once and in
\* their order, and no more than a ring of them is outstanding.
THEOREM LosslessImplementsChannel == Spec => ImplementsChannel
<1>1. Init => Promise!Init
  BY DEF Init, Promise!Init
<1>2. IInv /\ [Next]_vars => [Promise!Next]_Promise!vars
  BY StepImplements DEF Promise!vars
<1> QED BY <1>1, <1>2, LosslessInvariant, PTL DEF Spec, ImplementsChannel, Promise!Spec

\* clear_buffer_until, add_data_to_buffer, add_data_end_of_buffer,
\* set_buffer_end and read_data_beg_buffer keep the two rings of a direction
\* on each other, however often their 32-bit numbers wrap around, although the
\* numbers a packet brings may be old.
THEOREM LosslessRingsOverlap == Spec => []RingsOverlap
<1>1. IInv => RingsOverlap
  BY OverlapOf
<1> QED BY <1>1, LosslessInvariant, PTL

\* handle_request_packet and clear_buffer_until forget a message only when the
\* other program has it or the other peer's ring holds it: whatever the network
\* loses, repeats or reorders, every message that write_cryptpacket accepted
\* and that was not given yet is still there.
THEOREM LosslessNothingLost == Spec => []NothingLost
<1>1. IInv => NothingLost
  BY NothingLostOf
<1> QED BY <1>1, LosslessInvariant, PTL

\* handle_data_packet moves the known nonce by Threshold when a packet is more
\* than 2 * Threshold ahead of it: the known nonce is never more than one
\* packet further than that behind the newest nonce that was decrypted, so the
\* two bytes of a packet tell its nonce.
THEOREM LosslessNeverDeaf == Spec => []NeverDeaf
<1>1. IInv => NeverDeaf
  BY DeafOf
<1> QED BY <1>1, LosslessInvariant, PTL

\* Whatever was lost before, when each peer has heard one request packet of the
\* other (set_buffer_end at the one, clear_buffer_until and
\* handle_request_packet at the other), the oldest message that is missing is
\* marked to be sent again, and add_data_to_buffer will take it.
THEOREM LosslessOneRoundHeals == Spec => []OneRoundHeals
<1>1. IInv => OneRoundHeals
  BY HealsOf
<1> QED BY <1>1, LosslessInvariant, PTL

\* In every state handle_request_packet reads the bytes that
\* generate_request_packet writes as they are meant: what it marks to be sent
\* again is missing, what it forgets was received, and the list is complete or
\* a list of the oldest missing packets.
THEOREM LosslessGapsReadBack == Spec => []GapsReadBack
<1>1. IInv => GapsReadBack
  BY GapsOf
<1> QED BY <1>1, LosslessInvariant, PTL
=============================================================================
