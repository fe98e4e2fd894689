-------------------------- MODULE HandshakeProofs --------------------------
(***************************************************************************)
(* The invariants of the handshake for any limits of its loops, any number *)
(* of messages on their way and any number of faults.  IInv is the         *)
(* inductive invariant: it says what the data files and the friend lists   *)
(* of the two programs have to do with each other, whose answer is on its  *)
(* way, and how far the loops of init_connect have counted.                *)
(***************************************************************************)
EXTENDS Handshake, SequenceTheorems, TLAPS

\* burstlinkser has no friend but one that asked, and who runs has a data file
\* that could be read when the program was started.
FilesOK ==
  /\ friend[Burstlinkser] \in {"none", "confirmed"}
  /\ stored[Burstlinkser] \in {"none", "confirmed", "torn"}
  /\ \A p \in Programs : Runs(p) => stored[p] # "torn"

\* Whatever burstlink remembers of a session, in memory or in its file, was
\* with a burstlinkser that has it for a friend.
FriendOK ==
  (\/ met[Burstlink]
   \/ friend[Burstlink] = "confirmed"
   \/ stored[Burstlink] = "confirmed")
  => HasFriend(Burstlinkser) \/ forgot

\* An answer is on its way, in the listener or acted upon only when
\* burstlinkser has given it since burstlink started.
AnswerOK ==
  wire[Burstlink] # <<>> \/ listener = "received" \/ result = 402 => answered

\* How far the loops of init_connect can be in each of its stages.
LoopsOK ==
  /\ stage[Burstlink] \in {"offline", "asking", "down"} => polls = 0
  /\ stage[Burstlink] \in {"waiting", "looking"} => polls <= FriendPolls
  /\ At("polling") => polls <= AnswerPolls
  /\ At("polling") /\ listener \in {"null", "empty"} => polls = 0
  /\ listener = "empty" => At("polling")

IInv == TypeOK /\ FilesOK /\ FriendOK /\ AnswerOK /\ LoopsOK

\* Each program is the other one's other one.
LEMMA Others == /\ Other(Burstlink) = Burstlinkser
                /\ Other(Burstlinkser) = Burstlink
                /\ \A p \in Programs : Other(p) \in Programs
BY ConstantsAssumption DEF Other, Programs

\* What Sent does to the messages on their way: nothing, or it appends.
LEMMA SentFacts ==
  ASSUME TypeOK, NEW p \in Programs, NEW m \in {Greeting, Creation}
  PROVE  /\ Sent(p, m) \in [Programs -> Seq({Greeting, Creation})]
         /\ \A q \in Programs \ {Other(p)} : Sent(p, m)[q] = wire[q]
BY Others DEF Sent, TypeOK, Programs

\* What is on its way when a session ends is gone.
LEMMA ClearedFacts == /\ Cleared \in [Programs -> Seq({Greeting, Creation})]
                      /\ \A p \in Programs : Cleared[p] = <<>>
BY EmptySeq DEF Cleared

\* The initial state.
LEMMA InitIInv == ASSUME Init PROVE IInv
<1> USE ConstantsAssumption DEF Init, Programs
<1>1. TypeOK
  <2>1. wire \in [Programs -> Seq({Greeting, Creation})]
    BY EmptySeq
  <2>2. linked \in BOOLEAN /\ online \in [Programs -> BOOLEAN]
    BY DEF Core!Init
  <2>3. dht \in [Programs -> BOOLEAN] /\ met \in [Programs -> BOOLEAN]
    OBVIOUS
  <2>4. /\ friend \in [Programs -> Statuses]
        /\ stored \in [Programs -> Statuses \cup {"torn"}]
    BY DEF Statuses
  <2>5. /\ request \in BOOLEAN /\ remembered \in BOOLEAN
        /\ answered \in BOOLEAN /\ forgot \in BOOLEAN
    OBVIOUS
  <2>6. polls \in 0..FriendPolls + AnswerPolls /\ faults \in 0..MaxFaults
    OBVIOUS
  <2> QED BY <2>1, <2>2, <2>3, <2>4, <2>5, <2>6 DEF TypeOK
<1>2. FilesOK /\ FriendOK /\ AnswerOK /\ LoopsOK
  BY DEF FilesOK, FriendOK, AnswerOK, LoopsOK, At
<1> QED BY <1>1, <1>2 DEF IInv

-----------------------------------------------------------------------------
(* The actions.                                                            *)

\* A program that ends leaves variables of their types behind, if its file is.
LEMMA DownKeepsTypes ==
  ASSUME TypeOK, NEW p \in Programs, Down(p),
         stored' \in [Programs -> Statuses \cup {"torn"}],
         forgot' \in BOOLEAN, faults' \in 0..MaxFaults
  PROVE  TypeOK'
<1> USE ConstantsAssumption DEF TypeOK, Down, Leave, Core!End, Programs,
      Statuses, boot
<1>1. linked' \in BOOLEAN
  OBVIOUS
<1>2. online' \in [Programs -> BOOLEAN]
  <2>1. CASE online' = online
    BY <2>1
  <2>2. CASE online' = [online EXCEPT ![p] = FALSE]
    BY <2>2
  <2>3. online' = online \/ online' = [online EXCEPT ![p] = FALSE]
    OBVIOUS
  <2> QED BY <2>1, <2>2, <2>3
<1>3. wire' \in [Programs -> Seq({Greeting, Creation})]
  BY ClearedFacts
<1>4. polls' \in 0..FriendPolls + AnswerPolls
  OBVIOUS
<1>5. /\ request' \in BOOLEAN /\ remembered' \in BOOLEAN
      /\ answered' \in BOOLEAN /\ met' \in [Programs -> BOOLEAN]
  OBVIOUS
<1>6. /\ accepting' \in {"no", "started", "accepted", "missed"}
      /\ listener' \in {"null", "empty", "waiting", "received"}
      /\ result' \in {0, 401, 402}
  OBVIOUS
<1> QED BY <1>1, <1>2, <1>3, <1>4, <1>5, <1>6

\* The core of a program finds the network.
LEMMA BootstrapKeepsIInv ==
  ASSUME IInv, NEW p \in Programs, Bootstrap(p) PROVE IInv'
<1> USE ConstantsAssumption, Others DEF IInv, TypeOK, Bootstrap, Runs, links,
      boot, file, Programs, At
<1>1. TypeOK'
  BY DEF Statuses
<1>2. FilesOK'
  BY DEF FilesOK, Runs
<1>3. FriendOK'
  BY DEF FilesOK, FriendOK, HasFriend, Runs
<1>4. AnswerOK'
  BY DEF AnswerOK
<1>5. LoopsOK'
  BY DEF LoopsOK
<1> QED BY <1>1, <1>2, <1>3, <1>4, <1>5

\* The core of a program loses the network.
LEMMA UnplugKeepsIInv ==
  ASSUME IInv, NEW p \in Programs, Unplug(p) PROVE IInv'
<1> USE ConstantsAssumption, Others DEF IInv, TypeOK, Unplug, Fault, links,
      boot, file, Programs, At
<1>1. TypeOK'
  BY DEF Statuses
<1>2. FilesOK'
  BY DEF FilesOK, Runs
<1>3. FriendOK'
  BY DEF FilesOK, FriendOK, HasFriend, Runs
<1>4. AnswerOK'
  BY DEF AnswerOK
<1>5. LoopsOK'
  BY DEF LoopsOK
<1> QED BY <1>1, <1>2, <1>3, <1>4, <1>5

\* A session begins when both run and have each other for friends, so that
\* burstlinkser has burstlink.
LEMMA BeginKeepsIInv ==
  ASSUME IInv, NEW p \in Programs, Begin(p) PROVE IInv'
<1> USE ConstantsAssumption, Others DEF IInv, TypeOK, Begin, Core!Begin, Runs,
      links, boot, file, Programs, At
<1>1. TypeOK'
  BY DEF Statuses
<1>2. FilesOK'
  BY DEF FilesOK, Runs
<1>3. FriendOK'
  BY DEF FilesOK, FriendOK, HasFriend, Runs
<1>4. AnswerOK'
  BY DEF AnswerOK
<1>5. LoopsOK'
  BY DEF LoopsOK
<1> QED BY <1>1, <1>2, <1>3, <1>4, <1>5

\* Who comes online has had a session.
LEMMA ComeOnlineKeepsIInv ==
  ASSUME IInv, NEW p \in Programs, ComeOnline(p) PROVE IInv'
<1> USE ConstantsAssumption, Others DEF IInv, TypeOK, ComeOnline,
      Core!ComeOnline, Fault, Runs, links, boot, file, Programs, At
<1>1. TypeOK'
  BY DEF Statuses
<1>2. FilesOK'
  BY DEF FilesOK, Runs
<1>3. FriendOK'
  BY DEF FilesOK, FriendOK, HasFriend, Runs
<1>4. AnswerOK'
  BY DEF AnswerOK
<1>5. LoopsOK'
  BY DEF LoopsOK
<1> QED BY <1>1, <1>2, <1>3, <1>4, <1>5

\* What is on its way is lost with the session.
LEMMA GiveUpKeepsIInv ==
  ASSUME IInv, NEW p \in Programs, GiveUp(p) PROVE IInv'
<1> USE ConstantsAssumption, Others DEF IInv, TypeOK, GiveUp, Core!End, Fault,
      links, boot, file, Programs, At
<1>1. TypeOK'
  <2>1. linked' \in BOOLEAN /\ online' \in [Programs -> BOOLEAN]
    OBVIOUS
  <2>2. wire' \in [Programs -> Seq({Greeting, Creation})]
    BY ClearedFacts
  <2>3. faults' \in 0..MaxFaults /\ forgot' \in BOOLEAN
    OBVIOUS
  <2>4. stored' \in [Programs -> Statuses \cup {"torn"}]
    BY DEF FilesOK, Statuses
  <2> QED BY <2>1, <2>2, <2>3, <2>4 DEF Statuses
<1>2. FilesOK'
  BY DEF FilesOK, Runs
<1>3. FriendOK'
  BY DEF FilesOK, FriendOK, HasFriend, Runs
<1>4. AnswerOK'
  BY ClearedFacts DEF AnswerOK
<1>5. LoopsOK'
  BY DEF LoopsOK
<1> QED BY <1>1, <1>2, <1>3, <1>4, <1>5

\* The file takes the friend list over.
LEMMA InterruptKeepsIInv ==
  ASSUME IInv, NEW p \in Programs, Interrupt(p) PROVE IInv'
<1>1. TypeOK'
  <2>1. faults' \in 0..MaxFaults
    BY ConstantsAssumption DEF IInv, TypeOK, Fault, Interrupt
  <2>2. stored' \in [Programs -> Statuses \cup {"torn"}]
    BY DEF IInv, TypeOK, FilesOK, Statuses, Programs, Down, Runs, Interrupt
  <2>3. forgot' \in BOOLEAN
    BY ConstantsAssumption DEF IInv, TypeOK, Fault, Interrupt
  <2> QED BY <2>1, <2>2, <2>3, DownKeepsTypes DEF IInv, Interrupt
<1> USE ConstantsAssumption, Others DEF IInv, TypeOK, Interrupt, Down, Leave,
      Core!End, Fault, Runs, links, boot, file, Programs, At
<1>2. FilesOK'
  BY DEF FilesOK, Runs
<1>3. FriendOK'
  BY DEF FilesOK, FriendOK, HasFriend, Runs
<1>4. AnswerOK'
  BY ClearedFacts DEF AnswerOK
<1>5. LoopsOK'
  BY DEF LoopsOK
<1> QED BY <1>1, <1>2, <1>3, <1>4, <1>5

\* A friend that is not in the file is forgotten.
LEMMA CrashKeepsIInv ==
  ASSUME IInv, NEW p \in Programs, Crash(p) PROVE IInv'
<1>1. TypeOK'
  <2>1. faults' \in 0..MaxFaults
    BY ConstantsAssumption DEF IInv, TypeOK, Fault, Crash
  <2>2. stored' \in [Programs -> Statuses \cup {"torn"}]
    BY DEF IInv, TypeOK, FilesOK, Statuses, Programs, Down, Runs, Crash
  <2>3. forgot' \in BOOLEAN
    BY ConstantsAssumption DEF IInv, TypeOK, Fault, Crash
  <2> QED BY <2>1, <2>2, <2>3, DownKeepsTypes DEF IInv, Crash
<1> USE ConstantsAssumption, Others DEF IInv, TypeOK, Crash, Down, Leave,
      Core!End, Fault, Runs, links, boot, file, Programs, At
<1>2. FilesOK'
  BY DEF FilesOK, Runs
<1>3. FriendOK'
  <2>1. CASE p = Burstlink
    BY <2>1 DEF FriendOK, HasFriend
  <2>2. CASE p = Burstlinkser
    <3>1. CASE forgot
      BY <3>1, <2>2 DEF FriendOK
    <3>2. CASE ~ forgot
      BY <3>2, <2>2 DEF FilesOK, FriendOK, HasFriend
    <3> QED BY <3>1, <3>2
  <2> QED BY <2>1, <2>2
<1>4. AnswerOK'
  BY ClearedFacts DEF AnswerOK
<1>5. LoopsOK'
  BY DEF LoopsOK
<1> QED BY <1>1, <1>2, <1>3, <1>4, <1>5

\* The file is empty, and so is the friend list.
LEMMA TearKeepsIInv ==
  ASSUME IInv, NEW p \in Programs, Tear(p) PROVE IInv'
<1>1. TypeOK'
  <2>1. faults' \in 0..MaxFaults
    BY ConstantsAssumption DEF IInv, TypeOK, Fault, Tear
  <2>2. stored' \in [Programs -> Statuses \cup {"torn"}]
    BY DEF IInv, TypeOK, FilesOK, Statuses, Programs, Down, Runs, Tear
  <2>3. forgot' \in BOOLEAN
    BY ConstantsAssumption DEF IInv, TypeOK, Fault, Tear
  <2> QED BY <2>1, <2>2, <2>3, DownKeepsTypes DEF IInv, Tear
<1> USE ConstantsAssumption, Others DEF IInv, TypeOK, Tear, Down, Leave,
      Core!End, Fault, Runs, links, boot, file, Programs, At
<1>2. FilesOK'
  BY DEF FilesOK, Runs
<1>3. FriendOK'
  BY DEF FilesOK, FriendOK, HasFriend, Runs
<1>4. AnswerOK'
  BY ClearedFacts DEF AnswerOK
<1>5. LoopsOK'
  BY DEF LoopsOK
<1> QED BY <1>1, <1>2, <1>3, <1>4, <1>5

\* The friend list is that of the file.
LEMMA StartKeepsIInv ==
  ASSUME IInv, NEW p \in Programs, Start(p) PROVE IInv'
<1> USE ConstantsAssumption, Others DEF IInv, TypeOK, Start, Loaded, links,
      boot, file, Programs, At
<1>1. TypeOK'
  BY DEF Statuses
<1>2. FilesOK'
  BY DEF FilesOK, Runs
<1>3. FriendOK'
  BY DEF FilesOK, FriendOK, HasFriend, Runs
<1>4. AnswerOK'
  BY DEF AnswerOK
<1>5. LoopsOK'
  BY DEF LoopsOK
<1> QED BY <1>1, <1>2, <1>3, <1>4, <1>5

\* burstlink asks.
LEMMA AskKeepsIInv ==
  ASSUME IInv, Ask PROVE IInv'
<1> USE ConstantsAssumption, Others DEF IInv, TypeOK, Ask, Runs, links, boot,
      file, Programs, At
<1>1. TypeOK'
  BY DEF Statuses
<1>2. FilesOK'
  BY DEF FilesOK, Runs
<1>3. FriendOK'
  BY DEF FilesOK, FriendOK, HasFriend, Runs
<1>4. AnswerOK'
  BY DEF AnswerOK
<1>5. LoopsOK'
  BY DEF LoopsOK
<1> QED BY <1>1, <1>2, <1>3, <1>4, <1>5

\* burstlink is to ask again.
LEMMA AskTimedOutKeepsIInv ==
  ASSUME IInv, AskTimedOut PROVE IInv'
<1> USE ConstantsAssumption, Others DEF IInv, TypeOK, AskTimedOut, Runs,
      links, boot, file, Programs, At
<1>1. TypeOK'
  BY DEF Statuses
<1>2. FilesOK'
  BY DEF FilesOK, Runs
<1>3. FriendOK'
  BY DEF FilesOK, FriendOK, HasFriend, Runs
<1>4. AnswerOK'
  BY DEF AnswerOK
<1>5. LoopsOK'
  BY DEF LoopsOK
<1> QED BY <1>1, <1>2, <1>3, <1>4, <1>5

\* The request is lost.
LEMMA LoseRequestKeepsIInv ==
  ASSUME IInv, LoseRequest PROVE IInv'
<1> USE ConstantsAssumption, Others DEF IInv, TypeOK, LoseRequest, Fault,
      links, boot, file, Programs, At
<1>1. TypeOK'
  <2>1. request' \in BOOLEAN
    OBVIOUS
  <2>2. faults' \in 0..MaxFaults
    OBVIOUS
  <2> QED BY <2>1, <2>2
<1>2. FilesOK'
  BY DEF FilesOK, Runs
<1>3. FriendOK'
  BY DEF FilesOK, FriendOK, HasFriend, Runs
<1>4. AnswerOK'
  BY DEF AnswerOK
<1>5. LoopsOK'
  BY DEF LoopsOK
<1> QED BY <1>1, <1>2, <1>3, <1>4, <1>5

\* burstlinkser serves.
LEMMA ServeKeepsIInv ==
  ASSUME IInv, Serve PROVE IInv'
<1> USE ConstantsAssumption, Others DEF IInv, TypeOK, Serve, links, boot,
      file, Programs, At
<1>1. TypeOK'
  BY DEF Statuses
<1>2. FilesOK'
  BY DEF FilesOK, Runs
<1>3. FriendOK'
  BY DEF FilesOK, FriendOK, HasFriend, Runs
<1>4. AnswerOK'
  BY DEF AnswerOK
<1>5. LoopsOK'
  BY DEF LoopsOK
<1> QED BY <1>1, <1>2, <1>3, <1>4, <1>5

\* The request arrives.
LEMMA FriendRequestKeepsIInv ==
  ASSUME IInv, FriendRequest PROVE IInv'
<1> USE ConstantsAssumption, Others DEF IInv, TypeOK, FriendRequest, Runs,
      links, boot, file, Programs, At
<1>1. TypeOK'
  <2>1. request' \in BOOLEAN /\ remembered' \in BOOLEAN
    OBVIOUS
  <2> QED BY <2>1
<1>2. FilesOK'
  BY DEF FilesOK, Runs
<1>3. FriendOK'
  BY DEF FilesOK, FriendOK, HasFriend, Runs
<1>4. AnswerOK'
  BY DEF AnswerOK
<1>5. LoopsOK'
  BY DEF LoopsOK
<1> QED BY <1>1, <1>2, <1>3, <1>4, <1>5

\* burstlinkser takes burstlink for its friend.
LEMMA AcceptConnectKeepsIInv ==
  ASSUME IInv, AcceptConnect PROVE IInv'
<1> USE ConstantsAssumption, Others DEF IInv, TypeOK, AcceptConnect, links,
      boot, file, Programs, At
<1>1. TypeOK'
  BY DEF Statuses
<1>2. FilesOK'
  BY DEF FilesOK, Runs
<1>3. FriendOK'
  BY DEF FilesOK, FriendOK, HasFriend, Runs
<1>4. AnswerOK'
  BY DEF AnswerOK
<1>5. LoopsOK'
  BY DEF LoopsOK
<1> QED BY <1>1, <1>2, <1>3, <1>4, <1>5

\* burstlinkser answers a greeting, and crashes on what comes too early.
LEMMA FriendMessageAtBurstlinkserKeepsIInv ==
  ASSUME IInv, FriendMessageAtBurstlinkser PROVE IInv'
<1> DEFINE m == Head(wire[Burstlinkser])
           rest == Tail(wire[Burstlinkser])
           Messages == Seq({Greeting, Creation})
<1> SUFFICES ASSUME ~ Crash(Burstlinkser) PROVE IInv'
  BY CrashKeepsIInv DEF Programs
<1>1. /\ wire[Burstlinkser] # <<>>
      /\ wire' = IF m = Greeting
                 THEN [Sent(Burstlinkser, m) EXCEPT ![Burstlinkser] = Tail(@)]
                 ELSE [wire EXCEPT ![Burstlinkser] = Tail(@)]
      /\ answered' = (answered \/ m = Greeting)
      /\ UNCHANGED <<stage, dht, friend, file, links, request, remembered,
                     accepting, listener, polls, result, faults>>
  BY DEF FriendMessageAtBurstlinkser
<1>2. m \in {Greeting, Creation} /\ rest \in Messages
  BY <1>1, HeadTailProperties DEF IInv, TypeOK, Programs
<1>3. wire' \in [Programs -> Messages]
  <2>1. CASE m = Greeting
    <3>1. Sent(Burstlinkser, m) \in [Programs -> Messages]
      BY <1>2, SentFacts DEF IInv, Programs
    <3>2. Sent(Burstlinkser, m)[Burstlinkser] = wire[Burstlinkser]
      BY <1>2, SentFacts, Others, ConstantsAssumption DEF IInv, Programs
    <3> QED BY <1>1, <1>2, <2>1, <3>1, <3>2 DEF Programs
  <2>2. CASE m # Greeting
    BY <1>1, <1>2, <2>2 DEF IInv, TypeOK, Programs
  <2> QED BY <2>1, <2>2
<1>4. m # Greeting => wire'[Burstlink] = wire[Burstlink]
  BY <1>1, ConstantsAssumption DEF IInv, TypeOK, Programs
<1> HIDE DEF m, rest
<1>5. answered' \in BOOLEAN /\ (answered => answered')
  BY <1>1 DEF IInv, TypeOK
<1>6. TypeOK'
  BY <1>1, <1>3, <1>5 DEF IInv, TypeOK, links, file
<1>7. FilesOK' /\ FriendOK'
  BY <1>1 DEF IInv, FilesOK, FriendOK, HasFriend, Runs, file, links
<1>8. AnswerOK'
  BY <1>1, <1>4 DEF IInv, TypeOK, AnswerOK
<1>9. LoopsOK'
  BY <1>1 DEF IInv, LoopsOK, At
<1> QED BY <1>6, <1>7, <1>8, <1>9 DEF IInv

\* An answer gets to the listener, or crashes burstlink.
LEMMA FriendMessageAtBurstlinkKeepsIInv ==
  ASSUME IInv, FriendMessageAtBurstlink PROVE IInv'
<1> SUFFICES ASSUME ~ Crash(Burstlink) PROVE IInv'
  BY CrashKeepsIInv DEF Programs
<1>1. /\ wire[Burstlink] # <<>> /\ listener # "empty"
      /\ wire' = [wire EXCEPT ![Burstlink] = Tail(@)]
      /\ listener' \in {listener, "received"}
      /\ UNCHANGED <<stage, dht, friend, file, links, request, remembered,
                     accepting, polls, result, answered, faults>>
      /\ listener = "null" => listener' = "null"
  BY DEF FriendMessageAtBurstlink
<1>2. Tail(wire[Burstlink]) \in Seq({Greeting, Creation})
  BY <1>1, HeadTailProperties DEF IInv, TypeOK, Programs
<1>3. TypeOK'
  BY <1>1, <1>2 DEF IInv, TypeOK, Programs, links, file
<1>4. FilesOK' /\ FriendOK'
  BY <1>1 DEF IInv, FilesOK, FriendOK, HasFriend, Runs, file, links
<1>5. AnswerOK'
  BY <1>1 DEF IInv, AnswerOK
<1>6. LoopsOK'
  BY <1>1 DEF IInv, TypeOK, LoopsOK, At
<1> QED BY <1>3, <1>4, <1>5, <1>6 DEF IInv

\* burstlink begins to look for its friend.
LEMMA ConnectedKeepsIInv ==
  ASSUME IInv, Connected PROVE IInv'
<1> USE ConstantsAssumption, Others DEF IInv, TypeOK, Connected, GoTo,
      MainKeeps, links, boot, file, Programs, At
<1>1. TypeOK'
  BY DEF Statuses
<1>2. FilesOK'
  BY DEF FilesOK, Runs
<1>3. FriendOK'
  BY DEF FilesOK, FriendOK, HasFriend, Runs
<1>4. AnswerOK'
  BY DEF AnswerOK
<1>5. LoopsOK'
  BY DEF LoopsOK
<1> QED BY <1>1, <1>2, <1>3, <1>4, <1>5

\* burstlink has its friend in the list.
LEMMA AddFriendKeepsIInv ==
  ASSUME IInv, AddFriend PROVE IInv'
<1> USE ConstantsAssumption, Others DEF IInv, TypeOK, AddFriend, GoTo,
      MainKeeps, Return, links, boot, file, Programs, At
<1>1. TypeOK'
  BY DEF Statuses
<1>2. FilesOK'
  BY DEF FilesOK, Runs
<1>3. FriendOK'
  BY DEF FilesOK, FriendOK, HasFriend, Runs
<1>4. AnswerOK'
  BY DEF AnswerOK
<1>5. LoopsOK'
  BY DEF LoopsOK
<1> QED BY <1>1, <1>2, <1>3, <1>4, <1>5

\* burstlink waits for the friend up to its limit.
LEMMA WaitForFriendKeepsIInv ==
  ASSUME IInv, WaitForFriend PROVE IInv'
<1> USE ConstantsAssumption, Others DEF IInv, TypeOK, WaitForFriend, GoTo,
      MainKeeps, links, boot, file, Programs, At
<1>1. TypeOK'
  BY DEF Statuses
<1>2. FilesOK'
  BY DEF FilesOK, Runs
<1>3. FriendOK'
  BY DEF FilesOK, FriendOK, HasFriend, Runs
<1>4. AnswerOK'
  BY DEF AnswerOK
<1>5. LoopsOK'
  BY DEF LoopsOK
<1> QED BY <1>1, <1>2, <1>3, <1>4, <1>5

\* What burstlink sends is not on its way to burstlink.
LEMMA SendHandshakeKeepsIInv ==
  ASSUME IInv, SendHandshake PROVE IInv'
<1> USE ConstantsAssumption, Others DEF IInv, TypeOK, SendHandshake, GoTo,
      MainKeeps, Return, links, boot, file, Programs, At
<1>1. TypeOK'
  BY SentFacts
<1>2. FilesOK'
  BY DEF FilesOK, Runs
<1>3. FriendOK'
  BY DEF FilesOK, FriendOK, HasFriend, Runs
<1>4. AnswerOK'
  BY SentFacts DEF AnswerOK
<1>5. LoopsOK'
  BY DEF LoopsOK
<1> QED BY <1>1, <1>2, <1>3, <1>4, <1>5

\* The list is published.
LEMMA CreateListKeepsIInv ==
  ASSUME IInv, CreateList PROVE IInv'
<1> USE ConstantsAssumption, Others DEF IInv, TypeOK, CreateList, MainKeeps,
      links, boot, file, Programs, At
<1>1. TypeOK'
  BY DEF Statuses
<1>2. FilesOK'
  BY DEF FilesOK, Runs
<1>3. FriendOK'
  BY DEF FilesOK, FriendOK, HasFriend, Runs
<1>4. AnswerOK'
  BY DEF AnswerOK
<1>5. LoopsOK'
  BY DEF LoopsOK
<1> QED BY <1>1, <1>2, <1>3, <1>4, <1>5

\* The listener is added.
LEMMA AddListenerKeepsIInv ==
  ASSUME IInv, AddListener PROVE IInv'
<1> USE ConstantsAssumption, Others DEF IInv, TypeOK, AddListener, MainKeeps,
      links, boot, file, Programs, At
<1>1. TypeOK'
  BY DEF LoopsOK
<1>2. FilesOK'
  BY DEF FilesOK, Runs
<1>3. FriendOK'
  BY DEF FilesOK, FriendOK, HasFriend, Runs
<1>4. AnswerOK'
  BY DEF AnswerOK
<1>5. LoopsOK'
  BY DEF LoopsOK
<1> QED BY <1>1, <1>2, <1>3, <1>4, <1>5

\* burstlink waits for the answer up to its limit; what it returns depends on
\* the listener.
LEMMA WaitForAnswerKeepsIInv ==
  ASSUME IInv, WaitForAnswer PROVE IInv'
<1> USE ConstantsAssumption, Others DEF IInv, TypeOK, WaitForAnswer,
      MainKeeps, Return, GoTo, links, boot, file, Programs, At
<1>1. TypeOK'
  BY DEF Statuses
<1>2. FilesOK'
  BY DEF FilesOK, Runs
<1>3. FriendOK'
  BY DEF FilesOK, FriendOK, HasFriend, Runs
<1>4. AnswerOK'
  BY DEF AnswerOK
<1>5. LoopsOK'
  BY DEF LoopsOK
<1> QED BY <1>1, <1>2, <1>3, <1>4, <1>5

\* What burstlink sends is not on its way to burstlink.
LEMMA LocalConnectionKeepsIInv ==
  ASSUME IInv, LocalConnection PROVE IInv'
<1> USE ConstantsAssumption, Others DEF IInv, TypeOK, LocalConnection,
      MainKeeps, links, boot, file, Programs, At
<1>1. TypeOK'
  BY SentFacts
<1>2. FilesOK'
  BY DEF FilesOK, Runs
<1>3. FriendOK'
  BY DEF FilesOK, FriendOK, HasFriend, Runs
<1>4. AnswerOK'
  BY SentFacts DEF AnswerOK
<1>5. LoopsOK'
  BY DEF LoopsOK
<1> QED BY <1>1, <1>2, <1>3, <1>4, <1>5

-----------------------------------------------------------------------------
(* The theorems.                                                           *)

\* Every step keeps the invariant.
LEMMA NextKeepsIInv == ASSUME IInv, [Next]_vars PROVE IInv'
<1>1. CASE UNCHANGED vars
  BY <1>1 DEF vars, links, boot, file, IInv, TypeOK, FilesOK, FriendOK,
     AnswerOK, LoopsOK, HasFriend, Runs, At
<1>2. ASSUME NEW p \in Programs, CoreStep(p) PROVE IInv'
  BY <1>2, BootstrapKeepsIInv, UnplugKeepsIInv, BeginKeepsIInv,
     ComeOnlineKeepsIInv, GiveUpKeepsIInv, InterruptKeepsIInv,
     CrashKeepsIInv, TearKeepsIInv, StartKeepsIInv DEF CoreStep
<1>3. CASE MainOfBurstlink
  BY <1>3, ConnectedKeepsIInv, AddFriendKeepsIInv, WaitForFriendKeepsIInv,
     SendHandshakeKeepsIInv, CreateListKeepsIInv, AddListenerKeepsIInv,
     WaitForAnswerKeepsIInv DEF MainOfBurstlink
<1> QED
  BY <1>1, <1>2, <1>3, AskKeepsIInv, AskTimedOutKeepsIInv,
     LoseRequestKeepsIInv, ServeKeepsIInv, FriendRequestKeepsIInv,
     AcceptConnectKeepsIInv, FriendMessageAtBurstlinkserKeepsIInv,
     FriendMessageAtBurstlinkKeepsIInv, LocalConnectionKeepsIInv DEF Next

\* IInv holds in every state of the two programs.
THEOREM Invariance == Spec => []IInv
<1>1. Init => IInv
  BY InitIInv
<1>2. IInv /\ [Next]_vars => IInv'
  BY NextKeepsIInv
<1> QED BY <1>1, <1>2, PTL DEF Spec

\* The types of the variables; the loops of init_connect end at their limits,
\* whatever the limits are.
THEOREM TypeCorrect == Spec => []TypeOK
<1>1. IInv => TypeOK
  BY DEF IInv
<1> QED BY <1>1, Invariance, PTL

\* CONNECT:OK is printed only for an answer to this start of burstlink
\* (init_connect), wherever the programs are stopped and started again.
THEOREM OkIsAnswered == Spec => []OkMeansAnswered
<1>1. IInv => OkMeansAnswered
  BY DEF IInv, AnswerOK, OkMeansAnswered
<1> QED BY <1>1, Invariance, PTL

\* Who has burstlinkser for a confirmed friend is a friend of burstlinkser, in
\* memory or in its file (connect.c, store_data, friends_list_load), unless
\* burstlinkser crashed before it had written the friend out.
THEOREM FriendshipHasTwoSides == Spec => []NeverOneSided
<1>1. IInv => NeverOneSided
  BY DEF IInv, FriendOK, NeverOneSided, HasFriend
<1> QED BY <1>1, Invariance, PTL
=============================================================================
