----------------------------- MODULE Handshake -----------------------------
(***************************************************************************)
(* How burstlink and burstlinkser find each other: from the start of the   *)
(* programs (main) over the friend request (connect.c, friend_request,     *)
(* toxcore/friend_requests.c and the friend list of toxcore/Messenger.c)   *)
(* and the message HANDSHAKE with its answer (message_listener.c) to the   *)
(* loops that serve, with data.tox, the file a program leaves when it is   *)
(* interrupted (store_data, load_data).                                    *)
(*                                                                         *)
(* The connections of the Tox core are those of Presence, which Session    *)
(* implements: a message is given to the other program if the session it   *)
(* was sent in lasts, in order, and is lost otherwise.                     *)
(***************************************************************************)
EXTENDS Integers, Sequences, Message

CONSTANTS Burstlink, Burstlinkser,  \* the two programs
          FriendPolls,  \* how often init_connect looks for the friend
          AnswerPolls,  \* how often it looks for the answer
          MaxWire,      \* bound: messages on their way to a program
          MaxFaults     \* bound: stops, lost links, lost requests, and
                        \* messages that come before a list is made

ASSUME ConstantsAssumption ==
  /\ Burstlink # Burstlinkser
  /\ {FriendPolls, AnswerPolls, MaxWire} \subseteq Nat \ {0}
  /\ MaxFaults \in Nat

Programs == {Burstlink, Burstlinkser}
Other(p) == CHOOSE q \in Programs : q # p

VARIABLES stage,       \* where the main thread of a program is
          dht,         \* tox_isconnected
          friend,      \* the status of the other program in the friend list
          stored,      \* the status in data.tox, or "torn"
          linked, online,  \* the connections, as in Presence
          met,         \* a program has had a session since its start
          wire,        \* messages on their way to a program
          request,     \* a friend request is on its way
          remembered,  \* burstlinkser has had the request (received_requests)
          accepting,   \* the thread of accept_connect
          listener,    \* msg_listener_list of burstlink
          polls,       \* retryCount, then timeout
          result,      \* what init_connect returned
          answered,    \* burstlinkser answered a HANDSHAKE of this start
          forgot,      \* burstlinkser lost a friend its file did not have
          faults

links == <<linked, online, met>>
boot == <<listener, polls, result, answered>>
file == <<stored, forgot>>
vars == <<stage, dht, friend, file, links, wire, request, remembered,
          accepting, boot, faults>>

Core == INSTANCE Presence WITH Peers <- Programs

Init == /\ stage = [p \in Programs |-> "offline"]
        /\ dht = [p \in Programs |-> FALSE]
        /\ friend = [p \in Programs |-> "none"]
        /\ stored = [p \in Programs |-> "none"]
        /\ Core!Init
        /\ met = [p \in Programs |-> FALSE]
        /\ wire = [p \in Programs |-> <<>>]
        /\ request = FALSE /\ remembered = FALSE
        /\ accepting = "no"
        /\ listener = "null" /\ polls = 0 /\ result = 0 /\ answered = FALSE
        /\ forgot = FALSE /\ faults = 0

Runs(p) == stage[p] # "down"

\* What is not free is one of the faults.
Fault(free) == /\ free \/ faults < MaxFaults
               /\ faults' = IF free THEN faults ELSE faults + 1

\* A HANDSHAKE is plain text, any other message is packed.
Greeting == [text |-> "HANDSHAKE"]
Creation == Pack("uuid", "CREATE_SOCK", <<>>)

\* tox_send_message: the friend has to be online; what is sent to a friend
\* that is gone is lost.
Sent(p, m) == IF online[p] /\ linked
              THEN [wire EXCEPT ![Other(p)] = Append(@, m)] ELSE wire

\* Mutant: messages outlive their session.
Kept == wire

\* What is on its way in a session is lost with it.
Cleared == [p \in Programs |-> <<>>]

-----------------------------------------------------------------------------
(* The Tox core.                                                           *)

Bootstrap(p) == /\ Runs(p) /\ ~ dht[p]
                /\ dht' = [dht EXCEPT ![p] = TRUE]
                /\ UNCHANGED <<stage, friend, file, links, wire, request,
                               remembered, accepting, boot, faults>>

Unplug(p) == /\ dht[p]
             /\ dht' = [dht EXCEPT ![p] = FALSE]
             /\ Fault(FALSE)
             /\ UNCHANGED <<stage, friend, file, links, wire, request,
                            remembered, accepting, boot>>

\* do_friends asks who was added.
Ask == /\ Runs(Burstlink) /\ friend[Burstlink] = "added"
       /\ friend' = [friend EXCEPT ![Burstlink] = "requested"]
       /\ request' = TRUE
       /\ UNCHANGED <<stage, dht, file, links, wire, remembered, accepting,
                      boot, faults>>

\* Mutant: one friend request has to do.
AskOnce == FALSE

\* check_friend_request_timed_out: the request is made once more.
AskTimedOut == /\ Runs(Burstlink) /\ friend[Burstlink] = "requested"
               /\ ~ online[Burstlink]
               /\ friend' = [friend EXCEPT ![Burstlink] = "added"]
               /\ UNCHANGED <<stage, dht, file, links, wire, request,
                              remembered, accepting, boot, faults>>

LoseRequest == /\ request /\ request' = FALSE
               /\ Fault(FALSE)
               /\ UNCHANGED <<stage, dht, friend, file, links, wire,
                              remembered, accepting, boot>>

\* A session begins between friends: p connects (do_friends), the other one
\* does so too or accepts (handle_new_connections) and then takes p for a
\* friend that has confirmed.
Begin(p) ==
  /\ \A q \in Programs : Runs(q) /\ friend[q] # "none"
  /\ friend[p] \in {"requested", "confirmed"}
  /\ Core!Begin
  /\ met' = [q \in Programs |-> TRUE]
  /\ \/ friend' = [friend EXCEPT ![Other(p)] = "confirmed"]
     \/ /\ friend[Other(p)] # "added"
        /\ UNCHANGED friend
  /\ UNCHANGED <<stage, dht, file, wire, request, remembered, accepting,
                 boot, faults>>

\* p finds the other program online, or is late: the session is over.
ComeOnline(p) ==
  /\ Runs(p) /\ met[p]
  /\ Core!ComeOnline(p)
  /\ Fault(linked)
  /\ friend' = [friend EXCEPT ![p] = "confirmed"]
  /\ UNCHANGED <<stage, dht, file, met, wire, request, remembered, accepting,
                 boot>>

\* The session ends: a fault, unless the other one has given it up before.
GiveUp(p) == /\ Core!End(p)
             /\ Fault(~ linked)
             /\ wire' = Cleared
             /\ UNCHANGED <<stage, dht, friend, file, met, request, remembered,
                            accepting, boot>>

-----------------------------------------------------------------------------
(* Stops and starts.                                                       *)

Leave(p) == /\ met' = [met EXCEPT ![p] = FALSE]
            /\ IF linked \/ online[p] THEN Core!End(p)
               ELSE UNCHANGED <<linked, online>>

\* intHandler writes the friend list out, Write says what is then in the file;
\* a program that crashes writes nothing.
Down(p) == /\ Runs(p)
           /\ stage' = [stage EXCEPT ![p] = "down"]
           /\ dht' = [dht EXCEPT ![p] = FALSE]
           /\ friend' = [friend EXCEPT ![p] = "none"]
           /\ Leave(p)
           /\ wire' = Cleared
           /\ IF p = Burstlink
              THEN /\ listener' = "null" /\ polls' = 0
                   /\ result' = 0 /\ answered' = FALSE
                   /\ UNCHANGED <<request, remembered, accepting>>
              ELSE /\ remembered' = FALSE /\ accepting' = "no"
                   /\ UNCHANGED <<request, boot>>

\* Mutant: the friend list is not written out.
InterruptUnsaved(p) == Down(p) /\ Fault(FALSE) /\ UNCHANGED file

Interrupt(p) == /\ Down(p)
                /\ stored' = [stored EXCEPT ![p] = friend[p]]
                /\ Fault(FALSE) /\ UNCHANGED forgot

Crash(p) == /\ Down(p)
            /\ forgot' = (forgot \/ /\ p = Burstlinkser
                                    /\ friend[p] # "none" /\ stored[p] = "none")
            /\ Fault(FALSE) /\ UNCHANGED stored

\* Stopped after fopen has emptied the file, before fwrite has filled it.
Tear(p) == /\ Down(p)
           /\ stored' = [stored EXCEPT ![p] = "torn"]
           /\ forgot' = (forgot \/ p = Burstlinkser)
           /\ Fault(FALSE)

\* friends_list_load: who has confirmed is a friend, anyone else is added.
Loaded(saved) == IF saved = "requested" THEN "added" ELSE saved

\* load_data exits on a file it cannot read.
Start(p) == /\ stage[p] = "down" /\ stored[p] # "torn"
            /\ stage' = [stage EXCEPT ![p] = "offline"]
            /\ friend' = [friend EXCEPT ![p] = Loaded(stored[p])]
            /\ UNCHANGED <<dht, file, links, wire, request, remembered,
                           accepting, boot, faults>>

-----------------------------------------------------------------------------
(* burstlinkser.                                                           *)

\* main makes the list of sockets and serves.
Serve == /\ stage[Burstlinkser] = "offline" /\ dht[Burstlinkser]
         /\ stage' = [stage EXCEPT ![Burstlinkser] = "serving"]
         /\ UNCHANGED <<dht, friend, file, links, wire, request, remembered,
                        accepting, boot, faults>>

\* friendreq_handlepacket passes a request on once, and none of a friend;
\* friend_request starts a thread.
FriendRequest ==
  /\ request /\ request' = FALSE
  /\ Runs(Burstlinkser)
  /\ IF remembered \/ friend[Burstlinkser] # "none"
     THEN UNCHANGED <<remembered, accepting>>
     ELSE remembered' = TRUE /\ accepting' = "started"
  /\ UNCHANGED <<stage, dht, friend, file, links, wire, boot, faults>>

\* accept_connect; it then waits for a HANDSHAKE on a list of its own that
\* nobody triggers, and returns.
AcceptConnect ==
  /\ accepting = "started"
  /\ IF dht[Burstlinkser]
     THEN /\ accepting' = "accepted"
          /\ friend' = [friend EXCEPT ![Burstlinkser] =
                          IF @ = "none" THEN "confirmed" ELSE @]
     ELSE accepting' = "missed" /\ UNCHANGED friend
  /\ UNCHANGED <<stage, dht, file, links, wire, request, remembered, boot,
                 faults>>

\* friend_message: HANDSHAKE is answered at once; CREATE_SOCK adds to the list
\* of sockets, which is NULL until main has made it.
FriendMessageAtBurstlinkser ==
  LET p == Burstlinkser
      m == Head(wire[p])
  IN /\ wire[p] # <<>> /\ online[p]
     /\ IF m # Greeting /\ Unpack(m).cmd = "CREATE_SOCK" /\ stage[p] = "offline"
        THEN Crash(p)
        ELSE /\ wire' = IF m = Greeting
                        THEN [Sent(p, m) EXCEPT ![p] = Tail(@)]
                        ELSE [wire EXCEPT ![p] = Tail(@)]
             /\ answered' = (answered \/ m = Greeting)
             /\ UNCHANGED <<stage, dht, friend, file, links, request,
                            remembered, accepting, listener, polls, result,
                            faults>>

-----------------------------------------------------------------------------
(* burstlink.                                                              *)

At(s) == stage[Burstlink] = s
GoTo(s) == stage' = [stage EXCEPT ![Burstlink] = s]
Return(res) == result' = res /\ GoTo("serving")

\* What the main thread leaves alone.
MainKeeps == UNCHANGED <<dht, file, links, request, remembered, accepting,
                         answered, faults>>

Connected == /\ At("offline") /\ dht[Burstlink] /\ GoTo("asking")
             /\ UNCHANGED <<friend, wire, listener, polls, result>>
             /\ MainKeeps

\* tox_add_friend leaves a friend that is in the list as it is.
AddFriend ==
  /\ At("asking")
  /\ IF dht[Burstlink]
     THEN /\ GoTo("waiting")
          /\ friend' = [friend EXCEPT ![Burstlink] =
                          IF @ = "none" THEN "added" ELSE @]
          /\ UNCHANGED result
     ELSE Return(401) /\ UNCHANGED friend
  /\ UNCHANGED <<wire, listener, polls>>
  /\ MainKeeps

\* Mutant: init_connect waits until the friend is online.
WaitForFriendOn ==
  /\ At("waiting") /\ online[Burstlink]
  /\ GoTo("looking")
  /\ UNCHANGED <<friend, wire, listener, polls, result>>
  /\ MainKeeps

WaitForFriend ==
  /\ At("waiting")
  /\ IF online[Burstlink] \/ polls >= FriendPolls
     THEN GoTo("looking") /\ UNCHANGED polls
     ELSE polls' = polls + 1 /\ UNCHANGED stage
  /\ UNCHANGED <<friend, wire, listener, result>>
  /\ MainKeeps

\* The status is read again after the loop; the listener comes later.
SendHandshake ==
  /\ At("looking")
  /\ polls' = 0
  /\ IF online[Burstlink]
     THEN /\ Len(wire[Burstlinkser]) < MaxWire
          /\ wire' = Sent(Burstlink, Greeting)
          /\ GoTo("polling") /\ UNCHANGED result
     ELSE Return(401) /\ UNCHANGED wire
  /\ UNCHANGED <<friend, listener>>
  /\ MainKeeps

\* The first is_message_received makes the list and only then adds to it.
CreateList == /\ At("polling") /\ listener = "null"
              /\ listener' = "empty"
              /\ UNCHANGED <<stage, friend, wire, polls, result>>
              /\ MainKeeps

AddListener == /\ listener = "empty"
               /\ listener' = "waiting" /\ polls' = polls + 1
               /\ UNCHANGED <<stage, friend, wire, result>>
               /\ MainKeeps

\* Mutant: the limit of the answer is that of an endless wait.
WaitForAnswerOn ==
  /\ At("polling") /\ listener \in {"waiting", "received"}
  /\ IF listener = "received"
     THEN Return(402) /\ UNCHANGED polls
     ELSE polls' = polls + 1 /\ UNCHANGED <<stage, result>>
  /\ UNCHANGED <<friend, wire, listener>>
  /\ MainKeeps

WaitForAnswer ==
  /\ At("polling") /\ listener \in {"waiting", "received"}
  /\ CASE listener = "received" -> Return(402) /\ UNCHANGED polls
       [] listener = "waiting" /\ polls < AnswerPolls ->
            polls' = polls + 1 /\ UNCHANGED <<stage, result>>
       [] OTHER -> Return(401) /\ UNCHANGED polls
  /\ UNCHANGED <<friend, wire, listener>>
  /\ MainKeeps

\* main serves: a local connection is to be made on the other side, too.
LocalConnection ==
  /\ At("serving") /\ Len(wire[Burstlinkser]) < MaxWire
  /\ online[Burstlink]
  /\ wire' = Sent(Burstlink, Creation)
  /\ UNCHANGED <<stage, friend, listener, polls, result>>
  /\ MainKeeps

\* friend_message triggers the listener: a list without a head is followed
\* all the same, and when init_connect has returned the listener's id is gone
\* from the stack.
FriendMessageAtBurstlink ==
  /\ wire[Burstlink] # <<>> /\ online[Burstlink]
  /\ IF listener = "empty"
     THEN Crash(Burstlink)
     ELSE /\ wire' = [wire EXCEPT ![Burstlink] = Tail(@)]
          /\ listener' \in IF listener = "null" THEN {"null"}
                          ELSE IF At("polling") THEN {"received"}
                          ELSE {listener, "received"}
          /\ UNCHANGED <<stage, dht, friend, file, links, request, remembered,
                         accepting, polls, result, answered, faults>>

-----------------------------------------------------------------------------
CoreStep(p) == \/ Bootstrap(p) \/ Unplug(p)
               \/ Begin(p) \/ ComeOnline(p) \/ GiveUp(p)
               \/ Interrupt(p) \/ Crash(p) \/ Tear(p) \/ Start(p)

MainOfBurstlink == \/ Connected \/ AddFriend \/ WaitForFriend
                   \/ SendHandshake \/ CreateList \/ AddListener
                   \/ WaitForAnswer

Next == \/ \E p \in Programs : CoreStep(p)
        \/ Ask \/ AskTimedOut \/ LoseRequest
        \/ Serve \/ FriendRequest \/ AcceptConnect
        \/ FriendMessageAtBurstlinkser \/ FriendMessageAtBurstlink
        \/ MainOfBurstlink \/ LocalConnection

Spec == Init /\ [][Next]_vars

\* Every thread runs on, the Tox core brings friends together and finds out
\* that one is gone (BackTogether of Session), and a program that stopped is
\* started again.
Fairness ==
  /\ \A p \in Programs : /\ WF_vars(Bootstrap(p))
                         /\ WF_vars(Start(p))
                         /\ WF_vars(linked /\ ComeOnline(p))
                         /\ WF_vars(~ linked /\ GiveUp(p))
  /\ SF_vars(\E p \in Programs : Begin(p))
  /\ WF_vars(Ask \/ AskTimedOut)
  /\ WF_vars(Serve)
  /\ WF_vars(FriendRequest)
  /\ WF_vars(AcceptConnect)
  /\ WF_vars(FriendMessageAtBurstlinkser)
  /\ WF_vars(FriendMessageAtBurstlink)
  /\ WF_vars(MainOfBurstlink)

FairSpec == Spec /\ Fairness

-----------------------------------------------------------------------------
(* Properties.                                                             *)

Statuses == {"none", "added", "requested", "confirmed"}

\* The types of the variables; the loops of init_connect end at their limits.
TypeOK ==
  /\ stage \in [Programs -> {"offline", "asking", "waiting", "looking",
                            "polling", "serving", "down"}]
  /\ stage[Burstlinkser] \in {"offline", "serving", "down"}
  /\ dht \in [Programs -> BOOLEAN]
  /\ online \in [Programs -> BOOLEAN] /\ met \in [Programs -> BOOLEAN]
  /\ friend \in [Programs -> Statuses]
  /\ stored \in [Programs -> Statuses \cup {"torn"}]
  /\ wire \in [Programs -> Seq({Greeting, Creation})]
  /\ accepting \in {"no", "started", "accepted", "missed"}
  /\ listener \in {"null", "empty", "waiting", "received"}
  /\ polls \in 0..FriendPolls + AnswerPolls
  /\ result \in {0, 401, 402}
  /\ faults \in 0..MaxFaults
  /\ linked \in BOOLEAN /\ request \in BOOLEAN /\ remembered \in BOOLEAN
  /\ answered \in BOOLEAN /\ forgot \in BOOLEAN

\* CONNECT:OK is printed only if burstlinkser has answered the HANDSHAKE of
\* this start of burstlink, never for an answer to an earlier one.
OkMeansAnswered == result = 402 => answered

\* p, running or stopped, has the other program as a friend that confirmed.
HasFriend(p) == IF Runs(p) THEN friend[p] = "confirmed"
                ELSE stored[p] = "confirmed"

\* A friendship has two sides: who connected to burstlinkser once is a friend
\* of burstlinkser for good, however often the two are interrupted, if
\* burstlinkser does not crash before it has written the friend out.
NeverOneSided == HasFriend(Burstlink) => HasFriend(Burstlinkser) \/ forgot

\* What keeps the two apart: a data file that cannot be read; a burstlink that
\* takes burstlinkser for a friend and does not ask again, when burstlinkser
\* has forgotten it; a burstlink that lost the network just before init_connect
\* and serves without a friend; a request that came when burstlinkser had lost
\* the network, and is remembered and dropped ever after.
Stranded == \/ \E p \in Programs : stage[p] = "down" /\ stored[p] = "torn"
            \/ friend[Burstlink] = "confirmed" /\ friend[Burstlinkser] = "none"
            \/ At("serving") /\ friend[Burstlink] = "none"
            \/ accepting = "missed" /\ friend[Burstlinkser] = "none"

\* Nothing else does: whatever is lost and whoever stops, in the end the two
\* are online with each other and burstlink serves, or they are stranded.
ServesOrStranded ==
  <>[](linked /\ (\A p \in Programs : online[p] /\ stage[p] = "serving"))
  \/ <>[]Stranded

\* init_connect ends, whatever becomes of the handshake: burstlink comes to
\* serve its port unless its data file is gone.
AlwaysServes == <>[](At("serving") \/ stored[Burstlink] = "torn")
=============================================================================
