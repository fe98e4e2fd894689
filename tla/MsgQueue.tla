------------------------------ MODULE MsgQueue ------------------------------
(***************************************************************************)
(* The queue of outgoing messages of either program: the ring buffer of    *)
(* queue.c, the threads that post on it with write_data_remote, and the    *)
(* Tox thread that empties it with send_data_remote.  The state is cut     *)
(* where another thread can see it: at the mutex msg_task_lock, at the     *)
(* condition variable msg_task_cond, and at every access to the queue that *)
(* is made without the mutex.                                              *)
(***************************************************************************)
EXTENDS Integers, Sequences, FiniteSets

CONSTANTS Writers,    \* the threads that read a socket, and the main thread
          Tox,        \* the thread of tox_works
          Capacity,   \* MAX_MSG_CACHE
          Retries,    \* attempts to send a message in one pass, 5 in the code
          MaxPosts,   \* bound: messages a thread posts
          MaxToxPosts, \* bound: messages the Tox thread posts
          MaxSent,    \* bound: messages Tox accepts while the queue keeps them
          Freed,      \* a message buffer that was freed or never allocated
          Garbage,    \* bytes that are no message
          None

Threads == Writers \cup {Tox}

ASSUME ThreadsAssumption == Tox \notin Writers /\ None \notin Threads
ASSUME SizesAssumption == /\ Capacity \in Nat \ {0}
                          /\ Retries \in Nat \ {0}
                          /\ MaxPosts \in Nat
                          /\ MaxToxPosts \in 0..MaxPosts
                          /\ MaxSent \in Nat

\* The no-th message that thread by posts.
Task == [by : Threads, no : 1..MaxPosts]

ASSUME SentinelsAssumption == /\ Freed \notin Task
                              /\ Garbage \notin Task
                              /\ None \notin Task
                              /\ Garbage # None

VARIABLES elements,   \* Queue.elements: what each slot's msg points to
          size,       \* Queue.size
          front,      \* Queue.front
          rear,       \* Queue.rear
          lock,       \* the thread that holds msg_task_lock, or None
          pc,         \* where each thread is
          posted,     \* the messages each thread has begun to post
          mTask,      \* the slot send_data_remote works on
          retry,      \* retry_count
          online,     \* tox_get_friend_connection_status is 1
          sent,       \* the messages Tox accepted, in order
          lost,       \* the message dropped because the peer is offline
          victim      \* the message whose connection is closed for that

queueVars == <<elements, size, front, rear>>
toxVars == <<mTask, retry, online, sent, lost, victim>>
vars == <<queueVars, lock, pc, posted, toxVars>>

Slots == 0..(Capacity - 1)

Init == /\ elements = [i \in Slots |-> Freed]
        /\ size = 0
        /\ front = 0
        /\ rear = -1
        /\ lock = None
        /\ pc = [t \in Threads |-> "idle"]
        /\ posted = [t \in Threads |-> 0]
        /\ mTask = None
        /\ retry = 0
        /\ online \in BOOLEAN
        /\ sent = <<>>
        /\ lost = None
        /\ victim = None

Goto(t, label) == pc' = [pc EXCEPT ![t] = label]

\* Mutants of Succ: no wrap in time, and a ring one slot too short.
SuccLate(i) == IF i = Capacity THEN 0 ELSE i + 1
SuccShort(i) == IF i + 1 = Capacity - 1 THEN 0 ELSE i + 1

\* Indices wrap at the capacity.
Succ(i) == IF i + 1 = Capacity THEN 0 ELSE i + 1

\* The threads that a broadcast on msg_task_cond wakes compete for the mutex.
Woken(t) == IF pc[t] = "wait" THEN "lock" ELSE pc[t]

\* The message a thread is posting.
TaskOf(t) == [by |-> t, no |-> posted[t]]

-----------------------------------------------------------------------------
(* write_data_remote and Enqueue.  The Tox thread runs them too, from the  *)
(* callbacks of tox_do.                                                    *)

\* The message is packed; the mutex is wanted.
Post(t) == /\ pc[t] = "idle"
           /\ posted[t] < IF t = Tox THEN MaxToxPosts ELSE MaxPosts
           /\ posted' = [posted EXCEPT ![t] = @ + 1]
           /\ Goto(t, "lock")
           /\ UNCHANGED <<queueVars, lock, toxVars>>

\* pthread_mutex_lock returns, or pthread_cond_wait after a wake-up.
Acquire(t) == /\ pc[t] = "lock"
              /\ lock = None
              /\ lock' = t
              /\ Goto(t, "check")
              /\ UNCHANGED <<queueVars, posted, toxVars>>

\* while (size >= MAX_MSG_CACHE) pthread_cond_wait: wait and release at once.
CheckFull(t) == /\ pc[t] = "check"
                /\ size >= Capacity
                /\ lock' = None
                /\ Goto(t, "wait")
                /\ UNCHANGED <<queueVars, posted, toxVars>>

\* Mutant of CheckRoom: one message too many is let in.
CheckRoomLate(t) == /\ pc[t] = "check"
                    /\ size <= Capacity
                    /\ Goto(t, "enq")
                    /\ UNCHANGED <<queueVars, lock, posted, toxVars>>

CheckRoom(t) == /\ pc[t] = "check"
                /\ size < Capacity
                /\ Goto(t, "enq")
                /\ UNCHANGED <<queueVars, lock, posted, toxVars>>

\* A waiting thread may also wake up without a broadcast.
SpuriousWakeup(t) == /\ pc[t] = "wait"
                     /\ Goto(t, "lock")
                     /\ UNCHANGED <<queueVars, lock, posted, toxVars>>

\* Enqueue: exit(0) when full, else count the message and move rear.
Reserve(t) == /\ pc[t] = "enq"
              /\ IF size = Capacity
                 THEN Goto(t, "exit") /\ UNCHANGED <<size, rear>>
                 ELSE /\ size' = size + 1
                      /\ rear' = Succ(rear)
                      /\ Goto(t, "copy")
              /\ UNCHANGED <<elements, front, lock, posted, toxVars>>

\* Enqueue: only then is the slot given a buffer with the message.
Copy(t) == /\ pc[t] = "copy"
           /\ elements' = [elements EXCEPT ![rear] = TaskOf(t)]
           /\ Goto(t, "signal")
           /\ UNCHANGED <<size, front, rear, lock, posted, toxVars>>

\* Wake the others if there is still room, and release the mutex.
Finish(t) == /\ pc[t] = "signal"
             /\ lock' = None
             /\ pc' = [u \in Threads |->
                         IF u = t THEN "idle"
                         ELSE IF size < Capacity THEN Woken(u) ELSE pc[u]]
             /\ UNCHANGED <<queueVars, posted, toxVars>>

-----------------------------------------------------------------------------
(* tox_works and send_data_remote, run by the Tox thread alone.            *)

\* send_data_remote ends, and its local variables with it.
Return == /\ mTask' = None
          /\ retry' = 0
          /\ lost' = None
          /\ victim' = None

\* tox_do: the connection to the peer comes or goes.
ToxDo == /\ pc[Tox] = "idle"
         /\ online' = ~online
         /\ UNCHANGED <<queueVars, lock, pc, posted, mTask, retry, sent, lost,
                        victim>>

\* if (size != 0) send_data_remote(): size is read without the mutex.
Poll == /\ pc[Tox] = "idle"
        /\ size # 0
        /\ Goto(Tox, "front")
        /\ UNCHANGED <<queueVars, lock, posted, toxVars>>

\* Mutant of Front: front() reads without the mutex.
FrontUnlocked == /\ pc[Tox] = "front"
                 /\ mTask' = front
                 /\ Goto(Tox, "send")
                 /\ UNCHANGED <<queueVars, lock, posted, retry, online, sent,
                                lost, victim>>

\* front() gives the address of a slot; of no slot when the queue is empty,
\* which send_data_remote does not expect.
Front == /\ pc[Tox] = "front"
         /\ lock = None
         /\ IF size = 0
            THEN Goto(Tox, "crash") /\ UNCHANGED mTask
            ELSE mTask' = front /\ Goto(Tox, "send")
         /\ UNCHANGED <<queueVars, lock, posted, retry, online, sent, lost,
                        victim>>

\* tox_send_message accepts the message.  A success of the last attempt
\* leaves retry_count at its limit, as a failure does.
SendSucceeds == /\ pc[Tox] = "send"
                /\ online
                /\ retry + 1 < Retries \/ Len(sent) < MaxSent
                /\ sent' = Append(sent, elements[mTask])
                /\ retry' = retry + 1
                /\ Goto(Tox, IF retry + 1 < Retries THEN "deq" ELSE "status")
                /\ UNCHANGED <<queueVars, lock, posted, mTask, online, lost,
                               victim>>

\* Mutant of SendFails: the result of tox_send_message is ignored.
SendFailureIgnored == /\ pc[Tox] = "send"
                      /\ retry' = retry + 1
                      /\ Goto(Tox, "deq")
                      /\ UNCHANGED <<queueVars, lock, posted, mTask, online,
                                     sent, lost, victim>>

\* tox_send_message refuses it: the peer is offline, or Tox has no room.
SendFails == /\ pc[Tox] = "send"
             /\ retry' = retry + 1
             /\ Goto(Tox, IF retry + 1 < Retries THEN "send" ELSE "status")
             /\ UNCHANGED <<queueVars, lock, posted, mTask, online, sent,
                            lost, victim>>

\* Mutant of Status: the message is dropped without a look at the status.
StatusUnchecked == /\ pc[Tox] = "status"
                   /\ Goto(Tox, "offdeq")
                   /\ UNCHANGED <<queueVars, lock, posted, toxVars>>

\* After the last attempt the message is kept if the peer is online.
Status == /\ pc[Tox] = "status"
          /\ IF online
             THEN Goto(Tox, "idle") /\ Return
             ELSE /\ Goto(Tox, "offdeq")
                  /\ UNCHANGED <<mTask, retry, lost, victim>>
          /\ UNCHANGED <<queueVars, lock, posted, online, sent>>

\* Dequeue frees the message, then forgets the slot.
Dequeue == /\ lock = None
           /\ IF size = 0
              THEN UNCHANGED <<elements, size, front>>
              ELSE /\ elements' = [elements EXCEPT ![front] = Freed]
                   /\ size' = size - 1
                   /\ front' = Succ(front)

\* Mutant of DequeueSent: the threads that wait for room are not told.
DequeueSilently == /\ pc[Tox] = "deq"
                   /\ Dequeue
                   /\ Goto(Tox, "idle")
                   /\ Return
                   /\ UNCHANGED <<rear, lock, posted, online, sent>>

DequeueSent == /\ pc[Tox] = "deq"
               /\ Dequeue
               /\ Goto(Tox, "bcast")
               /\ UNCHANGED <<rear, lock, posted, toxVars>>

DequeueOffline == /\ pc[Tox] = "offdeq"
                  /\ Dequeue
                  /\ lost' = elements[mTask]
                  /\ Goto(Tox, "offbcast")
                  /\ UNCHANGED <<rear, lock, posted, mTask, retry, online,
                                 sent, victim>>

\* pthread_cond_broadcast by the Tox thread, without the mutex.
WakeAll(label) == pc' = [u \in Threads |->
                           IF u = Tox THEN label ELSE Woken(u)]

\* Mutant of Broadcast: the wake-up reaches nobody.
BroadcastToNobody == /\ pc[Tox] = "bcast"
                     /\ Goto(Tox, "idle")
                     /\ Return
                     /\ UNCHANGED <<queueVars, lock, posted, online, sent>>

Broadcast == /\ pc[Tox] = "bcast"
             /\ WakeAll("idle")
             /\ Return
             /\ UNCHANGED <<queueVars, lock, posted, online, sent>>

BroadcastOffline == /\ pc[Tox] = "offbcast"
                    /\ WakeAll("unpack")
                    /\ UNCHANGED <<queueVars, lock, posted, toxVars>>

\* What a read through mTask->msg may find: the message of the slot, or in a
\* freed buffer the old bytes, no message, or one that a thread packs there.
Unpacked == IF elements[mTask] # Freed THEN {elements[mTask]}
            ELSE {lost, Garbage}
                 \cup {TaskOf(t) : t \in {u \in Writers : pc[u] # "idle"}}

\* unpack_msg_bin(mTask->msg) reads the uuid of a connection...
Unpack == /\ pc[Tox] = "unpack"
          /\ victim' \in Unpacked
          /\ Goto(Tox, "close")
          /\ UNCHANGED <<queueVars, lock, posted, mTask, retry, online, sent,
                         lost>>

\* ... and that connection is closed.
CloseVictim == /\ pc[Tox] = "close"
               /\ Goto(Tox, "idle")
               /\ Return
               /\ UNCHANGED <<queueVars, lock, posted, online, sent>>

-----------------------------------------------------------------------------
Step(t) == \/ Acquire(t)
           \/ CheckFull(t)
           \/ CheckRoom(t)
           \/ Reserve(t)
           \/ Copy(t)
           \/ Finish(t)

Sending == \/ Poll
           \/ Front
           \/ SendSucceeds
           \/ SendFails
           \/ Status
           \/ DequeueSent
           \/ DequeueOffline
           \/ Broadcast
           \/ BroadcastOffline
           \/ Unpack
           \/ CloseVictim

Next == \/ \E t \in Threads : Post(t) \/ Step(t) \/ SpuriousWakeup(t)
        \/ ToxDo
        \/ Sending

Spec == Init /\ [][Next]_vars

\* Every thread that can go on does, a thread that wants the mutex is not
\* passed over for ever, and Tox, if it is tried for ever while the peer is
\* online, once accepts the message before the last attempt.  That a message
\* is posted or the connection changes is never promised.
Fairness == /\ \A t \in Threads : WF_vars(Step(t)) /\ SF_vars(Acquire(t))
            /\ WF_vars(Sending)
            /\ SF_vars(Front)
            /\ SF_vars(DequeueSent)
            /\ SF_vars(DequeueOffline)
            /\ SF_vars(SendSucceeds /\ retry + 1 < Retries)

FairSpec == Spec /\ Fairness

-----------------------------------------------------------------------------
\* The types of the variables; size and the indices stay within the ring that
\* createQueue allocates.
TypeOK == /\ elements \in [Slots -> Task \cup {Freed}]
          /\ size \in 0..Capacity
          /\ front \in Slots
          /\ rear \in -1..(Capacity - 1)
          /\ lock \in Threads \cup {None}
          /\ pc \in [Threads -> {"idle", "lock", "check", "wait", "enq",
                                 "copy", "signal", "front", "send", "status",
                                 "deq", "offdeq", "bcast", "offbcast",
                                 "unpack", "close", "exit", "crash"}]
          /\ posted \in [Threads -> 0..MaxPosts]
          /\ mTask \in Slots \cup {None}
          /\ retry \in 0..Retries
          /\ online \in BOOLEAN
          /\ sent \in Seq(Task)
          /\ lost \in Task \cup {None}
          /\ victim \in Task \cup {Garbage, None}

-----------------------------------------------------------------------------
(* The queue as the outbox it stands for.                                  *)

\* The slot of the i-th message after the front one.
Slot(i) == IF front + i < Capacity THEN front + i ELSE front + i - Capacity

\* A message counts once its slot is filled, not when size counts it.
Filled == IF \E t \in Threads : pc[t] = "copy" THEN size - 1 ELSE size

Contents == [i \in 1..Filled |-> elements[Slot(i - 1)]]

Box == INSTANCE Outbox WITH queue <- Contents

\* The ring buffer under all its threads behaves as a bounded FIFO that
\* forgets a message only when Tox has it or the peer is offline.
ImplementsOutbox == Box!Spec

-----------------------------------------------------------------------------
\* Enqueue never finds the queue full and front never finds it empty, so
\* neither exit(0) nor the NULL dereference of send_data_remote happens,
\* although Enqueue's caller checked the room before it waited and tox_works
\* read the size without the mutex.
NeverAborts == \A t \in Threads : pc[t] \notin {"exit", "crash"}

\* send_data_remote keeps a pointer into the ring without holding the mutex:
\* until it dequeues, that slot stays the front one and holds a message.
HeadStaysPut == pc[Tox] \in {"send", "status", "deq", "offdeq"} =>
                  /\ mTask = front
                  /\ Filled > 0
                  /\ elements[mTask] \in Task

\* A thread waits only while the queue is full or a broadcast is about to be
\* made: signalling without the mutex loses no wake-up.
NoLostWakeup == (\E t \in Threads : pc[t] = "wait") =>
                  size = Capacity \/ pc[Tox] \in {"bcast", "offbcast"}

\* What one thread posts is handed to Tox in the order it was posted, however
\* the threads interleave and Tox repeats: a TCP stream stays in order.
StreamOrder == \A i, j \in DOMAIN sent :
                 i < j /\ sent[i].by = sent[j].by => sent[i].no <= sent[j].no

\* While the connection is up no message leaves the queue unless it is the
\* last one Tox accepted.
NoSilentDrop == [][online /\ size' < size =>
                     sent # <<>> /\ sent[Len(sent)] = elements[front]]_vars

\* A reader thread that waits for room gets its message in the queue, unless
\* the Tox thread itself waits for room.
WritersResume == \A t \in Writers :
                   pc[t] = "wait" ~> pc[t] = "idle" \/ pc[Tox] = "wait"

-----------------------------------------------------------------------------
(* Statements that the code does not keep.                                 *)

\* "this will only send one message in the message queue": a message is
\* handed to Tox once.
SentOnce == \A i, j \in DOMAIN sent : i # j => sent[i] # sent[j]

\* "unpack msg to get uuid / get socket fd by uuid / close socket": the
\* connection closed is that of the dropped message, even when nobody reads a
\* freed buffer because the slot holds a message again.
ClosesItsOwnSocket == pc[Tox] = "close" /\ elements[mTask] \in Task =>
                        victim \in Task /\ victim.by = lost.by

\* "this func may block if current message queue is not available": a call of
\* write_data_remote by the Tox thread ends when the queue can be emptied.
ToxPostResumes == pc[Tox] = "wait" ~> pc[Tox] # "wait"
=============================================================================
