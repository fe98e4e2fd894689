--------------------------- MODULE MsgQueueProofs ---------------------------
(***************************************************************************)
(* The invariants of the outgoing queue for any number of threads, any     *)
(* capacity and any number of retries.  IInv is the inductive invariant:   *)
(* it says who holds the mutex, how front, rear and size fit together, and *)
(* what the Tox thread knows of the slot it works on.                      *)
(***************************************************************************)
EXTENDS MsgQueue, SequenceTheorems, TLAPS

Holding == {"check", "enq", "copy", "signal"}
Posting == Holding \cup {"lock", "wait"}
Working == {"send", "status", "deq", "offdeq"}

\* A thread is in the critical section exactly when it holds the mutex.
LockOK == \A t \in Threads : pc[t] \in Holding <=> lock = t

\* Writers do nothing but post; a thread that posts has a message, and room
\* once it has checked.
PostOK == /\ \A t \in Writers : pc[t] \in Posting \cup {"idle"}
          /\ \A t \in Threads : pc[t] \in Posting => posted[t] > 0
          /\ \A t \in Threads : pc[t] = "enq" => size < Capacity

\* rear is the last of the slots that size counts from front on.
RingOK == /\ Succ(rear) = Slot(size)
          /\ \A t \in Threads :
               pc[t] = "copy" => size > 0 /\ rear = Slot(size - 1)

\* Every message in the queue is in its slot.
LiveOK == \A i \in 0..(Filled - 1) : elements[Slot(i)] \in Task

\* What the Tox thread knows of its local variables.
ToxOK == /\ pc[Tox] = "front" => size > 0
         /\ pc[Tox] = "send" => retry < Retries
         /\ pc[Tox] \notin Working \cup {"bcast", "offbcast", "unpack", "close"}
              => retry = 0
         /\ pc[Tox] = "offdeq" => ~online
         /\ pc[Tox] \in {"offbcast", "unpack"} =>
              lost \in Task /\ mTask \in Slots
         /\ pc[Tox] = "deq" => sent # <<>> /\ sent[Len(sent)] = elements[front]

IInv == /\ TypeOK
        /\ LockOK
        /\ PostOK
        /\ RingOK
        /\ LiveOK
        /\ ToxOK
        /\ HeadStaysPut
        /\ NeverAborts
        /\ NoLostWakeup

-----------------------------------------------------------------------------
(* Indices of the ring.                                                    *)

\* Slot gives a slot, different ones for different places, and the place after
\* the last one is reached by Succ.
LEMMA SlotFacts ==
  ASSUME front \in Slots
  PROVE  /\ \A i \in 0..Capacity : Slot(i) \in Slots
         /\ \A i, j \in 0..(Capacity - 1) : Slot(i) = Slot(j) => i = j
         /\ \A i \in 0..(Capacity - 1) : Succ(Slot(i)) = Slot(i + 1)
BY SizesAssumption DEF Slots, Slot, Succ

\* The initial state.
LEMMA InitIInv == ASSUME Init PROVE IInv
<1>1. TypeOK
  BY SizesAssumption DEF Init, TypeOK, Slots, Task
<1>2. LockOK /\ PostOK /\ ToxOK /\ HeadStaysPut /\ NeverAborts /\ NoLostWakeup
  BY ThreadsAssumption DEF Init, LockOK, PostOK, ToxOK, HeadStaysPut,
     NeverAborts, NoLostWakeup, Holding, Posting, Working, Threads
<1>3. RingOK
  BY SizesAssumption DEF Init, RingOK, Succ, Slot
<1>4. LiveOK
  BY DEF Init, LiveOK, Filled
<1> QED BY <1>1, <1>2, <1>3, <1>4 DEF IInv

-----------------------------------------------------------------------------
(* write_data_remote.                                                      *)

\* A thread that begins to post touches nothing but its own place.
LEMMA PostKeepsIInv ==
  ASSUME IInv, NEW t \in Threads, Post(t) PROVE IInv'
<1> USE DEF IInv
<1>1. TypeOK'
  BY SizesAssumption DEF TypeOK, Post, Goto, queueVars, toxVars
<1>2. Filled' = Filled /\ \A i : Slot(i)' = Slot(i)
  BY DEF TypeOK, Post, Goto, Filled, Slot, queueVars
<1>3. (LockOK /\ PostOK)'
  BY DEF TypeOK, LockOK, PostOK, Post, Goto, queueVars, Holding, Posting
<1>4. (RingOK /\ LiveOK)'
  BY <1>2 DEF TypeOK, RingOK, LiveOK, Post, Goto, queueVars, Succ
<1>5. (ToxOK /\ HeadStaysPut)'
  BY <1>2 DEF TypeOK, ToxOK, HeadStaysPut, Post, Goto, queueVars, toxVars,
     Working, Threads
<1>6. (NeverAborts /\ NoLostWakeup)'
  BY DEF TypeOK, NeverAborts, NoLostWakeup, Post, Goto, queueVars, toxVars,
     Threads
<1> QED BY <1>1, <1>3, <1>4, <1>5, <1>6

\* The mutex is taken only when nobody has it.
LEMMA AcquireKeepsIInv ==
  ASSUME IInv, NEW t \in Threads, Acquire(t) PROVE IInv'
<1> USE DEF IInv
<1>1. TypeOK'
  BY ThreadsAssumption, SizesAssumption DEF TypeOK, Slots, Threads, Acquire,
     Goto, queueVars, toxVars
<1>2. Filled' = Filled /\ \A i : Slot(i)' = Slot(i)
  BY ThreadsAssumption, SizesAssumption DEF Threads, TypeOK, LockOK, Holding,
     Filled, Slot, Acquire, Goto, queueVars, toxVars
<1>3. (LockOK /\ PostOK)'
  BY ThreadsAssumption, SizesAssumption DEF Threads, TypeOK, LockOK, PostOK,
     Holding, Posting, Acquire, Goto, queueVars, toxVars
<1>4. (RingOK /\ LiveOK)'
  BY <1>2 DEF TypeOK, Threads, RingOK, LiveOK, Succ, Acquire, Goto,
     queueVars, toxVars
<1>5. (ToxOK /\ HeadStaysPut)'
  BY <1>2, ThreadsAssumption, SizesAssumption DEF TypeOK, ToxOK,
     HeadStaysPut, Working, Threads, Acquire, Goto, queueVars, toxVars
<1>6. (NeverAborts /\ NoLostWakeup)'
  BY ThreadsAssumption, SizesAssumption DEF TypeOK, ToxOK, NeverAborts,
     NoLostWakeup, Threads, Acquire, Goto, queueVars, toxVars
<1> QED BY <1>1, <1>3, <1>4, <1>5, <1>6

\* A thread that finds the queue full waits, and the queue is full then.
LEMMA CheckFullKeepsIInv ==
  ASSUME IInv, NEW t \in Threads, CheckFull(t) PROVE IInv'
<1> USE DEF IInv
<1>1. TypeOK'
  BY ThreadsAssumption, SizesAssumption DEF TypeOK, Slots, Threads,
     CheckFull, Goto, queueVars, toxVars
<1>2. Filled' = Filled /\ \A i : Slot(i)' = Slot(i)
  BY ThreadsAssumption, SizesAssumption DEF Threads, TypeOK, LockOK, Holding,
     Filled, Slot, CheckFull, Goto, queueVars, toxVars
<1>3. (LockOK /\ PostOK)'
  BY ThreadsAssumption, SizesAssumption DEF Threads, TypeOK, LockOK, PostOK,
     Holding, Posting, CheckFull, Goto, queueVars, toxVars
<1>4. (RingOK /\ LiveOK)'
  BY <1>2 DEF TypeOK, Threads, RingOK, LiveOK, Succ, CheckFull, Goto,
     queueVars, toxVars
<1>5. (ToxOK /\ HeadStaysPut)'
  BY <1>2, ThreadsAssumption, SizesAssumption DEF TypeOK, ToxOK,
     HeadStaysPut, Working, Threads, CheckFull, Goto, queueVars, toxVars
<1>6. (NeverAborts /\ NoLostWakeup)'
  BY ThreadsAssumption, SizesAssumption DEF TypeOK, ToxOK, NeverAborts,
     NoLostWakeup, Threads, CheckFull, Goto, queueVars, toxVars
<1> QED BY <1>1, <1>3, <1>4, <1>5, <1>6

\* A thread that finds room has it until it gives the mutex back, since
\* only it can enqueue.
LEMMA CheckRoomKeepsIInv ==
  ASSUME IInv, NEW t \in Threads, CheckRoom(t) PROVE IInv'
<1> USE DEF IInv
<1>1. TypeOK'
  BY ThreadsAssumption, SizesAssumption DEF TypeOK, Slots, Threads,
     CheckRoom, Goto, queueVars, toxVars
<1>2. Filled' = Filled /\ \A i : Slot(i)' = Slot(i)
  BY ThreadsAssumption, SizesAssumption DEF Threads, TypeOK, LockOK, Holding,
     Filled, Slot, CheckRoom, Goto, queueVars, toxVars
<1>3. (LockOK /\ PostOK)'
  BY ThreadsAssumption, SizesAssumption DEF Threads, TypeOK, LockOK, PostOK,
     Holding, Posting, CheckRoom, Goto, queueVars, toxVars
<1>4. (RingOK /\ LiveOK)'
  BY <1>2 DEF TypeOK, Threads, RingOK, LiveOK, Succ, CheckRoom, Goto,
     queueVars, toxVars
<1>5. (ToxOK /\ HeadStaysPut)'
  BY <1>2, ThreadsAssumption, SizesAssumption DEF TypeOK, ToxOK,
     HeadStaysPut, Working, Threads, CheckRoom, Goto, queueVars, toxVars
<1>6. (NeverAborts /\ NoLostWakeup)'
  BY ThreadsAssumption, SizesAssumption DEF TypeOK, ToxOK, NeverAborts,
     NoLostWakeup, Threads, CheckRoom, Goto, queueVars, toxVars
<1> QED BY <1>1, <1>3, <1>4, <1>5, <1>6

\* A wake-up without a broadcast only sends the thread back to the mutex.
LEMMA SpuriousWakeupKeepsIInv ==
  ASSUME IInv, NEW t \in Threads, SpuriousWakeup(t) PROVE IInv'
<1> USE DEF IInv
<1>1. TypeOK'
  BY ThreadsAssumption, SizesAssumption DEF TypeOK, Slots, Threads,
     SpuriousWakeup, Goto, queueVars, toxVars
<1>2. Filled' = Filled /\ \A i : Slot(i)' = Slot(i)
  BY ThreadsAssumption, SizesAssumption DEF Threads, TypeOK, LockOK, Holding,
     Filled, Slot, SpuriousWakeup, Goto, queueVars, toxVars
<1>3. (LockOK /\ PostOK)'
  BY ThreadsAssumption, SizesAssumption DEF Threads, TypeOK, LockOK, PostOK,
     Holding, Posting, SpuriousWakeup, Goto, queueVars, toxVars
<1>4. (RingOK /\ LiveOK)'
  BY <1>2 DEF TypeOK, Threads, RingOK, LiveOK, Succ, SpuriousWakeup, Goto,
     queueVars, toxVars
<1>5. (ToxOK /\ HeadStaysPut)'
  BY <1>2, ThreadsAssumption, SizesAssumption DEF TypeOK, ToxOK,
     HeadStaysPut, Working, Threads, SpuriousWakeup, Goto, queueVars, toxVars
<1>6. (NeverAborts /\ NoLostWakeup)'
  BY ThreadsAssumption, SizesAssumption DEF TypeOK, ToxOK, NeverAborts,
     NoLostWakeup, Threads, SpuriousWakeup, Goto, queueVars, toxVars
<1> QED BY <1>1, <1>3, <1>4, <1>5, <1>6

\* The mutex is given back, and nobody is left waiting unless the queue is
\* full.
LEMMA FinishKeepsIInv ==
  ASSUME IInv, NEW t \in Threads, Finish(t) PROVE IInv'
<1> USE DEF IInv
<1>1. TypeOK'
  BY ThreadsAssumption, SizesAssumption DEF TypeOK, Slots, Threads, Finish,
     Woken, Goto, queueVars, toxVars
<1>2. Filled' = Filled /\ \A i : Slot(i)' = Slot(i)
  BY ThreadsAssumption, SizesAssumption DEF Threads, TypeOK, LockOK, Holding,
     Filled, Slot, Finish, Woken, Goto, queueVars, toxVars
<1>3. (LockOK /\ PostOK)'
  BY ThreadsAssumption, SizesAssumption DEF Threads, TypeOK, LockOK, PostOK,
     Holding, Posting, Finish, Woken, Goto, queueVars, toxVars
<1>4. (RingOK /\ LiveOK)'
  BY <1>2 DEF TypeOK, Threads, RingOK, LiveOK, Succ, Finish, Woken, Goto,
     queueVars, toxVars
<1>5. (ToxOK /\ HeadStaysPut)'
  BY <1>2, ThreadsAssumption, SizesAssumption DEF TypeOK, ToxOK,
     HeadStaysPut, Working, Threads, Finish, Woken, Goto, queueVars, toxVars
<1>6. (NeverAborts /\ NoLostWakeup)'
  BY ThreadsAssumption, SizesAssumption DEF TypeOK, ToxOK, NeverAborts,
     NoLostWakeup, Threads, Finish, Woken, Goto, queueVars, toxVars
<1> QED BY <1>1, <1>3, <1>4, <1>5, <1>6

-----------------------------------------------------------------------------
(* The Tox thread.                                                         *)

\* The connection changes only between two messages.
LEMMA ToxDoKeepsIInv ==
  ASSUME IInv, ToxDo PROVE IInv'
<1> USE DEF IInv
<1>1. TypeOK'
  BY ThreadsAssumption, SizesAssumption DEF TypeOK, Slots, Threads, ToxDo,
     Goto, queueVars, toxVars
<1>2. Filled' = Filled /\ \A i : Slot(i)' = Slot(i)
  BY ThreadsAssumption, SizesAssumption DEF Threads, TypeOK, LockOK, Holding,
     Filled, Slot, ToxDo, Goto, queueVars, toxVars
<1>3. (LockOK /\ PostOK)'
  BY ThreadsAssumption, SizesAssumption DEF Threads, TypeOK, LockOK, PostOK,
     Holding, Posting, ToxDo, Goto, queueVars, toxVars
<1>4. (RingOK /\ LiveOK)'
  BY <1>2 DEF TypeOK, Threads, RingOK, LiveOK, Succ, ToxDo, Goto, queueVars,
     toxVars
<1>5. (ToxOK /\ HeadStaysPut)'
  BY <1>2, ThreadsAssumption, SizesAssumption DEF TypeOK, ToxOK,
     HeadStaysPut, Working, Threads, ToxDo, Goto, queueVars, toxVars
<1>6. (NeverAborts /\ NoLostWakeup)'
  BY ThreadsAssumption, SizesAssumption DEF TypeOK, ToxOK, NeverAborts,
     NoLostWakeup, Threads, ToxDo, Goto, queueVars, toxVars
<1> QED BY <1>1, <1>3, <1>4, <1>5, <1>6

\* The size read without the mutex stays above zero: only Tox lowers it.
LEMMA PollKeepsIInv ==
  ASSUME IInv, Poll PROVE IInv'
<1> USE DEF IInv
<1>1. TypeOK'
  BY ThreadsAssumption, SizesAssumption DEF TypeOK, Slots, Threads, Poll,
     Goto, queueVars, toxVars
<1>2. Filled' = Filled /\ \A i : Slot(i)' = Slot(i)
  BY ThreadsAssumption, SizesAssumption DEF Threads, TypeOK, LockOK, Holding,
     Filled, Slot, Poll, Goto, queueVars, toxVars
<1>3. (LockOK /\ PostOK)'
  BY ThreadsAssumption, SizesAssumption DEF Threads, TypeOK, LockOK, PostOK,
     Holding, Posting, Poll, Goto, queueVars, toxVars
<1>4. (RingOK /\ LiveOK)'
  BY <1>2 DEF TypeOK, Threads, RingOK, LiveOK, Succ, Poll, Goto, queueVars,
     toxVars
<1>5. (ToxOK /\ HeadStaysPut)'
  BY <1>2, ThreadsAssumption, SizesAssumption DEF TypeOK, ToxOK,
     HeadStaysPut, Working, Threads, Poll, Goto, queueVars, toxVars
<1>6. (NeverAborts /\ NoLostWakeup)'
  BY ThreadsAssumption, SizesAssumption DEF TypeOK, ToxOK, NeverAborts,
     NoLostWakeup, Threads, Poll, Goto, queueVars, toxVars
<1> QED BY <1>1, <1>3, <1>4, <1>5, <1>6

\* front() takes the slot of a message that is completely there: a thread
\* that has counted its message and not yet copied it holds the mutex.
LEMMA FrontKeepsIInv ==
  ASSUME IInv, Front PROVE IInv'
<1> USE DEF IInv
<1>1. TypeOK'
  BY ThreadsAssumption, SizesAssumption DEF TypeOK, Slots, Threads, Front,
     Goto, queueVars, toxVars
<1>2. Filled' = Filled /\ \A i : Slot(i)' = Slot(i)
  BY ThreadsAssumption, SizesAssumption DEF Threads, TypeOK, LockOK, Holding,
     Filled, Slot, Front, Goto, queueVars, toxVars
<1>3. (LockOK /\ PostOK)'
  BY ThreadsAssumption, SizesAssumption DEF Threads, TypeOK, LockOK, PostOK,
     Holding, Posting, Front, Goto, queueVars, toxVars
<1>4. (RingOK /\ LiveOK)'
  BY <1>2 DEF TypeOK, Threads, RingOK, LiveOK, Succ, Front, Goto, queueVars,
     toxVars
<1>5. (ToxOK /\ HeadStaysPut)'
  <2>1. lock = None => Filled = size
    BY ThreadsAssumption, SizesAssumption DEF Threads, TypeOK, LockOK,
       Holding, Filled
  <2>2. size > 0 /\ lock = None => elements[front] \in Task
    <3>1. Slot(0) = front
      BY ThreadsAssumption, SizesAssumption DEF TypeOK, Slots, Slot
    <3>2. size > 0 /\ lock = None => 0 \in 0..(Filled - 1)
      BY <2>1 DEF TypeOK
    <3> QED BY <3>1, <3>2 DEF LiveOK
  <2> QED
    BY <1>2, <2>1, <2>2, ThreadsAssumption, SizesAssumption DEF TypeOK,
       Slots, ToxOK, HeadStaysPut, Working, Threads, Front, Goto, queueVars
<1>6. (NeverAborts /\ NoLostWakeup)'
  BY ThreadsAssumption, SizesAssumption DEF TypeOK, ToxOK, NeverAborts,
     NoLostWakeup, Threads, Front, Goto, queueVars, toxVars
<1> QED BY <1>1, <1>3, <1>4, <1>5, <1>6

\* What Tox accepts is the message of the front slot.
LEMMA SendSucceedsKeepsIInv ==
  ASSUME IInv, SendSucceeds PROVE IInv'
<1> USE DEF IInv
<1>1. TypeOK'
  BY ThreadsAssumption, SizesAssumption DEF TypeOK, ToxOK, HeadStaysPut,
     Slots, Threads, SendSucceeds, Goto, queueVars, toxVars
<1>2. Filled' = Filled /\ \A i : Slot(i)' = Slot(i)
  BY ThreadsAssumption, SizesAssumption DEF Threads, TypeOK, LockOK, Holding,
     Filled, Slot, SendSucceeds, Goto, queueVars, toxVars
<1>3. (LockOK /\ PostOK)'
  BY ThreadsAssumption, SizesAssumption DEF Threads, TypeOK, LockOK, PostOK,
     Holding, Posting, SendSucceeds, Goto, queueVars, toxVars
<1>4. (RingOK /\ LiveOK)'
  BY <1>2 DEF TypeOK, Threads, RingOK, LiveOK, Succ, SendSucceeds, Goto,
     queueVars, toxVars
<1>5. (ToxOK /\ HeadStaysPut)'
  <2>1. /\ pc' = [pc EXCEPT ![Tox] = IF retry + 1 < Retries
                                     THEN "deq" ELSE "status"]
        /\ pc[Tox] = "send"
        /\ UNCHANGED <<elements, size, front, mTask>>
    BY DEF SendSucceeds, Goto, queueVars
  <2>2. pc'[Tox] \in {"deq", "status"}
    BY <2>1 DEF TypeOK, Threads
  <2>3. mTask = front /\ elements[front] \in Task
    BY <2>1 DEF HeadStaysPut
  <2>4. sent' # <<>> /\ sent'[Len(sent')] = elements'[front']
    BY <2>1, <2>3 DEF SendSucceeds, TypeOK
  <2>5. ToxOK'
    BY <2>2, <2>4 DEF ToxOK, Working
  <2>6. HeadStaysPut'
    BY <1>2, <2>1, <2>3 DEF HeadStaysPut
  <2> QED BY <2>5, <2>6
<1>6. (NeverAborts /\ NoLostWakeup)'
  BY ThreadsAssumption, SizesAssumption DEF TypeOK, ToxOK, NeverAborts,
     NoLostWakeup, Threads, SendSucceeds, Goto, queueVars, toxVars
<1> QED BY <1>1, <1>3, <1>4, <1>5, <1>6

\* A failed attempt changes nothing but retry_count.
LEMMA SendFailsKeepsIInv ==
  ASSUME IInv, SendFails PROVE IInv'
<1> USE DEF IInv
<1>1. TypeOK'
  BY ThreadsAssumption, SizesAssumption DEF TypeOK, ToxOK, HeadStaysPut,
     Slots, Threads, SendFails, Goto, queueVars, toxVars
<1>2. Filled' = Filled /\ \A i : Slot(i)' = Slot(i)
  BY ThreadsAssumption, SizesAssumption DEF Threads, TypeOK, LockOK, Holding,
     Filled, Slot, SendFails, Goto, queueVars, toxVars
<1>3. (LockOK /\ PostOK)'
  BY ThreadsAssumption, SizesAssumption DEF Threads, TypeOK, LockOK, PostOK,
     Holding, Posting, SendFails, Goto, queueVars, toxVars
<1>4. (RingOK /\ LiveOK)'
  BY <1>2 DEF TypeOK, Threads, RingOK, LiveOK, Succ, SendFails, Goto,
     queueVars, toxVars
<1>5. (ToxOK /\ HeadStaysPut)'
  BY <1>2, ThreadsAssumption, SizesAssumption DEF TypeOK, ToxOK,
     HeadStaysPut, Working, Threads, SendFails, Goto, queueVars, toxVars
<1>6. (NeverAborts /\ NoLostWakeup)'
  BY ThreadsAssumption, SizesAssumption DEF TypeOK, ToxOK, NeverAborts,
     NoLostWakeup, Threads, SendFails, Goto, queueVars, toxVars
<1> QED BY <1>1, <1>3, <1>4, <1>5, <1>6

\* The late read of the slot changes nothing in the queue.
LEMMA UnpackKeepsIInv ==
  ASSUME IInv, Unpack PROVE IInv'
<1> USE DEF IInv
<1>1. TypeOK'
  <2>1. \A t \in Writers : pc[t] # "idle" => TaskOf(t) \in Task
    BY ThreadsAssumption, SizesAssumption DEF TypeOK, PostOK, Posting,
       Holding, TaskOf, Task, Threads
  <2>2. lost \in Task /\ mTask \in Slots
    BY DEF ToxOK, Unpack
  <2>3. Unpacked \subseteq Task \cup {Garbage}
    BY <2>1, <2>2 DEF TypeOK, Unpacked
  <2> QED
    BY <2>3, ThreadsAssumption, SizesAssumption DEF TypeOK, Threads, Unpack,
       Goto, queueVars
<1>2. Filled' = Filled /\ \A i : Slot(i)' = Slot(i)
  BY ThreadsAssumption, SizesAssumption DEF Threads, TypeOK, LockOK, Holding,
     Filled, Slot, Unpack, Goto, queueVars, toxVars
<1>3. (LockOK /\ PostOK)'
  BY ThreadsAssumption, SizesAssumption DEF Threads, TypeOK, LockOK, PostOK,
     Holding, Posting, Unpack, Goto, queueVars, toxVars
<1>4. (RingOK /\ LiveOK)'
  BY <1>2 DEF TypeOK, Threads, RingOK, LiveOK, Succ, Unpack, Goto, queueVars,
     toxVars
<1>5. (ToxOK /\ HeadStaysPut)'
  BY <1>2, ThreadsAssumption, SizesAssumption DEF TypeOK, ToxOK,
     HeadStaysPut, Working, Threads, Unpack, Goto, queueVars, toxVars
<1>6. (NeverAborts /\ NoLostWakeup)'
  BY ThreadsAssumption, SizesAssumption DEF TypeOK, ToxOK, NeverAborts,
     NoLostWakeup, Threads, Unpack, Goto, queueVars, toxVars
<1> QED BY <1>1, <1>3, <1>4, <1>5, <1>6

\* A message is given up only while the peer is offline.
LEMMA StatusKeepsIInv ==
  ASSUME IInv, Status PROVE IInv'
<1> USE DEF IInv
<1>1. TypeOK'
  BY ThreadsAssumption, SizesAssumption DEF TypeOK, Slots, Threads, Status,
     Return, Goto, queueVars, toxVars
<1>2. Filled' = Filled /\ \A i : Slot(i)' = Slot(i)
  BY ThreadsAssumption, SizesAssumption DEF Threads, TypeOK, LockOK, Holding,
     Filled, Slot, Status, Return, Goto, queueVars, toxVars
<1>3. (LockOK /\ PostOK)'
  BY ThreadsAssumption, SizesAssumption DEF Threads, TypeOK, LockOK, PostOK,
     Holding, Posting, Status, Return, Goto, queueVars, toxVars
<1>4. (RingOK /\ LiveOK)'
  BY <1>2 DEF TypeOK, Threads, RingOK, LiveOK, Succ, Status, Return, Goto,
     queueVars, toxVars
<1>5. (ToxOK /\ HeadStaysPut)'
  BY <1>2, ThreadsAssumption, SizesAssumption DEF TypeOK, ToxOK,
     HeadStaysPut, Working, Threads, Status, Return, Goto, queueVars, toxVars
<1>6. (NeverAborts /\ NoLostWakeup)'
  BY ThreadsAssumption, SizesAssumption DEF TypeOK, ToxOK, NeverAborts,
     NoLostWakeup, Threads, Status, Return, Goto, queueVars, toxVars
<1> QED BY <1>1, <1>3, <1>4, <1>5, <1>6

\* Closing the connection ends send_data_remote.
LEMMA CloseVictimKeepsIInv ==
  ASSUME IInv, CloseVictim PROVE IInv'
<1> USE DEF IInv
<1>1. TypeOK'
  BY ThreadsAssumption, SizesAssumption DEF TypeOK, Slots, Threads,
     CloseVictim, Return, Goto, queueVars, toxVars
<1>2. Filled' = Filled /\ \A i : Slot(i)' = Slot(i)
  BY ThreadsAssumption, SizesAssumption DEF Threads, TypeOK, LockOK, Holding,
     Filled, Slot, CloseVictim, Return, Goto, queueVars, toxVars
<1>3. (LockOK /\ PostOK)'
  BY ThreadsAssumption, SizesAssumption DEF Threads, TypeOK, LockOK, PostOK,
     Holding, Posting, CloseVictim, Return, Goto, queueVars, toxVars
<1>4. (RingOK /\ LiveOK)'
  BY <1>2 DEF TypeOK, Threads, RingOK, LiveOK, Succ, CloseVictim, Return,
     Goto, queueVars, toxVars
<1>5. (ToxOK /\ HeadStaysPut)'
  BY <1>2, ThreadsAssumption, SizesAssumption DEF TypeOK, ToxOK,
     HeadStaysPut, Working, Threads, CloseVictim, Return, Goto, queueVars,
     toxVars
<1>6. (NeverAborts /\ NoLostWakeup)'
  BY ThreadsAssumption, SizesAssumption DEF TypeOK, ToxOK, NeverAborts,
     NoLostWakeup, Threads, CloseVictim, Return, Goto, queueVars, toxVars
<1> QED BY <1>1, <1>3, <1>4, <1>5, <1>6

\* After the broadcast nobody waits.
LEMMA BroadcastKeepsIInv ==
  ASSUME IInv, Broadcast PROVE IInv'
<1> USE DEF IInv
<1>1. TypeOK'
  BY ThreadsAssumption, SizesAssumption DEF TypeOK, Slots, Threads,
     Broadcast, WakeAll, Woken, Return, queueVars
<1>2. Filled' = Filled /\ \A i : Slot(i)' = Slot(i)
  BY ThreadsAssumption, SizesAssumption DEF Threads, TypeOK, LockOK, Holding,
     Filled, Slot, Broadcast, WakeAll, Woken, Return, queueVars
<1>3. (LockOK /\ PostOK)'
  BY ThreadsAssumption, SizesAssumption DEF Threads, TypeOK, LockOK, PostOK,
     Holding, Posting, Broadcast, WakeAll, Woken, Return, queueVars
<1>4. (RingOK /\ LiveOK)'
  BY <1>2 DEF TypeOK, Threads, RingOK, LiveOK, Succ, Broadcast, WakeAll,
     Woken, Return, queueVars
<1>5. (ToxOK /\ HeadStaysPut)'
  BY <1>2, ThreadsAssumption, SizesAssumption DEF TypeOK, ToxOK,
     HeadStaysPut, Working, Threads, Broadcast, WakeAll, Woken, Return,
     queueVars
<1>6. (NeverAborts /\ NoLostWakeup)'
  BY ThreadsAssumption, SizesAssumption DEF TypeOK, ToxOK, NeverAborts,
     NoLostWakeup, Threads, Broadcast, WakeAll, Woken, Return, queueVars
<1> QED BY <1>1, <1>3, <1>4, <1>5, <1>6

\* After the broadcast of the offline branch nobody waits either.
LEMMA BroadcastOfflineKeepsIInv ==
  ASSUME IInv, BroadcastOffline PROVE IInv'
<1> USE DEF IInv
<1>1. TypeOK'
  BY ThreadsAssumption, SizesAssumption DEF TypeOK, Slots, Threads,
     BroadcastOffline, WakeAll, Woken, queueVars, toxVars
<1>2. Filled' = Filled /\ \A i : Slot(i)' = Slot(i)
  BY ThreadsAssumption, SizesAssumption DEF Threads, TypeOK, LockOK, Holding,
     Filled, Slot, BroadcastOffline, WakeAll, Woken, queueVars, toxVars
<1>3. (LockOK /\ PostOK)'
  BY ThreadsAssumption, SizesAssumption DEF Threads, TypeOK, LockOK, PostOK,
     Holding, Posting, BroadcastOffline, WakeAll, Woken, queueVars, toxVars
<1>4. (RingOK /\ LiveOK)'
  BY <1>2 DEF TypeOK, Threads, RingOK, LiveOK, Succ, BroadcastOffline,
     WakeAll, Woken, queueVars, toxVars
<1>5. (ToxOK /\ HeadStaysPut)'
  BY <1>2, ThreadsAssumption, SizesAssumption DEF TypeOK, ToxOK,
     HeadStaysPut, Working, Threads, BroadcastOffline, WakeAll, Woken,
     queueVars, toxVars
<1>6. (NeverAborts /\ NoLostWakeup)'
  BY ThreadsAssumption, SizesAssumption DEF TypeOK, ToxOK, NeverAborts,
     NoLostWakeup, Threads, BroadcastOffline, WakeAll, Woken, queueVars,
     toxVars
<1> QED BY <1>1, <1>3, <1>4, <1>5, <1>6

-----------------------------------------------------------------------------
(* The steps that change the ring.                                         *)

\* Enqueue has room, and the slot rear moves to is the one after the last
\* message, which the Tox thread does not work on.
LEMMA ReserveKeepsIInv ==
  ASSUME IInv, NEW t \in Threads, Reserve(t) PROVE IInv'
<1> USE DEF IInv
<1>1. /\ size < Capacity /\ lock = t /\ pc[t] = "enq"
      /\ size' = size + 1 /\ rear' = Succ(rear)
      /\ pc' = [pc EXCEPT ![t] = "copy"]
      /\ UNCHANGED <<elements, front, lock, posted, toxVars>>
  BY ThreadsAssumption, SizesAssumption DEF TypeOK, LockOK, PostOK, Holding,
     Reserve, Goto
<1>2. TypeOK'
  BY <1>1, ThreadsAssumption, SizesAssumption DEF TypeOK, Slots, Threads,
     Succ, toxVars
<1>3. Filled = size /\ Filled' = size
  BY <1>1, ThreadsAssumption, SizesAssumption DEF TypeOK, LockOK, Holding,
     Filled, Threads, Reserve
<1>4. \A i : Slot(i)' = Slot(i)
  BY DEF Slot, Reserve
<1>5. (LockOK /\ PostOK)'
  BY <1>1, ThreadsAssumption, SizesAssumption DEF Threads, TypeOK, LockOK,
     PostOK, Holding, Posting, Reserve
<1>6. RingOK'
  <2>1. rear' = Slot(size) /\ Succ(rear)' = Succ(Slot(size))
    BY <1>1 DEF RingOK, Succ
  <2>2. Succ(Slot(size)) = Slot(size + 1)
    BY <1>1, SlotFacts, ThreadsAssumption, SizesAssumption DEF TypeOK
  <2> QED BY <1>1, <2>1, <2>2 DEF RingOK, TypeOK, Slot
<1>7. LiveOK'
  BY <1>1, <1>3, <1>4 DEF LiveOK, Reserve
<1>8. (ToxOK /\ HeadStaysPut)'
  BY <1>1, <1>3, ThreadsAssumption, SizesAssumption DEF TypeOK, ToxOK,
     HeadStaysPut, Working, Threads, Reserve, toxVars
<1>9. (NeverAborts /\ NoLostWakeup)'
  BY <1>1, ThreadsAssumption, SizesAssumption DEF TypeOK, NeverAborts,
     NoLostWakeup, Threads
<1> QED BY <1>2, <1>5, <1>6, <1>7, <1>8, <1>9

\* The message is put in the slot that rear points to, and no other slot
\* that counts changes.
LEMMA CopyKeepsIInv ==
  ASSUME IInv, NEW t \in Threads, Copy(t) PROVE IInv'
<1> USE DEF IInv
<1>1. /\ lock = t /\ size > 0 /\ rear = Slot(size - 1)
      /\ rear \in Slots /\ TaskOf(t) \in Task
  BY SlotFacts, ThreadsAssumption, SizesAssumption DEF TypeOK, LockOK,
     PostOK, RingOK, Posting, Holding, Copy, TaskOf, Task
<1>2. TypeOK'
  BY <1>1, ThreadsAssumption, SizesAssumption DEF TypeOK, Copy, Goto, toxVars
<1>3. Filled = size - 1 /\ Filled' = size
  BY <1>1, ThreadsAssumption, SizesAssumption DEF TypeOK, LockOK, Holding,
     Filled, Threads, Copy, Goto
<1>4. \A i : Slot(i)' = Slot(i)
  BY DEF Slot, Copy
<1>5. (LockOK /\ PostOK)'
  BY <1>1, ThreadsAssumption, SizesAssumption DEF Threads, TypeOK, LockOK,
     PostOK, Holding, Posting, Copy, Goto
<1>6. RingOK'
  BY <1>1, <1>4, ThreadsAssumption, SizesAssumption DEF TypeOK, LockOK,
     Holding, RingOK, Succ, Copy, Goto
<1>7. \A i \in 0..(size - 2) : Slot(i) \in Slots /\ Slot(i) # rear
  BY <1>1, SlotFacts, ThreadsAssumption, SizesAssumption DEF TypeOK
<1>8. LiveOK'
  BY <1>1, <1>3, <1>4, <1>7, ThreadsAssumption, SizesAssumption DEF TypeOK,
     LiveOK, Copy
<1>9. (ToxOK /\ HeadStaysPut)'
  <2>1. Filled > 0 => front # rear
    BY <1>3, <1>7, <1>1, ThreadsAssumption, SizesAssumption DEF TypeOK,
       Slots, Slot
  <2>2. \A i \in Slots : i # rear => elements'[i] = elements[i]
    BY <1>1 DEF TypeOK, Copy
  <2> QED
    BY <1>1, <1>3, <2>1, <2>2, ThreadsAssumption, SizesAssumption DEF TypeOK,
       ToxOK, HeadStaysPut, Working, Threads, Copy, Goto, toxVars
<1>10. (NeverAborts /\ NoLostWakeup)'
  BY ThreadsAssumption, SizesAssumption DEF TypeOK, NeverAborts,
     NoLostWakeup, Threads, Copy, Goto
<1> QED BY <1>2, <1>5, <1>6, <1>8, <1>9, <1>10

\* What Dequeue does when it finds the head in place.
LEMMA DequeueFacts ==
  ASSUME IInv, pc[Tox] \in {"deq", "offdeq"}, Dequeue
  PROVE  /\ size > 0 /\ Filled = size /\ lock = None
         /\ elements' = [elements EXCEPT ![front] = Freed]
         /\ size' = size - 1
         /\ front' = Succ(front)
         /\ front' \in Slots
         /\ \A i \in 0..(size - 1) : Slot(i)' = Slot(i + 1)
         /\ \A i \in 1..(size - 1) : Slot(i) \in Slots /\ Slot(i) # front
<1> USE DEF IInv
<1>1. size > 0 /\ Filled = size /\ lock = None
  BY ThreadsAssumption, SizesAssumption DEF TypeOK, LockOK, Holding,
     HeadStaysPut, Threads, Filled, Dequeue
<1>2. /\ elements' = [elements EXCEPT ![front] = Freed]
      /\ size' = size - 1
      /\ front' = Succ(front)
  BY <1>1 DEF Dequeue
<1>3. front' \in Slots
  BY <1>2, ThreadsAssumption, SizesAssumption DEF TypeOK, Slots, Succ
<1>4. \A i \in 0..(size - 1) : Slot(i)' = Slot(i + 1)
  BY <1>2, ThreadsAssumption, SizesAssumption DEF TypeOK, Slots, Slot, Succ
<1>5. \A i \in 1..(size - 1) : Slot(i) \in Slots /\ Slot(i) # front
  BY ThreadsAssumption, SizesAssumption DEF TypeOK, Slots, Slot
<1> QED BY <1>1, <1>2, <1>3, <1>4, <1>5

\* Dequeue moves front to the next message and leaves the rest in place.
LEMMA DequeueSentKeepsIInv ==
  ASSUME IInv, DequeueSent PROVE IInv'
<1> USE DEF IInv
<1>1. /\ pc[Tox] \in {"deq", "offdeq"} /\ Dequeue
      /\ pc' = [pc EXCEPT ![Tox] = "bcast"]
  BY DEF DequeueSent, Goto
<1>2. /\ size > 0 /\ Filled = size /\ lock = None
      /\ elements' = [elements EXCEPT ![front] = Freed]
      /\ size' = size - 1
      /\ front' \in Slots
      /\ \A i \in 0..(size - 1) : Slot(i)' = Slot(i + 1)
      /\ \A i \in 1..(size - 1) : Slot(i) \in Slots /\ Slot(i) # front
  BY <1>1, DequeueFacts
<1>3. TypeOK'
  BY <1>1, <1>2, ThreadsAssumption, SizesAssumption DEF TypeOK, HeadStaysPut,
     Slots, Threads, DequeueSent, toxVars
<1>4. Filled' = size - 1
  BY <1>1, <1>2, ThreadsAssumption, SizesAssumption DEF TypeOK, LockOK,
     Holding, Filled, Threads
<1>5. (LockOK /\ PostOK)'
  BY <1>1, <1>2, ThreadsAssumption, SizesAssumption DEF Threads, TypeOK,
     LockOK, PostOK, Holding, Posting, DequeueSent
<1>6. RingOK'
  BY <1>1, <1>2, ThreadsAssumption, SizesAssumption DEF Threads, TypeOK,
     LockOK, Holding, RingOK, Succ, DequeueSent
<1>7. LiveOK'
  <2>1. \A i \in 0..(size - 2) : i + 1 \in 1..(size - 1)
    BY ThreadsAssumption, SizesAssumption DEF TypeOK
  <2>2. \A i \in 0..(size - 2) : elements'[Slot(i)'] = elements[Slot(i + 1)]
    BY <1>2, <2>1, ThreadsAssumption, SizesAssumption DEF TypeOK
  <2> QED BY <1>2, <1>4, <2>1, <2>2, ThreadsAssumption, SizesAssumption
      DEF TypeOK, LiveOK
<1>8. (ToxOK /\ HeadStaysPut)'
  BY <1>1, <1>2, ThreadsAssumption, SizesAssumption DEF TypeOK, ToxOK,
     HeadStaysPut, Working, Threads, DequeueSent, toxVars
<1>9. (NeverAborts /\ NoLostWakeup)'
  BY <1>1, ThreadsAssumption, SizesAssumption DEF TypeOK, NeverAborts,
     NoLostWakeup, Threads
<1> QED BY <1>3, <1>5, <1>6, <1>7, <1>8, <1>9

\* The same, when the message is given up.
LEMMA DequeueOfflineKeepsIInv ==
  ASSUME IInv, DequeueOffline PROVE IInv'
<1> USE DEF IInv
<1>1. /\ pc[Tox] \in {"deq", "offdeq"} /\ Dequeue
      /\ pc' = [pc EXCEPT ![Tox] = "offbcast"]
  BY DEF DequeueOffline, Goto
<1>2. /\ size > 0 /\ Filled = size /\ lock = None
      /\ elements' = [elements EXCEPT ![front] = Freed]
      /\ size' = size - 1
      /\ front' \in Slots
      /\ \A i \in 0..(size - 1) : Slot(i)' = Slot(i + 1)
      /\ \A i \in 1..(size - 1) : Slot(i) \in Slots /\ Slot(i) # front
  BY <1>1, DequeueFacts
<1>3. TypeOK'
  BY <1>1, <1>2, ThreadsAssumption, SizesAssumption DEF TypeOK, HeadStaysPut,
     Slots, Threads, DequeueOffline, toxVars
<1>4. Filled' = size - 1
  BY <1>1, <1>2, ThreadsAssumption, SizesAssumption DEF TypeOK, LockOK,
     Holding, Filled, Threads
<1>5. (LockOK /\ PostOK)'
  BY <1>1, <1>2, ThreadsAssumption, SizesAssumption DEF Threads, TypeOK,
     LockOK, PostOK, Holding, Posting, DequeueOffline
<1>6. RingOK'
  BY <1>1, <1>2, ThreadsAssumption, SizesAssumption DEF Threads, TypeOK,
     LockOK, Holding, RingOK, Succ, DequeueOffline
<1>7. LiveOK'
  <2>1. \A i \in 0..(size - 2) : i + 1 \in 1..(size - 1)
    BY ThreadsAssumption, SizesAssumption DEF TypeOK
  <2>2. \A i \in 0..(size - 2) : elements'[Slot(i)'] = elements[Slot(i + 1)]
    BY <1>2, <2>1, ThreadsAssumption, SizesAssumption DEF TypeOK
  <2> QED BY <1>2, <1>4, <2>1, <2>2, ThreadsAssumption, SizesAssumption
      DEF TypeOK, LiveOK
<1>8. (ToxOK /\ HeadStaysPut)'
  BY <1>1, <1>2, ThreadsAssumption, SizesAssumption DEF TypeOK, ToxOK,
     HeadStaysPut, Working, Threads, DequeueOffline, toxVars
<1>9. (NeverAborts /\ NoLostWakeup)'
  BY <1>1, ThreadsAssumption, SizesAssumption DEF TypeOK, NeverAborts,
     NoLostWakeup, Threads
<1> QED BY <1>3, <1>5, <1>6, <1>7, <1>8, <1>9

-----------------------------------------------------------------------------
(* The theorems.                                                           *)

\* Every step preserves the inductive invariant.
LEMMA NextKeepsIInv == ASSUME IInv, [Next]_vars PROVE IInv'
<1>1. CASE UNCHANGED vars
  BY <1>1 DEF vars, queueVars, toxVars, IInv, TypeOK, LockOK, PostOK, RingOK,
     LiveOK, ToxOK, HeadStaysPut, NeverAborts, NoLostWakeup, Filled, Slot,
     Succ
<1>2. ASSUME NEW t \in Threads, Post(t) \/ Step(t) \/ SpuriousWakeup(t)
      PROVE  IInv'
  BY <1>2, PostKeepsIInv, AcquireKeepsIInv, CheckFullKeepsIInv,
     CheckRoomKeepsIInv, SpuriousWakeupKeepsIInv, ReserveKeepsIInv,
     CopyKeepsIInv, FinishKeepsIInv DEF Step
<1>3. CASE ToxDo
  BY <1>3, ToxDoKeepsIInv
<1>4. CASE Sending
  BY <1>4, PollKeepsIInv, FrontKeepsIInv, SendSucceedsKeepsIInv,
     SendFailsKeepsIInv, StatusKeepsIInv, DequeueSentKeepsIInv,
     DequeueOfflineKeepsIInv, BroadcastKeepsIInv, BroadcastOfflineKeepsIInv,
     UnpackKeepsIInv, CloseVictimKeepsIInv DEF Sending
<1> QED BY <1>1, <1>2, <1>3, <1>4 DEF Next

\* IInv is inductive, so it holds of every reachable state.
THEOREM Invariance == Spec => []IInv
<1>1. Init => IInv
  BY InitIInv
<1>2. IInv /\ [Next]_vars => IInv'
  BY NextKeepsIInv
<1> QED BY <1>1, <1>2, PTL DEF Spec

\* Every variable keeps its type.
THEOREM TypeCorrect == Spec => []TypeOK
<1>1. IInv => TypeOK
  BY DEF IInv
<1> QED BY <1>1, Invariance, PTL

\* No thread ever reaches the exit(0) of Enqueue or dereferences the NULL of
\* front.
THEOREM NoAbort == Spec => []NeverAborts
<1>1. IInv => NeverAborts
  BY DEF IInv
<1> QED BY <1>1, Invariance, PTL

\* The slot that send_data_remote points to without the mutex is the front one
\* and holds a message, until it is dequeued.
THEOREM PointerStaysValid == Spec => []HeadStaysPut
<1>1. IInv => HeadStaysPut
  BY DEF IInv
<1> QED BY <1>1, Invariance, PTL

\* No wake-up is lost although the Tox thread signals without the mutex.
THEOREM NoWakeupIsLost == Spec => []NoLostWakeup
<1>1. IInv => NoLostWakeup
  BY DEF IInv
<1> QED BY <1>1, Invariance, PTL

\* Only the Tox thread, after a success or offline, makes the queue shorter.
LEMMA ShrinkingStep ==
  ASSUME IInv, [Next]_vars, online, size' < size
  PROVE  sent # <<>> /\ sent[Len(sent)] = elements[front]
<1> USE DEF IInv
<1>1. ~ UNCHANGED vars /\ size \in Nat
  BY ThreadsAssumption, SizesAssumption DEF vars, queueVars, TypeOK
<1>2. \A t \in Threads : ~ (Post(t) \/ Step(t) \/ SpuriousWakeup(t))
  BY <1>1 DEF Post, Step, SpuriousWakeup, Acquire, CheckFull, CheckRoom,
     Reserve, Copy, Finish, queueVars
<1>3. ~ ToxDo
  BY <1>1 DEF ToxDo, queueVars
<1>4. ~ DequeueOffline
  BY Zenon DEF DequeueOffline, ToxOK
<1>5. /\ Poll => size' = size
      /\ Front => size' = size
      /\ SendSucceeds => size' = size
      /\ SendFails => size' = size
      /\ Status => size' = size
      /\ Broadcast => size' = size
      /\ BroadcastOffline => size' = size
      /\ Unpack => size' = size
      /\ CloseVictim => size' = size
  BY Zenon DEF Poll, Front, SendSucceeds, SendFails, Status, Broadcast,
     BroadcastOffline, Unpack, CloseVictim, queueVars
<1>6. size' # size
  BY <1>1 DEF TypeOK
<1>7. DequeueSent
  BY Zenon, <1>1, <1>2, <1>3, <1>4, <1>5, <1>6 DEF Next, Sending
<1> QED BY <1>7 DEF ToxOK, DequeueSent

\* While the peer is online no message is forgotten that Tox did not accept.
THEOREM NothingDroppedOnline == Spec => NoSilentDrop
<1>1. IInv /\ [Next]_vars =>
        [online /\ size' < size =>
           sent # <<>> /\ sent[Len(sent)] = elements[front]]_vars
  BY ShrinkingStep
<1> QED BY <1>1, Invariance, PTL DEF Spec, NoSilentDrop

-----------------------------------------------------------------------------
(* The ring buffer implements the outbox.                                  *)

\* The contents are a sequence of messages, the front slot its head.
LEMMA ContentsFacts ==
  ASSUME IInv
  PROVE  /\ Filled \in 0..Capacity
         /\ Contents \in Seq(Task)
         /\ Len(Contents) = Filled
         /\ Filled > 0 => Contents # <<>> /\ Head(Contents) = elements[front]
<1> USE DEF IInv
<1>1. Filled \in 0..Capacity
  BY ThreadsAssumption, SizesAssumption DEF TypeOK, RingOK, Filled
<1>2. \A i \in 1..Filled : elements[Slot(i - 1)] \in Task
  BY <1>1, ThreadsAssumption, SizesAssumption DEF LiveOK
<1>3. Contents \in Seq(Task) /\ Len(Contents) = Filled
  BY <1>1, <1>2 DEF Contents
<1>4. Filled > 0 => Contents # <<>> /\ Head(Contents) = elements[front]
  <2>1. Slot(0) = front
    BY ThreadsAssumption, SizesAssumption DEF TypeOK, Slots, Slot
  <2>2. Filled > 0 => Contents[1] = elements[Slot(1 - 1)]
    BY <1>1 DEF Contents
  <2> QED BY <1>3, <2>1, <2>2
<1> QED BY <1>1, <1>3, <1>4

\* The contents depend on the ring alone.
LEMMA SameContents ==
  ASSUME UNCHANGED <<elements, front>>, Filled' = Filled
  PROVE  Contents' = Contents
BY DEF Contents, Slot

\* What a posting thread does before its message is copied, and after, is
\* not seen in the outbox.
LEMMA PostingMapsToStutter ==
  ASSUME IInv, NEW t \in Threads,
         \/ Post(t) \/ Acquire(t) \/ CheckFull(t) \/ CheckRoom(t)
         \/ Reserve(t) \/ Finish(t) \/ SpuriousWakeup(t)
  PROVE  UNCHANGED Box!vars
<1> USE DEF IInv
<1>1. UNCHANGED <<elements, front, sent, online>>
  BY DEF Post, Acquire, CheckFull, CheckRoom, Reserve, Finish,
     SpuriousWakeup, queueVars, toxVars
<1>2. CASE Reserve(t)
  <2>1. Filled' = Filled
    BY <1>2, ThreadsAssumption, SizesAssumption DEF TypeOK, LockOK, PostOK,
       Holding, Filled, Threads, Reserve, Goto
  <2> QED BY <1>1, <2>1, SameContents DEF Box!vars
<1>3. CASE ~ Reserve(t)
  <2>1. Filled' = Filled
    BY <1>3, ThreadsAssumption, SizesAssumption DEF TypeOK, LockOK, Holding,
       Filled, Threads, Post, Acquire, CheckFull, CheckRoom, Finish,
       SpuriousWakeup, Woken, Goto, queueVars
  <2> QED BY <1>1, <2>1, SameContents DEF Box!vars
<1> QED BY <1>2, <1>3

\* Copying the message puts it in the outbox, as the last one.
LEMMA CopyMapsToPut ==
  ASSUME IInv, NEW t \in Threads, Copy(t)
  PROVE  TaskOf(t) \in Task /\ Box!Put(TaskOf(t))
<1> USE DEF IInv
<1>1. /\ lock = t /\ size > 0 /\ rear = Slot(size - 1) /\ rear \in Slots
      /\ TaskOf(t) \in Task
  BY SlotFacts, ThreadsAssumption, SizesAssumption DEF TypeOK, LockOK,
     PostOK, RingOK, Posting, Holding, Copy, TaskOf, Task
<1>2. Filled = size - 1 /\ Filled' = size
  BY <1>1, ThreadsAssumption, SizesAssumption DEF TypeOK, LockOK, Holding,
     Filled, Threads, Copy, Goto
<1>3. \A i \in 0..(size - 2) : Slot(i) \in Slots /\ Slot(i) # rear
  BY <1>1, SlotFacts, ThreadsAssumption, SizesAssumption DEF TypeOK
<1>4. Contents' = Append(Contents, TaskOf(t))
  <2>1. /\ Contents' = [i \in 1..size |-> elements'[Slot(i - 1)]]
        /\ Contents = [i \in 1..(size - 1) |-> elements[Slot(i - 1)]]
    BY <1>2 DEF Contents, Slot, Copy
  <2>2. /\ elements' = [elements EXCEPT ![rear] = TaskOf(t)]
        /\ elements'[rear] = TaskOf(t)
    BY <1>1 DEF Copy, TypeOK
  <2>3. \A i \in 1..(size - 1) : elements'[Slot(i - 1)] = elements[Slot(i - 1)]
    BY <1>3, <2>2, ThreadsAssumption, SizesAssumption DEF TypeOK
  <2>4. \A i \in 1..size :
          Contents'[i] = IF i = size THEN TaskOf(t) ELSE Contents[i]
    BY <1>1, <2>1, <2>2, <2>3, ThreadsAssumption, SizesAssumption DEF TypeOK
  <2>5. Contents \in Seq(Task) /\ Len(Contents) = size - 1
    BY <1>2, ContentsFacts
  <2>6. Contents' \in Seq(Task) /\ Len(Contents') = size
    <3>1. size \in Nat
      BY ThreadsAssumption, SizesAssumption DEF TypeOK
    <3>2. \A i \in 1..(size - 1) : Contents[i] \in Task
      BY <2>5
    <3>3. \A i \in 1..size : Contents'[i] \in Task
      BY <1>1, <2>4, <3>1, <3>2
    <3>4. \A i \in 1..size : elements'[Slot(i - 1)] \in Task
      BY <2>1, <3>3
    <3> QED BY <2>1, <3>1, <3>4
  <2>7. /\ Append(Contents, TaskOf(t)) \in Seq(Task)
        /\ Len(Append(Contents, TaskOf(t))) = size
        /\ \A i \in 1..size : Append(Contents, TaskOf(t))[i] = Contents'[i]
    BY <1>1, <2>4, <2>5, AppendProperties, ThreadsAssumption, SizesAssumption
       DEF TypeOK
  <2> QED BY <2>6, <2>7, SeqEqual
<1> QED
  BY <1>1, <1>2, <1>4, ContentsFacts, ThreadsAssumption, SizesAssumption
     DEF Box!Put, Copy, toxVars, TypeOK

\* Dequeue takes the oldest message out of the outbox, which Tox has or
\* which the peer is not there to get.
LEMMA DequeueMapsToDrop ==
  ASSUME IInv, DequeueSent \/ DequeueOffline PROVE Box!Drop
<1> USE DEF IInv
<1>1. pc[Tox] \in {"deq", "offdeq"} /\ Dequeue /\ UNCHANGED <<sent, online>>
  BY DEF DequeueSent, DequeueOffline, toxVars
<1>2. /\ size > 0 /\ Filled = size /\ lock = None
      /\ elements' = [elements EXCEPT ![front] = Freed]
      /\ size' = size - 1
      /\ \A i \in 0..(size - 1) : Slot(i)' = Slot(i + 1)
      /\ \A i \in 1..(size - 1) : Slot(i) \in Slots /\ Slot(i) # front
  BY <1>1, DequeueFacts
<1>3. Filled' = size - 1
  BY <1>2, ThreadsAssumption, SizesAssumption DEF TypeOK, LockOK, Holding,
     Filled, Threads, DequeueSent, DequeueOffline, Goto
<1>4. Contents' = Tail(Contents)
  <2>1. Contents' = [i \in 1..(size - 1) |-> elements'[Slot(i - 1)']]
    BY <1>3 DEF Contents
  <2>2. \A i \in 1..(size - 1) : elements'[Slot(i - 1)'] = elements[Slot(i)]
    BY <1>2, ThreadsAssumption, SizesAssumption DEF TypeOK
  <2>3. Contents \in Seq(Task) /\ Len(Contents) = size
    BY <1>2, ContentsFacts
  <2>4. \A i \in 1..(size - 1) : Contents[i + 1] = elements[Slot(i)]
    BY <1>2, ThreadsAssumption, SizesAssumption DEF Contents, TypeOK
  <2>5. /\ Tail(Contents) \in Seq(Task)
        /\ Len(Tail(Contents)) = size - 1
        /\ \A i \in 1..(size - 1) : Tail(Contents)[i] = Contents[i + 1]
    BY <1>2, <2>3, HeadTailProperties, ContentsFacts
  <2>6. \A i \in 1..(size - 1) : Contents'[i] = Tail(Contents)[i]
    BY <2>1, <2>2, <2>4, <2>5
  <2>7. Contents' \in Seq(Task) /\ Len(Contents') = size - 1
    <3>1. \A i \in 1..(size - 1) : Contents'[i] \in Task
      BY <2>5, <2>6
    <3> QED BY <1>2, <2>1, <3>1, ThreadsAssumption, SizesAssumption
        DEF TypeOK
  <2> QED BY <2>5, <2>6, <2>7, SeqEqual
<1>5. online => sent # <<>> /\ sent[Len(sent)] = Head(Contents)
  BY <1>2, ContentsFacts DEF DequeueSent, DequeueOffline, ToxOK
<1> QED
  BY <1>1, <1>2, <1>4, <1>5, ContentsFacts DEF Box!Drop, Box!HeadIsSent

\* A message Tox accepts is the oldest one of the outbox.
LEMMA SendMapsToSend ==
  ASSUME IInv, SendSucceeds PROVE Box!Send
<1> USE DEF IInv
<1>1. Filled > 0 /\ mTask = front /\ sent' = Append(sent, elements[mTask])
  BY DEF HeadStaysPut, SendSucceeds
<1>2. UNCHANGED <<elements, front, online>> /\ Filled' = Filled
  BY ThreadsAssumption, SizesAssumption DEF SendSucceeds, queueVars, Filled,
     Goto, TypeOK, Threads
<1>3. online
  BY DEF SendSucceeds
<1> QED BY <1>1, <1>2, <1>3, ContentsFacts, SameContents DEF Box!Send

\* The other steps of the Tox thread are not seen in the outbox.
LEMMA OtherToxStepsMapToStutter ==
  ASSUME IInv,
         \/ Poll \/ Front \/ SendFails \/ Status \/ Broadcast
         \/ BroadcastOffline \/ Unpack \/ CloseVictim
  PROVE  UNCHANGED Box!vars
<1> USE DEF IInv
<1>1. UNCHANGED <<elements, size, front, sent, online>>
  BY Zenon DEF Poll, Front, SendFails, Status, Broadcast, BroadcastOffline,
     Unpack, CloseVictim, queueVars, toxVars
<1>2. \A t \in Threads : pc[t] = "copy" <=> pc'[t] = "copy"
  BY ThreadsAssumption, SizesAssumption DEF TypeOK, Threads, Poll, Front,
     SendFails, Status, Broadcast, BroadcastOffline, Unpack, CloseVictim,
     WakeAll, Woken, Goto
<1>3. Filled' = Filled
  BY <1>1, <1>2 DEF Filled
<1> QED BY <1>1, <1>3, SameContents DEF Box!vars

\* The ring buffer, under all its threads, is the bounded FIFO of Outbox.
THEOREM Implementation == Spec => ImplementsOutbox
<1>1. Init => Box!Init
  BY DEF Init, Box!Init, Contents, Filled
<1>2. IInv /\ [Next]_vars => [Box!Next]_(Box!vars)
  <2> SUFFICES ASSUME IInv, [Next]_vars PROVE [Box!Next]_(Box!vars)
    OBVIOUS
  <2>1. CASE UNCHANGED vars
    BY <2>1 DEF vars, queueVars, toxVars, Box!vars, Contents, Filled, Slot
  <2>2. ASSUME NEW t \in Threads, Post(t) \/ Step(t) \/ SpuriousWakeup(t)
        PROVE  [Box!Next]_(Box!vars)
    BY <2>2, PostingMapsToStutter, CopyMapsToPut DEF Step, Box!Next
  <2>3. CASE ToxDo
    <3>1. Contents' = Contents
      BY <2>3 DEF ToxDo, queueVars, Contents, Filled, Slot
    <3> QED BY <2>3, <3>1 DEF ToxDo, Box!Next, Box!Toggle
  <2>4. CASE Sending
    BY <2>4, DequeueMapsToDrop, SendMapsToSend,
       OtherToxStepsMapToStutter DEF Sending, Box!Next
  <2> QED BY <2>1, <2>2, <2>3, <2>4 DEF Next
<1> QED BY <1>1, <1>2, Invariance, PTL DEF Spec, Box!Spec, ImplementsOutbox

-----------------------------------------------------------------------------
(* The order of the messages.                                              *)

\* Messages of the same thread are in the order it posted them.
Sorted(seq) ==
  \A i, j \in DOMAIN seq :
    i < j /\ seq[i].by = seq[j].by => seq[i].no <= seq[j].no

\* What Tox accepted was posted before what waits, in order, and no thread has
\* posted less than what is there of it.
OrderOK ==
  /\ Sorted(sent) /\ Sorted(Contents)
  /\ \A i \in DOMAIN sent, j \in DOMAIN Contents :
       sent[i].by = Contents[j].by => sent[i].no <= Contents[j].no
  /\ \A i \in DOMAIN sent : sent[i].no <= posted[sent[i].by]
  /\ \A i \in DOMAIN Contents : Contents[i].no <= posted[Contents[i].by]

\* A message goes behind those that are not later ones of its thread.
LEMMA SortedAppend ==
  ASSUME NEW seq \in Seq(Task), NEW m \in Task, Sorted(seq),
         \A i \in DOMAIN seq : seq[i].by = m.by => seq[i].no <= m.no
  PROVE  Sorted(Append(seq, m))
<1>1. /\ DOMAIN seq = 1..Len(seq) /\ Len(seq) \in Nat
      /\ DOMAIN Append(seq, m) = 1..(Len(seq) + 1)
      /\ \A i \in 1..Len(seq) : Append(seq, m)[i] = seq[i]
      /\ Append(seq, m)[Len(seq) + 1] = m
  BY AppendProperties, LenProperties
<1>2. SUFFICES ASSUME NEW i \in 1..(Len(seq) + 1), NEW j \in 1..(Len(seq) + 1),
                      i < j, Append(seq, m)[i].by = Append(seq, m)[j].by
               PROVE  Append(seq, m)[i].no <= Append(seq, m)[j].no
  BY <1>1 DEF Sorted
<1>3. i \in DOMAIN seq /\ Append(seq, m)[i] = seq[i]
  BY <1>1, <1>2
<1>4. CASE j = Len(seq) + 1
  BY <1>1, <1>2, <1>3, <1>4
<1>5. CASE j # Len(seq) + 1
  <2>1. j \in DOMAIN seq /\ Append(seq, m)[j] = seq[j]
    BY <1>1, <1>5
  <2> QED BY <1>2, <1>3, <2>1 DEF Sorted
<1> QED BY <1>4, <1>5

\* The oldest message is gone, or is accepted.
LEMMA SortedTail ==
  ASSUME NEW seq \in Seq(Task), seq # <<>>, Sorted(seq)
  PROVE  /\ Sorted(Tail(seq))
         /\ \A i \in DOMAIN Tail(seq) :
              \E j \in DOMAIN seq : Tail(seq)[i] = seq[j]
         /\ \E i \in DOMAIN seq : Head(seq) = seq[i]
         /\ \A i \in DOMAIN seq :
              Head(seq).by = seq[i].by => Head(seq).no <= seq[i].no
<1>1. /\ DOMAIN seq = 1..Len(seq) /\ Len(seq) \in Nat /\ Len(seq) > 0
      /\ DOMAIN Tail(seq) = 1..(Len(seq) - 1)
      /\ \A i \in DOMAIN Tail(seq) : Tail(seq)[i] = seq[i + 1]
      /\ Head(seq) = seq[1]
  BY HeadTailProperties, LenProperties
<1>2. Sorted(Tail(seq))
  <2> SUFFICES ASSUME NEW i \in DOMAIN Tail(seq), NEW j \in DOMAIN Tail(seq),
                      i < j, Tail(seq)[i].by = Tail(seq)[j].by
               PROVE  Tail(seq)[i].no <= Tail(seq)[j].no
    BY DEF Sorted
  <2>1. i + 1 \in DOMAIN seq /\ j + 1 \in DOMAIN seq /\ i + 1 < j + 1
    BY <1>1
  <2> QED BY <1>1, <2>1 DEF Sorted
<1>3. \A i \in DOMAIN Tail(seq) : \E j \in DOMAIN seq : Tail(seq)[i] = seq[j]
  BY <1>1
<1>4. 1 \in DOMAIN seq
  BY <1>1
<1>5. ASSUME NEW i \in DOMAIN seq, Head(seq).by = seq[i].by
      PROVE  Head(seq).no <= seq[i].no
  <2>1. CASE i = 1
    <3>1. seq[1] \in Task
      BY <1>1, <1>4, ElementOfSeq
    <3>2. seq[1].no \in Nat
      BY <3>1, SizesAssumption DEF Task
    <3> QED BY <1>1, <2>1, <3>2
  <2>2. CASE i # 1
    <3>1. 1 < i
      BY <1>1, <2>2
    <3> QED BY <1>1, <1>4, <1>5, <3>1 DEF Sorted
  <2> QED BY <2>1, <2>2
<1> QED BY <1>1, <1>2, <1>3, <1>4, <1>5

\* The messages in the outbox change by its actions, and the thread that puts
\* one there puts the last that it posted.
LEMMA OutboxStep ==
  ASSUME IInv, [Next]_vars
  PROVE  /\ \/ UNCHANGED <<Contents, sent>>
            \/ Box!Send \/ Box!Drop
            \/ \E t \in Threads : TaskOf(t) \in Task /\ Box!Put(TaskOf(t))
         /\ \A t \in Threads : posted'[t] \in Nat /\ posted[t] <= posted'[t]
         /\ \A t \in Threads :
              posted'[t] # posted[t] => UNCHANGED <<Contents, sent>>
<1>1. CASE UNCHANGED vars
  <2>1. UNCHANGED <<Contents, sent, posted>>
    BY <1>1 DEF vars, queueVars, toxVars, Contents, Filled, Slot
  <2> QED BY <2>1 DEF IInv, TypeOK
<1>2. ASSUME NEW t \in Threads, Post(t)
      PROVE  /\ UNCHANGED <<Contents, sent>>
             /\ \A u \in Threads : posted'[u] \in Nat /\ posted[u] <= posted'[u]
  <2>1. UNCHANGED <<Contents, sent>>
    BY <1>2, PostingMapsToStutter DEF Box!vars
  <2>2. posted' = [posted EXCEPT ![t] = posted[t] + 1]
        /\ \A u \in Threads : posted[u] \in Nat
    BY <1>2, SizesAssumption DEF Post, IInv, TypeOK
  <2>3. posted \in [Threads -> 0..MaxPosts]
    BY DEF IInv, TypeOK
  <2> QED BY <2>1, <2>2, <2>3
<1>3. ASSUME NEW t \in Threads, Step(t) \/ SpuriousWakeup(t)
      PROVE  /\ posted' = posted
             /\ \/ UNCHANGED <<Contents, sent>>
                \/ TaskOf(t) \in Task /\ Box!Put(TaskOf(t))
  <2>1. posted' = posted
    BY <1>3 DEF Step, Acquire, CheckFull, CheckRoom, Reserve, Copy, Finish,
       SpuriousWakeup
  <2>2. CASE Copy(t)
    BY <2>1, <2>2, CopyMapsToPut
  <2>3. CASE ~ Copy(t)
    <3>1. UNCHANGED Box!vars
      BY <1>3, <2>3, PostingMapsToStutter DEF Step
    <3> QED BY <2>1, <3>1 DEF Box!vars
  <2> QED BY <2>2, <2>3
<1>4. CASE ToxDo
  <2>1. UNCHANGED <<Contents, sent, posted>>
    BY <1>4 DEF ToxDo, queueVars, Contents, Filled, Slot
  <2> QED BY <2>1 DEF IInv, TypeOK
<1>5. CASE Sending
  <2>1. posted' = posted
    BY <1>5 DEF Sending, Poll, Front, SendSucceeds, SendFails, Status,
       DequeueSent, DequeueOffline, Broadcast, BroadcastOffline, Unpack,
       CloseVictim
  <2>2. UNCHANGED Box!vars \/ Box!Send \/ Box!Drop
    BY <1>5, DequeueMapsToDrop, SendMapsToSend, OtherToxStepsMapToStutter
       DEF Sending
  <2> QED BY <2>1, <2>2 DEF IInv, TypeOK, Box!vars
<1>6. \A t \in Threads : posted[t] \in Nat
  BY DEF IInv, TypeOK
<1> QED BY <1>1, <1>2, <1>3, <1>4, <1>5, <1>6 DEF Next

\* Every step keeps the messages in order.
LEMMA StepKeepsOrder ==
  ASSUME IInv, OrderOK, [Next]_vars PROVE OrderOK'
<1>1. /\ sent \in Seq(Task) /\ Contents \in Seq(Task)
      /\ \A t \in Threads : posted[t] \in Nat
      /\ \A m \in Task : m.by \in Threads /\ m.no \in Nat
  BY ContentsFacts, SizesAssumption DEF IInv, TypeOK, Task
<1>2. \A t \in Threads : posted'[t] \in Nat /\ posted[t] <= posted'[t]
  BY OutboxStep
<1>3. \A seq \in Seq(Task) : \A i \in DOMAIN seq :
        seq[i].by \in Threads /\ seq[i].no \in Nat
  BY <1>1, ElementOfSeq, LenProperties
<1>4. /\ \A i \in DOMAIN sent : sent[i].no <= posted'[sent[i].by]
      /\ \A i \in DOMAIN Contents : Contents[i].no <= posted'[Contents[i].by]
  BY <1>1, <1>2, <1>3 DEF OrderOK
<1>5. CASE UNCHANGED <<Contents, sent>>
  BY <1>4, <1>5 DEF OrderOK
<1>6. CASE Box!Send
  <2>1. /\ Contents # <<>> /\ Contents' = Contents
        /\ sent' = Append(sent, Head(Contents))
    BY <1>6 DEF Box!Send
  <2>2. PICK k \in DOMAIN Contents : Head(Contents) = Contents[k]
    BY <1>1, <2>1, SortedTail DEF OrderOK
  <2>3. Head(Contents) \in Task
    BY <1>1, <2>2, ElementOfSeq, LenProperties
  <2>4. Sorted(sent')
    BY <1>1, <2>1, <2>2, <2>3, SortedAppend DEF OrderOK
  <2>5. \A i \in DOMAIN sent' :
          \/ i \in DOMAIN sent /\ sent'[i] = sent[i]
          \/ sent'[i] = Head(Contents)
    BY <1>1, <2>1, <2>3, AppendProperties, LenProperties
  <2>6. \A i \in DOMAIN sent', j \in DOMAIN Contents :
          sent'[i].by = Contents[j].by => sent'[i].no <= Contents[j].no
    BY <1>1, <2>1, <2>5, SortedTail DEF OrderOK
  <2>7. \A i \in DOMAIN sent' : sent'[i].no <= posted'[sent'[i].by]
    BY <1>4, <2>2, <2>5
  <2> QED BY <1>4, <2>1, <2>4, <2>6, <2>7 DEF OrderOK
<1>7. CASE Box!Drop
  <2>1. Contents # <<>> /\ Contents' = Tail(Contents) /\ sent' = sent
    BY <1>7 DEF Box!Drop
  <2>2. /\ Sorted(Contents')
        /\ \A i \in DOMAIN Contents' :
             \E j \in DOMAIN Contents : Contents'[i] = Contents[j]
    BY <1>1, <2>1, SortedTail DEF OrderOK
  <2> QED BY <1>4, <2>1, <2>2 DEF OrderOK
<1>8. ASSUME NEW t \in Threads, TaskOf(t) \in Task, Box!Put(TaskOf(t)),
             ~ UNCHANGED <<Contents, sent>>
      PROVE  OrderOK'
  <2> DEFINE m == TaskOf(t)
  <2>1. Contents' = Append(Contents, m) /\ sent' = sent
    BY <1>8 DEF Box!Put
  <2>2. m \in Task /\ m.by = t /\ m.no = posted[t] /\ posted'[t] = posted[t]
    BY <1>8, OutboxStep DEF TaskOf
  <2> HIDE DEF m
  <2>3. \A i \in DOMAIN Contents :
          Contents[i].by = m.by => Contents[i].no <= m.no
    BY <2>2 DEF OrderOK
  <2>4. \A i \in DOMAIN sent : sent[i].by = m.by => sent[i].no <= m.no
    BY <2>2 DEF OrderOK
  <2>5. Sorted(Contents')
    BY <1>1, <2>1, <2>2, <2>3, SortedAppend DEF OrderOK
  <2>6. \A i \in DOMAIN Contents' :
          \/ i \in DOMAIN Contents /\ Contents'[i] = Contents[i]
          \/ Contents'[i] = m
    BY <1>1, <2>1, <2>2, AppendProperties, LenProperties
  <2>7. \A i \in DOMAIN sent, j \in DOMAIN Contents' :
          sent[i].by = Contents'[j].by => sent[i].no <= Contents'[j].no
    BY <2>4, <2>6 DEF OrderOK
  <2>8. m.no <= posted'[m.by]
    BY <1>1, <2>2
  <2>9. \A i \in DOMAIN Contents' : Contents'[i].no <= posted'[Contents'[i].by]
    BY <1>4, <2>6, <2>8
  <2> QED BY <1>4, <2>1, <2>5, <2>7, <2>9 DEF OrderOK
<1> QED BY <1>5, <1>6, <1>7, <1>8, OutboxStep

\* What Tox is given of one thread is in the order in which it was posted,
\* whatever the other threads do and however often Tox repeats a message: the
\* bytes of a TCP connection stay in order.
THEOREM StreamsStayInOrder == Spec => []StreamOrder
<1>1. Init => OrderOK
  BY DEF Init, OrderOK, Sorted, Contents, Filled
<1>2. IInv /\ OrderOK /\ [Next]_vars => OrderOK'
  BY StepKeepsOrder
<1>3. OrderOK => StreamOrder
  BY DEF OrderOK, Sorted, StreamOrder
<1> QED BY <1>1, <1>2, <1>3, Invariance, PTL DEF Spec
=============================================================================
