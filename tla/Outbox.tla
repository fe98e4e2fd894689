------------------------------- MODULE Outbox -------------------------------
(***************************************************************************)
(* What the outgoing message queue of BurstLink promises to the threads    *)
(* that post on it, without threads, mutex or ring buffer: a bounded FIFO  *)
(* whose head is handed to Tox, possibly several times, and which forgets  *)
(* a message only after handing it to Tox or because the peer is offline.  *)
(***************************************************************************)
EXTENDS Integers, Sequences

CONSTANTS Task,      \* the messages that can be posted
          Capacity   \* MAX_MSG_CACHE

VARIABLES queue,     \* messages posted and not yet forgotten, oldest first
          sent,      \* messages Tox accepted, in that order
          online     \* Tox reports the peer as connected

vars == <<queue, sent, online>>

Init == /\ queue = <<>>
        /\ sent = <<>>
        /\ online \in BOOLEAN

\* A thread posts a message.
Put(m) == /\ Len(queue) < Capacity
          /\ queue' = Append(queue, m)
          /\ UNCHANGED <<sent, online>>

\* Tox accepts the oldest message.
Send == /\ online
        /\ queue # <<>>
        /\ sent' = Append(sent, Head(queue))
        /\ UNCHANGED <<queue, online>>

\* The oldest message is the last one Tox accepted.
HeadIsSent == sent # <<>> /\ sent[Len(sent)] = Head(queue)

\* The oldest message is forgotten.
Drop == /\ queue # <<>>
        /\ online => HeadIsSent
        /\ queue' = Tail(queue)
        /\ UNCHANGED <<sent, online>>

\* The connection to the peer comes or goes.
Toggle == /\ online' \in BOOLEAN
          /\ UNCHANGED <<queue, sent>>

Next == \/ \E m \in Task : Put(m)
        \/ Send
        \/ Drop
        \/ Toggle

Spec == Init /\ [][Next]_vars
=============================================================================
