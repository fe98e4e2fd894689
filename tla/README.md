# BurstLink in TLA+

BurstLink carries TCP connections over the peer-to-peer messenger Tox. On one
machine `burstlink` (`burstlink/burstlink/server.c`) listens on a local port;
on another `burstlinkser` (`burstlink/burstlinkser/client.c`) connects to the
target for it. Every accepted connection gets a uuid, and its bytes travel as
Tox messages labelled with that uuid. Below, paths are relative to `src/`, side
**C** is `burstlink`, side **S** is `burstlinkser`, and files of the Tox core
are those of `burstlink/burstlinkser/toxcore/`, of which `burstlink` has a copy.

This directory holds TLA+ models of that program, the TLC configurations that
check them and proofs that TLAPS checks. `PROJECT.json` maps every definition to
the lines it models.

## 1. The system

| component | state | operations | interacts with |
|---|---|---|---|
| outgoing queue (`queue.c`, `write_data_remote`, `send_data_remote`) | ring of `MAX_MSG_CACHE` slots, `size`, `front`, `rear`; `msg_task_lock`, `msg_task_cond` | createQueue, Enqueue, front, Dequeue | filled by every thread, emptied by the Tox thread |
| list of sockets (`local_socks.c`) | linked list of uuid, descriptor, peer address; `msock_lock` | add, close, look up by uuid or descriptor, set uuid | used by all threads of a program |
| connections of C (`server.c`) | descriptors, one reader thread each | accept, `friend_message`, `on_remote_sock_created`, close | list, queue, applications |
| connections of S (`client.c`) | the same | CREATE_SOCK, `init_local_sock`, `on_local_sock_connect`, close | list, queue, target |
| message format (`utils/utils.c`) | none | `pack_msg_bin`, `unpack_msg_bin` | queue, `friend_message` |
| listeners (`message_listener.c`) | list of awaited messages, each with a flag | is_message_received, trigger, add | handshake, `friend_message` |
| handshake (`connect.c`) | retry counters | `init_connect` (C), `accept_connect` (S) | Tox, listeners |
| start-up and shut-down (`main`, `tox_works`, `intHandler`) | Tox identity and friends in `data.tox` | load_data, store_data | everything |
| Tox core: lossless packets (`net_crypto.c`) | rings of sent and received packets, packet numbers, nonces | write_cryptpacket, request packets, handle_data_packet | friends, network |
| Tox core: connections and friends (`net_crypto.c`, `Messenger.c`, `friend_requests.c`) | one encrypted connection and one status for each friend | cookie request and response, handshake, kill, do_friends | handshake, messages |
| Tox core: DHT, onion, relays, file transfers, group chats | | find and reach a peer | connections |

Threads. Each program has one Tox thread, which alternates between `tox_do`
(whose callbacks handle incoming messages) and `send_data_remote` (which sends
one outgoing message), and one reader thread per connection, blocked in `read`.
On C the main thread accepts. They meet in the queue, in the list of sockets,
and in the table of file descriptors of the process, which nothing protects.

The life of the two programs: both load `data.tox` and wait for the network. C
sends S a friend request until the friend list shows S online, then the text
HANDSHAKE, and waits for S to send it back; both waits end after a limit. S
starts a thread for every request it has not seen, which makes C its friend. C
then accepts on its port, whatever the handshake came to.

The life of a connection: C accepts, adds a record with a fresh uuid and posts
CREATE_SOCK. S connects to the target, adds a record, gives it C's uuid and
starts a reader, which posts CREATE_SOCK_SUCCESS. On that C starts its reader.
Readers post RAW_DATA; the Tox thread of the other side writes it. A reader that
sees the end of its stream posts CLOSE_SOCK, unless its record is gone, and
closes; a Tox thread that gets CLOSE_SOCK, or RAW_DATA for no known connection,
closes or answers with CLOSE_SOCK.

What is hard here:

* the queue is read without its mutex in three places (`server.c:154`, `:382` to
  `:398`, `:393`), and the thread that empties it also posts on it;
* retries: the number of attempts stands for their outcome (`server.c:391`);
* both ends may close at any moment, and each close is two closes;
* the list of sockets is consulted, unlocked, and the answer used later, while
  descriptor numbers are handed out again by the operating system;
* 0 is both "not found" and a descriptor;
* the programs lose each other at any moment, each notices when it likes, and
  what was on its way is gone;
* a friendship is made in several steps by two programs that stop, crash, and
  write a file that may be empty when they do;
* the listener comes after the message it waits for, and its list is published
  before it has a head;
* the Tox core finds out what was received, who is still there and which nonce
  was used from packets that are lost, repeated and overtaken.

What makes each component correct: the queue is a bounded FIFO that loses and
repeats nothing, blocks only when full and never for ever; every connection is
as good as a TCP connection to the target (nothing mixed, lost, repeated, cut);
both sides forget a connection together; the message format gives back what was
packed; a handshake succeeds only when the peer answered, and a friendship has
two sides; nothing is used before it is initialised; lossless packets are given
once and in order; friends come back to each other and agree on it.

## 2. Modules

| module | what it is |
|---|---|
| `Outbox` | what the queue promises: a bounded FIFO, its head handed to Tox, forgotten only after that or while the peer is offline |
| `MsgQueue` | the queue under its threads, cut at every lock, wait, signal and unlocked access |
| `MsgQueueProofs` | the inductive invariant of `MsgQueue` and the theorems |
| `Link` | what BurstLink promises to the two applications of a connection |
| `Tunnel` | both programs while they serve: descriptors, lists, messages, sessions that end, and the applications |
| `TunnelLemmas`, `TunnelSteps`, `TunnelProofs` | the inductive invariants of `Tunnel`, its steps, and the theorems |
| `Message` | the message format |
| `MessageProofs` | what is packed is read back |
| `Handshake` | both programs from start to serving, their friendship, their stops and their data files; uses `Message` and `Presence` |
| `HandshakeProofs` | the inductive invariant of `Handshake` and the theorems |
| `Presence` | what the Tox core promises of two friends |
| `Session` | the connections of `net_crypto.c` and the friend status of `Messenger.c` between two friends |
| `SessionProofs` | the inductive invariant of `Session` and the theorems |
| `Channel` | what a connection promises: every message once and in order |
| `Gaps` | the bytes in which a request packet tells of missing packets |
| `Lossless` | the lossless packets of a connection over a bad network; uses `Gaps` |
| `LosslessProofs` | the inductive invariant of `Lossless` and the theorems; what `Gaps` writes is read back |
| `MCMsgQueue`, `MCTunnel`, `MCHandshake`, `MCSession`, `MCLossless` | small instances for TLC |

How they fit together. `Lossless` implements `Channel`: within one connection
messages arrive once and in order. `Session` implements `Presence` as long as no
packet outlives the connection it was sent for: when both friends see each other
online they have one connection in common, and who is alone online has lost it. `Tunnel` and `Handshake` use a channel with exactly
these two properties: what is sent while the peers are linked arrives in order
unless the link ends first, and what is sent otherwise is lost. `Handshake`
takes the actions of `Presence` for its own, `Tunnel` has the same in
`Disconnect` and `Reconnect`. `Session` assumes two friends that have confirmed
each other, which is what `Handshake` brings about. `MsgQueue` implements
`Outbox`: what enters the channel of `Tunnel` leaves the queue in order.

### MsgQueue

`elements`, `size`, `front`, `rear` are the fields of `Queue`; `lock` is the
owner of `msg_task_lock` (the mutex is recursive, and the nested locks of
Enqueue change nothing). `pc[t]` is where a thread is:

* posting: `Post` (packs a message, wants the mutex), `Acquire`, `CheckFull` /
  `CheckRoom` (the `while` of `server.c:340`), `SpuriousWakeup`, `Reserve` and
  `Copy` (Enqueue, cut where `size` is already raised and the slot still empty,
  because `tox_works` reads `size` without the mutex), `Finish` (broadcast and
  unlock);
* sending, by the Tox thread alone: `Poll`, `Front`, `SendSucceeds` /
  `SendFails` (one attempt each), `Status`, `DequeueSent` + `Broadcast`, or
  `DequeueOffline` + `BroadcastOffline` + `Unpack` + `CloseVictim`;
* `ToxDo` changes the connection status. The Tox thread may also `Post`: that is
  `close_remote_socket` called from a callback.

A buffer after `free` is `Freed`. What `send_data_remote` may find through the
pointer it keeps after Dequeue is the set `Unpacked`: the old message, no
message, or one that a thread has packed into the same memory.

The two programs share this code, so one module stands for both.

### Tunnel

`files[s][f]` says what descriptor `f` of side `s` is; `socks[s]` is the list of
`local_socks.c`, newest first; `net[s]` the messages on their way to `s`,
`held[s]` those posted and not yet handed to Tox; `tox`, `main`, `reader` are
the threads with the local variables that survive a step. `up`, `wrote`,
`taken`, `fin`, `out`, `shut`, `refused` describe the TCP connections as the
applications see them. Each call into `local_socks.c` is one step, because it
holds `msock_lock` throughout; each use of its answer is another. `read` takes
hold of the open file when it is called (`Read`) and returns later (`ReadData`,
`ReadEnd`), whatever the number stands for by then.

`linked` and `online` are those of `Presence`, `ends` counts how often the
programs lost each other. A message that is given to an ended connection, that
is on its way when the connection ends, or that `send_data_remote` finds at the
head of the queue when the friend is offline is lost; the last one also closes
the socket of its connection (`SendHeld`). `lost` has the connections of which a
message was lost: a history variable for the properties.

Where the programs differ the actions do: S looks up address and uuid
separately (`TakeAddr`, `TakeUuid`, `Label`, `LabelAddr`), gives a record its
uuid in a second step (`AddConnected`, `SetUuid`), denies the connection when
there is no socket or the connect fails, which `init_local_sock` tells by
descriptor 0, and never closes a socket whose connect failed (`Connect`).

Abstractions: a piece of data is its connection and its number in the stream;
`write` takes the whole message, to a connection that is not shut down; there is
one program on each side; standard input gives no data but may end. `Posix`
chooses which closed descriptors are given out again, always the lowest first:
`TRUE` is POSIX (every one), `FALSE` all but those in `Held`, which a reader or the
Tox thread has in a local variable and will read, write or close by their
number, and 0. The latter is not how the program runs, but as near to it as the
program is right: a later connection does get the number of an earlier one, and
only the one thing the code has nothing against, a number that changes its
meaning in the hands of a thread, is left out. Putting that back breaks it
(section 3). Under POSIX numbers none of the safety properties of two connections
survives; with three, even "one record per descriptor" and "burstlinkser never
leaves the program" fail, so no run claims them. What main holds between `accept`
and CREATE_SOCK need not be in `Held`: nobody else can close it before
(`MainOK`).

### Message

A message is packed into a record of its uuid, the mark of its command, two
bytes of length and its data (`Pack`), and read back byte by byte (`Unpack`):
what lies behind the data is the zeros the buffer was cleared to. `Byte` is 256.

### Handshake

`stage[p]` is where the main thread is: C goes "offline", "asking", "waiting"
for the friend, "looking" once more at its status, "polling" for the answer,
"serving"; S only "offline" and "serving"; either can be "down". `friend[p]`
and `stored[p]` are the status of the other program in memory and in
`data.tox`; "torn" is a file that `fopen` has emptied and `fwrite` not yet
filled, which `load_data` refuses for good. `request` and `remembered` are the
friend request and the memory of `friend_requests.c` that drops the second one,
`accepting` the thread `accept_connect` runs in, `listener` the list of C:
NULL, published without a head, waiting, received. `polls`, `result` are the
counters of the two loops and what `init_connect` returns.

The Tox thread of S runs before the list of sockets and its lock exist
(`client.c:615`): CREATE_SOCK in that time ends the program
(`FriendMessageAtBurstlinkser`). The same holds for a message to C between the
two steps of `create_msg_listener_list` (`FriendMessageAtBurstlink`). Both are
among the faults, so that properties see what follows.

`accept_connect` is shorter in the model than it reads: it waits for HANDSHAKE
on a copy of a list pointer that is NULL (`client.c:72`), so it always returns
401, and nobody looks at that. The answer to HANDSHAKE comes from
`friend_message`.

### Session

`conn[p]` is the `Crypto_Connection` of a peer: its status, its own session key
and the other one's (numbers that nothing in the system refers to any more when
they are given out again), the DHT key it knows, the packet that is repeated
(`temp_packet`) with its tries, and `killed`. `friend[p]` is the status in
`Messenger.c`. A restart gives a peer a new DHT key (`boot`), so that cookies and
packets of former lives are refused. A cookie is the `boot` of the peer that made
it. One action per kind of packet and status is what `Receive` does; `Disturb`
loses, duplicates or delays a packet.

`stale` is a history variable: the network has put a packet behind packets of
another connection of its sender (`Overtaken`). It takes eight faults until that
shows, but nothing in the code excludes it: a handshake of a connection that has
ended re-keys a peer that has not confirmed its next one yet, a data packet of the
same former connection confirms it, and the other peer comes online with a new
session. Both are online and cannot read each other, until one times out. The
handshake must be younger than its cookie (10 seconds, `net_crypto.c:121`), while
a connection that is given up lasts 4 seconds, so it is rare, not impossible. What
is said of two friends that are both online therefore excepts behaviours in which
`stale` became true; the proof (section 4) brought this to light, since no run
of TLC reaches so many faults.

Time. What is repeated every half second, or given up after the last try or when
nothing was heard for 15 seconds, may be at any moment; but to do so while an
answer is about to come is *hasty* and one of the bounded faults (`Fault(Quiet)`):
a connection that is slow for ever cannot be expected to come up. Between two repetitions of one peer the other one repeats
too (`last`), since both measure the same half second.

### Gaps and Lossless

A request packet says for each missing packet how far it is behind the last one
it told of, in a byte, with 0 for 255 packets none of which is missing. `Tell`
and `Mark` are one turn of the two loops; `Told` and `Heard` are the state of a loop
after each packet of a ring, as recursive functions, and `Encode` and `Decode` what
it leaves behind. `Gap` is 255.

In `Lossless` `send[p]` and `recv[p]` are the two rings, `sentNonce` and
`recvNonce` the nonces, `speed` is `maximum_speed_reached`, `net` the packets on
their way, `got` what the program was given. A message is its ordinal. Packet
numbers are integers modulo `Numbers` and start at `First`, so that they wrap
around in a run; nonces are integers modulo `Nonces` of which a packet carries
the remainder modulo `Window`. Congestion control decides only when packets and
requests are sent, so it is any choice of the moment; a packet that `sendpacket`
does not send has used up a nonce and counts as lost.

## 3. Runs

| run | configuration | result |
|---|---|---|
| `queue` | 2 writers + Tox thread, 3 slots, 2 attempts, 2 posts per writer, 1 by Tox; 233,995 states | holds |
| `queue_liveness` | the same with 2 slots, 1 post per thread, with fairness; 3,163 states | holds |
| `queue_sent_once` | as `queue` | **violated** |
| `queue_victim` | 2 slots | **violated** |
| `queue_self_wait` | 1 slot, with fairness | **violated** |
| `tunnel` | 2 connections, 1 piece of data, a closed number is given out again when no thread works on it; 1,127,756 states | holds |
| `tunnel_one` | 1 connection, 2 pieces of data, POSIX numbers, the programs lose each other once, with fairness; 196,763 states | holds |
| `tunnel_mixed` | 2 connections, POSIX numbers | **violated** |
| `tunnel_zero` | 2 connections, no data, POSIX numbers | **violated** |
| `lossless` | rings of 2, 3 messages one way and 1 back, 4 and 2 packets, 2 in flight, 1 lost, any duplicated and overtaken; 256,286 states | holds |
| `session` | 3 tries, 2 packets in flight, each peer started at most twice, 2 faults, with fairness; 114,173 states | holds |
| `handshake` | 1 look for the friend, 2 for the answer, 2 messages in flight, 3 faults, with fairness; 103,890 states | holds |

`queue` checks the type invariant, that neither the `exit(0)` of Enqueue nor the
NULL dereference after `front` is reached (`NeverAborts`), that the slot
`send_data_remote` points to without the mutex stays the front one and full
(`HeadStaysPut`), that signalling without the mutex loses no wake-up
(`NoLostWakeup`), that each thread's messages reach Tox in order
(`StreamOrder`), that no message is dropped while the peer is online
(`NoSilentDrop`), and that `MsgQueue` implements `Outbox` (`ImplementsOutbox`).
`queue_liveness` adds that a waiting thread resumes (`WritersResume`).

`tunnel` checks that data never crosses from one connection to another
(`Isolation`), that a record names an open descriptor of its own connection
(`RecordsMatchFiles`), that when all is quiet both lists name the same
connections (`ListsAgree`), that neither program leaves through `exit(1)`
(`NeverExits`) and that `Tunnel` implements `Link` (`KeepsPromise`).
`tunnel_one` checks `ListsAgree` and `KeepsPromise` while the programs lose each
other and meet again, and that an end of stream at either end closes both
(`CloseReachesBoth`). All three except a connection of which a message was lost,
and that exception is needed: without it TLC finds a CLOSE_SOCK that is lost, so
that the other side keeps its socket for good (docs.txt:2 asks for the
opposite), and a stream that goes on behind a hole after the programs have met
again. The code has nothing that repairs either.

`lossless` checks that a message that was accepted is always in one of the two
rings until it is given (`NothingLost`), that the rings stay on each other
although the numbers wrap around (`RingsOverlap`), that no legal packet is ever
too far from the known nonce to be decrypted (`NeverDeaf`), that one round trip
without loss has the oldest missing message sent again, whatever was lost before
(`OneRoundHeals`), that the bytes of a request packet are read as they were meant
(`GapsReadBack`; TLC evaluates the same for longer rings, `LongRings`), and that `Lossless` implements `Channel`
(`ImplementsChannel`). `add_data_to_buffer` compares with `>` where the ring has
room for one packet less (`net_crypto.c:459`); `RingsOverlap` is why that does no
harm: the sender never sends the packet that would need the extra slot.

`session` checks that the two places that keep the state of a friend agree
(`MessengerAgrees`), that who is online together has one session
(`OnlineTogether`) and that every step is one of `Presence`
(`ImplementsPresence`), both as long as no packet outlives its connection, and
that in the end the friends are online with each other for good
(`BackTogether`).

`handshake` checks that `CONNECT:OK` is printed only for an answer to this start
of C (`OkMeansAnswered`), that whoever has S for a friend is a friend of S
(`NeverOneSided`), that in the end both programs are online with each other and
serve or are in one of four states that keep them apart (`ServesOrStranded`), and
that C always comes to serve (`AlwaysServes`). Before it starts, TLC evaluates
`ReadAsSent`: a message is read as it was sent, at data lengths around the
boundaries of a byte and at a full buffer. The four states are: a torn `data.tox`; a C that takes S for a
friend and does not ask again when S has crashed and forgotten it; a C that lost
the network just before `tox_add_friend` and serves without a friend; and a
request that reached S while S had no network, which `accept_connect` drops and
`friend_requests.c` remembers, so that every later one is ignored. In the other
direction nothing can be said of `CONNECT:ERROR`: S may have answered after C
stopped looking.

What the violated runs show, and where:

* `queue_sent_once`: success at the fifth attempt leaves `retry_count` at 5,
  which `server.c:391` takes for failure. The message is sent again, and its
  bytes enter the TCP stream twice.
* `queue_victim`: in the offline branch the uuid is unpacked from the slot after
  Dequeue freed it and a woken thread filled it again (`server.c:398` to `:410`):
  a connection is closed that had nothing to do with it.
* `queue_self_wait`: the Tox thread posts from a callback (`server.c:481`,
  `client.c:478`, `:522`) on a full queue that only it empties.
* `tunnel_mixed`: between the lookup and the write of `on_remote_data_received`
  (`server.c:472`, `:477`) the connection is closed by its reader and its number
  given to the next accepted one, which is then sent the data.
* `tunnel_zero`: both ends close at once; each side gets a CLOSE_SOCK for a
  connection it has forgotten, and closes descriptor 0. The next `accept`
  returns 0.

Bounds. Three slots are the fewest with a front, a middle and a rear, so that
wrapping of `front` and of `rear` differ; with five posts both indices wrap. Two
attempts are the fewest with a first and a last one; the code's five only repeat
the middle. Two writers are enough to compete for one free place. In the tunnel
two connections are what it takes to mix two up, and four descriptors what two
connections and a leaked or standard one need; one piece of data is enough for
`Isolation`, two give `tunnel_one` order and cut streams, and one end of the
connection is followed by a second life in which what survived of the first is
met. Random simulation of the `tunnel` properties with three connections and two
pieces of data (sixteen million states) found nothing either. Rings of two with
numbers modulo eight wrap around from the first packet (`First` is 7), three
messages fill a ring and start it again, one byte per request packet makes the
request shorter than the list of gaps, and `Gap = 1` puts both kinds of byte
within reach of `LongRings`, which goes through all rings of up to six packets. A window of four nonces makes the known nonce follow within four
packets. Three tries are a first, a middle and a last; two restarts or two
disturbed packets (or one of each) cover a packet of a former life that meets a
new connection. Three faults let the handshake meet a lost request, a stop and a
lost session in one run. `MaxPosts`, `MaxToxPosts`, `MaxSent`, `MaxData`,
`MaxEnds`, `MaxMsgs`, `MaxNonce`, `MaxFlight`, `MaxLost`, `MaxBoots`, `MaxWire`
and `MaxFaults` only end the behaviours.

Deadlock is checked in `session`, where something always remains to be done. It
is not in `MsgQueue`, where the Tox thread can really wait for ever, in `Tunnel`,
where nothing is left once every connection is closed, in `Handshake`, where a
program with a torn file stays down, and in `Lossless`, which stops when the
packets run out.

Fairness. In `MsgQueue` each thread runs (weak fairness of its steps), a thread
that wants the mutex gets it when it is free again and again (strong fairness of
`Acquire`, `Front` and the two Dequeues: POSIX does not promise it of a mutex,
but scheduling that starves a thread for ever is not what the code has to defend
against), and Tox, tried for ever with the peer online, once accepts a message
before the last attempt, since it empties its own buffers in `tox_do`. Nothing
is assumed about the connection coming back: offline messages are dropped, and
that makes room too. In `Tunnel` the Tox threads, the readers and the main
thread once it has accepted run, the programs find each other again and a side
finds out that the other one is gone (`BackTogether` of `Session`); the
applications need not do anything, and `accept` is not fair. In `Session` the
loops of the Tox thread come back to every connection, packets that are not lost
arrive, and time passes: what repeats or times out does so, strongly fair because
another packet can delay it for a moment again and again. In `Handshake` every
thread runs, the Tox core brings friends together and finds out that one is gone
(again `BackTogether`), and a stopped program is started again.

What the timing assumption of `Session` hides. When half seconds and time-outs
may be hasty for ever, TLC finds livelocks: the last handshake of a dying
connection draws the other peer into a session that is gone, whose time-out
sends the last handshake of the next one; a kill packet that reaches a connection
before it is confirmed marks it (`net_crypto.c:1097`), the mark survives the next
handshake, and `kill_timedout` (`net_crypto.c:2575` to `:2583`) ends the connection
once it is established; and the last cookie request is killed one turn of the
loop after it was sent. In real time each needs its round trips to fit the
timers again and again, and the peers come out of step; bounded, each happens in
the run and is recovered from.

## 4. Proofs

Every theorem holds for all values of the constants that the `ASSUME`s of its
module allow; the bounds of section 3 play no part. Each inductive invariant was
checked by TLC on the instance of the module's run, or a larger one, before it
was proved; of the one of `Lossless`, TLC checked the part that speaks of the state
alone, since the rest quantifies over functions on the natural numbers.

### The queue

`MsgQueueProofs`, for any set of writers, any capacity and any number of attempts:

| theorem | statement |
|---|---|
| `Invariance` | `Spec => []IInv` |
| `TypeCorrect` | `Spec => []TypeOK` |
| `NoAbort` | `Spec => []NeverAborts` |
| `PointerStaysValid` | `Spec => []HeadStaysPut` |
| `NoWakeupIsLost` | `Spec => []NoLostWakeup` |
| `NothingDroppedOnline` | `Spec => NoSilentDrop` |
| `Implementation` | `Spec => ImplementsOutbox` |
| `StreamsStayInOrder` | `Spec => []StreamOrder` |

None of the properties is inductive by itself. `IInv` adds who is in the
critical section (`LockOK`), that a thread about to enqueue has room and keeps it
because only the holder of the mutex adds (`PostOK`), that `rear` is the last of
`size` slots counted from `front` (`RingOK`, the link between three variables
that are never updated together), that every slot that counts is filled
(`LiveOK`), and what the Tox thread knows of its own variables (`ToxOK`). The key
step is `Reserve`: between it and `Copy`, `size` counts a message that is not
there, and the Tox thread has read `size` without the mutex; it cannot take that
message because `front()` waits for the mutex, which the copying thread holds.
There is one lemma per action, `NextKeepsIInv` puts them together. For the
refinement, `Contents` maps the ring to a sequence, `CopyMapsToPut`,
`DequeueMapsToDrop` and `SendMapsToSend` are the steps the outbox sees, and all
others stutter. `StreamsStayInOrder` rests on a second invariant, `OrderOK`: the
messages of a thread that were sent, are in the ring and are in its hand are
numbered without a gap, in this order.

### The tunnel

`TunnelProofs`, for any number of connections, descriptors, pieces of data and
lost sessions:

| theorem | statement |
|---|---|
| `Invariance` | `Spec /\ NoHeldNumber => []IInv` |
| `TypeCorrect` | `Spec /\ NoHeldNumber => []TypeOK` |
| `RecordsAreRight` | `Spec /\ NoHeldNumber => []RecordsMatchFiles` |
| `StaysUp` | `Spec /\ NoHeldNumber => []NeverExits` |
| `StreamsAreIsolated` | `Spec /\ NoHeldNumber => []Isolation` |
| `Implementation` | `Spec /\ NoHeldNumber => KeepsPromise` |
| `ListsStayEqual` | `Spec /\ NoHeldNumber => []ListsAgree` |

`NoHeldNumber` says that no step opens a descriptor which is closed and in
`Held`. It is no assumption on the constants but on the behaviour, and the
theorems hold for either value of `Posix`: every behaviour with POSIX numbers in
which no thread is overtaken in this way is right, however often numbers are
given out again. The hypothesis cannot be dropped, which is what `tunnel_mixed`
(a number in the hands of the Tox thread) and `tunnel_zero` (number 0) show: the
readers, the Tox thread and the number 0 are all that a repair of the programs
would have to see to.

`IInv` says of every descriptor whose it is (`FilesOK`), of every record that it
is the only one of its descriptor (`RecordsOK`), of every thread that holds the
result of a lookup that the descriptor is, or was until it was closed, the one of
its connection (`Mine`, in `MainOK`, `ToxOK`, `ReaderOK`): this is what the
unlocked use of a looked-up number comes down to. Of every connection `Life` says
how far its creation has come (`CreationOK`: nothing but its request is under way
before S has made it, it is asked for and confirmed once), and where its pieces
are (`StreamOK`: between the last one given and the last one sent they lie in the
pipe in order, and without a hole unless messages were lost), and that a side
closes only when the other application has all of it, or is excused (`EndOK`). A
`Pipe` is what a Tox thread is writing, what is on its way and what is held back,
in one sequence. An action touches one connection: the lemmas `StillAlive` and
`Focus` leave the others out, `Posts`, `Handles` and `Shuts` are the three things
an action can do to its own.

`ListsStayEqual` needs a second invariant, `Notices`: whatever one side closes
(`shut`), the other side has closed, or refused, or a CLOSE_SOCK is under way or
about to be handled, or its own reader is about to close. Each close comes from
the application (a reader, which tells the other side unless its record is gone)
or from the other side (a CLOSE_SOCK, which is answered by nothing); `Notices`
is what guarantees that these two meet, also when both happen at once.

### Handshake and sessions

`HandshakeProofs`, for any bounds on messages, faults and looks:

| theorem | statement |
|---|---|
| `Invariance` | `Spec => []IInv` |
| `TypeCorrect` | `Spec => []TypeOK` |
| `OkIsAnswered` | `Spec => []OkMeansAnswered` |
| `FriendshipHasTwoSides` | `Spec => []NeverOneSided` |

`IInv` says that a running program has a readable data file (`FilesOK`), that what C
remembers of S, in memory or in its file, was an S that has C for a friend, unless
S crashed before it wrote C out (`FriendOK`), that an answer is on its way, in the
listener or acted upon only when S has given it since C started (`AnswerOK`: a stop
of C ends the session and what is in it), and how far the loops of `init_connect`
have counted (`LoopsOK`).

`SessionProofs`, for any bounds on packets, tries, restarts and faults:

| theorem | statement |
|---|---|
| `Invariance` | `Spec => []IInv` |
| `TypeCorrect` | `Spec => []TypeOK` |
| `StatusesAgree` | `Spec => []MessengerAgrees` |
| `OnlineIsTogether` | `Spec => []OnlineTogether` |
| `Implementation` | `Spec => ImplementsPresence` |

`TypeCorrect` is not trivial here: it says that a fresh session number always
exists. `IInv` says how the parts of a connection go together (`ConnOK`), that what
a peer sends in its present session comes after all that it sent before
(`InOrder`), and that who has learned the present session of the other peer is not
told of an earlier one any more (`HeardOK`). The exception `stale` (section 2)
came from here: without it `InOrder` is not inductive, and the failing step led to
the behaviour in which both friends are online with different sessions.

### The message format

`MessageProofs` proves `EveryMessageReadAsMeant`: whatever a byte is, any uuid,
any command and any data whose length two bytes hold are read back as they were
packed. It rests on `TwoBytes` (a number below `Byte * Byte` is its two digits)
and `CommandOfMark`, and assumes `ByteAssumption` and `NoCmdAssumption`. The
`handshake` run evaluates the same at the lengths that matter.

### Lossless packets

`LosslessProofs`, for rings, numbers, nonces and thresholds of any size that
`ConstantsAssumption` allows:

| theorem | statement |
|---|---|
| `LosslessInvariant` | `Spec => []IInv` |
| `LosslessTypes` | `Spec => []TypeOK` |
| `LosslessNothingLost` | `Spec => []NothingLost` |
| `LosslessRingsOverlap` | `Spec => []RingsOverlap` |
| `LosslessNeverDeaf` | `Spec => []NeverDeaf` |
| `LosslessGapsReadBack` | `Spec => []GapsReadBack` |
| `LosslessOneRoundHeals` | `Spec => []OneRoundHeals` |
| `LosslessImplementsChannel` | `Spec => ImplementsChannel` |
| `RequestsReadBack` | any ring, any room and any sender that has sent no less: a request packet is read as it was meant |

What is assumed of the constants: the numbers are a multiple of the size of a ring
and the nonces one of the window (in the code powers of two), the numbers do not
wrap around within `(2 * Threshold + 1) * Size` messages, and the nonces never do.
The code has rings of 32768, numbers of 32 bits, a threshold of 21845 and nonces of
24 bytes of which it sends two, so the first product is 43691 * 32768 = 1431666688,
below 2^32, and the window 3 * 21845 + 1 is 65536.

The difficulty is that a packet that comes late tells of numbers that may have been
used again since. `IInv` therefore counts what the program counts modulo `Numbers`
and `Nonces`. For each direction (`Rings`) there are four numbers of messages,
`base <= given <= top <= all`: what the sender knows to be received, what the other
program was given, what its peer has heard of, and what was accepted; the send ring
reaches from `base` to `all`, the receive ring from `given` to `top`, and what is
missing in the one is in the other. For each peer that sends (`History`) there are
two functions of the nonce: how many messages it had accepted, and how many it had
been given, when it used that nonce. Both only grow, by at most 1 and by at most
`Size` a packet. Of each packet on its way `Good` says what it can still tell: its
acknowledgement and its number are those of its nonce, it holds a message of the
`Size` last ones, or bytes that were encoded from a ring of which every packet that
was held is still held or given. `NoncesOK` bounds the distance between the nonce
that is known and the newest one, so a packet that can be decrypted is at most
`2 * Threshold` packets late (`Decrypted`), and its acknowledgement at most
`2 * Threshold * Size` messages behind what was acknowledged: less than it takes to
wrap around (`AckOf`), which is why `BadAck` turns away every old acknowledgement and
no good one: an acknowledgement that is older than that could look like a new one.

That `Decode` reads what `Encode` writes is an induction over the ring. `Told` and
`Heard` are recursive functions, of which the induction needs one step only; that
there is a first step at which something fails is the least element of a set
of numbers, so that no induction scheme with an operator as its parameter is needed.
`OneRoundHeals` then follows: the oldest missing message is the first hole of the
ring, so it is in the list however short the list is.

### Model-checked only

All liveness properties (`WritersResume`, `CloseReachesBoth`, `BackTogether`,
`ServesOrStranded`, `AlwaysServes`), which are out of the prover's reach, as
everything under fairness is; and what the runs that expect a violation
show. Every invariant and every refinement that a passing run checks is proved; those
of `Tunnel` under the hypothesis `NoHeldNumber`, so that where a number is given out
in spite of a thread that works on it (`tunnel_one`) only the run speaks of them.

## 5. Not modelled, and the plan

Not modelled of the two programs: the linked list inside `local_socks.c` and the
read of a record after the unlock in `get_local_socks`, short and blocked writes,
addresses whose first byte is 0, the ready flag of `local_socks.c`, which no
thread uses, calls into the Tox core by two threads at once (only the two
crashes that follow at start-up), the Windows variants, printing and the unused
debug functions.

Not modelled of the Tox core, which is vendored: how a peer is found and reached
(DHT, onion, TCP relays: in `Session` one step that learns the key of the other
peer), cryptography (a packet can be decrypted or not), congestion control (any
choice of the moment to send), lossy packets, more than one path or friend, and
file transfers, group chats, audio and video, which the programs never use. They
are most of the lines of this repository and none of its own logic.

Next, in this order:

1. `LocalSocks`: the linked list under two threads, refining the sequence of
   `Tunnel`.
2. The tunnel under POSIX numbers: what stays true of the connections whose
   numbers were in no thread's hands, with the others as an exception in the
   properties, as `lost` is one for messages, instead of `NoHeldNumber`.
