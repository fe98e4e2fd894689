------------------------------- MODULE Tunnel -------------------------------
(***************************************************************************)
(* The life of tunnelled TCP connections in the two programs: side "C" is  *)
(* burstlink (burstlink/server.c), which accepts local connections, side   *)
(* "S" is burstlinkser (burstlinkser/client.c), which connects to the      *)
(* target.  On each side run one Tox thread, which handles the messages of *)
(* the other side, and one reader thread per connection; on side C also    *)
(* the main thread, which accepts.  They share the file descriptors of the *)
(* process and the list of local_socks.c.  Every call of local_socks.c is  *)
(* one step, since it holds msock_lock; what a thread does with the        *)
(* result is another step.                                                 *)
(*                                                                         *)
(* There is one program on each side.  While they are connected messages   *)
(* are handed over once and in order, as Outbox does when no message is    *)
(* dropped or repeated.  The connection of the programs is that of         *)
(* Presence: when it ends, what is on its way is lost, the programs are    *)
(* not told, and what they send before it begins again is dropped.         *)
(***************************************************************************)
EXTENDS Integers, Sequences, FiniteSetsExt, SequencesExt

CONSTANTS Conns,     \* the connections side C accepts, each with its uuid,
                     \* numbered in the order they are accepted
          Fds,       \* bound: file descriptors, 0 is standard input
          Posix,     \* TRUE: any closed descriptor is given out again;
                     \* FALSE: only those that no thread works on
          MaxData,   \* bound: pieces of data the applications write in all
          MaxEnds,   \* bound: how often the connection of the programs ends
          Std,       \* standard input as an open file
          Leaked,    \* a socket that is not connected
          NoFile,    \* a closed descriptor
          NoUuid,    \* the empty uuid
          Fresh      \* the uuid add_local_socks generates on side S

ASSUME ConstantsAssumption ==
                        /\ Conns \subseteq Nat
                        /\ 0 \in Fds
                        /\ Fds \subseteq Nat
                        /\ {MaxData, MaxEnds} \subseteq Nat
                        /\ Posix \in BOOLEAN
                        /\ Conns \cap {Std, Leaked, NoFile, NoUuid, Fresh} = {}
                        /\ Std # Leaked /\ NoFile \notin {Std, Leaked}
                        /\ NoUuid # Fresh

Sides == {"C", "S"}
Peer(s) == IF s = "C" THEN "S" ELSE "C"

VARIABLES files,     \* what each descriptor of a side is
          socks,     \* local_socks_list: records [uuid, sock], newest first
          linked,    \* the programs are connected
          online,    \* the sides that see the other program as online
          ends,      \* how often their connection ended
          net,       \* the messages on their way to a side, oldest first
          held,      \* the messages a side has not given to Tox yet
          lost,      \* the connections that lost a message
          tox,       \* the Tox thread of a side: pc, message and sockfd
          main,      \* the main thread of side C: pc, connection and sockfd
          reader,    \* the reader thread of a connection on a side
          up,        \* the connections made between program and application
          wrote,     \* how much the application at a side has written
          taken,     \* how much of it the program has read
          fin,       \* the connections whose application ended its stream
          out,       \* what the program has written to the application
          shut,      \* the connections shut down by the program
          refused    \* the connections the target refused

sockVars == <<files, socks, shut>>
appVars == <<up, wrote, fin, refused>>
links == <<linked, online, ends>>
mail == <<net, held, lost>>
vars == <<sockVars, appVars, links, mail, tox, main, reader, taken, out>>

Idle == [pc |-> "idle", msg |-> <<>>, sock |-> 0]
NoReader == [pc |-> "none", sock |-> 0, addr |-> FALSE, uuid |-> NoUuid,
             label |-> NoUuid, file |-> NoFile, data |-> <<>>]

Init == /\ files = [s \in Sides |-> [f \in Fds |-> IF f = 0 THEN Std
                                                            ELSE NoFile]]
        /\ socks = [s \in Sides |-> <<>>]
        /\ linked = TRUE /\ online = [s \in Sides |-> TRUE] /\ ends = 0
        /\ net = [s \in Sides |-> <<>>]
        /\ held = [s \in Sides |-> <<>>]
        /\ lost = {}
        /\ tox = [s \in Sides |-> Idle]
        /\ main = [pc |-> "accept", conn |-> NoUuid, sock |-> 0]
        /\ reader = [s \in Sides |-> [k \in Conns |-> NoReader]]
        /\ up = [s \in Sides |-> {}]
        /\ wrote = [s \in Sides |-> [k \in Conns |-> 0]]
        /\ taken = [s \in Sides |-> [k \in Conns |-> 0]]
        /\ fin = [s \in Sides |-> {}]
        /\ out = [s \in Sides |-> [k \in Conns |-> <<>>]]
        /\ shut = [s \in Sides |-> {}]
        /\ refused = {}

-----------------------------------------------------------------------------
(* Descriptors and the list of local_socks.c.                              *)

\* The descriptors that the Tox thread and the readers of a side work on,
\* closed or not; 0 stands for none.
Held(s) == {0, tox[s].sock} \cup
           {reader[s][k].sock : k \in {j \in Conns : reader[s][j].pc # "done"}}

\* socket() and accept() return the lowest free descriptor.
Free(s) == {f \in Fds : files[s][f] = NoFile /\ (Posix \/ f \notin Held(s))}

Open(s, f, file) == files' = [files EXCEPT ![s][f] = file]

WithUuid(s, u) == {i \in DOMAIN socks[s] : socks[s][i].uuid = u}
WithSock(s, f) == {i \in DOMAIN socks[s] : socks[s][i].sock = f}

\* get_local_socks: the descriptor of a connection, 0 for none.
SockOf(s, u) == IF WithUuid(s, u) = {} THEN 0
                ELSE socks[s][Min(WithUuid(s, u))].sock

\* Mutant: the newest record is taken, whatever its descriptor.
UuidNewest(s, f) == IF socks[s] = <<>> THEN NoUuid ELSE socks[s][1].uuid

\* Mutant: the last record of the list is not looked at.
UuidButLast(s, f) == IF WithSock(s, f) \ {Len(socks[s])} = {} THEN NoUuid
                     ELSE socks[s][Min(WithSock(s, f))].uuid

\* get_local_socks_uuid: the connection of a descriptor.
UuidOf(s, f) == IF WithSock(s, f) = {} THEN NoUuid
                ELSE socks[s][Min(WithSock(s, f))].uuid

\* add_local_socks
AddSock(s, u, f) ==
  socks' = [socks EXCEPT ![s] = <<[uuid |-> u, sock |-> f]>> \o @]

\* shutdown(f, 2), of whatever f is.
Shutdown(s, f) == shut' = [shut EXCEPT ![s] = @ \cup ({files[s][f]} \cap Conns)]

\* Mutant: the record stays in the list.
CloseOnly(s, f) ==
  /\ Shutdown(s, f)
  /\ files' = [files EXCEPT ![s][f] = NoFile]
  /\ UNCHANGED socks

\* close_local_socks: f is closed whether or not the list knows it.
CloseSock(s, f) ==
  /\ Shutdown(s, f)
  /\ files' = [files EXCEPT ![s][f] = NoFile]
  /\ socks' = IF WithSock(s, f) = {} THEN socks
              ELSE [socks EXCEPT ![s] = RemoveAt(@, Min(WithSock(s, f)))]

\* Mutant: the newest message overtakes the others.
GiveFirst(s, m) == /\ net' = [net EXCEPT ![Peer(s)] = <<m>> \o @]
                   /\ UNCHANGED lost

\* tox_send_message while the other program is seen as online: what is given
\* to a connection that has ended is lost.
Give(s, m) == IF linked
              THEN /\ net' = [net EXCEPT ![Peer(s)] = Append(@, m)]
                   /\ UNCHANGED lost
              ELSE /\ lost' = lost \cup {m.uuid}
                   /\ UNCHANGED net

\* write_data_remote; when nothing keeps it the message is sent at once.
Post(s, cmd, u, data) ==
  LET m == [cmd |-> cmd, uuid |-> u, data |-> data]
  IN IF online[s] /\ held[s] = <<>>
     THEN Give(s, m) /\ UNCHANGED held
     ELSE held' = [held EXCEPT ![s] = Append(@, m)] /\ UNCHANGED <<net, lost>>

-----------------------------------------------------------------------------
(* The applications.                                                       *)

Written == MapThenSumSet(LAMBDA s :
             MapThenSumSet(LAMBDA k : wrote[s][k], Conns), Sides)

AppWrites(s, k) == /\ k \in up[s] \ (fin[s] \cup shut[s])
                   /\ Written < MaxData
                   /\ wrote' = [wrote EXCEPT ![s][k] = @ + 1]
                   /\ UNCHANGED <<sockVars, up, fin, refused, mail, tox, main,
                                  reader, taken, out, links>>

AppEnds(s, k) == /\ k \in up[s] \ fin[s]
                 /\ fin' = [fin EXCEPT ![s] = @ \cup {k}]
                 /\ UNCHANGED <<sockVars, up, wrote, refused, mail, tox, main,
                                reader, taken, out, links>>

-----------------------------------------------------------------------------
(* The main thread of side C: accept, add the record, look its uuid up     *)
(* again, and ask the other side for a connection to the target.           *)

Accept == /\ main.pc = "accept"
          /\ Conns # up["C"]
          /\ Free("C") # {}
          /\ LET k == Min(Conns \ up["C"])
                 f == Min(Free("C"))
             IN /\ Open("C", f, k)
                /\ up' = [up EXCEPT !["C"] = @ \cup {k}]
                /\ main' = [pc |-> "add", conn |-> k, sock |-> f]
          /\ UNCHANGED <<socks, shut, wrote, fin, refused, mail, tox, reader,
                         taken, out, links>>

AddAccepted == /\ main.pc = "add"
               /\ AddSock("C", main.conn, main.sock)
               /\ main' = [main EXCEPT !.pc = "create"]
               /\ UNCHANGED <<files, shut, appVars, mail, tox, reader,
                              taken, out, links>>

\* create_remote_socket leaves the program when the uuid is empty.
CreateRemote == /\ main.pc = "create"
                /\ LET u == UuidOf("C", main.sock)
                   IN IF u = NoUuid
                      THEN main' = [main EXCEPT !.pc = "exit"] /\ UNCHANGED mail
                      ELSE /\ Post("C", "CREATE_SOCK", u, <<>>)
                           /\ main' = [pc |-> "accept", conn |-> NoUuid,
                                       sock |-> 0]
                /\ UNCHANGED <<sockVars, appVars, tox, reader, taken, out, links>>

-----------------------------------------------------------------------------
(* The reader threads: on_remote_sock_created on side C and                *)
(* on_local_sock_connect on side S.                                        *)

Is(s, k, label) == reader[s][k].pc = label
Now(s, k, r) == reader' = [reader EXCEPT ![s][k] = r]
Goto(s, k, label) == Now(s, k, [reader[s][k] EXCEPT !.pc = label])

\* Side S takes the address of the other program from the record first.
TakeAddr(k) == /\ Is("S", k, "start")
               /\ Now("S", k, [reader["S"][k] EXCEPT
                     !.pc = "uuid",
                     !.addr = WithSock("S", reader["S"][k].sock) # {}])
               /\ UNCHANGED <<sockVars, appVars, mail, tox, main, taken, out, links>>

\* The uuid is looked up by descriptor.  Side S gives up without it.
TakeUuid(s, k) ==
  /\ Is(s, k, IF s = "C" THEN "start" ELSE "uuid")
  /\ LET u == UuidOf(s, reader[s][k].sock)
     IN Now(s, k, [reader[s][k] EXCEPT
                     !.uuid = u,
                     !.pc = IF s = "C" THEN "read"
                            ELSE IF u = NoUuid THEN "done" ELSE "success"])
  /\ UNCHANGED <<sockVars, appVars, mail, tox, main, taken, out, links>>

\* send_create_success; write_data_remote leaves the program when the address
\* is empty.
SendSuccess(k) ==
  /\ Is("S", k, "success")
  /\ IF reader["S"][k].addr
     THEN /\ Post("S", "CREATE_SOCK_SUCCESS", reader["S"][k].uuid, <<>>)
          /\ Goto("S", k, "read")
     ELSE Goto("S", k, "exit") /\ UNCHANGED mail
  /\ UNCHANGED <<sockVars, appVars, tox, main, taken, out, links>>

\* read() finds out what the descriptor is when it is called...
Read(s, k) ==
  /\ Is(s, k, "read")
  /\ LET file == files[s][reader[s][k].sock]
     IN Now(s, k, [reader[s][k] EXCEPT
                     !.file = file,
                     !.pc = IF file \in {NoFile, Leaked} THEN "end"
                            ELSE "blocked"])
  /\ UNCHANGED <<sockVars, appVars, mail, tox, main, taken, out, links>>

\* ... and returns what that connection has, whatever the number is by then.
ReadData(s, k) ==
  /\ Is(s, k, "blocked")
  /\ LET c == reader[s][k].file
     IN /\ c \in Conns
        /\ taken[s][c] < wrote[s][c]
        /\ taken' = [taken EXCEPT ![s][c] = @ + 1]
        /\ Now(s, k, [reader[s][k] EXCEPT !.pc = "got", !.file = NoFile,
                                          !.data = <<c, taken[s][c] + 1>>])
  /\ UNCHANGED <<sockVars, appVars, mail, tox, main, out, links>>

\* What has nothing left to read; standard input may end at any time.
Exhausted(s) ==
  {Std} \cup {c \in fin[s] \cup shut[s] : taken[s][c] = wrote[s][c]}

ReadEnd(s, k) ==
  /\ Is(s, k, "blocked")
  /\ reader[s][k].file \in Exhausted(s)
  /\ Now(s, k, [reader[s][k] EXCEPT !.pc = "end", !.file = NoFile])
  /\ UNCHANGED <<sockVars, appVars, mail, tox, main, taken, out, links>>

\* on_local_data_received looks the uuid up once more.  Without one the data
\* is dropped, and side S shuts the descriptor down.
Label(s, k) ==
  /\ Is(s, k, "got")
  /\ LET r == reader[s][k]
         u == UuidOf(s, r.sock)
     IN IF u = NoUuid
        THEN /\ Now(s, k, [r EXCEPT !.pc = "read", !.data = <<>>])
             /\ IF s = "S" THEN Shutdown(s, r.sock) ELSE UNCHANGED shut
        ELSE /\ Now(s, k, [r EXCEPT !.label = u,
                                    !.pc = IF s = "S" THEN "addr" ELSE "send"])
             /\ UNCHANGED shut
  /\ UNCHANGED <<files, socks, appVars, mail, tox, main, taken, out, links>>

\* Side S looks the address up in a step of its own.
LabelAddr(k) ==
  /\ Is("S", k, "addr")
  /\ LET r == reader["S"][k]
     IN IF WithSock("S", r.sock) = {}
        THEN /\ Now("S", k, [r EXCEPT !.pc = "read", !.data = <<>>,
                                      !.label = NoUuid])
             /\ Shutdown("S", r.sock)
        ELSE Goto("S", k, "send") /\ UNCHANGED shut
  /\ UNCHANGED <<files, socks, appVars, mail, tox, main, taken, out, links>>

SendData(s, k) ==
  /\ Is(s, k, "send")
  /\ Post(s, "RAW_DATA", reader[s][k].label, reader[s][k].data)
  /\ Now(s, k, [reader[s][k] EXCEPT !.pc = "read", !.data = <<>>,
                                    !.label = NoUuid])
  /\ UNCHANGED <<sockVars, appVars, tox, main, taken, out, links>>

\* Mutant: the other side is never told.
LookAway(s, k) ==
  /\ Is(s, k, "end")
  /\ Goto(s, k, "close")
  /\ UNCHANGED <<sockVars, appVars, mail, tox, main, taken, out, links>>

\* After the end of the stream the other side is told, unless the record is
\* gone, and the descriptor is closed.
LookBack(s, k) ==
  /\ Is(s, k, "end")
  /\ Goto(s, k, IF SockOf(s, reader[s][k].uuid) # 0 THEN "tell" ELSE "close")
  /\ UNCHANGED <<sockVars, appVars, mail, tox, main, taken, out, links>>

TellClosed(s, k) ==
  /\ Is(s, k, "tell")
  /\ Post(s, "CLOSE_SOCK", reader[s][k].uuid, <<>>)
  /\ Goto(s, k, "close")
  /\ UNCHANGED <<sockVars, appVars, tox, main, taken, out, links>>

ReaderCloses(s, k) ==
  /\ Is(s, k, "close")
  /\ CloseSock(s, reader[s][k].sock)
  /\ Now(s, k, [NoReader EXCEPT !.pc = "done"])
  /\ UNCHANGED <<appVars, mail, tox, main, taken, out, links>>

ReaderStep(s, k) == \/ TakeUuid(s, k)
                    \/ Read(s, k)
                    \/ ReadData(s, k)
                    \/ ReadEnd(s, k)
                    \/ Label(s, k)
                    \/ SendData(s, k)
                    \/ LookBack(s, k)
                    \/ TellClosed(s, k)
                    \/ ReaderCloses(s, k)

ServerReaderStep(k) == TakeAddr(k) \/ SendSuccess(k) \/ LabelAddr(k)

-----------------------------------------------------------------------------
(* The Tox thread: friend_message takes the oldest message and, by its     *)
(* command, looks the descriptor up first and uses it then.                *)

\* send_data_remote: a message goes out, or is dropped when the other program
\* is seen as offline, and the local socket of its connection is closed.
SendHeld(s) ==
  /\ tox[s].pc = "idle" /\ held[s] # <<>>
  /\ held' = [held EXCEPT ![s] = Tail(@)]
  /\ LET m == Head(held[s])
     IN IF online[s]
        THEN Give(s, m) /\ UNCHANGED tox
        ELSE /\ lost' = lost \cup {m.uuid}
             /\ tox' = [tox EXCEPT ![s] = [pc |-> "close", msg |-> m,
                                           sock |-> SockOf(s, m.uuid)]]
             /\ UNCHANGED net
  /\ UNCHANGED <<sockVars, appVars, main, reader, taken, out, links>>

Arrived(s, cmd) == /\ tox[s].pc = "idle" /\ online[s]
                   /\ net[s] # <<>>
                   /\ Head(net[s]).cmd = cmd
                   /\ net' = [net EXCEPT ![s] = Tail(@)]
                   /\ UNCHANGED <<held, lost>>

ToxNow(s, label, msg, f) ==
  tox' = [tox EXCEPT ![s] = [pc |-> label, msg |-> msg, sock |-> f]]

ToxIdle(s) == tox' = [tox EXCEPT ![s] = Idle]

OnRawData(s) ==
  /\ Arrived(s, "RAW_DATA")
  /\ LET m == Head(net[s])
         f == SockOf(s, m.uuid)
     IN ToxNow(s, IF f # 0 THEN "write" ELSE "deny", m, f)
  /\ UNCHANGED <<sockVars, appVars, main, reader, taken, out, links>>

\* write(): its result is not looked at.
WriteData(s) ==
  /\ tox[s].pc = "write"
  /\ LET c == files[s][tox[s].sock]
     IN out' = IF c \in Conns \ shut[s]
               THEN [out EXCEPT ![s][c] = Append(@, tox[s].msg.data)]
               ELSE out
  /\ ToxIdle(s)
  /\ UNCHANGED <<sockVars, appVars, mail, main, reader, taken, links>>

\* close_remote_socket for a connection that is not in the list.
Deny(s) ==
  /\ tox[s].pc = "deny"
  /\ Post(s, "CLOSE_SOCK", tox[s].msg.uuid, <<>>)
  /\ ToxIdle(s)
  /\ UNCHANGED <<sockVars, appVars, main, reader, taken, out, links>>

OnCloseSock(s) ==
  /\ Arrived(s, "CLOSE_SOCK")
  /\ ToxNow(s, "close", Head(net[s]), SockOf(s, Head(net[s]).uuid))
  /\ UNCHANGED <<sockVars, appVars, main, reader, taken, out, links>>

ToxCloses(s) ==
  /\ tox[s].pc = "close"
  /\ CloseSock(s, tox[s].sock)
  /\ ToxIdle(s)
  /\ UNCHANGED <<appVars, mail, main, reader, taken, out, links>>

\* Side C starts a reader on whatever the lookup gives.
OnCreateSuccess ==
  /\ Arrived("C", "CREATE_SOCK_SUCCESS")
  /\ LET u == Head(net["C"]).uuid
     IN Now("C", u, [NoReader EXCEPT !.pc = "start", !.sock = SockOf("C", u)])
  /\ UNCHANGED <<sockVars, appVars, tox, main, taken, out, links>>

OnCreateSock ==
  /\ Arrived("S", "CREATE_SOCK")
  /\ ToxNow("S", "connect", Head(net["S"]), 0)
  /\ UNCHANGED <<sockVars, appVars, main, reader, taken, out, links>>

\* init_local_sock: socket() and connect(), either of which may fail.
\* Descriptor 0 is taken for a failure, and after a failure to connect the
\* descriptor is never closed.
Connect ==
  /\ tox["S"].pc = "connect"
  /\ LET k == tox["S"].msg.uuid
         f == Min(Free("S"))
     IN \/ /\ Free("S") # {} /\ Open("S", f, k)
           /\ up' = [up EXCEPT !["S"] = @ \cup {k}]
           /\ ToxNow("S", IF f = 0 THEN "deny" ELSE "add", tox["S"].msg, f)
           /\ UNCHANGED refused
        \/ /\ \/ Free("S") # {} /\ Open("S", f, Leaked)
              \/ UNCHANGED files
           /\ refused' = refused \cup {k}
           /\ ToxNow("S", "deny", tox["S"].msg, 0)
           /\ UNCHANGED up
  /\ UNCHANGED <<socks, shut, wrote, fin, mail, main, reader, taken, out, links>>

AddConnected ==
  /\ tox["S"].pc = "add"
  /\ AddSock("S", Fresh, tox["S"].sock)
  /\ ToxNow("S", "set", tox["S"].msg, tox["S"].sock)
  /\ UNCHANGED <<files, shut, appVars, mail, main, reader, taken, out, links>>

\* Mutant: the reader is started and the uuid is not set.
StartOnly ==
  /\ tox["S"].pc = "set"
  /\ Now("S", tox["S"].msg.uuid,
         [NoReader EXCEPT !.pc = "start", !.sock = tox["S"].sock])
  /\ ToxIdle("S")
  /\ UNCHANGED <<sockVars, appVars, mail, main, taken, out, links>>

\* set_local_socks_uuid, and a reader if it finds the record.
SetUuid ==
  /\ tox["S"].pc = "set"
  /\ LET k == tox["S"].msg.uuid
         f == tox["S"].sock
     IN IF WithSock("S", f) = {} THEN UNCHANGED <<socks, reader>>
        ELSE /\ socks' = [socks EXCEPT !["S"][Min(WithSock("S", f))].uuid = k]
             /\ Now("S", k, [NoReader EXCEPT !.pc = "start", !.sock = f])
  /\ ToxIdle("S")
  /\ UNCHANGED <<files, shut, appVars, mail, main, taken, out, links>>

\* friend_message, where the two programs agree and where they differ.
ToxStep(s) == \/ OnRawData(s)
              \/ WriteData(s)
              \/ Deny(s)
              \/ OnCloseSock(s)
              \/ ToxCloses(s)
              \/ SendHeld(s)

ToxStepOfC == OnCreateSuccess
ToxStepOfS == OnCreateSock \/ Connect \/ AddConnected \/ SetUuid

MainStep == Accept \/ AddAccepted \/ CreateRemote

-----------------------------------------------------------------------------
(* The connection of the programs.                                         *)

Core == INSTANCE Presence WITH Peers <- Sides

\* The connections of messages.
Uuids(msgs) == {msgs[i].uuid : i \in DOMAIN msgs}

\* Side s gives the connection up: an end, unless it is the last to notice.
Disconnect(s) ==
  /\ Core!End(s)
  /\ IF linked THEN ends < MaxEnds /\ ends' = ends + 1 ELSE UNCHANGED ends
  /\ lost' = lost \cup UNION {Uuids(net[q]) : q \in Sides}
  /\ net' = [q \in Sides |-> <<>>]
  /\ UNCHANGED <<sockVars, appVars, held, tox, main, reader, taken, out>>

Reconnect == /\ Core!Begin \/ \E s \in Sides : linked /\ Core!ComeOnline(s)
             /\ UNCHANGED <<sockVars, appVars, ends, mail, tox, main, reader,
                            taken, out>>

\* The program of side s has not left with exit(1).
Running(s) == IF s = "C" THEN main.pc # "exit"
                         ELSE \A k \in Conns : ~ Is("S", k, "exit")

Next == \/ Reconnect \/ \E s \in Sides : Disconnect(s)
        \/ Running("C") /\ (MainStep \/ ToxStepOfC)
        \/ Running("S") /\ ToxStepOfS
        \/ Running("S") /\ \E k \in Conns : ServerReaderStep(k)
        \/ \E s \in Sides :
             /\ Running(s)
             /\ \/ ToxStep(s)
                \/ \E k \in Conns : ReaderStep(s, k)
        \/ \E s \in Sides, k \in Conns : AppWrites(s, k) \/ AppEnds(s, k)

Spec == Init /\ [][Next]_vars

\* The threads of both programs run and the programs find each other again;
\* the applications need not do anything.
Fairness == /\ WF_vars(Reconnect)
            /\ \A s \in Sides : WF_vars(~ linked /\ Disconnect(s))
            /\ WF_vars(AddAccepted \/ CreateRemote)
            /\ WF_vars(ToxStep("C") \/ ToxStepOfC)
            /\ WF_vars(ToxStep("S") \/ ToxStepOfS)
            /\ \A k \in Conns : /\ WF_vars(ReaderStep("C", k))
                               /\ WF_vars(ReaderStep("S", k)
                                            \/ ServerReaderStep(k))

FairSpec == Spec /\ Fairness

-----------------------------------------------------------------------------
(* Properties.                                                             *)

\* The connections in the list of a side.
Records(s) == {socks[s][i].uuid : i \in DOMAIN socks[s]}

\* A message, and the piece of a stream that it carries.
Messages == [cmd : {"CREATE_SOCK", "CREATE_SOCK_SUCCESS", "RAW_DATA",
                    "CLOSE_SOCK"},
             uuid : Conns,
             data : {<<>>} \cup Conns \X Nat]

\* What a Tox thread, the main thread and a reader thread may be at.
Tasks == [pc : {"idle", "write", "deny", "close", "connect", "add", "set"},
          msg : {<<>>} \cup Messages, sock : Fds]

Mains == [pc : {"accept", "add", "create", "exit"},
          conn : Conns \cup {NoUuid}, sock : Fds]

Readers == [pc : {"none", "start", "uuid", "success", "read", "blocked", "got",
                  "addr", "send", "end", "tell", "close", "done", "exit"},
            sock : Fds, addr : BOOLEAN,
            uuid : Conns \cup {NoUuid}, label : Conns \cup {NoUuid},
            file : Conns \cup {Std, Leaked, NoFile},
            data : {<<>>} \cup Conns \X Nat]

\* The types of the variables: only descriptors of the program are closed and
\* only uuids of accepted connections are sent.
TypeOK ==
  /\ files \in [Sides -> [Fds -> Conns \cup {Std, Leaked, NoFile}]]
  /\ socks \in [Sides -> Seq([uuid : Conns \cup {Fresh}, sock : Fds])]
  /\ linked \in BOOLEAN /\ online \in [Sides -> BOOLEAN] /\ ends \in 0..MaxEnds
  /\ net \in [Sides -> Seq(Messages)] /\ held \in [Sides -> Seq(Messages)]
  /\ lost \subseteq Conns
  /\ tox \in [Sides -> Tasks]
  /\ \A s \in Sides : tox[s].pc # "idle" => tox[s].msg \in Messages
  /\ main \in Mains
  /\ reader \in [Sides -> [Conns -> Readers]]
  /\ up \in [Sides -> SUBSET Conns]
  /\ wrote \in [Sides -> [Conns -> Nat]] /\ taken \in [Sides -> [Conns -> Nat]]
  /\ fin \in [Sides -> SUBSET Conns]
  /\ out \in [Sides -> [Conns -> Seq(Conns \X Nat)]]
  /\ shut \in [Sides -> SUBSET Conns]
  /\ refused \subseteq Conns

-----------------------------------------------------------------------------
Promise == INSTANCE Link

\* Every connection keeps the promise of Link: nothing is mixed up, lost or
\* repeated, and no stream is cut before the other end had all of it.
KeepsPromise == Promise!Spec

\* What an application is given is what the other end of the same connection
\* wrote, from the first piece on and, unless the connection lost a message,
\* without a hole.
Isolation == \A s \in Sides : \A k \in Conns : \A i \in DOMAIN out[s][k] :
               /\ out[s][k][i][1] = k
               /\ k \in lost \/ out[s][k][i][2] = i

\* A descriptor in the list is open and is that connection.
RecordsMatchFiles ==
  \A s \in Sides : \A i \in DOMAIN socks[s] :
    LET r == socks[s][i]
    IN r.uuid \in Conns => files[s][r.sock] = r.uuid

\* "not found set to 0": 0 is never the descriptor of a record.
ZeroIsNotFound == \A s \in Sides : \A i \in DOMAIN socks[s] :
                    socks[s][i].sock # 0

\* A helper of ListsAgree: nothing is left to do for either program.
Quiet == /\ main.pc = "accept"
         /\ \A s \in Sides :
              /\ net[s] = <<>> /\ held[s] = <<>> /\ tox[s].pc = "idle"
              /\ \A k \in Conns : reader[s][k].pc \in {"none", "blocked", "done"}

\* When nothing is under way the two lists name the same connections: no side
\* keeps a socket that the other side has given up, unless one of the messages
\* of the connection was lost.
ListsAgree == Quiet => Records("C") \ lost = Records("S") \ lost

\* create_remote_socket and write_data_remote never leave the program.
NeverExits == Running("C") /\ Running("S")

\* When one application ends its stream, both sides forget the connection and
\* close it, or one of its messages was lost.
CloseReachesBoth ==
  \A s \in Sides : \A k \in Conns :
    k \in fin[s] ~> \/ k \in lost
                    \/ /\ k \notin Records("C") \cup Records("S")
                       /\ \A q \in Sides : k \in up[q] => k \in shut[q]
=============================================================================
