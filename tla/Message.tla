------------------------------ MODULE Message ------------------------------
(***************************************************************************)
(* The format of the messages the two programs exchange                    *)
(* (utils/utils.c: pack_msg_bin, unpack_msg_bin): the uuid of a connection,*)
(* a mark for the command, the length of the data in two bytes and the     *)
(* data in a buffer of fixed size.                                         *)
(***************************************************************************)
EXTENDS Integers, Sequences

CONSTANTS Byte,     \* how many values a byte has
          NoCmd     \* cmd = NULL: data

ASSUME ByteAssumption == Byte \in Nat \ {0}

Cmds == {"CREATE_SOCK", "CLOSE_SOCK", "CREATE_SOCK_SUCCESS"}

ASSUME NoCmdAssumption == NoCmd \notin Cmds

\* pack_msg_bin exits on any other command.
Mark(cmd) == CASE cmd = NoCmd -> 0
               [] cmd = "CREATE_SOCK" -> 1
               [] cmd = "CLOSE_SOCK" -> 2
               [] cmd = "CREATE_SOCK_SUCCESS" -> 3

Command(mark) == CASE mark = 0 -> "RAW_DATA"
                   [] mark = 1 -> "CREATE_SOCK"
                   [] mark = 2 -> "CLOSE_SOCK"
                   [] mark = 3 -> "CREATE_SOCK_SUCCESS"
                   [] OTHER -> "UNKNOWN_CMD"

\* A byte keeps the last of its values' digits of a number.
Pack(uuid, cmd, data) ==
  [uuid |-> uuid, mark |-> Mark(cmd),
   high |-> (Len(data) \div Byte) % Byte, low |-> Len(data) % Byte,
   data |-> data]

Length(bin) == bin.high * Byte + bin.low

\* pack_msg_bin clears the buffer, so that there are zeros behind the data.
Unpack(bin) ==
  [uuid |-> bin.uuid, cmd |-> Command(bin.mark), length |-> Length(bin),
   data |-> [i \in 1..Length(bin) |->
               IF i \in DOMAIN bin.data THEN bin.data[i] ELSE 0]]

-----------------------------------------------------------------------------
\* What the sender meant.
Meant(uuid, cmd, data) ==
  [uuid |-> uuid, cmd |-> IF cmd = NoCmd THEN "RAW_DATA" ELSE cmd,
   length |-> Len(data), data |-> data]

\* The receiver reads every message as the sender meant it, if two bytes hold
\* the length of its data.
ReadAsMeant(uuids, datas) ==
  \A uuid \in uuids, cmd \in Cmds \cup {NoCmd}, data \in datas :
    Len(data) < Byte * Byte =>
      Unpack(Pack(uuid, cmd, data)) = Meant(uuid, cmd, data)
=============================================================================
