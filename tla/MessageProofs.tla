--------------------------- MODULE MessageProofs ---------------------------
(***************************************************************************)
(* A message is read as it was meant, whatever it carries.                 *)
(***************************************************************************)
EXTENDS Message, TLAPS

\* A number that two digits hold is the number the two digits say.
LEMMA TwoBytes ==
  ASSUME NEW n \in Nat, n < Byte * Byte
  PROVE  ((n \div Byte) % Byte) * Byte + (n % Byte) = n
<1>1. Byte \in Nat \ {0}
  BY ByteAssumption
<1>2. n \div Byte \in 0..Byte - 1
  BY <1>1, Z3
<1>3. (n \div Byte) % Byte = n \div Byte
  BY <1>1, <1>2, Z3
<1>4. n = (n \div Byte) * Byte + (n % Byte)
  BY <1>1, Z3
<1> QED BY <1>3, <1>4

\* A command is read as the one that was written; NULL as RAW_DATA.
LEMMA CommandOfMark ==
  ASSUME NEW cmd \in Cmds \cup {NoCmd}
  PROVE  Command(Mark(cmd)) = IF cmd = NoCmd THEN "RAW_DATA" ELSE cmd
BY NoCmdAssumption DEF Command, Mark, Cmds

\* Every message whose data has a length of two bytes is read as it was meant:
\* any uuid, any command pack_msg_bin takes and any data.
THEOREM EveryMessageReadAsMeant ==
  ASSUME NEW uuids, NEW Values
  PROVE  ReadAsMeant(uuids, Seq(Values))
<1> SUFFICES ASSUME NEW uuid \in uuids, NEW cmd \in Cmds \cup {NoCmd},
                    NEW data \in Seq(Values), Len(data) < Byte * Byte
             PROVE  Unpack(Pack(uuid, cmd, data)) = Meant(uuid, cmd, data)
  BY DEF ReadAsMeant
<1> DEFINE bin == Pack(uuid, cmd, data)
<1>1. bin.uuid = uuid /\ bin.mark = Mark(cmd) /\ bin.data = data
  BY DEF Pack
<1>2. Length(bin) = Len(data)
  <2>1. Len(data) \in Nat
    OBVIOUS
  <2>2. Length(bin) = ((Len(data) \div Byte) % Byte) * Byte + (Len(data) % Byte)
    BY DEF Length, Pack
  <2> QED BY <2>1, <2>2, TwoBytes
<1>3. [i \in 1..Length(bin) |-> IF i \in DOMAIN bin.data THEN bin.data[i] ELSE 0]
        = data
  <2>1. DOMAIN data = 1..Len(data)
    OBVIOUS
  <2>2. [i \in 1..Len(data) |-> IF i \in DOMAIN data THEN data[i] ELSE 0]
          = [i \in 1..Len(data) |-> data[i]]
    BY <2>1
  <2>3. data = [i \in 1..Len(data) |-> data[i]]
    OBVIOUS
  <2> QED BY <1>1, <1>2, <2>1, <2>2, <2>3
<1>4. Command(bin.mark) = IF cmd = NoCmd THEN "RAW_DATA" ELSE cmd
  BY <1>1, CommandOfMark
<1> QED BY <1>1, <1>2, <1>3, <1>4 DEF Unpack, Meant
=============================================================================
