---------------------------- MODULE Tmc2209Serial ----------------------------
(***************************************************************************)
(* The serial half of the TMC2209 drivers (hw/arm/prusa/parts/tmc2209.c):  *)
(* all drivers of the board hear every byte that USART2 sends (the split   *)
(* line of prusa-mini.c), each keeps its own receive buffer, and the one   *)
(* whose address is in the datagram stores or returns a register.          *)
(*                                                                         *)
(* The receive buffer is the sequence of bytes since the last datagram     *)
(* ended: rx_pos is its length, and older bytes of rx_buffer are never     *)
(* looked at.  A register is its four bytes, most significant first; the   *)
(* last byte of register IFCNT counts the writes.                          *)
(***************************************************************************)
EXTENDS Naturals, Sequences

CONSTANTS
  Drivers,    \* the addresses of the drivers
  WriteBit,   \* 0x80 in the code: the bit of byte 2 that marks a write
  IFCNT,      \* number of the counter of writes (2 in the code)
  Used,       \* the registers the guest accesses
  Data        \* the data bytes it writes

Bytes == 0 .. 2 * WriteBit - 1
Registers == 0 .. WriteBit - 1

ASSUME SerialAssumption == /\ WriteBit \in Nat \ {0}
                           /\ Drivers \subseteq Bytes
                           /\ IFCNT \in Registers
                           /\ Used \subseteq Registers
                           /\ Data \subseteq Bytes

VARIABLES
  driver,    \* the drivers
  reply,     \* what the drivers put on the line in answer to the last byte
  frame,     \* the datagram the guest is sending: bytes still to go
  expected,  \* history: the registers as the datagrams sent leave them, kept
             \* until broken
  broken     \* history: the guest was reset in the middle of a datagram

serialVars == <<driver, reply, frame, expected, broken>>

NoData == <<0, 0, 0, 0>>
PowerOnRegs == [r \in Registers |-> NoData]
AllPowerOn == [a \in Drivers |-> PowerOnRegs]

IsWrite(b) == b >= WriteBit

(***************************************************************************)
(* Functions of the code.                                                  *)
(***************************************************************************)
\* The registers after data are stored in r.  IFCNT itself can be written, and
\* is counted up afterwards.
Store(f, r, data) ==
  LET g == [f EXCEPT ![r] = data]
  IN  [g EXCEPT ![IFCNT][4] = (@ + 1) % (2 * WriteBit)]

\* tmc2209_write
write(d, rx) == [d EXCEPT !.file = Store(@, rx[3] - WriteBit, SubSeq(rx, 4, 7))]

\* tmc2209_read: the register number and its value, ahead of the checksum.
Answer(d, r) == <<r, d.file[r]>>

Completes(rx) == \/ Len(rx) = 8 /\ IsWrite(rx[3])
                 \/ Len(rx) = 4 /\ ~IsWrite(rx[3])

\* Faulty form: every driver stores the data.
receive_any_address(d, a, b) ==
  LET rx == Append(d.rx, b)
  IN  IF Completes(rx)
      THEN [(IF IsWrite(rx[3]) THEN write(d, rx) ELSE d) EXCEPT !.rx = <<>>]
      ELSE [d EXCEPT !.rx = rx]

\* Faulty form: only an addressed driver empties its buffer.
receive_keeps_foreign(d, a, b) ==
  LET rx == Append(d.rx, b)
  IN  IF Completes(rx) /\ rx[2] = a
      THEN [(IF IsWrite(rx[3]) THEN write(d, rx) ELSE d) EXCEPT !.rx = <<>>]
      ELSE [d EXCEPT !.rx = rx]

\* tmc2209_receive by the driver with address a: the state it leaves behind
receive(d, a, b) ==
  LET rx == Append(d.rx, b)
  IN  IF Completes(rx)
      THEN [(IF IsWrite(rx[3]) /\ rx[2] = a THEN write(d, rx) ELSE d) EXCEPT !.rx = <<>>]
      ELSE [d EXCEPT !.rx = rx]

\* Faulty form: the address is not compared.
Replies_any_address(d, a, b) ==
  LET rx == Append(d.rx, b) IN Completes(rx) /\ ~IsWrite(rx[3])

\* Whether this byte makes the driver answer
Replies(d, a, b) ==
  LET rx == Append(d.rx, b) IN Completes(rx) /\ ~IsWrite(rx[3]) /\ rx[2] = a

(***************************************************************************)
(* Actions.                                                                *)
(***************************************************************************)
SerialInit ==
  /\ driver = [a \in Drivers |-> [rx |-> <<>>, file |-> PowerOnRegs]]
  /\ reply = {}
  /\ frame = <<>>
  /\ expected = AllPowerOn
  /\ broken = FALSE

\* The drivers hear byte b, one after the other.
Hear(b) ==
  /\ driver' = [a \in Drivers |-> receive(driver[a], a, b)]
  /\ reply' = {<<a, Answer(driver[a], Append(driver[a].rx, b)[3])>> :
                 a \in {c \in Drivers : Replies(driver[c], c, b)}}

\* The guest begins a read request or a write request; the sync byte and the
\* checksum, which the drivers do not look at, are sent as 0.
BeginRead(a, r) ==
  /\ frame = <<>>
  /\ frame' = <<0, a, r, 0>>
  /\ UNCHANGED <<driver, reply, expected, broken>>

BeginWrite(a, r, v) ==
  /\ frame = <<>>
  /\ frame' = <<0, a, WriteBit + r, v, v, v, v, 0>>
  /\ expected' = IF broken THEN expected
                 ELSE [expected EXCEPT ![a] = Store(@, r, <<v, v, v, v>>)]
  /\ UNCHANGED <<driver, reply, broken>>

Send ==
  /\ frame # <<>>
  /\ Hear(Head(frame))
  /\ frame' = Tail(frame)
  /\ UNCHANGED <<expected, broken>>

\* A reset of the machine: the firmware starts afresh, the drivers have no
\* reset handler and keep a partial datagram.  Bound: one reset within a
\* datagram in a behaviour.
Restart ==
  /\ frame' = <<>>
  /\ \/ frame = <<>> /\ UNCHANGED <<expected, broken>>
     \/ frame # <<>> /\ ~broken /\ broken' = TRUE /\ expected' = AllPowerOn
  /\ UNCHANGED <<driver, reply>>

SerialNext ==
  \/ \E a \in Drivers, r \in Used : BeginRead(a, r)
  \/ \E a \in Drivers, r \in Used, v \in Data : BeginWrite(a, r, v)
  \/ Send
  \/ Restart

SerialSpec == SerialInit /\ [][SerialNext]_serialVars

(***************************************************************************)
(* Properties.                                                             *)
(***************************************************************************)
FileType == [Registers -> [1 .. 4 -> Bytes]]

SerialTypeOK ==
  /\ driver \in [Drivers -> [rx : Seq(Bytes), file : FileType]]
  /\ frame \in Seq(Bytes)
  /\ expected \in [Drivers -> FileType]
  /\ broken \in BOOLEAN

\* rx_pos stays inside rx_buffer whatever bytes arrive: a request of either
\* length ends before byte 8 would be stored, because the write bit in byte 2
\* cannot change in between.
RxPosInBuffer == \A a \in Drivers : Len(driver[a].rx) < 8

\* The drivers agree on where a datagram begins and ends, also after a partial
\* one, although each parses the line on its own.
Lockstep == \A a, c \in Drivers : driver[a].rx = driver[c].rx

\* At most one driver answers a byte, so that the eight bytes of an answer
\* reach the USART without another's between them.
OneAnswer == \A r, s \in reply : r = s

\* The shared line stays usable: both of the above, of which the second needs the
\* first (tmc2209_serial answers a datagram where its own parser sees the end).
LineInStep == Lockstep /\ OneAnswer

\* As long as the guest was not reset within a datagram, the end of each
\* datagram finds the registers and write counters as the datagrams sent so far
\* define them: in the addressed driver alone, all four bytes, counted once.
DatagramsTakeEffect ==
  ~broken /\ frame = <<>> => \A a \in Drivers : /\ driver[a].rx = <<>>
                                                /\ driver[a].file = expected[a]
=============================================================================
