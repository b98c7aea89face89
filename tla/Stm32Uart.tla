------------------------------ MODULE Stm32Uart ------------------------------
(***************************************************************************)
(* The USART of the STM32F4 (hw/arm/prusa/stm32f407/stm32_uart.c), built   *)
(* with STM32_UART_NO_BAUD_DELAY and without STM32_UART_ENABLE_OVERRUN.    *)
(*                                                                         *)
(* Every handler runs to completion under QEMU's main-loop lock, so one    *)
(* handler is one action.  The C functions that work on a Stm32Uart are    *)
(* operators on the record `uart'; a register is the set of its bits that  *)
(* are 1.  A received byte is represented by its arrival number, and a     *)
(* written character by the number of the write, so that order, loss and   *)
(* duplication are visible.  TE, which only selects a log message, and the *)
(* baud rate, which nothing reads in this build, are left out.             *)
(***************************************************************************)
EXTENDS Naturals, Integers, Sequences

CONSTANTS
  USART_RCV_BUF_LEN,  \* capacity of rcv_char_buf (256 in the code)
  MaxRx,              \* bound: bytes that arrive in one behaviour
  MaxTx,              \* bound: characters the guest writes in one behaviour
  SRWords,            \* values the guest writes to USART_SR
  CR1Words            \* values the guest writes to USART_CR1

SRBits == {"ORE", "RXNE", "TC", "TXE"}
ClearOnly == {"RXNE", "TC", "LBD"}          \* the mask 0x360; LBD also for CTS
SRValues == SUBSET (SRBits \cup ClearOnly)
CR1Bits == {"UE", "RE", "RXNEIE", "TCIE", "TXEIE"}
CR3Bits == {"DMAR"}

ASSUME UartAssumption == /\ USART_RCV_BUF_LEN \in Nat \ {0}
                         /\ MaxRx \in Nat
                         /\ MaxTx \in Nat
                         /\ SRWords \subseteq SRValues
                         /\ CR1Words \subseteq SUBSET CR1Bits

VARIABLES
  uart,      \* struct Stm32Uart
  accepted,  \* history: number of bytes put into rcv_char_buf so far
  nread,     \* history: number of bytes the guest got out of USART_DR
  wrote,     \* history: number of guest writes to USART_DR
  out        \* history: characters put on the line (byte_out, chardev)

uartVars == <<uart, accepted, nread, wrote, out>>

(***************************************************************************)
(* Functions of the code.                                                  *)
(***************************************************************************)
Enabled(u) == {"UE", "RE"} \subseteq u.CR1

IrqLevel(u) == \/ "TCIE" \in u.CR1 /\ "TC" \in u.SR
               \/ "TXEIE" \in u.CR1 /\ "TXE" \in u.SR
               \/ "RXNEIE" \in u.CR1 /\ ("ORE" \in u.SR \/ "RXNE" \in u.SR)

DmarLevel(u) == IF "RXNE" \in u.SR /\ "DMAR" \in u.CR3 THEN 1 ELSE 0

\* stm32_uart_update_irq.  A DMA request (dmar = 1) is re-raised on each call.
update_irq(u) == [u EXCEPT !.irq = IrqLevel(u), !.dmar = DmarLevel(u)]

\* Faulty form: takes the newest byte of the buffer instead of the oldest.
fill_newest_first(u) ==
  IF u.buf = <<>> \/ (Enabled(u) /\ "RXNE" \in u.SR)
  THEN u
  ELSE LET popped == [u EXCEPT !.buf = SubSeq(u.buf, 1, Len(u.buf) - 1)]
       IN  IF Enabled(u)
           THEN update_irq([popped EXCEPT !.SR = u.SR \cup {"RXNE"},
                                          !.DR = u.buf[Len(u.buf)]])
           ELSE popped

\* Faulty form: overrun left enabled, a full data register is overwritten.
fill_overrunning(u) ==
  IF u.buf = <<>>
  THEN u
  ELSE LET popped == [u EXCEPT !.buf = Tail(u.buf)]
           overrun == "RXNE" \in u.SR
       IN  IF Enabled(u)
           THEN update_irq(
                  [popped EXCEPT
                     !.SR = u.SR \cup {"RXNE"} \cup (IF overrun THEN {"ORE"} ELSE {}),
                     !.sr_read_since_ore_set = IF overrun THEN FALSE ELSE u.sr_read_since_ore_set,
                     !.DR = Head(u.buf)])
           ELSE popped

\* stm32_uart_fill_receive_data_register
fill_receive_data_register(u) ==
  IF u.buf = <<>> \/ (Enabled(u) /\ "RXNE" \in u.SR)
  THEN u
  ELSE LET popped == [u EXCEPT !.buf = Tail(u.buf)]
           overrun == "RXNE" \in u.SR
       IN  IF Enabled(u)
           THEN update_irq(
                  [popped EXCEPT
                     !.SR = u.SR \cup {"RXNE"} \cup (IF overrun THEN {"ORE"} ELSE {}),
                     !.sr_read_since_ore_set = IF overrun THEN FALSE ELSE u.sr_read_since_ore_set,
                     !.DR = Head(u.buf)])
           ELSE popped

\* Faulty form: the data register is not refilled after a read.
DR_read_without_refill(u) ==
  LET ack == [u EXCEPT !.SR = IF u.sr_read_since_ore_set THEN u.SR \ {"ORE"} ELSE u.SR]
  IN  IF "RXNE" \in u.SR
      THEN update_irq([ack EXCEPT !.SR = ack.SR \ {"RXNE"}])
      ELSE update_irq([ack EXCEPT !.DR = 0])

\* Faulty form: the lines are not updated after a read.
DR_read_without_update(u) ==
  LET ack == [u EXCEPT !.SR = IF u.sr_read_since_ore_set THEN u.SR \ {"ORE"} ELSE u.SR]
  IN  IF "RXNE" \in u.SR
      THEN fill_receive_data_register([ack EXCEPT !.SR = ack.SR \ {"RXNE"}])
      ELSE update_irq([ack EXCEPT !.DR = 0])

\* stm32_uart_USART_DR_read, the state it leaves behind
USART_DR_read(u) ==
  LET ack == [u EXCEPT !.SR = IF u.sr_read_since_ore_set THEN u.SR \ {"ORE"} ELSE u.SR]
  IN  IF "RXNE" \in u.SR
      THEN update_irq(fill_receive_data_register([ack EXCEPT !.SR = ack.SR \ {"RXNE"}]))
      ELSE update_irq([ack EXCEPT !.DR = 0])

\* stm32_uart_receive for the byte sequence s
receive(u, s) == fill_receive_data_register([u EXCEPT !.buf = u.buf \o s])

\* What stm32_uart_start_tx(value) puts on the line: tx_complete sends the
\* transmit buffer next when TXE is clear.
sent_by_start_tx(u, value) ==
  IF "TXE" \in u.SR THEN <<value>> ELSE <<value, u.TDR>>

\* stm32_uart_start_tx followed by stm32_uart_tx_complete until TC is set
start_tx(u) == update_irq([u EXCEPT !.SR = u.SR \cup {"TXE", "TC"}])

(***************************************************************************)
(* Initial state: stm32_uart_init, which ends in stm32_uart_reset.         *)
(***************************************************************************)
reset(u) ==
  update_irq([u EXCEPT !.SR = {"TC", "TXE"}, !.CR1 = {}, !.CR3 = {}, !.DR = 0])

UartInit ==
  /\ uart = [SR |-> {"TC", "TXE"}, CR1 |-> {}, CR3 |-> {}, DR |-> 0, TDR |-> 0,
             buf |-> <<>>, irq |-> FALSE, dmar |-> 0,
             sr_read_since_ore_set |-> FALSE]
  /\ accepted = 0
  /\ nread = 0
  /\ wrote = 0
  /\ out = <<>>

(***************************************************************************)
(* Inputs from the character device and from byte sources on the board.    *)
(***************************************************************************)
\* Faulty form: off by one, offers room for a byte beyond the buffer.
can_receive_one_more(u) == USART_RCV_BUF_LEN + 1 - Len(u.buf)

can_receive(u) == USART_RCV_BUF_LEN - Len(u.buf)

\* The character layer hands over k bytes, at most what can_receive offered.
Receive(k) ==
  /\ k \in 1 .. can_receive(uart)
  /\ accepted + k <= MaxRx
  /\ uart' = receive(uart, [i \in 1 .. k |-> accepted + i])
  /\ accepted' = accepted + k
  /\ UNCHANGED <<nread, wrote, out>>

\* stm32_uart_rx_wrapper: a byte on the "uart-byte-in" line; it is dropped
\* (and never counted as accepted) when the buffer is full.
RxWrapper ==
  /\ IF can_receive(uart) > 0
     THEN /\ accepted < MaxRx
          /\ uart' = receive(uart, <<accepted + 1>>)
          /\ accepted' = accepted + 1
     ELSE UNCHANGED <<uart, accepted>>
  /\ UNCHANGED <<nread, wrote, out>>

(***************************************************************************)
(* Register accesses of the guest (stm32_uart_read, stm32_uart_write).     *)
(***************************************************************************)
SRRead ==
  /\ uart' = [uart EXCEPT !.sr_read_since_ore_set = @ \/ "ORE" \in uart.SR]
  /\ UNCHANGED <<accepted, nread, wrote, out>>

DRRead ==
  /\ uart' = USART_DR_read(uart)
  /\ nread' = IF "RXNE" \in uart.SR THEN nread + 1 ELSE nread
  /\ UNCHANGED <<accepted, wrote, out>>

\* A write that tries to set a clear-only bit clears none of them.
SRStored(sr, v) ==
  sr \cap (IF (v \ sr) \cap ClearOnly # {} THEN v \cup ClearOnly ELSE v)

SRWrite(v) ==
  /\ uart' = update_irq([uart EXCEPT !.SR = SRStored(uart.SR, v)])
  /\ UNCHANGED <<accepted, nread, wrote, out>>

DRWrite ==
  /\ wrote < MaxTx
  /\ wrote' = wrote + 1
  /\ \/ /\ "TC" \in uart.SR
        /\ out' = out \o sent_by_start_tx(uart, wrote')
        /\ uart' = update_irq(start_tx(uart))
     \/ /\ "TC" \notin uart.SR
        /\ "TXE" \in uart.SR
        /\ uart' = update_irq([uart EXCEPT !.TDR = wrote', !.SR = @ \ {"TXE"}])
        /\ UNCHANGED out
     \/ /\ uart.SR \cap {"TC", "TXE"} = {}
        /\ uart' = update_irq(uart)
        /\ UNCHANGED out
  /\ UNCHANGED <<accepted, nread>>

\* Faulty form: enable bits change without recomputing the interrupt line.
CR1Write_without_update(v) ==
  /\ uart' = [uart EXCEPT !.CR1 = v]
  /\ UNCHANGED <<accepted, nread, wrote, out>>

\* A byte or halfword write stores the old bits minus the addressed ones;
\* v covers those outcomes too.
CR1Write(v) ==
  /\ uart' = update_irq([uart EXCEPT !.CR1 = v])
  /\ UNCHANGED <<accepted, nread, wrote, out>>

CR3Write(v) ==
  /\ uart' = [uart EXCEPT !.CR3 = v]
  /\ UNCHANGED <<accepted, nread, wrote, out>>

Reset ==
  /\ uart' = reset(uart)
  /\ UNCHANGED <<accepted, nread, wrote, out>>

UartNext ==
  \/ \E k \in 1 .. USART_RCV_BUF_LEN : Receive(k)
  \/ RxWrapper
  \/ SRRead
  \/ DRRead
  \/ \E v \in SRWords : SRWrite(v)
  \/ DRWrite
  \/ \E v \in CR1Words : CR1Write(v)
  \/ \E v \in SUBSET CR3Bits : CR3Write(v)
  \/ Reset

UartSpec == UartInit /\ [][UartNext]_uartVars

(***************************************************************************)
(* Properties.                                                             *)
(***************************************************************************)
UartTypeOK ==
  /\ uart \in [SR : SUBSET SRBits, CR1 : SUBSET CR1Bits, CR3 : SUBSET CR3Bits,
               DR : Nat, TDR : Nat, buf : Seq(Nat), irq : BOOLEAN,
               dmar : {0, 1}, sr_read_since_ore_set : BOOLEAN]
  /\ Len(uart.buf) <= USART_RCV_BUF_LEN
  /\ accepted \in Nat
  /\ nread \in Nat
  /\ wrote \in Nat
  /\ out \in Seq(Nat)

\* The interrupt line always equals the level the enabled flags ask for: no
\* handler that changes a flag or an enable bit forgets stm32_uart_update_irq.
IrqFollowsFlags == uart.irq = IrqLevel(uart)

\* rcv_char_buf holds exactly the most recent bytes accepted, in arrival order
\* without gap or duplicate, and the data register an older one: the refill on
\* a read, the memmove and the append never reorder or repeat a byte.  (A byte
\* dropped while the receiver is off may leave a gap after the data register.)
PendingInOrder ==
  /\ "RXNE" \in uart.SR => uart.DR \in 1 .. accepted - Len(uart.buf)
  /\ \A i \in DOMAIN uart.buf : uart.buf[i] = (accepted - Len(uart.buf)) + i

\* With overrun compiled out the byte in the data register is never
\* overwritten ("don't overwrite the current byte in the RDR"), so ORE stays 0.
NoOverrun == "ORE" \notin uart.SR

Pending(u) == Len(u.buf) + (IF "RXNE" \in u.SR THEN 1 ELSE 0)

\* Bytes accepted that the guest can no longer get.
Lost == (accepted - nread) - Pending(uart)

\* (Below, SRWrite(uart'.SR) is "some write to SR": what a write leaves in SR is a
\* value that, written, has the same effect.)
\* An accepted byte only disappears while the receiver is off, by a write to
\* SR that clears RXNE, or by a reset: with the receiver on, arrivals and reads
\* of SR and DR lose nothing.
LossNeedsGuestAction ==
  [][Lost' # Lost => \/ ~Enabled(uart)
                     \/ SRWrite(uart'.SR)
                     \/ Reset]_uartVars

Stalled(u) == Enabled(u) /\ u.buf # <<>> /\ "RXNE" \notin u.SR

TransmitterReady(u) == {"TC", "TXE"} \subseteq u.SR

\* Neither direction stalls by itself.  Bytes wait in rcv_char_buf behind an empty
\* data register only after the guest reconfigured the USART, and an arrival ends
\* such a stall.  While TC and TXE are set a written character is on the line when
\* the write returns, and only a guest that clears one of the two through SR stops
\* this: with TC clear a character is parked and never sent.
StallNeedsReconfiguration ==
  [][/\ Stalled(uart') => /\ accepted' = accepted
                          /\ \/ Stalled(uart)
                             \/ SRWrite(uart'.SR)
                             \/ CR1Write(uart'.CR1)
     /\ TransmitterReady(uart) =>
          /\ wrote' # wrote => out' = Append(out, wrote')
          /\ TransmitterReady(uart') \/ SRWrite(uart'.SR)]_uartVars

\* The DMA request line equals RXNE /\ DMAR until a write to CR3, the one handler
\* that changes one of the two without stm32_uart_update_irq: a DMAR set while a
\* byte waits raises no request, and no other order of accesses and arrivals
\* brings the line and the flags apart.
RequestLagsOnlyByCR3 ==
  uart.dmar = DmarLevel(uart) /\ uart'.dmar # DmarLevel(uart') => CR3Write(uart'.CR3)

\* Both lines of the USART follow its flags: the interrupt line after every step,
\* and the DMA request line but for a DMAR written while a byte waits.
LinesFollowFlags == [][IrqFollowsFlags' /\ RequestLagsOnlyByCR3]_uartVars
=============================================================================
