------------------------------- MODULE EthMac -------------------------------
(***************************************************************************)
(* The Ethernet controller (hw/arm/prusa/stm32f407/stm32f4xx_eth.c) with   *)
(* the two rings of descriptors that it shares with the guest, chained as  *)
(* the comment in stm32f4xx_eth_write_desc says.                           *)
(*                                                                         *)
(* stm32f4xx_eth_send is taken a descriptor at a time: qemu_send_packet    *)
(* may call eth_rx before it returns (the user-mode network answers ARP    *)
(* and DHCP at once).  The guest waits for its write meanwhile.            *)
(*                                                                         *)
(* The guest's half is that of the driver the code is written for: it      *)
(* fills the descriptors it owns in ring order, and builds a ring while    *)
(* the controller does not use it.  What a descriptor holds is kept while  *)
(* somebody may still read it.                                             *)
(***************************************************************************)
EXTENDS Integers, Sequences

CONSTANTS
  TxRing, RxRing, \* number of descriptors of each ring
  FrameMax,       \* sizeof(frame)
  Frames,         \* the frames of the guest: the bytes in its descriptors up to each
  Enables,        \* values the guest writes to DMA_INTR_ENA
  Names           \* bound: as many frames have names of their own

\* Bits of DMA_STATUS
Status == {"TU", "TI", "NIS", "RU", "AIS", "RI"}

ASSUME EthAssumption ==
  /\ TxRing \in Nat \ {0} /\ RxRing \in Nat \ {0}
  /\ FrameMax \in Nat /\ Names \in Nat \ {0} /\ Enables \subseteq SUBSET Status
  /\ \A f \in Frames :
       /\ f \in Seq(Nat) /\ Len(f) \in 1 .. TxRing /\ f[Len(f)] < FrameMax
       /\ \A j, k \in 1 .. Len(f) : j <= k => f[j] <= f[k]

VARIABLES
  mac,    \* registers: status, ena, sr (of DMA_CONTROL), the current descriptors, irq
  txd,    \* transmit descriptors: own, last, bytes
  rxd,    \* receive descriptors: own, frame
  gathered, \* the bytes that stm32f4xx_eth_send has collected
  busy,   \* whether it runs
  guest,  \* the guest's place in each ring, and the name of the next frame
  queued, \* history: the descriptors handed over and not sent, each a part of a frame
  inbox,  \* history: the frames received and not taken
  sent    \* history: what the last packet was, of the frame it was sent for

ethVars == <<mac, txd, rxd, gathered, busy, guest, queued, inbox, sent>>

\* A transmit descriptor that is the guest's, a receive descriptor that is not
Free == [own |-> FALSE, last |-> FALSE, bytes |-> <<>>]
Empty == [own |-> TRUE, frame |-> 0]

\* enet_update_irq
Update(m) == [m EXCEPT !.irq = m.status \cap m.ena # {}]

\* The bytes of a frame up to the n-th, each with the name of the frame and its place
FrameBytes(name, n) == [i \in 1 .. n |-> <<name, i>>]
\* Where the descriptor for a part of a frame starts, and what the guest puts into it
Start(p) == IF p.part = 1 THEN 0 ELSE p.frame[p.part - 1]
Filled(p) ==
  [own |-> TRUE, last |-> p.part = Len(p.frame),
   bytes |-> [i \in 1 .. p.frame[p.part] - Start(p) |-> <<p.name, Start(p) + i>>]]

\* History: how a packet compares with the frame that ends with the part p
Kind(packet, p) ==
  LET size == p.frame[Len(p.frame)]
  IN  CASE packet = FrameBytes(p.name, size) -> "whole"
        [] /\ packet # FrameBytes(p.name, size) /\ Len(p.frame) > 1
           /\ \E n \in 0 .. size : packet = FrameBytes(p.name, n) -> "beginning"
        [] OTHER -> "wrong"

\* The guest fills the next descriptors with a frame.
QueueFrame(f) ==
  LET parts == [k \in 1 .. Len(f) |-> [name |-> guest.name, frame |-> f, part |-> k]]
      place(i) == ((i + TxRing - guest.tx) % TxRing) + 1
  IN  /\ ~busy
      /\ \A k \in 1 .. Len(f) : ~txd[(guest.tx + k - 1) % TxRing].own
      /\ txd' = [i \in DOMAIN txd |->
                   IF place(i) <= Len(f) THEN Filled(parts[place(i)]) ELSE txd[i]]
      /\ guest' = [guest EXCEPT !.tx = (@ + Len(f)) % TxRing, !.name = (@ + 1) % Names]
      /\ queued' = queued \o parts
      /\ UNCHANGED <<mac, rxd, gathered, busy, inbox, sent>>

\* enet_write of DMA_XMT_POLL_DEMAND calls stm32f4xx_eth_send.
PollDemand ==
  /\ ~busy
  /\ busy' = TRUE /\ gathered' = <<>>
  /\ UNCHANGED <<mac, txd, rxd, guest, queued, inbox, sent>>

\* Out of descriptors, or one that does not fit: the loop ends, and the write with
\* the line brought up to date.
SendEnds ==
  /\ busy
  /\ LET d == txd[mac.tx]
     IN  /\ d.own => Len(gathered) + Len(d.bytes) >= FrameMax
         /\ mac' = Update([mac EXCEPT !.status = IF d.own THEN @ ELSE @ \cup {"TU"}])
  /\ busy' = FALSE
  /\ UNCHANGED <<txd, rxd, gathered, guest, queued, inbox, sent>>

\* Faulty form: ptr and frame_size are not set back after a frame.
SendDescriptor_keep ==
  LET d == txd[mac.tx]
      all == gathered \o d.bytes
  IN  /\ busy /\ d.own /\ Len(all) < FrameMax
      /\ gathered' = all
      /\ sent' = IF d.last THEN Kind(SubSeq(all, 1, Len(d.bytes)), Head(queued)) ELSE sent
      /\ queued' = Tail(queued)
      /\ mac' = [mac EXCEPT !.tx = (@ + 1) % TxRing,
                            !.status = IF d.last THEN @ \cup {"TI", "NIS"} ELSE @]
      /\ txd' = [txd EXCEPT ![mac.tx] = Free]
      /\ UNCHANGED <<rxd, busy, guest, inbox>>

\* The loop body: the last descriptor of a frame sends as many bytes of it as that
\* descriptor holds (qemu_send_packet is given len, not frame_size).
SendDescriptor ==
  LET d == txd[mac.tx]
      all == gathered \o d.bytes
  IN  /\ busy /\ d.own /\ Len(all) < FrameMax
      /\ gathered' = IF d.last THEN <<>> ELSE all
      /\ sent' = IF d.last THEN Kind(SubSeq(all, 1, Len(d.bytes)), Head(queued)) ELSE sent
      /\ queued' = Tail(queued)
      /\ mac' = [mac EXCEPT !.tx = (@ + 1) % TxRing,
                            !.status = IF d.last THEN @ \cup {"TI", "NIS"} ELSE @]
      /\ txd' = [txd EXCEPT ![mac.tx] = Free]
      /\ UNCHANGED <<rxd, busy, guest, inbox>>

\* eth_rx of a frame too short to be one
ReceiveShort ==
  /\ mac.sr
  /\ mac' = Update([mac EXCEPT !.status = @ \cup {"RI", "NIS"}])
  /\ UNCHANGED <<txd, rxd, gathered, busy, guest, queued, inbox, sent>>

\* eth_rx: into the current descriptor, or dropped where the guest still owns it.
Receive ==
  /\ mac.sr
  /\ guest' = [guest EXCEPT !.name = (@ + 1) % Names]
  /\ IF rxd[mac.rx].own
     THEN /\ rxd' = [rxd EXCEPT ![mac.rx] = [own |-> FALSE, frame |-> guest.name]]
          /\ inbox' = Append(inbox, guest.name)
          /\ mac' = Update([mac EXCEPT !.rx = (@ + 1) % RxRing, !.status = @ \cup {"RI", "NIS"}])
     ELSE /\ mac' = Update([mac EXCEPT !.status = @ \cup {"RU", "AIS"}])
          /\ UNCHANGED <<rxd, inbox>>
  /\ UNCHANGED <<txd, gathered, busy, queued, sent>>

\* The guest takes the frame at its place in the ring, and gives the descriptor back.
TakeFrame ==
  /\ ~busy /\ ~rxd[guest.rx].own
  /\ rxd' = [rxd EXCEPT ![guest.rx] = Empty]
  /\ guest' = [guest EXCEPT !.rx = (@ + 1) % RxRing]
  /\ inbox' = Tail(inbox)
  /\ UNCHANGED <<mac, txd, gathered, busy, queued, sent>>

\* The guest builds its receive ring, and writes DMA_RCV_BASE_ADDR.
RxInit ==
  /\ ~busy /\ ~mac.sr
  /\ rxd' = [i \in DOMAIN rxd |-> Empty]
  /\ mac' = Update([mac EXCEPT !.rx = 0, !.status = @ \cup {"TU"}])
  /\ guest' = [guest EXCEPT !.rx = 0]
  /\ inbox' = <<>>
  /\ UNCHANGED <<txd, gathered, busy, queued, sent>>

\* The guest builds its transmit ring, and writes DMA_TX_BASE_ADDR.
TxInit ==
  /\ ~busy
  /\ txd' = [i \in DOMAIN txd |-> Free]
  /\ mac' = Update([mac EXCEPT !.tx = 0])
  /\ guest' = [guest EXCEPT !.tx = 0]
  /\ queued' = <<>>
  /\ UNCHANGED <<rxd, gathered, busy, inbox, sent>>

\* enet_write of DMA_STATUS, DMA_INTR_ENA and DMA_CONTROL
WriteRegister(m) ==
  /\ ~busy
  /\ mac' = Update(m)
  /\ UNCHANGED <<txd, rxd, gathered, busy, guest, queued, inbox, sent>>
ClearStatus(bits) == WriteRegister([mac EXCEPT !.status = @ \ bits])
WriteEnable(ena) == WriteRegister([mac EXCEPT !.ena = ena])
WriteControl(sr) == WriteRegister([mac EXCEPT !.sr = sr])

\* The guest has just built both rings.
EthInit ==
  /\ mac = [status |-> {"TU"}, ena |-> {}, sr |-> FALSE, tx |-> 0, rx |-> 0, irq |-> FALSE]
  /\ txd = [i \in 0 .. TxRing - 1 |-> Free]
  /\ rxd = [i \in 0 .. RxRing - 1 |-> Empty]
  /\ gathered = <<>> /\ busy = FALSE
  /\ guest = [tx |-> 0, rx |-> 0, name |-> 0]
  /\ queued = <<>> /\ inbox = <<>>
  /\ sent = "whole"

EthNext ==
  \/ \E f \in Frames : QueueFrame(f)
  \/ PollDemand \/ SendEnds \/ SendDescriptor
  \/ ReceiveShort \/ Receive \/ TakeFrame \/ RxInit \/ TxInit
  \/ \E bits \in {Status, {"NIS", "TI", "RI"}} : ClearStatus(bits)
  \/ \E ena \in Enables : WriteEnable(ena)
  \/ \E sr \in BOOLEAN : WriteControl(sr)

EthSpec == EthInit /\ [][EthNext]_ethVars
(***************************************************************************)
(* Properties.                                                             *)
(***************************************************************************)
\* Each ring is a queue between the guest and the network, though the two have
\* separate places in it and neither is told of the other's.  From the place of
\* stm32f4xx_eth_send on, the transmit ring holds exactly the descriptors handed over
\* and not sent, oldest first, also while frames are received between two of them; a
\* poll never stops inside a frame, and each frame is sent once, whole when it is in
\* one descriptor, else as a beginning of it.  What the guest finds in the receive
\* ring, from its place on, is exactly the frames accepted since it last looked,
\* oldest first, whenever it looks and however full the ring was: none is overwritten.
\* And the line is up exactly while an enabled status bit is.
RingsAreQueues ==
  /\ sent # "wrong"
  /\ Len(queued) <= TxRing /\ Len(inbox) <= RxRing
  /\ \A k \in 1 .. TxRing :
       LET d == txd[(mac.tx + k - 1) % TxRing]
       IN  IF k <= Len(queued) THEN d = Filled(queued[k]) ELSE ~d.own
  /\ ~busy /\ queued # <<>> => Head(queued).part = 1
  /\ \A k \in 1 .. RxRing :
       LET d == rxd[(guest.rx + k - 1) % RxRing]
       IN  IF k <= Len(inbox) THEN ~d.own /\ d.frame = inbox[k] ELSE d.own
  /\ ~busy => mac.irq = (mac.status \cap mac.ena # {})
=============================================================================
