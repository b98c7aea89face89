------------------------------- MODULE F2xxDma -------------------------------
(***************************************************************************)
(* One half (four streams) of the DMA controller                           *)
(* hw/arm/prusa/stm32f407/stm32f2xx_dma.c.                                 *)
(*                                                                         *)
(* A stream's SxCR is the set of its control bits with the direction and   *)
(* the memory size; an address is the offset from the SxM0AR in force when *)
(* the stream was started.  The peripheral side of a transfer (SxPAR) is   *)
(* the number of the USART whose data register it names (1, 2 and 6 are    *)
(* known to set_DMAR_map), or 0 for another address.  SxNDTR and           *)
(* active_transfer.ndtr (xndtr here) are counters modulo NdtrMod.          *)
(* The receive timer of a stream is never armed by this code and is left   *)
(* out, as are SxM1AR and SxFCR, which are only stored.                    *)
(***************************************************************************)
EXTENDS Naturals, Integers, FiniteSets

CONSTANTS
  Streams,   \* the streams in use, numbered as in the half controller
  Usarts,    \* USARTs whose DMA requests are wired to the controller
  CRWords,   \* the values the guest writes to SxCR
  NdtrMod,   \* 2^16 in the code: SxNDTR is 16 bits wide
  AddrMod    \* 2^32 in the code: addresses are 32 bits wide

DmaBits == {"EN", "HTIE", "TCIE", "CIRC", "MINC"}
AllCRWords == [bits : SUBSET DmaBits, dir : 0 .. 3, msize : {0, 1, 2, 4}]

ASSUME DmaAssumption == /\ Streams \subseteq 0 .. 3
                        /\ Usarts \subseteq Nat \ {0}
                        /\ CRWords \subseteq AllCRWords
                        /\ NdtrMod \in Nat \ {0, 1}
                        /\ AddrMod \in Nat
                        /\ AddrMod >= 4 * NdtrMod

VARIABLES
  stream,   \* f2xx_dma.stream
  armed     \* history: the streams enabled by a start that set up a
            \* peripheral-to-memory transfer, and enabled ever since

dmaVars == <<stream, armed>>

NoUsart == 0   \* usart_dmar when no USART is routed to the stream (-1)

Idle == [cr |-> [bits |-> {}, dir |-> 0, msize |-> 1], ndtr |-> 0, par |-> 0,
         isr |-> {}, irq |-> FALSE, usart_dmar |-> NoUsart,
         dest |-> 0, destinc |-> 0, xndtr |-> 0]

(***************************************************************************)
(* Functions of the code on one stream s.                                  *)
(***************************************************************************)
On(s, b) == b \in s.cr.bits

\* set_DMAR_map
set_DMAR_map(s) ==
  [s EXCEPT !.usart_dmar = IF s.par \in Usarts THEN s.par ELSE NoUsart]

\* Raise a flag, and the interrupt line if its enable bit is set.
Flag(s, flag, enable) ==
  [s EXCEPT !.isr = @ \cup {flag}, !.irq = IF On(s, enable) THEN TRUE ELSE @]

Disable(s) == [s EXCEPT !.cr.bits = @ \ {"EN"}]

\* f2xx_dma_stream_start.  Memory-to-peripheral and memory-to-memory transfers
\* are done on the spot; the loop "while (s->ndtr--)" leaves -1 in the counter.
stream_start(s) ==
  LET x == IF s.cr.dir = 3
           THEN [s EXCEPT !.dest = 0, !.destinc = 0, !.xndtr = 0]
           ELSE [s EXCEPT !.dest = 0,
                          !.destinc = IF s.cr.dir # 1 /\ On(s, "MINC") THEN s.cr.msize ELSE 0,
                          !.xndtr = s.ndtr]
  IN  IF s.cr.msize = 0 THEN s
      ELSE IF s.cr.dir = 0 THEN set_DMAR_map(x)
      ELSE Flag(Disable([x EXCEPT !.dest = s.ndtr * x.destinc, !.ndtr = NdtrMod - 1]),
                "TCIF", "TCIE")

\* Faulty form: circular mode reloads the counter but not the pointer.
dmar_transfer_no_rewind(s) ==
  LET moved == [s EXCEPT !.ndtr = (@ + NdtrMod - 1) % NdtrMod, !.dest = (@ + s.destinc) % AddrMod]
      kept  == IF On(s, "CIRC") THEN moved ELSE Disable(moved)
      full  == IF kept.ndtr = 0 THEN Flag(kept, "TCIF", "TCIE") ELSE kept
  IN  IF On(full, "CIRC") /\ full.ndtr = 0 THEN [full EXCEPT !.ndtr = full.xndtr] ELSE full

\* Faulty form: the counter is reloaded before the end of the buffer is tested.
dmar_transfer_reload_first(s) ==
  LET moved == [s EXCEPT !.ndtr = (@ + NdtrMod - 1) % NdtrMod, !.dest = (@ + s.destinc) % AddrMod]
      kept  == IF On(s, "CIRC") THEN moved ELSE Disable(moved)
      again == IF On(kept, "CIRC") /\ kept.ndtr = 0
               THEN [kept EXCEPT !.dest = (@ - kept.xndtr * kept.destinc) % AddrMod,
                                 !.ndtr = kept.xndtr]
               ELSE kept
  IN  IF again.ndtr = 0 THEN Flag(again, "TCIF", "TCIE") ELSE again

\* stm32f2xx_dma_dmar_transfer: its effect on the stream, once the unit has
\* been written to memory at s.dest.
dmar_transfer(s) ==
  LET moved == [s EXCEPT !.ndtr = (@ + NdtrMod - 1) % NdtrMod, !.dest = (@ + s.destinc) % AddrMod]
      kept  == IF On(s, "CIRC") THEN moved ELSE Disable(moved)
      half  == IF kept.ndtr = kept.xndtr \div 2 THEN Flag(kept, "HTIF", "HTIE") ELSE kept
      full  == IF half.ndtr = 0 THEN Flag(half, "TCIF", "TCIE") ELSE half
  IN  IF On(full, "CIRC") /\ full.ndtr = 0
      THEN [full EXCEPT !.dest = (@ - full.xndtr * full.destinc) % AddrMod,
                        !.ndtr = full.xndtr]
      ELSE full

\* f2xx_dma_stream_write for SxCR
stream_write_CR(s, w) ==
  LET stored == [s EXCEPT !.cr = w]
  IN  IF ~On(s, "EN") /\ "EN" \in w.bits THEN stream_start(stored) ELSE stored

(***************************************************************************)
(* LISR shows the flags of stream i from bit 6 * i on (f2xx_dma_pack_isr); *)
(* a write to LIFCR clears stream i when it hits one of the bits of a mask.*)
(***************************************************************************)
FlagBit(f) == IF f = "HTIF" THEN 4 ELSE 5

pack_isr(st) == UNION {{6 * i + FlagBit(f) : f \in st[i].isr} : i \in Streams}

ClearMask(i) == CASE i = 0 -> {0, 2, 3, 4, 5}         \* 0x0000003d
                  [] i = 1 -> {6, 8, 9, 10, 11}       \* 0x00000f40
                  [] i = 2 -> {16, 18, 19, 20, 21}    \* 0x003d0000
                  [] i = 3 -> {22, 24, 25, 26, 27}    \* 0x0f400000

(***************************************************************************)
(* Actions.                                                                *)
(***************************************************************************)
DmaInit == /\ stream = [i \in Streams |-> Idle]
           /\ armed = {}

Starts(s, w) == ~On(s, "EN") /\ "EN" \in w.bits /\ w.msize # 0 /\ w.dir = 0

CRWrite(i, w) ==
  /\ stream' = [stream EXCEPT ![i] = stream_write_CR(@, w)]
  /\ armed' = IF "EN" \in w.bits /\ (i \in armed \/ Starts(stream[i], w))
              THEN armed \cup {i} ELSE armed \ {i}

\* Refused while the stream is enabled.
NDTRWrite(i, n) ==
  /\ ~On(stream[i], "EN")
  /\ stream' = [stream EXCEPT ![i].ndtr = n]
  /\ UNCHANGED armed

PARWrite(i, p) ==
  /\ stream' = [stream EXCEPT ![i].par = p]
  /\ UNCHANGED armed

\* Faulty form: clears the flags but leaves the interrupt line high.
LIFCRWrite_keeps_line(bits) ==
  /\ stream' = [i \in Streams |->
                  IF ClearMask(i) \cap bits # {}
                  THEN [stream[i] EXCEPT !.isr = {}] ELSE stream[i]]
  /\ UNCHANGED armed

\* f2xx_dma_write for LIFCR: one hit clears every flag of the stream.
LIFCRWrite(bits) ==
  /\ stream' = [i \in Streams |->
                  IF ClearMask(i) \cap bits # {}
                  THEN [stream[i] EXCEPT !.isr = {}, !.irq = FALSE]
                  ELSE stream[i]]
  /\ UNCHANGED armed

\* f2xx_dma_usart_dmar with level 1 on line n: every stream routed to USART n
\* moves one unit.
UsartDmar(n) ==
  /\ stream' = [i \in Streams |-> IF stream[i].usart_dmar = n
                                  THEN dmar_transfer(stream[i]) ELSE stream[i]]
  /\ armed' = {i \in armed : On(stream'[i], "EN")}

\* System reset: f2xx_dma_reset clears the streams, and the reset of the
\* interrupt controller forgets the level of their lines.
DmaReset ==
  /\ stream' = [i \in Streams |-> Idle]
  /\ armed' = {}

DmaNext ==
  \/ \E i \in Streams : \/ \E w \in CRWords : CRWrite(i, w)
                        \/ \E n \in 0 .. NdtrMod - 1 : NDTRWrite(i, n)
                        \/ \E p \in Usarts \cup {0} : PARWrite(i, p)
  \/ \E bits \in {pack_isr(stream)} \cup {ClearMask(i) : i \in Streams} : LIFCRWrite(bits)
  \/ \E n \in Usarts : UsartDmar(n)
  \/ DmaReset

DmaSpec == DmaInit /\ [][DmaNext]_dmaVars

(***************************************************************************)
(* Properties.                                                             *)
(***************************************************************************)
StreamType ==
  [cr : AllCRWords, ndtr : 0 .. NdtrMod - 1, par : Usarts \cup {0},
   isr : SUBSET {"HTIF", "TCIF"}, irq : BOOLEAN, usart_dmar : Usarts \cup {NoUsart},
   dest : 0 .. AddrMod - 1, destinc : {0, 1, 2, 4}, xndtr : 0 .. NdtrMod - 1]

DmaTypeOK == /\ stream \in [Streams -> StreamType]
             /\ armed \subseteq Streams

InBuffer(s) == /\ s.ndtr \in 1 .. s.xndtr
               /\ s.dest = (s.xndtr - s.ndtr) * s.destinc

\* While a stream started with a non-zero count is enabled, the next unit is
\* written inside the buffer of xndtr units at SxM0AR, at the position that
\* SxNDTR shows to the guest: the reload of circular mode, the refused SxNDTR
\* writes and the restart on EN keep counter and pointer together.
WritesStayInBuffer ==
  \A i \in armed : stream[i].xndtr > 0 => InBuffer(stream[i])

\* An interrupt line is only held high while a flag says why, so an
\* acknowledging guest always finds the cause.
IrqHasCause == \A i \in Streams : stream[i].irq => stream[i].isr # {}

\* Each pass over a circular buffer reports its end: the counter of an enabled
\* circular stream only grows back together with TCIF (dmar_transfer reloads
\* it after raising the flag, and the interrupt if TCIE is set).
WrapIsReported ==
  \A i \in armed \cap armed' :
    stream[i].xndtr > 0 /\ stream'[i].ndtr > stream[i].ndtr
      => /\ "TCIF" \in stream'[i].isr
         /\ On(stream[i], "TCIE") => stream'[i].irq

\* Interrupts tell the truth: dmar_transfer raises the line for every pass, and
\* neither it nor the acknowledging writes leave the line high without a flag.
InterruptsAreTrue == [][IrqHasCause' /\ WrapIsReported]_dmaVars

\* "Any interrupt clear write to stream x clears all interrupts for that
\* stream": a guest that writes back to LIFCR the flags it read from LISR would
\* clear every stream that shows one.
AckReachesStream ==
  \A i \in Streams : stream[i].isr # {} => ClearMask(i) \cap pack_isr(stream) # {}
=============================================================================
