------------------------------- MODULE UartDma -------------------------------
(***************************************************************************)
(* A USART whose receive DMA requests are served by one stream of the DMA  *)
(* controller (wired in stm32f407_soc.c).                                  *)
(*                                                                         *)
(* A request is a synchronous call: stm32_uart_update_irq raises the line, *)
(* f2xx_dma_usart_dmar starts stm32f2xx_dma_dmar_transfer, which reads     *)
(* USART_DR; that read refills the data register from rcv_char_buf and     *)
(* calls update_irq again, so that the next transfer runs inside the read  *)
(* of the previous one and stores its byte first.  `calls' is the stack of *)
(* transfers that have read their byte and not stored it yet.  No other    *)
(* handler runs until the stack is empty.                                  *)
(***************************************************************************)
EXTENDS Stm32Uart, F2xxDma

CONSTANTS
  Rx,        \* the stream
  U,         \* the number of the USART
  NdtrWords  \* values the guest writes to SxNDTR

ASSUME UartDmaAssumption == /\ Streams = {Rx}
                            /\ U \in Usarts
                            /\ NdtrWords \subseteq 0 .. NdtrMod - 1

VARIABLES
  req,     \* the request line has been raised and not served yet
  calls,   \* bytes read by transfers that have not stored them, innermost last
  stored   \* history: bytes stored by the stream, in the order of their addresses

nestVars == <<req, calls, stored>>
vars == <<uartVars, dmaVars, nestVars>>

Quiet == ~req /\ calls = <<>>

\* The request line is seen by the stream: f2xx_dma_usart_dmar finds it.
Seen(u) == DmarLevel(u) = 1 /\ stream[Rx].usart_dmar = U

Init == UartInit /\ DmaInit /\ req = FALSE /\ calls = <<>> /\ stored = <<>>

(***************************************************************************)
(* Handlers of the USART.  `updates' says whether the handler gets to      *)
(* stm32_uart_update_irq, which re-raises the line while RXNE /\ DMAR.     *)
(***************************************************************************)
UartHandler(A, updates) ==
  /\ Quiet
  /\ A
  /\ req' = (updates /\ Seen(uart'))
  /\ UNCHANGED <<dmaVars, calls, stored>>

FillUpdates == Enabled(uart) /\ "RXNE" \notin uart.SR

Arrival == UartHandler((\E k \in 1 .. USART_RCV_BUF_LEN : Receive(k)), FillUpdates)
GuestReadsDR == UartHandler(DRRead, TRUE)
GuestWritesSR == UartHandler((\E v \in SRWords : SRWrite(v)), TRUE)
GuestWritesDR == UartHandler(DRWrite, TRUE)
GuestWritesCR1 == UartHandler((\E v \in CR1Words : CR1Write(v)), TRUE)
GuestWritesCR3 == UartHandler((\E v \in SUBSET CR3Bits : CR3Write(v)), FALSE)

(***************************************************************************)
(* Handlers of the DMA controller.                                         *)
(***************************************************************************)
DmaHandler(A) == Quiet /\ A /\ UNCHANGED <<uartVars, nestVars>>

GuestWritesCR == DmaHandler(\E w \in CRWords : CRWrite(Rx, w))
GuestWritesNDTR == DmaHandler(\E n \in NdtrWords : NDTRWrite(Rx, n))
GuestWritesPAR == DmaHandler(\E p \in Usarts \cup {0} : PARWrite(Rx, p))
GuestWritesLIFCR == DmaHandler(LIFCRWrite(ClearMask(Rx)))

\* System reset.
ResetBoth == Quiet /\ Reset /\ DmaReset /\ UNCHANGED nestVars

(***************************************************************************)
(* The nested transfers.                                                   *)
(***************************************************************************)
\* Faulty form: one buffer shared by nested transfers.
TransferReads_shared_buffer ==
  /\ req
  /\ calls' = <<uart.DR>>
  /\ uart' = USART_DR_read(uart)
  /\ req' = Seen(uart')
  /\ UNCHANGED <<accepted, nread, wrote, out, dmaVars, stored>>

\* Faulty form: a read without side effects, so that the request stays raised.
TransferReads_without_effect == req /\ UNCHANGED vars

\* cpu_physical_memory_read of USART_DR in dmar_transfer: the refill inside the
\* read raises the line again while more bytes wait.
TransferReads ==
  /\ req
  /\ calls' = Append(calls, uart.DR)
  /\ uart' = USART_DR_read(uart)
  /\ req' = Seen(uart')
  /\ UNCHANGED <<accepted, nread, wrote, out, dmaVars, stored>>

\* The rest of dmar_transfer, once the read has returned.
TransferStores ==
  /\ ~req
  /\ calls # <<>>
  /\ stored' = Append(stored, calls[Len(calls)])
  /\ calls' = SubSeq(calls, 1, Len(calls) - 1)
  /\ UsartDmar(U)
  /\ UNCHANGED <<uartVars, req>>

Next ==
  \/ Arrival
  \/ GuestReadsDR
  \/ GuestWritesSR
  \/ GuestWritesDR
  \/ GuestWritesCR1
  \/ GuestWritesCR3
  \/ GuestWritesCR
  \/ GuestWritesNDTR
  \/ GuestWritesPAR
  \/ GuestWritesLIFCR
  \/ ResetBoth
  \/ TransferReads
  \/ TransferStores

\* Nested calls run to completion without interruption.
Fairness == WF_vars(TransferReads \/ TransferStores)

Spec == Init /\ [][Next]_vars /\ Fairness

(***************************************************************************)
(* Properties.                                                             *)
(***************************************************************************)
\* The depth of nested handlers is bounded by the receive buffer: one
\* transfer for the byte in the data register and one per buffered byte.
NestingBounded == Len(calls) + Pending(uart) <= USART_RCV_BUF_LEN + 1

\* The bytes waiting in the USART are newer than all that earlier requests
\* stored: requests may reverse the bytes of one burst, never those of two.
LaterRequestStoresNewerBytes ==
  Quiet => \A i \in DOMAIN stored :
             /\ "RXNE" \in uart.SR => stored[i] < uart.DR
             /\ \A j \in DOMAIN uart.buf : stored[i] < uart.buf[j]

\* Bytes that are neither in the USART, nor read by the guest, nor stored or
\* about to be stored by the stream.
Missing == Lost - (Len(calls) + Len(stored))

\* However deep the transfers nest, each byte they take from the USART is
\* stored exactly once; bytes only go missing as in LossNeedsGuestAction.
NestingLosesNothing ==
  [][Missing' # Missing => \/ ~Enabled(uart)
                           \/ GuestWritesSR
                           \/ ResetBoth]_vars

\* A request always ends: the nested reads and stores come to rest.
RequestEnds == ~Quiet ~> Quiet

\* "Put next byte into RDR if the target is ready for it": a stream that has
\* not stored a byte yet would not be given the next one, and bytes would reach
\* memory in the order of their arrival.
StoredInArrivalOrder ==
  \A i, j \in DOMAIN stored : i < j => stored[i] < stored[j]
=============================================================================
