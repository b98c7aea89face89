----------------------------- MODULE UartChannel -----------------------------
(***************************************************************************)
(* The USART (Stm32Uart) as an implementation of ByteChannel.  The bytes   *)
(* that wait are the one in the data register, while RXNE says that there  *)
(* is one, and those in rcv_char_buf.  The history variable `got' is the   *)
(* byte the last read of USART_DR returned.                                *)
(***************************************************************************)
EXTENDS Stm32Uart

VARIABLE got   \* history: *data_read of the last read that found RXNE set

rxVars == <<uartVars, got>>

Waiting(u) == (IF "RXNE" \in u.SR THEN {u.DR} ELSE {})
              \cup {u.buf[i] : i \in DOMAIN u.buf}

\* Faulty form: the value is fetched after the refill.
DataRead_late(u) == USART_DR_read(u).DR

\* stm32_uart_USART_DR_read: the value is taken before the refill.
DataRead(u) == u.DR

RxInit == UartInit /\ got = 0

RxNext == UartNext /\ got' = IF nread' # nread THEN DataRead(uart) ELSE got

RxSpec == RxInit /\ [][RxNext]_rxVars

Channel == INSTANCE ByteChannel WITH
             arrived <- accepted,
             waiting <- Waiting(uart),
             last    <- got,
             on      <- Enabled(uart)

\* The receive side of the USART is a byte channel: data register, refill on
\* read, buffer, clear-only flags and reset together deliver in the order of
\* arrival, and lose bytes only as ByteChannel allows.
ImplementsChannel == Channel!ChannelSpec
=============================================================================
