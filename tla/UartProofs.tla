----------------------------- MODULE UartProofs ------------------------------
(***************************************************************************)
(* Proofs about the USART for every buffer capacity and every bound: its   *)
(* inductive invariant, the lines that follow the flags, the refinement of *)
(* ByteChannel, and the steps that may lose bytes or stall.                *)
(***************************************************************************)
EXTENDS UartChannel, SequenceTheorems, TLAPS

UartRecord ==
  [SR : SUBSET SRBits, CR1 : SUBSET CR1Bits, CR3 : SUBSET CR3Bits,
   DR : Nat, TDR : Nat, buf : Seq(Nat), irq : BOOLEAN,
   dmar : {0, 1}, sr_read_since_ore_set : BOOLEAN]

\* s holds the last Len(s) of the bytes numbered 1 .. n, in order.
InOrder(s, n) ==
  /\ s \in Seq(Nat)
  /\ Len(s) <= n
  /\ \A i \in 1 .. Len(s) : s[i] = (n - Len(s)) + i

\* t holds the bytes that arrive after byte n.
Fresh(t, n) ==
  /\ t \in Seq(Nat)
  /\ \A i \in 1 .. Len(t) : t[i] = n + i

\* What fill_receive_data_register, USART_DR_read and update_irq preserve: u
\* holds bytes numbered up to n, in order, and never shows an overrun.
Sound(u, n) ==
  /\ u \in UartRecord
  /\ "ORE" \notin u.SR
  /\ "RXNE" \in u.SR => u.DR \in 1 .. n - Len(u.buf)
  /\ InOrder(u.buf, n)

\* stm32_uart_update_irq changes nothing but the lines, and sets the one for interrupts.
LEMMA UpdateIrqSound ==
  ASSUME NEW u, NEW n \in Nat, Sound(u, n)
  PROVE  /\ Sound(update_irq(u), n)
         /\ update_irq(u).irq = IrqLevel(update_irq(u))
         /\ update_irq(u).buf = u.buf
         /\ update_irq(u).CR1 = u.CR1
  BY Zenon DEF Sound, UartRecord, update_irq, IrqLevel, DmarLevel

\* Taking the oldest byte leaves the later ones numbered as they were.
LEMMA TailInOrder ==
  ASSUME NEW s, NEW n \in Nat, InOrder(s, n), s # <<>>
  PROVE  /\ InOrder(Tail(s), n)
         /\ Len(Tail(s)) = Len(s) - 1
         /\ Head(s) \in 1 .. n - Len(Tail(s))
         /\ Len(s) \in Nat \ {0}
  <1> USE DEF InOrder
  <1>1. /\ Tail(s) \in Seq(Nat)
        /\ Len(s) \in Nat \ {0}
        /\ Len(Tail(s)) = Len(s) - 1
        /\ Head(s) = s[1]
    OBVIOUS
  <1>2. \A i \in 1 .. Len(s) - 1 : Tail(s)[i] = s[i + 1]
    OBVIOUS
  <1>3. \A i \in 1 .. Len(s) - 1 : s[i + 1] = (n - Len(s)) + (i + 1)
    BY <1>1
  <1>4. s[1] = (n - Len(s)) + 1
    BY <1>1
  <1> QED BY <1>1, <1>2, <1>3, <1>4

\* New bytes are numbered on from the last one accepted.
LEMMA AppendInOrder ==
  ASSUME NEW s, NEW t, NEW n \in Nat, InOrder(s, n), Fresh(t, n)
  PROVE  /\ InOrder(s \o t, n + Len(t))
         /\ Len(s \o t) = Len(s) + Len(t)
         /\ Len(s) \in Nat
         /\ Len(t) \in Nat
  <1>1. s \in Seq(Nat) /\ t \in Seq(Nat)
    BY DEF InOrder, Fresh
  <1>2. /\ s \o t \in Seq(Nat)
        /\ Len(s) \in Nat
        /\ Len(t) \in Nat
        /\ Len(s \o t) = Len(s) + Len(t)
    BY <1>1, ConcatProperties, LenProperties
  <1>3. ASSUME NEW i \in 1 .. Len(s) + Len(t)
        PROVE  (s \o t)[i] = (n - Len(s)) + i
    <2>1. CASE i <= Len(s)
      <3>1. i \in 1 .. Len(s)
        BY <1>2, <2>1
      <3>2. (s \o t)[i] = s[i]
        BY <1>1, <3>1
      <3> QED BY <3>1, <3>2 DEF InOrder
    <2>2. CASE i > Len(s)
      <3>1. i - Len(s) \in 1 .. Len(t)
        BY <1>2, <2>2
      <3>2. (s \o t)[i] = t[i - Len(s)]
        BY <1>1, <1>2, <2>2
      <3>3. t[i - Len(s)] = n + (i - Len(s))
        BY <3>1 DEF Fresh
      <3> QED BY <1>2, <3>2, <3>3
    <2> QED BY <1>2, <2>1, <2>2
  <1>4. (n + Len(t)) - (Len(s) + Len(t)) = n - Len(s)
    BY <1>2
  <1>5. Len(s) <= n
    BY DEF InOrder
  <1> QED BY <1>2, <1>3, <1>4, <1>5 DEF InOrder

\* Refilling the data register keeps the order; it recomputes the interrupt
\* line whenever it changes a flag.
LEMMA FillSound ==
  ASSUME NEW u, NEW n \in Nat, Sound(u, n)
  PROVE  /\ Sound(fill_receive_data_register(u), n)
         /\ u.irq = IrqLevel(u) => fill_receive_data_register(u).irq = IrqLevel(fill_receive_data_register(u))
         /\ Len(fill_receive_data_register(u).buf) <= Len(u.buf)
  <1> DEFINE f == fill_receive_data_register(u)
  <1>1. CASE u.buf = <<>> \/ (Enabled(u) /\ "RXNE" \in u.SR)
    <2>1. f = u
      BY <1>1 DEF fill_receive_data_register
    <2> QED BY <2>1 DEF Sound, UartRecord
  <1>2. CASE ~(u.buf = <<>> \/ (Enabled(u) /\ "RXNE" \in u.SR))
    <2> DEFINE popped == [u EXCEPT !.buf = Tail(u.buf)]
    <2>1. u.buf # <<>> /\ InOrder(u.buf, n)
      BY <1>2 DEF Sound
    <2>2. /\ InOrder(Tail(u.buf), n)
          /\ Len(Tail(u.buf)) = Len(u.buf) - 1
          /\ Len(u.buf) \in Nat
          /\ Head(u.buf) \in 1 .. n - Len(Tail(u.buf))
      BY <2>1, TailInOrder
    <2>3. Tail(u.buf) \in Seq(Nat) /\ Len(Tail(u.buf)) <= Len(u.buf)
      BY <2>2 DEF InOrder
    <2>4. CASE Enabled(u)
      <3> DEFINE g == [popped EXCEPT
                         !.SR = u.SR \cup {"RXNE"} \cup (IF "RXNE" \in u.SR THEN {"ORE"} ELSE {}),
                         !.sr_read_since_ore_set = IF "RXNE" \in u.SR THEN FALSE ELSE u.sr_read_since_ore_set,
                         !.DR = Head(u.buf)]
      <3>1. f = update_irq(g)
        BY <1>2, <2>4 DEF fill_receive_data_register
      <3>2. "RXNE" \notin u.SR
        BY <1>2, <2>4
      <3>3. g = [u EXCEPT !.buf = Tail(u.buf), !.SR = u.SR \cup {"RXNE"}, !.DR = Head(u.buf)]
        BY <3>2, Zenon DEF Sound, UartRecord
      <3>4. g.SR = u.SR \cup {"RXNE"} /\ g.DR = Head(u.buf) /\ g.buf = Tail(u.buf)
        BY <3>3, Zenon DEF Sound, UartRecord
      <3>5. g \in UartRecord
        <4>1. Head(u.buf) \in Nat
          BY <2>2
        <4>2. u.SR \cup {"RXNE"} \in SUBSET SRBits
          BY DEF Sound, UartRecord, SRBits
        <4> QED BY <2>3, <3>3, <4>1, <4>2, Zenon DEF Sound, UartRecord
      <3> HIDE DEF g
      <3>6. Sound(g, n)
        BY <2>2, <3>4, <3>5 DEF Sound
      <3>7. /\ Sound(update_irq(g), n)
            /\ update_irq(g).irq = IrqLevel(update_irq(g))
            /\ update_irq(g).buf = g.buf
        BY <3>6, UpdateIrqSound
      <3> QED BY <2>3, <3>1, <3>4, <3>7
    <2>5. CASE ~Enabled(u)
      <3>1. f = popped
        BY <1>2, <2>5 DEF fill_receive_data_register
      <3>2. /\ popped \in UartRecord
            /\ popped.SR = u.SR
            /\ popped.DR = u.DR
            /\ popped.CR1 = u.CR1
            /\ popped.irq = u.irq
            /\ popped.buf = Tail(u.buf)
        BY <2>3, Zenon DEF Sound, UartRecord
      <3> HIDE DEF popped
      <3>3. "RXNE" \in u.SR => u.DR \in 1 .. n - Len(Tail(u.buf))
        BY <2>2 DEF Sound
      <3>4. Sound(popped, n)
        BY <2>2, <3>2, <3>3 DEF Sound
      <3>5. popped.irq = IrqLevel(popped) <=> u.irq = IrqLevel(u)
        BY <3>2 DEF IrqLevel
      <3> QED BY <2>3, <3>1, <3>2, <3>4, <3>5
    <2> QED BY <2>4, <2>5
  <1> QED BY <1>1, <1>2

\* stm32_uart_receive keeps the order, whatever room the buffer has.
LEMMA ReceiveSound ==
  ASSUME NEW u, NEW t, NEW n \in Nat, Sound(u, n), Fresh(t, n), u.irq = IrqLevel(u)
  PROVE  /\ Sound(receive(u, t), n + Len(t))
         /\ receive(u, t).irq = IrqLevel(receive(u, t))
         /\ Len(receive(u, t).buf) <= Len(u.buf) + Len(t)
  <1> DEFINE g == [u EXCEPT !.buf = u.buf \o t]
  <1>1. /\ InOrder(u.buf \o t, n + Len(t))
        /\ Len(u.buf \o t) = Len(u.buf) + Len(t)
        /\ Len(u.buf) \in Nat
        /\ Len(t) \in Nat
    BY AppendInOrder DEF Sound
  <1>2. u.buf \o t \in Seq(Nat)
    BY <1>1 DEF InOrder
  <1>3. /\ g \in UartRecord
        /\ g.buf = u.buf \o t
        /\ g.SR = u.SR /\ g.CR1 = u.CR1 /\ g.irq = u.irq /\ g.DR = u.DR
    BY <1>2, Zenon DEF Sound, UartRecord
  <1> HIDE DEF g
  <1>4. Sound(g, n + Len(t))
    <2>1. (n + Len(t)) - Len(u.buf \o t) = n - Len(u.buf)
      BY <1>1
    <2> QED BY <1>1, <1>3, <2>1, Zenon DEF Sound
  <1>5. g.irq = IrqLevel(g)
    BY <1>3 DEF IrqLevel
  <1>6. receive(u, t) = fill_receive_data_register(g)
    BY DEF receive, g
  <1>7. n + Len(t) \in Nat
    BY <1>1
  <1> QED BY <1>1, <1>3, <1>4, <1>5, <1>6, <1>7, FillSound

\* A read of USART_DR keeps the order and the interrupt line.
LEMMA DRReadSound ==
  ASSUME NEW u, NEW n \in Nat, Sound(u, n)
  PROVE  /\ Sound(USART_DR_read(u), n)
         /\ USART_DR_read(u).irq = IrqLevel(USART_DR_read(u))
         /\ Len(USART_DR_read(u).buf) <= Len(u.buf)
  <1> DEFINE ack == [u EXCEPT !.SR = IF u.sr_read_since_ore_set THEN u.SR \ {"ORE"} ELSE u.SR]
  <1>1. ack = u
    <2>1. u = [u EXCEPT !.SR = u.SR]
      BY DEF Sound, UartRecord
    <2>2. u.SR \ {"ORE"} = u.SR
      BY DEF Sound
    <2> QED BY <2>1, <2>2
  <1>2. CASE "RXNE" \in u.SR
    <2> DEFINE g == [u EXCEPT !.SR = u.SR \ {"RXNE"}]
    <2>1. USART_DR_read(u) = update_irq(fill_receive_data_register(g))
      BY <1>1, <1>2, Zenon DEF USART_DR_read
    <2>2. g \in UartRecord /\ g.SR = u.SR \ {"RXNE"} /\ g.buf = u.buf
      BY Zenon DEF Sound, UartRecord
    <2>3. Sound(g, n)
      BY <2>2 DEF Sound
    <2> HIDE DEF g
    <2>4. /\ Sound(fill_receive_data_register(g), n)
          /\ Len(fill_receive_data_register(g).buf) <= Len(u.buf)
      BY <2>2, <2>3, FillSound
    <2> QED BY <2>1, <2>4, UpdateIrqSound
  <1>3. CASE "RXNE" \notin u.SR
    <2> DEFINE g == [u EXCEPT !.DR = 0]
    <2>1. USART_DR_read(u) = update_irq(g)
      BY <1>1, <1>3, Zenon DEF USART_DR_read
    <2>2. g \in UartRecord /\ g.SR = u.SR /\ g.buf = u.buf
      BY Zenon DEF Sound, UartRecord
    <2> HIDE DEF g
    <2>3. Sound(g, n)
      BY <1>3, <2>2 DEF Sound
    <2>4. Len(u.buf) <= Len(u.buf)
      BY DEF Sound, UartRecord
    <2> QED BY <2>1, <2>2, <2>3, <2>4, UpdateIrqSound
  <1> QED BY <1>2, <1>3

(***************************************************************************)
(* The inductive invariant and its preservation by each handler.           *)
(***************************************************************************)
UartInv ==
  /\ accepted \in Nat
  /\ nread \in Nat
  /\ wrote \in Nat
  /\ out \in Seq(Nat)
  /\ Sound(uart, accepted)
  /\ uart.irq = IrqLevel(uart)
  /\ Len(uart.buf) <= USART_RCV_BUF_LEN

\* stm32_uart_init establishes the invariant.
LEMMA UartInitInv == UartInit => UartInv
  BY UartAssumption
   DEF UartInit, UartInv, Sound, InOrder, UartRecord, IrqLevel, SRBits, CR1Bits, CR3Bits

\* Bytes from the character device or from the byte line of the board.
LEMMA ArrivalInv ==
  ASSUME UartInv, (\E k \in 1 .. USART_RCV_BUF_LEN : Receive(k)) \/ RxWrapper
  PROVE  UartInv'
  <1> USE DEF can_receive
  <1>1. Len(uart.buf) \in Nat /\ USART_RCV_BUF_LEN \in Nat /\ accepted \in Nat
    BY UartAssumption DEF UartInv, Sound, InOrder
  <1>2. ASSUME NEW k \in 1 .. USART_RCV_BUF_LEN, Receive(k)
        PROVE  UartInv'
    <2> DEFINE t == [i \in 1 .. k |-> accepted + i]
    <2>1. Fresh(t, accepted) /\ Len(t) = k
      BY <1>1 DEF Fresh
    <2>2. /\ uart' = receive(uart, t)
          /\ accepted' = accepted + k
          /\ k <= USART_RCV_BUF_LEN - Len(uart.buf)
          /\ UNCHANGED <<nread, wrote, out>>
      BY <1>2 DEF Receive
    <2> HIDE DEF t
    <2>3. /\ Sound(uart', accepted')
          /\ uart'.irq = IrqLevel(uart')
          /\ Len(uart'.buf) <= Len(uart.buf) + k
      BY <1>1, <2>1, <2>2, ReceiveSound, Zenon DEF UartInv
    <2>4. Len(uart'.buf) \in Nat
      BY <2>3 DEF Sound, InOrder
    <2>5. Len(uart'.buf) <= USART_RCV_BUF_LEN
      BY <1>1, <2>2, <2>3, <2>4
    <2> QED BY <1>1, <2>2, <2>3, <2>5 DEF UartInv, IrqLevel
  <1>3. ASSUME RxWrapper
        PROVE  UartInv'
    <2>1. CASE can_receive(uart) > 0
      <3> DEFINE t == <<accepted + 1>>
      <3>1. Fresh(t, accepted) /\ Len(t) = 1
        BY <1>1 DEF Fresh
      <3>2. /\ uart' = receive(uart, t)
            /\ accepted' = accepted + 1
            /\ 1 <= USART_RCV_BUF_LEN - Len(uart.buf)
            /\ UNCHANGED <<nread, wrote, out>>
        BY <1>1, <1>3, <2>1 DEF RxWrapper
      <3> HIDE DEF t
      <3>3. /\ Sound(uart', accepted')
            /\ uart'.irq = IrqLevel(uart')
            /\ Len(uart'.buf) <= Len(uart.buf) + 1
        BY <1>1, <3>1, <3>2, ReceiveSound, Zenon DEF UartInv
      <3>4. Len(uart'.buf) \in Nat
        BY <3>3 DEF Sound, InOrder
      <3>5. Len(uart'.buf) <= USART_RCV_BUF_LEN
        BY <1>1, <3>2, <3>3, <3>4
      <3> QED BY <1>1, <3>2, <3>3, <3>5 DEF UartInv, IrqLevel
    <2>2. CASE ~(can_receive(uart) > 0)
      <3>1. UNCHANGED <<uart, accepted, nread, wrote, out>>
        BY <1>3, <2>2 DEF RxWrapper
      <3> QED BY <3>1, Zenon DEF UartInv, IrqLevel
    <2> QED BY <2>1, <2>2
  <1> QED BY <1>2, <1>3

\* Register reads.
LEMMA RegisterReadInv ==
  ASSUME UartInv, SRRead \/ DRRead
  PROVE  UartInv'
  <1>1. CASE SRRead
    <2>1. uart' = uart
      BY <1>1 DEF SRRead, UartInv, Sound, UartRecord
    <2> QED BY <1>1, <2>1, Zenon DEF SRRead, UartInv, IrqLevel
  <1>2. CASE DRRead
    <2>1. uart' = USART_DR_read(uart) /\ UNCHANGED <<accepted, wrote, out>> /\ nread' \in Nat
      BY <1>2 DEF DRRead, UartInv
    <2>2. /\ Sound(uart', accepted)
          /\ uart'.irq = IrqLevel(uart')
          /\ Len(uart'.buf) <= Len(uart.buf)
      BY <2>1, DRReadSound DEF UartInv
    <2>3. Len(uart'.buf) \in Nat /\ Len(uart.buf) \in Nat /\ USART_RCV_BUF_LEN \in Nat
      BY <2>2, UartAssumption DEF UartInv, Sound, InOrder
    <2>4. Len(uart'.buf) <= USART_RCV_BUF_LEN
      BY <2>2, <2>3 DEF UartInv
    <2> QED BY <2>1, <2>2, <2>4 DEF UartInv, IrqLevel
  <1> QED BY <1>1, <1>2

\* A handler that stores a register g and then recomputes the lines.
LEMMA StoreThenUpdate ==
  ASSUME UartInv, NEW g, Sound(g, accepted), g.buf = uart.buf,
         uart' = update_irq(g), UNCHANGED <<accepted, nread>>,
         wrote' \in Nat, out' \in Seq(Nat)
  PROVE  UartInv'
  <1>1. /\ Sound(uart', accepted)
        /\ uart'.irq = IrqLevel(uart')
        /\ uart'.buf = uart.buf
    BY UpdateIrqSound DEF UartInv
  <1> QED BY <1>1 DEF UartInv, IrqLevel

\* update_irq after update_irq changes nothing.
LEMMA UpdateIrqIdempotent ==
  ASSUME NEW u \in UartRecord
  PROVE  update_irq(update_irq(u)) = update_irq(u)
  BY Zenon DEF UartRecord, update_irq, IrqLevel, DmarLevel

\* Register writes and reset.
LEMMA RegisterWriteInv ==
  ASSUME UartInv,
         \/ \E v \in SRValues : SRWrite(v)
         \/ DRWrite
         \/ \E v \in SUBSET CR1Bits : CR1Write(v)
         \/ \E v \in SUBSET CR3Bits : CR3Write(v)
         \/ Reset
  PROVE  UartInv'
  <1>1. /\ uart \in UartRecord
        /\ "ORE" \notin uart.SR
        /\ "RXNE" \in uart.SR => uart.DR \in 1 .. accepted - Len(uart.buf)
        /\ InOrder(uart.buf, accepted)
        /\ wrote \in Nat
        /\ out \in Seq(Nat)
    BY DEF UartInv, Sound
  <1>2. ASSUME NEW v \in SRValues, SRWrite(v)
        PROVE  UartInv'
    <2> DEFINE g == [uart EXCEPT !.SR = SRStored(uart.SR, v)]
    <2>1. SRStored(uart.SR, v) \subseteq uart.SR
      BY DEF SRStored
    <2>2. g \in UartRecord /\ g.SR = SRStored(uart.SR, v) /\ g.buf = uart.buf /\ g.DR = uart.DR
      BY <1>1, <2>1, Zenon DEF UartRecord
    <2>3. uart' = update_irq(g) /\ UNCHANGED <<accepted, nread, wrote, out>>
      BY <1>2 DEF SRWrite
    <2> HIDE DEF g
    <2>4. Sound(g, accepted)
      BY <1>1, <2>1, <2>2 DEF Sound
    <2> QED BY <1>1, <2>2, <2>3, <2>4, StoreThenUpdate
  <1>3. ASSUME DRWrite
        PROVE  UartInv'
    <2> DEFINE s == [uart EXCEPT !.SR = uart.SR \cup {"TXE", "TC"}]
               h == [uart EXCEPT !.TDR = wrote', !.SR = @ \ {"TXE"}]
    <2>1. /\ UNCHANGED <<accepted, nread>>
          /\ wrote' = wrote + 1
      BY <1>3 DEF DRWrite
    <2>2. CASE "TC" \in uart.SR
      <3>1. /\ s \in UartRecord
            /\ s.SR = uart.SR \cup {"TXE", "TC"}
            /\ s.buf = uart.buf
            /\ s.DR = uart.DR
        BY <1>1, Zenon DEF UartRecord, SRBits
      <3>2. /\ uart' = update_irq(update_irq(s))
            /\ out' = out \o sent_by_start_tx(uart, wrote')
        BY <1>3, <2>2 DEF DRWrite, start_tx
      <3> HIDE DEF s
      <3>3. Sound(s, accepted)
        BY <1>1, <3>1 DEF Sound
      <3>4. sent_by_start_tx(uart, wrote') \in Seq(Nat)
        BY <1>1, <2>1 DEF sent_by_start_tx, UartRecord
      <3>5. out' \in Seq(Nat)
        BY <1>1, <3>2, <3>4, ConcatProperties
      <3>6. uart' = update_irq(s)
        BY <3>1, <3>2, UpdateIrqIdempotent
      <3> QED BY <1>1, <2>1, <3>1, <3>3, <3>5, <3>6, StoreThenUpdate
    <2>3. CASE "TC" \notin uart.SR /\ "TXE" \in uart.SR
      <3>1. /\ h \in UartRecord
            /\ h.SR = uart.SR \ {"TXE"}
            /\ h.buf = uart.buf
            /\ h.DR = uart.DR
        <4>1. wrote' \in Nat
          BY <1>1, <2>1
        <4>2. h = [uart EXCEPT !.TDR = wrote', !.SR = uart.SR \ {"TXE"}]
          BY <1>1 DEF UartRecord
        <4> HIDE DEF h
        <4> QED BY <1>1, <4>1, <4>2, Zenon DEF UartRecord
      <3>2. uart' = update_irq(h) /\ out' = out
        BY <1>3, <2>3 DEF DRWrite
      <3> HIDE DEF h
      <3>3. Sound(h, accepted)
        BY <1>1, <3>1 DEF Sound
      <3> QED BY <1>1, <2>1, <3>1, <3>2, <3>3, StoreThenUpdate
    <2>4. CASE uart.SR \cap {"TC", "TXE"} = {}
      <3>1. uart' = update_irq(uart) /\ out' = out
        BY <1>3, <2>4 DEF DRWrite
      <3> QED BY <1>1, <2>1, <3>1, StoreThenUpdate DEF UartInv
    <2> QED BY <2>2, <2>3, <2>4
  <1>4. ASSUME NEW v \in SUBSET CR1Bits, CR1Write(v)
        PROVE  UartInv'
    <2> DEFINE g == [uart EXCEPT !.CR1 = v]
    <2>1. g \in UartRecord /\ g.SR = uart.SR /\ g.buf = uart.buf /\ g.DR = uart.DR
      BY <1>1, Zenon DEF UartRecord
    <2>2. uart' = update_irq(g) /\ UNCHANGED <<accepted, nread, wrote, out>>
      BY <1>4 DEF CR1Write
    <2> HIDE DEF g
    <2>3. Sound(g, accepted)
      BY <1>1, <2>1 DEF Sound
    <2> QED BY <1>1, <2>1, <2>2, <2>3, StoreThenUpdate
  <1>5. ASSUME NEW v \in SUBSET CR3Bits, CR3Write(v)
        PROVE  UartInv'
    <2>1. /\ uart' \in UartRecord
          /\ uart'.SR = uart.SR /\ uart'.buf = uart.buf /\ uart'.DR = uart.DR
          /\ uart'.irq = uart.irq /\ uart'.CR1 = uart.CR1
      BY <1>1, <1>5 DEF CR3Write, UartRecord
    <2>2. UNCHANGED <<accepted, nread, wrote, out>>
      BY <1>5 DEF CR3Write
    <2>3. Sound(uart', accepted)
      BY <1>1, <2>1 DEF Sound
    <2> QED BY <2>1, <2>2, <2>3 DEF UartInv, IrqLevel
  <1>6. ASSUME Reset
        PROVE  UartInv'
    <2> DEFINE g == [uart EXCEPT !.SR = {"TC", "TXE"}, !.CR1 = {}, !.CR3 = {}, !.DR = 0]
    <2>1. g \in UartRecord /\ g.SR = {"TC", "TXE"} /\ g.buf = uart.buf
      BY <1>1, Zenon DEF UartRecord, SRBits
    <2>2. uart' = update_irq(g) /\ UNCHANGED <<accepted, nread, wrote, out>>
      BY <1>6 DEF Reset, reset
    <2> HIDE DEF g
    <2>3. Sound(g, accepted)
      BY <1>1, <2>1 DEF Sound
    <2> QED BY <1>1, <2>1, <2>2, <2>3, StoreThenUpdate
  <1> QED BY <1>2, <1>3, <1>4, <1>5, <1>6

\* A step is one of the handlers, and a word the guest writes is made of bits
\* of its register (stm32_uart_read, stm32_uart_write).
LEMMA UartSteps ==
  ASSUME UartNext
  PROVE  \/ \E k \in 1 .. USART_RCV_BUF_LEN : Receive(k)
         \/ RxWrapper
         \/ SRRead
         \/ DRRead
         \/ \E v \in SRValues : SRWrite(v)
         \/ DRWrite
         \/ \E v \in SUBSET CR1Bits : CR1Write(v)
         \/ \E v \in SUBSET CR3Bits : CR3Write(v)
         \/ Reset
  BY UartAssumption, Zenon DEF UartNext

\* Every handler preserves the invariant.
LEMMA UartNextInv == UartInv /\ [UartNext]_uartVars => UartInv'
  <1> SUFFICES ASSUME UartInv, [UartNext]_uartVars
               PROVE  UartInv'
    OBVIOUS
  <1>1. CASE UartNext
    BY <1>1, UartSteps, ArrivalInv, RegisterReadInv, RegisterWriteInv
  <1>2. CASE UNCHANGED uartVars
    BY <1>2, Zenon DEF uartVars, UartInv, IrqLevel
  <1> QED BY <1>1, <1>2

\* The invariant holds throughout.
THEOREM UartInvariant == UartSpec => []UartInv
  BY UartInitInv, UartNextInv, PTL DEF UartSpec

\* Type correctness, with the buffer within USART_RCV_BUF_LEN.
THEOREM UartTypeCorrect == UartSpec => []UartTypeOK
  <1>1. UartInv => UartTypeOK
    <2>1. UartInv => uart \in UartRecord
      BY DEF UartInv, Sound
    <2> QED BY <2>1 DEF UartInv, UartTypeOK, UartRecord
  <1> QED BY <1>1, UartInvariant, PTL

\* Bytes are kept in arrival order, whatever the guest does to the registers.
THEOREM UartKeepsOrder == UartSpec => []PendingInOrder
  <1>1. UartInv => PendingInOrder
    <2>1. UartInv => uart.buf \in Seq(Nat)
      BY DEF UartInv, Sound, InOrder
    <2>2. UartInv => DOMAIN uart.buf = 1 .. Len(uart.buf)
      BY <2>1, LenProperties
    <2> QED BY <2>2, Zenon DEF UartInv, PendingInOrder, Sound, InOrder
  <1> QED BY <1>1, UartInvariant, PTL

\* Whoever calls stm32_uart_update_irq leaves the request line at its level.
LEMMA UpdateIrqRequest ==
  ASSUME NEW u \in UartRecord
  PROVE  update_irq(u).dmar = DmarLevel(update_irq(u))
  BY DEF UartRecord, update_irq, DmarLevel

\* Refilling the data register does so whenever it changes a flag.
LEMMA FillRequest ==
  ASSUME NEW u \in UartRecord, u.dmar = DmarLevel(u)
  PROVE  fill_receive_data_register(u).dmar = DmarLevel(fill_receive_data_register(u))
  <1>1. CASE u.buf = <<>> \/ (Enabled(u) /\ "RXNE" \in u.SR)
    BY <1>1 DEF fill_receive_data_register
  <1>2. CASE ~(u.buf = <<>> \/ (Enabled(u) /\ "RXNE" \in u.SR))
    <2>1. Tail(u.buf) \in Seq(Nat) /\ Head(u.buf) \in Nat
      BY <1>2 DEF UartRecord
    <2> DEFINE popped == [u EXCEPT !.buf = Tail(u.buf)]
               filled == [popped EXCEPT
                            !.SR = u.SR \cup {"RXNE"} \cup (IF "RXNE" \in u.SR THEN {"ORE"} ELSE {}),
                            !.sr_read_since_ore_set =
                               IF "RXNE" \in u.SR THEN FALSE ELSE u.sr_read_since_ore_set,
                            !.DR = Head(u.buf)]
    <2>2. CASE Enabled(u)
      <3>1. popped \in UartRecord
        BY <2>1, Zenon DEF UartRecord
      <3>2. filled \in UartRecord
        BY <2>1, <3>1, Zenon DEF UartRecord, SRBits
      <3>3. fill_receive_data_register(u) = update_irq(filled)
        BY <1>2, <2>2 DEF fill_receive_data_register
      <3> QED BY <3>2, <3>3, UpdateIrqRequest
    <2>3. CASE ~Enabled(u)
      <3>1. fill_receive_data_register(u) = popped
        BY <1>2, <2>3 DEF fill_receive_data_register
      <3> QED BY <3>1 DEF UartRecord, DmarLevel
    <2> QED BY <2>2, <2>3
  <1> QED BY <1>1, <1>2

\* With overrun compiled out, ORE is never set.
THEOREM UartNoOverrun == UartSpec => []NoOverrun
  <1>1. UartInv => NoOverrun
    BY DEF UartInv, NoOverrun, Sound
  <1> QED BY <1>1, UartInvariant, PTL

\* A step other than a write to CR3 leaves the request line at its level.
LEMMA RequestStep ==
  ASSUME UartInv, [UartNext]_uartVars, uart.dmar = DmarLevel(uart)
  PROVE  uart'.dmar = DmarLevel(uart') \/ CR3Write(uart'.CR3)
  <1>1. uart \in UartRecord /\ UartInv'
    BY UartNextInv DEF UartInv, Sound
  <1>2. uart' \in UartRecord
    BY <1>1 DEF UartInv, Sound
  <1>3. ASSUME NEW t \in Seq(Nat), uart' = receive(uart, t)
        PROVE  uart'.dmar = DmarLevel(uart')
    <2> DEFINE u == [uart EXCEPT !.buf = uart.buf \o t]
    <2>1. u \in UartRecord
      <3>1. uart.buf \o t \in Seq(Nat)
        BY <1>1, ConcatProperties DEF UartRecord
      <3> QED BY <1>1, <3>1, Zenon DEF UartRecord
    <2>2. u.dmar = DmarLevel(u)
      BY <1>1 DEF UartRecord, DmarLevel
    <2> QED BY <1>3, <2>1, <2>2, FillRequest, Zenon DEF receive
  <1>4. ASSUME NEW u \in UartRecord, uart' = update_irq(u)
        PROVE  uart'.dmar = DmarLevel(uart')
    BY <1>4, UpdateIrqRequest
  <1>5. CASE (\E k \in 1 .. USART_RCV_BUF_LEN : Receive(k)) \/ RxWrapper
    <2>1. ASSUME NEW k \in 1 .. USART_RCV_BUF_LEN, Receive(k)
          PROVE  uart'.dmar = DmarLevel(uart')
      <3>1. [i \in 1 .. k |-> accepted + i] \in Seq(Nat)
        <4>1. accepted \in Nat /\ k \in Nat
          BY UartAssumption DEF UartInv
        <4> QED BY <4>1
      <3> QED BY <1>3, <2>1, <3>1 DEF Receive
    <2>2. CASE RxWrapper
      <3>1. <<accepted + 1>> \in Seq(Nat)
        BY DEF UartInv
      <3>2. uart' = receive(uart, <<accepted + 1>>) \/ uart' = uart
        BY <2>2 DEF RxWrapper
      <3> QED BY <1>3, <3>1, <3>2, Zenon DEF DmarLevel
    <2> QED BY <1>5, <2>1, <2>2
  <1>6. CASE SRRead
    BY <1>1, <1>6 DEF SRRead, UartRecord, DmarLevel
  <1>7. CASE DRRead
    <2> DEFINE ack == [uart EXCEPT !.SR = IF uart.sr_read_since_ore_set THEN uart.SR \ {"ORE"} ELSE uart.SR]
               g == [ack EXCEPT !.SR = ack.SR \ {"RXNE"}]
               h == [ack EXCEPT !.DR = 0]
    <2>1. ack \in UartRecord /\ ack.SR = uart.SR /\ ack.DR = uart.DR /\ ack.buf = uart.buf
      <3>1. (IF uart.sr_read_since_ore_set THEN uart.SR \ {"ORE"} ELSE uart.SR) = uart.SR
        BY DEF UartInv, Sound
      <3> QED BY <1>1, <3>1, Zenon DEF UartRecord
    <2>2. /\ g \in UartRecord /\ g.SR = uart.SR \ {"RXNE"} /\ g.buf = uart.buf
          /\ h \in UartRecord
      BY <2>1, Zenon DEF UartRecord
    <2>3. uart' = IF "RXNE" \in uart.SR THEN update_irq(fill_receive_data_register(g)) ELSE update_irq(h)
      BY <1>7 DEF DRRead, USART_DR_read
    <2> HIDE DEF g, h
    <2>4. Sound(g, accepted) /\ accepted \in Nat
      BY <2>2 DEF Sound, UartInv
    <2>5. fill_receive_data_register(g) \in UartRecord
      BY <2>4, FillSound DEF Sound
    <2> QED BY <1>4, <2>2, <2>3, <2>5
  <1>8. ASSUME NEW v \in SRValues, SRWrite(v)
        PROVE  uart'.dmar = DmarLevel(uart')
    <2>1. [uart EXCEPT !.SR = SRStored(uart.SR, v)] \in UartRecord
      BY <1>1, Zenon DEF UartRecord, SRStored
    <2> QED BY <1>4, <1>8, <2>1 DEF SRWrite
  <1>9. CASE DRWrite
    <2> DEFINE s == [uart EXCEPT !.SR = uart.SR \cup {"TXE", "TC"}]
               h == [uart EXCEPT !.TDR = wrote', !.SR = uart.SR \ {"TXE"}]
    <2>1. wrote' \in Nat
      BY <1>9 DEF DRWrite, UartInv
    <2>2. s \in UartRecord
      BY <1>1, Zenon DEF UartRecord, SRBits
    <2>3. h \in UartRecord
      BY <1>1, <2>1, Zenon DEF UartRecord
    <2>4. \/ uart' = update_irq(update_irq(s))
          \/ uart' = update_irq(h)
          \/ uart' = update_irq(uart)
      BY <1>1, <1>9 DEF DRWrite, start_tx, UartRecord
    <2>5. update_irq(update_irq(s)) = update_irq(s)
      BY <2>2, UpdateIrqIdempotent
    <2> HIDE DEF s, h
    <2> QED BY <1>1, <1>4, <2>2, <2>3, <2>4, <2>5
  <1>10. ASSUME NEW v \in SUBSET CR1Bits, CR1Write(v)
         PROVE  uart'.dmar = DmarLevel(uart')
    <2>1. [uart EXCEPT !.CR1 = v] \in UartRecord
      BY <1>1 DEF UartRecord
    <2> QED BY <1>4, <1>10, <2>1 DEF CR1Write
  <1>11. ASSUME NEW v \in SUBSET CR3Bits, CR3Write(v)
         PROVE  CR3Write(uart'.CR3)
    <2>1. uart'.CR3 = v
      BY <1>1, <1>11 DEF CR3Write, UartRecord
    <2> QED BY <1>11, <2>1
  <1>12. CASE Reset
    <2>1. [uart EXCEPT !.SR = {"TC", "TXE"}, !.CR1 = {}, !.CR3 = {}, !.DR = 0] \in UartRecord
      BY <1>1, Zenon DEF UartRecord, SRBits
    <2> QED BY <1>4, <1>12, <2>1 DEF Reset, reset
  <1>13. CASE UNCHANGED uartVars
    BY <1>13 DEF uartVars, DmarLevel
  <1> QED
    BY <1>5, <1>6, <1>7, <1>8, <1>9, <1>10, <1>11, <1>12, <1>13, UartSteps

\* Both lines follow the flags: the interrupt line always, and the request line
\* until a write to CR3.
THEOREM UartLinesFollowFlags == UartSpec => LinesFollowFlags
  <1>1. UartInv' => IrqFollowsFlags'
    BY DEF UartInv, IrqFollowsFlags
  <1>2. UartInv /\ [UartNext]_uartVars => [RequestLagsOnlyByCR3]_uartVars
    BY RequestStep DEF RequestLagsOnlyByCR3
  <1>3. UartInv /\ UartInv' /\ [UartNext]_uartVars
          => [IrqFollowsFlags' /\ RequestLagsOnlyByCR3]_uartVars
    BY <1>1, <1>2
  <1> QED BY <1>3, UartInvariant, PTL DEF UartSpec, LinesFollowFlags

(***************************************************************************)
(* The USART implements ByteChannel.                                       *)
(***************************************************************************)
\* Waiting(u), with the buffer read as an interval of byte numbers.
Span(u, n) == (IF "RXNE" \in u.SR THEN {u.DR} ELSE {}) \cup (n - Len(u.buf) + 1 .. n)

\* Intervals of byte numbers: the last l of n bytes.
LEMMA Intervals ==
  ASSUME NEW n \in Nat, NEW l \in Nat, l <= n
  PROVE  /\ \A d \in 1 .. n - l : \A b \in n - l + 1 .. n : d <= b /\ ~(b <= d)
         /\ l # 0 => /\ (n - l + 1 .. n) = {n - l + 1} \cup (n - (l - 1) + 1 .. n)
                     /\ n - l + 1 \notin (n - (l - 1) + 1 .. n)
                     /\ n - l + 1 \in Nat
  OBVIOUS

\* The i-th number of an interval.
LEMMA Numbering ==
  ASSUME NEW n \in Nat, NEW l \in Nat, NEW b \in n - l + 1 .. n
  PROVE  \E i \in 1 .. l : b = (n - l) + i
  <1>1. b - (n - l) \in 1 .. l /\ b = (n - l) + (b - (n - l))
    OBVIOUS
  <1> QED BY <1>1

\* A longer interval.
LEMMA Extension ==
  ASSUME NEW n \in Nat, NEW l \in Nat, l <= n, NEW k \in Nat
  PROVE  (n - l + 1 .. n + k) = (n - l + 1 .. n) \cup (n + 1 .. n + k)
  OBVIOUS

\* The bytes that wait are those numbers.
LEMMA WaitingIsSpan ==
  ASSUME NEW u, NEW n \in Nat, Sound(u, n)
  PROVE  Waiting(u) = Span(u, n)
  <1>1. /\ u.buf \in Seq(Nat)
        /\ Len(u.buf) \in Nat
        /\ DOMAIN u.buf = 1 .. Len(u.buf)
        /\ \A i \in 1 .. Len(u.buf) : u.buf[i] = (n - Len(u.buf)) + i
        /\ Len(u.buf) <= n
    <2>1. InOrder(u.buf, n)
      BY Zenon DEF Sound
    <2>2. u.buf \in Seq(Nat)
      BY <2>1 DEF InOrder
    <2> QED BY <2>1, <2>2, LenProperties, Zenon DEF InOrder
  <1>2. ASSUME NEW b \in n - Len(u.buf) + 1 .. n
        PROVE  b \in {u.buf[i] : i \in DOMAIN u.buf}
    <2>1. PICK l \in Nat : l = Len(u.buf) /\ l <= n
      BY <1>1
    <2>2. b \in n - l + 1 .. n
      BY <2>1
    <2>3. PICK i \in 1 .. l : b = (n - l) + i
      BY <2>2, Numbering
    <2>4. i \in DOMAIN u.buf /\ u.buf[i] = b
      BY <1>1, <2>1, <2>3, Zenon
    <2> QED BY <2>4
  <1>3. \A i \in DOMAIN u.buf : u.buf[i] \in n - Len(u.buf) + 1 .. n
    BY <1>1
  <1>4. {u.buf[i] : i \in DOMAIN u.buf} = n - Len(u.buf) + 1 .. n
    BY <1>2, <1>3, Zenon
  <1> QED BY <1>4, Zenon DEF Waiting, Span

\* stm32_uart_update_irq changes no byte.
LEMMA UpdateIrqKeeps ==
  ASSUME NEW u \in UartRecord
  PROVE  /\ update_irq(u).SR = u.SR
         /\ update_irq(u).DR = u.DR
         /\ update_irq(u).buf = u.buf
         /\ update_irq(u).CR1 = u.CR1
  BY DEF UartRecord, update_irq

\* The byte in the data register is older than those in the buffer.
LEMMA OldestIsDR ==
  ASSUME NEW u, NEW n \in Nat, Sound(u, n), "RXNE" \in u.SR
  PROVE  /\ Channel!Oldest(Span(u, n)) = {u.DR}
         /\ Span(u, n) \ {u.DR} = n - Len(u.buf) + 1 .. n
  <1>1. u.DR \in 1 .. n - Len(u.buf) /\ Len(u.buf) \in Nat /\ Len(u.buf) <= n
    BY DEF Sound, InOrder
  <1>2. Span(u, n) = {u.DR} \cup (n - Len(u.buf) + 1 .. n)
    BY DEF Span
  <1>3. \A b \in n - Len(u.buf) + 1 .. n : u.DR <= b /\ ~(b <= u.DR) /\ b # u.DR
    BY <1>1, Intervals
  <1>4. ASSUME NEW c \in Span(u, n)
        PROVE  u.DR <= c
    <2>1. u.DR <= u.DR
      BY <1>1
    <2> QED BY <1>2, <1>3, <2>1
  <1> QED BY <1>1, <1>2, <1>3, <1>4, Zenon DEF Channel!Oldest

\* A loss the channel allows: none, or one byte while the receiver is off.
Loses(u, before, after) ==
  \/ after = before
  \/ ~Enabled(u) /\ \E b \in before : after = before \ {b}

\* The refill moves a byte to the data register, or drops it while the receiver
\* is off.
LEMMA FillKeeps ==
  ASSUME NEW u, NEW n \in Nat, Sound(u, n)
  PROVE  /\ Loses(u, Span(u, n), Span(fill_receive_data_register(u), n))
         /\ fill_receive_data_register(u).CR1 = u.CR1
  <1> DEFINE f == fill_receive_data_register(u)
  <1>1. CASE u.buf = <<>> \/ (Enabled(u) /\ "RXNE" \in u.SR)
    BY <1>1 DEF fill_receive_data_register, Loses
  <1>2. CASE ~(u.buf = <<>> \/ (Enabled(u) /\ "RXNE" \in u.SR))
    <2> DEFINE popped == [u EXCEPT !.buf = Tail(u.buf)]
    <2>1. /\ u \in UartRecord
          /\ u.buf # <<>>
          /\ InOrder(u.buf, n)
          /\ u.buf \in Seq(Nat)
      BY <1>2 DEF Sound, InOrder
    <2>2. /\ Len(Tail(u.buf)) = Len(u.buf) - 1
          /\ Len(u.buf) \in Nat \ {0}
          /\ Len(u.buf) <= n
          /\ Tail(u.buf) \in Seq(Nat)
          /\ Head(u.buf) = n - Len(u.buf) + 1
      <3>1. /\ Len(Tail(u.buf)) = Len(u.buf) - 1
            /\ Len(u.buf) \in Nat \ {0}
            /\ InOrder(Tail(u.buf), n)
        BY <2>1, TailInOrder
      <3>2. Head(u.buf) = u.buf[1]
        BY <2>1
      <3>3. 1 \in 1 .. Len(u.buf)
        BY <3>1
      <3>4. u.buf[1] = (n - Len(u.buf)) + 1
        BY <2>1, <3>3 DEF InOrder
      <3>5. Len(u.buf) <= n /\ Tail(u.buf) \in Seq(Nat)
        BY <2>1, <3>1 DEF InOrder
      <3> QED BY <3>1, <3>2, <3>4, <3>5
    <2> DEFINE b == n - Len(u.buf) + 1
    <2>3. /\ Head(u.buf) = b
          /\ b \in Nat
          /\ (n - Len(u.buf) + 1 .. n) = {b} \cup (n - Len(Tail(u.buf)) + 1 .. n)
          /\ b \notin (n - Len(Tail(u.buf)) + 1 .. n)
      <3>1. PICK l \in Nat : l = Len(u.buf) /\ l <= n /\ l # 0 /\ Len(Tail(u.buf)) = l - 1
        BY <2>2
      <3>2. /\ (n - l + 1 .. n) = {n - l + 1} \cup (n - (l - 1) + 1 .. n)
            /\ n - l + 1 \notin (n - (l - 1) + 1 .. n)
            /\ n - l + 1 \in Nat
        BY <3>1, Intervals
      <3> QED BY <2>2, <3>1, <3>2
    <2>4. CASE Enabled(u)
      <3> DEFINE g == [u EXCEPT !.buf = Tail(u.buf), !.SR = u.SR \cup {"RXNE"}, !.DR = Head(u.buf)]
      <3>1. "RXNE" \notin u.SR
        BY <1>2, <2>4
      <3>2. f = update_irq(g)
        BY <1>2, <2>1, <2>4, <3>1 DEF fill_receive_data_register, UartRecord
      <3>3. /\ g \in UartRecord
            /\ g.SR = u.SR \cup {"RXNE"}
            /\ g.DR = Head(u.buf)
            /\ g.buf = Tail(u.buf)
            /\ g.CR1 = u.CR1
        BY <2>1, <2>2, <2>3 DEF UartRecord, SRBits
      <3> HIDE DEF g
      <3>4. /\ "RXNE" \in f.SR
            /\ f.DR = b
            /\ f.buf = Tail(u.buf)
            /\ f.CR1 = u.CR1
        BY <2>3, <3>2, <3>3, UpdateIrqKeeps
      <3> HIDE DEF f, b
      <3>5. Span(f, n) = {b} \cup (n - Len(Tail(u.buf)) + 1 .. n)
        BY <3>4 DEF Span
      <3>6. Span(u, n) = (n - Len(u.buf) + 1 .. n)
        BY <3>1 DEF Span
      <3> QED BY <2>3, <3>4, <3>5, <3>6 DEF Loses, f
    <2>5. CASE ~Enabled(u)
      <3>1. f = popped
        BY <1>2, <2>5 DEF fill_receive_data_register
      <3>2. f.SR = u.SR /\ f.DR = u.DR /\ f.buf = Tail(u.buf) /\ f.CR1 = u.CR1
        BY <2>1, <3>1 DEF UartRecord
      <3> HIDE DEF f
      <3>3. "RXNE" \in u.SR => u.DR # b
        <4>1. Len(u.buf) \in Nat /\ b = n - Len(u.buf) + 1 /\ b \in n - Len(u.buf) + 1 .. n
          BY <2>2, <2>3
        <4>2. "RXNE" \in u.SR => u.DR \in 1 .. n - Len(u.buf)
          BY DEF Sound
        <4>3. \A d \in 1 .. n - Len(u.buf) : ~(b <= d)
          BY <2>2, <4>1, Intervals
        <4>4. b <= b
          BY <2>3
        <4> HIDE DEF b
        <4> QED BY <4>2, <4>3, <4>4
      <3> HIDE DEF b
      <3>4. b \in Span(u, n)
        BY <2>3 DEF Span
      <3>5. Span(f, n) = Span(u, n) \ {b}
        BY <2>3, <3>2, <3>3 DEF Span
      <3> QED BY <2>5, <3>2, <3>4, <3>5 DEF Loses, f
    <2> QED BY <2>4, <2>5
  <1> QED BY <1>1, <1>2

\* New bytes join those that wait.
LEMMA ReceiveKeeps ==
  ASSUME NEW u, NEW t, NEW n \in Nat, Sound(u, n), Fresh(t, n)
  PROVE  /\ Loses(u, Span(u, n) \cup (n + 1 .. n + Len(t)), Span(receive(u, t), n + Len(t)))
         /\ receive(u, t).CR1 = u.CR1
  <1> DEFINE g == [u EXCEPT !.buf = u.buf \o t]
             m == n + Len(t)
  <1>1. /\ InOrder(u.buf \o t, m)
        /\ Len(u.buf \o t) = Len(u.buf) + Len(t)
        /\ Len(u.buf) \in Nat
        /\ Len(t) \in Nat
        /\ Len(u.buf) <= n
    <2>1. InOrder(u.buf, n)
      BY DEF Sound
    <2>2. Len(u.buf) <= n
      BY <2>1 DEF InOrder
    <2> QED BY <2>1, <2>2, AppendInOrder
  <1>2. u.buf \o t \in Seq(Nat)
    BY <1>1 DEF InOrder
  <1>3. /\ g \in UartRecord
        /\ g.buf = u.buf \o t
        /\ g.SR = u.SR /\ g.CR1 = u.CR1 /\ g.DR = u.DR
    BY <1>2 DEF Sound, UartRecord
  <1>4. receive(u, t) = fill_receive_data_register(g)
    BY DEF receive
  <1> HIDE DEF g
  <1>5. m - Len(g.buf) = n - Len(u.buf) /\ m \in Nat
    <2>1. Len(g.buf) = Len(u.buf) + Len(t)
      BY <1>1, <1>3, Zenon
    <2>2. PICK l \in Nat, k \in Nat : l = Len(u.buf) /\ k = Len(t)
      BY <1>1, Zenon
    <2> QED BY <2>1, <2>2
  <1>6. Sound(g, m)
    BY <1>1, <1>3, <1>5 DEF Sound
  <1>7. (m - Len(g.buf) + 1 .. m) = (n - Len(u.buf) + 1 .. n) \cup (n + 1 .. m)
    <2>1. PICK l \in Nat, k \in Nat : l = Len(u.buf) /\ l <= n /\ k = Len(t)
      BY <1>1
    <2>2. (n - l + 1 .. n + k) = (n - l + 1 .. n) \cup (n + 1 .. n + k)
      <3>1. l <= n
        BY <2>1
      <3> QED BY <3>1, Extension, Zenon
    <2>3. m - Len(g.buf) = n - l /\ m = n + k
      BY <1>5, <2>1
    <2> HIDE DEF m
    <2> QED BY <2>1, <2>2, <2>3
  <1>8. Span(g, m) = Span(u, n) \cup (n + 1 .. m)
    BY <1>3, <1>7 DEF Span
  <1>9. Enabled(g) = Enabled(u)
    BY <1>3 DEF Enabled
  <1> QED BY <1>3, <1>4, <1>5, <1>6, <1>8, <1>9, FillKeeps DEF Loses

\* A read delivers the oldest byte.
LEMMA DRReadKeeps ==
  ASSUME NEW u, NEW n \in Nat, Sound(u, n)
  PROVE  /\ "RXNE" \in u.SR => Loses(u, Span(u, n) \ {u.DR}, Span(USART_DR_read(u), n))
         /\ "RXNE" \notin u.SR => Span(USART_DR_read(u), n) = Span(u, n)
         /\ USART_DR_read(u).CR1 = u.CR1
  <1> DEFINE ack == [u EXCEPT !.SR = IF u.sr_read_since_ore_set THEN u.SR \ {"ORE"} ELSE u.SR]
  <1>0. u \in UartRecord
    BY DEF Sound
  <1>1. ack = u
    <2>1. u = [u EXCEPT !.SR = u.SR]
      BY <1>0 DEF UartRecord
    <2>2. u.SR \ {"ORE"} = u.SR
      BY DEF Sound
    <2> QED BY <2>1, <2>2
  <1>2. CASE "RXNE" \in u.SR
    <2> DEFINE g == [u EXCEPT !.SR = u.SR \ {"RXNE"}]
               f == fill_receive_data_register(g)
    <2>1. USART_DR_read(u) = update_irq(f)
      BY <1>1, <1>2 DEF USART_DR_read
    <2>2. g \in UartRecord /\ g.SR = u.SR \ {"RXNE"} /\ g.buf = u.buf /\ g.CR1 = u.CR1
      BY <1>0 DEF UartRecord
    <2> HIDE DEF g
    <2>3. Sound(g, n)
      BY <2>2 DEF Sound
    <2>4. Span(g, n) = Span(u, n) \ {u.DR} /\ Enabled(g) = Enabled(u)
      BY <1>2, <2>2, OldestIsDR DEF Span, Enabled
    <2>5. Loses(g, Span(g, n), Span(f, n)) /\ f.CR1 = u.CR1
      BY <2>2, <2>3, FillKeeps
    <2>6. f \in UartRecord
      BY <2>3, FillSound DEF Sound
    <2> HIDE DEF f
    <2>7. Span(update_irq(f), n) = Span(f, n) /\ update_irq(f).CR1 = f.CR1
      BY <2>6, UpdateIrqKeeps DEF Span
    <2> QED BY <1>2, <2>1, <2>4, <2>5, <2>7 DEF Loses
  <1>3. CASE "RXNE" \notin u.SR
    <2> DEFINE g == [u EXCEPT !.DR = 0]
    <2>1. USART_DR_read(u) = update_irq(g)
      BY <1>1, <1>3 DEF USART_DR_read
    <2>2. g \in UartRecord /\ g.SR = u.SR /\ g.buf = u.buf /\ g.CR1 = u.CR1
      BY <1>0 DEF UartRecord
    <2> HIDE DEF g
    <2> QED BY <1>3, <2>1, <2>2, UpdateIrqKeeps DEF Span
  <1> QED BY <1>2, <1>3

(***************************************************************************)
(* Each handler of the USART is a step of the channel or stutters.         *)
(***************************************************************************)
\* An arrival is a step Arrive.
LEMMA ArrivalRefines ==
  ASSUME UartInv, UartInv', NEW t, Fresh(t, accepted), Len(t) \in Nat \ {0},
         uart' = receive(uart, t), accepted' = accepted + Len(t), got' = got
  PROVE  Channel!Arrive
  <1>1. /\ accepted \in Nat /\ accepted' \in Nat
        /\ Sound(uart, accepted) /\ Sound(uart', accepted')
    BY DEF UartInv
  <1>2. Waiting(uart) = Span(uart, accepted) /\ Waiting(uart)' = Span(uart', accepted')
    <2>1. Waiting(uart') = Span(uart', accepted')
      BY <1>1, WaitingIsSpan
    <2> QED BY <1>1, <2>1, WaitingIsSpan DEF Waiting
  <1>3. /\ Loses(uart, Span(uart, accepted) \cup (accepted + 1 .. accepted'), Span(uart', accepted'))
        /\ uart'.CR1 = uart.CR1
    BY <1>1, ReceiveKeeps
  <1>4. Enabled(uart)' = Enabled(uart)
    BY <1>3 DEF Enabled
  <1>5. accepted' \in Nat /\ accepted' > accepted
    BY <1>1
  <1> QED BY <1>2, <1>3, <1>4, <1>5 DEF Channel!Arrive, Channel!Keeps, Loses

\* A read that finds RXNE set is a step Deliver, any other read a stutter.
LEMMA ReadRefines ==
  ASSUME UartInv, UartInv', DRRead, got' = IF nread' # nread THEN DataRead(uart) ELSE got
  PROVE  Channel!Deliver \/ UNCHANGED Channel!channelVars
  <1>1. /\ accepted \in Nat /\ accepted' = accepted /\ nread \in Nat
        /\ Sound(uart, accepted) /\ Sound(uart', accepted)
        /\ uart' = USART_DR_read(uart)
        /\ nread' = IF "RXNE" \in uart.SR THEN nread + 1 ELSE nread
    BY DEF UartInv, DRRead
  <1>2. Waiting(uart) = Span(uart, accepted) /\ Waiting(uart)' = Span(uart', accepted)
    <2>1. Waiting(uart') = Span(uart', accepted)
      BY <1>1, WaitingIsSpan
    <2> QED BY <1>1, <2>1, WaitingIsSpan DEF Waiting
  <1>3. uart'.CR1 = uart.CR1
    BY <1>1, DRReadKeeps
  <1>4. Enabled(uart)' = Enabled(uart)
    BY <1>3 DEF Enabled
  <1>5. CASE "RXNE" \in uart.SR
    <2>1. got' = uart.DR
      BY <1>1, <1>5 DEF DataRead
    <2>2. /\ Channel!Oldest(Span(uart, accepted)) = {uart.DR}
          /\ Loses(uart, Span(uart, accepted) \ {uart.DR}, Span(uart', accepted))
      BY <1>1, <1>5, OldestIsDR, DRReadKeeps
    <2> QED BY <1>1, <1>2, <1>4, <2>1, <2>2 DEF Channel!Deliver, Channel!Keeps, Loses
  <1>6. CASE "RXNE" \notin uart.SR
    <2>1. got' = got /\ Span(uart', accepted) = Span(uart, accepted)
      BY <1>1, <1>6, DRReadKeeps
    <2> QED BY <1>1, <1>2, <1>4, <2>1 DEF Channel!channelVars
  <1> QED BY <1>5, <1>6

\* A handler that leaves the buffer alone and at most clears RXNE is a step
\* Control.
LEMMA ControlRefines ==
  ASSUME UartInv, UartInv', accepted' = accepted, got' = got, uart'.buf = uart.buf,
         \/ "RXNE" \notin uart'.SR
         \/ "RXNE" \in uart.SR /\ uart'.DR = uart.DR
  PROVE  Channel!Control
  <1>1. accepted \in Nat /\ Sound(uart, accepted) /\ Sound(uart', accepted)
    BY DEF UartInv
  <1>2. Waiting(uart) = Span(uart, accepted) /\ Waiting(uart)' = Span(uart', accepted)
    <2>1. Waiting(uart') = Span(uart', accepted)
      BY <1>1, WaitingIsSpan
    <2> QED BY <1>1, <2>1, WaitingIsSpan DEF Waiting
  <1>3. Enabled(uart)' \in BOOLEAN
    BY DEF Enabled
  <1>4. CASE "RXNE" \in uart'.SR \/ "RXNE" \notin uart.SR
    <2>1. Span(uart', accepted) = Span(uart, accepted)
      BY <1>4 DEF Span
    <2> QED BY <1>2, <1>3, <2>1 DEF Channel!Control
  <1>5. CASE "RXNE" \notin uart'.SR /\ "RXNE" \in uart.SR
    <2>1. Span(uart', accepted) = accepted - Len(uart.buf) + 1 .. accepted
      BY <1>5 DEF Span
    <2>2. Span(uart', accepted) = Span(uart, accepted) \ Channel!Oldest(Span(uart, accepted))
      BY <1>1, <1>5, <2>1, OldestIsDR
    <2> QED BY <1>2, <1>3, <2>2 DEF Channel!Control
  <1> QED BY <1>4, <1>5

\* Other accesses and a reset leave the buffer alone; the data register keeps its
\* byte or loses its flag.
LEMMA ControlKeeps ==
  ASSUME UartInv, UartInv',
         \/ SRRead
         \/ \E v \in SRValues : SRWrite(v)
         \/ DRWrite
         \/ \E v \in SUBSET CR1Bits : CR1Write(v)
         \/ \E v \in SUBSET CR3Bits : CR3Write(v)
         \/ Reset
  PROVE  /\ uart'.buf = uart.buf
         /\ \/ "RXNE" \notin uart'.SR
            \/ "RXNE" \in uart.SR /\ uart'.DR = uart.DR
  <1>0. uart \in UartRecord
    BY DEF UartInv, Sound
  <1>1. CASE SRRead
    BY <1>0, <1>1 DEF SRRead, UartRecord
  <1>2. CASE \E v \in SRValues : SRWrite(v)
    <2>1. PICK v \in SRValues : SRWrite(v)
      BY <1>2
    <2>2. SRStored(uart.SR, v) \subseteq uart.SR
      BY DEF SRStored
    <2> QED BY <1>0, <2>1, <2>2 DEF SRWrite, UartRecord, update_irq
  <1>3. CASE DRWrite
    <2> DEFINE s == [uart EXCEPT !.SR = uart.SR \cup {"TXE", "TC"}]
               h == [uart EXCEPT !.TDR = wrote', !.SR = uart.SR \ {"TXE"}]
    <2>1. /\ s \in UartRecord /\ s.DR = uart.DR /\ s.buf = uart.buf
          /\ s.SR = uart.SR \cup {"TXE", "TC"}
      BY <1>0 DEF UartRecord, SRBits
    <2>2. wrote' \in Nat
      BY DEF UartInv
    <2>3. /\ h \in UartRecord /\ h.DR = uart.DR /\ h.buf = uart.buf
          /\ h.SR = uart.SR \ {"TXE"}
      BY <1>0, <2>2 DEF UartRecord
    <2>4. h = [uart EXCEPT !.TDR = wrote', !.SR = @ \ {"TXE"}]
      BY <1>0 DEF UartRecord
    <2>5. uart' \in {update_irq(s), update_irq(h), update_irq(uart)}
      <3>1. update_irq(update_irq(s)) = update_irq(s)
        BY <2>1, UpdateIrqIdempotent
      <3> QED BY <1>3, <2>4, <3>1 DEF DRWrite, start_tx
    <2> HIDE DEF s, h
    <2> QED BY <1>0, <2>1, <2>3, <2>5, UpdateIrqKeeps
  <1>4. CASE \E v \in SUBSET CR1Bits : CR1Write(v)
    BY <1>0, <1>4 DEF CR1Write, UartRecord, update_irq
  <1>5. CASE \E v \in SUBSET CR3Bits : CR3Write(v)
    BY <1>0, <1>5 DEF CR3Write, UartRecord
  <1>6. CASE Reset
    BY <1>0, <1>6 DEF Reset, reset, UartRecord, update_irq
  <1> QED BY <1>1, <1>2, <1>3, <1>4, <1>5, <1>6

\* Every step of the USART is a step of the channel.
LEMMA StepRefines ==
  UartInv /\ UartInv' /\ [RxNext]_rxVars => [Channel!ChannelNext]_Channel!channelVars
  <1> SUFFICES ASSUME UartInv, UartInv', [RxNext]_rxVars
               PROVE  Channel!ChannelNext \/ UNCHANGED Channel!channelVars
    OBVIOUS
  <1>1. uart \in UartRecord /\ accepted \in Nat /\ Len(uart.buf) \in Nat /\ USART_RCV_BUF_LEN \in Nat
    BY UartAssumption DEF UartInv, Sound, InOrder
  <1> DEFINE Got == got' = IF nread' # nread THEN DataRead(uart) ELSE got
             Goal == Channel!ChannelNext \/ UNCHANGED Channel!channelVars
  <1> USE DEF Channel!ChannelNext
  <1>2. ASSUME NEW k \in 1 .. USART_RCV_BUF_LEN, Receive(k), Got
        PROVE  Goal
    <2> DEFINE t == [i \in 1 .. k |-> accepted + i]
    <2>1. Fresh(t, accepted) /\ Len(t) = k
      BY <1>1 DEF Fresh
    <2>2. uart' = receive(uart, t) /\ accepted' = accepted + k /\ got' = got
      BY <1>2 DEF Receive
    <2> HIDE DEF t
    <2> QED BY <2>1, <2>2, ArrivalRefines
  <1>3. ASSUME RxWrapper, Got
        PROVE  Goal
    <2> DEFINE t == <<accepted + 1>>
    <2>1. got' = got
      BY <1>3 DEF RxWrapper
    <2>2. CASE can_receive(uart) > 0
      <3>1. Fresh(t, accepted) /\ Len(t) = 1
        BY <1>1 DEF Fresh
      <3>2. uart' = receive(uart, t) /\ accepted' = accepted + Len(t)
        BY <1>3, <2>2, <3>1 DEF RxWrapper
      <3>3. Len(t) \in Nat \ {0}
        BY <3>1
      <3> HIDE DEF t
      <3> QED BY <2>1, <3>1, <3>2, <3>3, ArrivalRefines
    <2>3. CASE ~(can_receive(uart) > 0)
      <3>1. UNCHANGED <<uart, accepted>>
        BY <1>3, <2>3 DEF RxWrapper
      <3> QED BY <2>1, <3>1 DEF Channel!channelVars, Waiting, Enabled
    <2> QED BY <2>2, <2>3
  <1>4. ASSUME DRRead, Got
        PROVE  Goal
    BY <1>4, ReadRefines
  <1>5. ASSUME \/ SRRead
               \/ \E v \in SRValues : SRWrite(v)
               \/ DRWrite
               \/ \E v \in SUBSET CR1Bits : CR1Write(v)
               \/ \E v \in SUBSET CR3Bits : CR3Write(v)
               \/ Reset,
               Got
        PROVE  Goal
    <2>1. accepted' = accepted /\ got' = got
      BY <1>5 DEF SRRead, SRWrite, DRWrite, CR1Write, CR3Write, Reset
    <2>2. /\ uart'.buf = uart.buf
          /\ \/ "RXNE" \notin uart'.SR
             \/ "RXNE" \in uart.SR /\ uart'.DR = uart.DR
      BY <1>5, ControlKeeps
    <2> QED BY <2>1, <2>2, ControlRefines
  <1>6. CASE UNCHANGED rxVars
    BY <1>6 DEF rxVars, uartVars, Channel!channelVars, Waiting, Enabled
  <1> QED BY <1>2, <1>3, <1>4, <1>5, <1>6, UartSteps DEF RxNext

\* The USART, with the history of what was read, implements the byte channel.
THEOREM UartImplementsChannel == RxSpec => ImplementsChannel
  <1>1. RxInit => Channel!ChannelInit
    BY DEF RxInit, UartInit, Channel!ChannelInit, Waiting, Enabled
  <1>2. RxSpec => []UartInv
    <2>1. RxInit => UartInv
      BY UartInitInv DEF RxInit
    <2>2. UartInv /\ [RxNext]_rxVars => UartInv'
      BY UartNextInv DEF RxNext, rxVars, uartVars
    <2> QED BY <2>1, <2>2, PTL DEF RxSpec
  <1> QED BY <1>1, <1>2, StepRefines, PTL DEF RxSpec, ImplementsChannel, Channel!ChannelSpec
(***************************************************************************)
(* What a guest may conclude from the abstract specification alone.        *)
(***************************************************************************)
\* A byte channel delivers in the order of arrival and never repeats a byte.
LEMMA ChannelOrder == Channel!ChannelSpec => []Channel!ChannelInOrder
  <1> DEFINE Inv == Channel!ChannelInOrder
  <1> USE DEF Channel!ChannelInOrder
  <1>1. Channel!ChannelInit => Inv
    BY DEF Channel!ChannelInit
  <1>2. Inv /\ [Channel!ChannelNext]_Channel!channelVars => Inv'
    <2> SUFFICES ASSUME Inv, [Channel!ChannelNext]_Channel!channelVars
                 PROVE  Inv'
      OBVIOUS
    <2>1. CASE Channel!Arrive
      <3>1. Waiting(uart)' \subseteq Waiting(uart) \cup (accepted + 1 .. accepted')
        BY <2>1 DEF Channel!Arrive, Channel!Keeps
      <3>2. accepted' \in Nat /\ accepted' > accepted /\ got' = got
        BY <2>1 DEF Channel!Arrive
      <3> QED BY <3>1, <3>2
    <2>2. CASE Channel!Deliver
      <3>1. got' \in Waiting(uart) /\ \A c \in Waiting(uart) : got' <= c
        BY <2>2 DEF Channel!Deliver, Channel!Oldest
      <3>2. Waiting(uart)' \subseteq Waiting(uart) \ {got'}
        BY <2>2 DEF Channel!Deliver, Channel!Keeps
      <3>3. accepted' = accepted
        BY <2>2 DEF Channel!Deliver
      <3> QED BY <3>1, <3>2, <3>3
    <2>3. CASE Channel!Control
      BY <2>3 DEF Channel!Control
    <2>4. CASE UNCHANGED Channel!channelVars
      BY <2>4 DEF Channel!channelVars
    <2> QED BY <2>1, <2>2, <2>3, <2>4 DEF Channel!ChannelNext
  <1> QED BY <1>1, <1>2, PTL DEF Channel!ChannelSpec

\* Therefore every byte that waits in the USART is newer than the one the guest
\* read last.
THEOREM UartDeliversInOrder == RxSpec => []Channel!ChannelInOrder
  BY UartImplementsChannel, ChannelOrder, PTL DEF ImplementsChannel

(***************************************************************************)
(* Losses and stalls: what each function does to the number of bytes that  *)
(* wait and to the flags.                                                  *)
(***************************************************************************)
\* All flags but RXNE.
Others(u) == u.SR \ {"RXNE"}

\* With the receiver on, the refill neither loses a byte nor leaves one waiting
\* behind an empty data register.
LEMMA FillCounts ==
  ASSUME NEW u, NEW n \in Nat, Sound(u, n)
  PROVE  /\ Enabled(u) => /\ Pending(fill_receive_data_register(u)) = Pending(u)
                          /\ ~Stalled(fill_receive_data_register(u))
         /\ ~Enabled(u) => ~Stalled(fill_receive_data_register(u))
         /\ Pending(fill_receive_data_register(u)) <= Pending(u)
         /\ Others(fill_receive_data_register(u)) = Others(u)
  <1> DEFINE f == fill_receive_data_register(u)
  <1>0. /\ u \in UartRecord /\ u.buf \in Seq(Nat) /\ Len(u.buf) \in Nat
        /\ "ORE" \notin u.SR
    BY DEF Sound, InOrder
  <1>1. CASE u.buf = <<>> \/ (Enabled(u) /\ "RXNE" \in u.SR)
    <2>1. f = u
      BY <1>1 DEF fill_receive_data_register
    <2>2. Pending(u) <= Pending(u)
      BY <1>0 DEF Pending
    <2> QED BY <1>1, <2>1, <2>2 DEF Stalled
  <1>2. CASE ~(u.buf = <<>> \/ (Enabled(u) /\ "RXNE" \in u.SR))
    <2>1. /\ u.buf # <<>>
          /\ Tail(u.buf) \in Seq(Nat)
          /\ Len(u.buf) \in Nat \ {0}
          /\ Len(Tail(u.buf)) = Len(u.buf) - 1
          /\ Head(u.buf) \in Nat
      BY <1>0, <1>2
    <2>2. CASE Enabled(u)
      <3> DEFINE g == [u EXCEPT !.buf = Tail(u.buf), !.SR = u.SR \cup {"RXNE"}, !.DR = Head(u.buf)]
      <3>1. "RXNE" \notin u.SR
        BY <1>2, <2>2
      <3>2. f = update_irq(g)
        BY <1>0, <1>2, <2>2, <3>1 DEF fill_receive_data_register, UartRecord
      <3>3. g \in UartRecord /\ g.SR = u.SR \cup {"RXNE"} /\ g.buf = Tail(u.buf)
        BY <1>0, <2>1 DEF UartRecord, SRBits
      <3> HIDE DEF g
      <3>4. f.SR = u.SR \cup {"RXNE"} /\ f.buf = Tail(u.buf)
        BY <3>2, <3>3, UpdateIrqKeeps
      <3> HIDE DEF f
      <3>5. Pending(f) = Pending(u) /\ Pending(f) <= Pending(u)
        BY <2>1, <3>1, <3>4 DEF Pending
      <3>6. ~Stalled(f) /\ Others(f) = Others(u)
        BY <3>4 DEF Stalled, Others
      <3> QED BY <2>2, <3>5, <3>6 DEF f
    <2>3. CASE ~Enabled(u)
      <3>1. f = [u EXCEPT !.buf = Tail(u.buf)]
        BY <1>2, <2>3 DEF fill_receive_data_register
      <3>2. f.SR = u.SR /\ f.buf = Tail(u.buf) /\ f.CR1 = u.CR1
        BY <1>0, <3>1 DEF UartRecord
      <3> HIDE DEF f
      <3>3. Pending(f) <= Pending(u)
        BY <2>1, <3>2 DEF Pending
      <3>4. ~Stalled(f) /\ Others(f) = Others(u)
        BY <2>3, <3>2 DEF Stalled, Others, Enabled
      <3> QED BY <2>3, <3>3, <3>4 DEF f
    <2> QED BY <2>2, <2>3
  <1> QED BY <1>1, <1>2

\* Bytes that arrive while the receiver is on are all kept, and end a stall.
LEMMA ReceiveCounts ==
  ASSUME NEW u, NEW t, NEW n \in Nat, Sound(u, n), Fresh(t, n)
  PROVE  /\ Enabled(u) => Pending(receive(u, t)) = Pending(u) + Len(t)
         /\ ~Stalled(receive(u, t))
         /\ Others(receive(u, t)) = Others(u)
  <1> DEFINE g == [u EXCEPT !.buf = u.buf \o t]
  <1>1. /\ InOrder(u.buf \o t, n + Len(t))
        /\ Len(u.buf \o t) = Len(u.buf) + Len(t)
        /\ Len(u.buf) \in Nat
        /\ Len(t) \in Nat
    BY AppendInOrder DEF Sound
  <1>2. u.buf \o t \in Seq(Nat)
    BY <1>1 DEF InOrder
  <1>3. /\ g \in UartRecord
        /\ g.buf = u.buf \o t
        /\ g.SR = u.SR /\ g.CR1 = u.CR1 /\ g.DR = u.DR
    BY <1>2 DEF Sound, UartRecord
  <1> HIDE DEF g
  <1>4. Sound(g, n + Len(t))
    <2>1. (n + Len(t)) - Len(u.buf \o t) = n - Len(u.buf)
      BY <1>1
    <2> QED BY <1>1, <1>3, <2>1 DEF Sound
  <1>5. receive(u, t) = fill_receive_data_register(g)
    BY DEF receive, g
  <1>6. /\ Enabled(g) <=> Enabled(u)
        /\ Others(g) = Others(u)
    BY <1>3 DEF Enabled, Others
  <1>7. Pending(g) = Pending(u) + Len(t)
    <2>1. PICK l \in Nat, k \in Nat : l = Len(u.buf) /\ k = Len(t) /\ Len(g.buf) = l + k
      BY <1>1, <1>3
    <2>2. PICK e \in {0, 1} : e = IF "RXNE" \in u.SR THEN 1 ELSE 0
      OBVIOUS
    <2>3. Pending(g) = (l + k) + e /\ Pending(u) = l + e
      BY <1>3, <2>1, <2>2, Zenon DEF Pending
    <2>4. (l + k) + e = (l + e) + k
      OBVIOUS
    <2>5. Pending(u) + Len(t) = (l + e) + k
      BY <2>1, <2>3, Zenon
    <2> QED BY <2>3, <2>4, <2>5, Zenon
  <1>8. n + Len(t) \in Nat
    BY <1>1
  <1> QED BY <1>4, <1>5, <1>6, <1>7, <1>8, FillCounts

\* A read of USART_DR takes exactly the byte it returns while the receiver is
\* on, and refills the data register.
LEMMA DRReadCounts ==
  ASSUME NEW u, NEW n \in Nat, Sound(u, n)
  PROVE  /\ "RXNE" \in u.SR => /\ Enabled(u) => Pending(USART_DR_read(u)) = Pending(u) - 1
                               /\ Pending(USART_DR_read(u)) <= Pending(u) - 1
                               /\ ~Stalled(USART_DR_read(u))
         /\ "RXNE" \notin u.SR => /\ Pending(USART_DR_read(u)) = Pending(u)
                                  /\ Stalled(USART_DR_read(u)) <=> Stalled(u)
         /\ Others(USART_DR_read(u)) = Others(u)
  <1> DEFINE ack == [u EXCEPT !.SR = IF u.sr_read_since_ore_set THEN u.SR \ {"ORE"} ELSE u.SR]
  <1>0. u \in UartRecord /\ Len(u.buf) \in Nat
    BY DEF Sound, InOrder
  <1>1. ack = u
    <2>1. u = [u EXCEPT !.SR = u.SR]
      BY <1>0 DEF UartRecord
    <2>2. u.SR \ {"ORE"} = u.SR
      BY DEF Sound
    <2> QED BY <2>1, <2>2
  <1>2. CASE "RXNE" \in u.SR
    <2> DEFINE g == [u EXCEPT !.SR = u.SR \ {"RXNE"}]
               f == fill_receive_data_register(g)
    <2>1. USART_DR_read(u) = update_irq(f)
      BY <1>1, <1>2 DEF USART_DR_read
    <2>2. g \in UartRecord /\ g.SR = u.SR \ {"RXNE"} /\ g.buf = u.buf /\ g.CR1 = u.CR1
      BY <1>0 DEF UartRecord
    <2> HIDE DEF g
    <2>3. Sound(g, n)
      BY <2>2 DEF Sound
    <2>4. /\ Pending(g) = Pending(u) - 1
          /\ Enabled(g) <=> Enabled(u)
          /\ Others(g) = Others(u)
      BY <1>0, <1>2, <2>2 DEF Pending, Enabled, Others
    <2>5. f \in UartRecord
      BY <2>3, FillSound DEF Sound
    <2>6. /\ Enabled(u) => Pending(f) = Pending(u) - 1
          /\ Pending(f) <= Pending(u) - 1
          /\ ~Stalled(f)
          /\ Others(f) = Others(u)
      BY <2>3, <2>4, FillCounts
    <2> HIDE DEF f
    <2>7. /\ Pending(update_irq(f)) = Pending(f)
          /\ Stalled(update_irq(f)) <=> Stalled(f)
          /\ Others(update_irq(f)) = Others(f)
      BY <2>5, UpdateIrqKeeps DEF Pending, Stalled, Others, Enabled
    <2> QED BY <1>2, <2>1, <2>6, <2>7
  <1>3. CASE "RXNE" \notin u.SR
    <2> DEFINE g == [u EXCEPT !.DR = 0]
    <2>1. USART_DR_read(u) = update_irq(g)
      BY <1>1, <1>3 DEF USART_DR_read
    <2>2. g \in UartRecord /\ g.SR = u.SR /\ g.buf = u.buf /\ g.CR1 = u.CR1
      BY <1>0 DEF UartRecord
    <2> HIDE DEF g
    <2>3. /\ update_irq(g).SR = u.SR /\ update_irq(g).buf = u.buf
          /\ update_irq(g).CR1 = u.CR1
      BY <2>2, UpdateIrqKeeps
    <2> QED BY <1>3, <2>1, <2>3 DEF Pending, Stalled, Others, Enabled
  <1> QED BY <1>2, <1>3

\* The number of bytes that wait.
LEMMA PendingCounts ==
  ASSUME NEW u, NEW n \in Nat, Sound(u, n)
  PROVE  Pending(u) \in Nat /\ Pending(u) <= Len(u.buf) + 1
  <1>1. PICK l \in Nat, e \in {0, 1} : l = Len(u.buf) /\ e = IF "RXNE" \in u.SR THEN 1 ELSE 0
    BY DEF Sound, InOrder
  <1>2. Pending(u) = l + e
    BY <1>1, Zenon DEF Pending
  <1>3. l + e \in Nat /\ l + e <= l + 1
    OBVIOUS
  <1> QED BY <1>1, <1>2, <1>3, Zenon

\* What a step does that neither reconfigures the USART nor clears a flag: with
\* the receiver on no byte is lost, no stall begins, and the flags of the
\* transmitter stay.
Harmless ==
  /\ Enabled(uart) => Lost' = Lost
  /\ Stalled(uart') => Stalled(uart) /\ accepted' = accepted
  /\ TransmitterReady(uart) => TransmitterReady(uart')

\* A step is harmless when its effect on the counts is.
LEMMA HarmlessStep ==
  ASSUME UartInv, NEW k \in Nat, NEW r \in Nat, NEW p \in Int,
         accepted' = accepted + k, nread' = nread + r,
         Enabled(uart) => p = (Pending(uart) + k) - r,
         Pending(uart') = p,
         Stalled(uart') => Stalled(uart) /\ k = 0,
         {"TC", "TXE"} \cap uart.SR \subseteq uart'.SR
  PROVE  Harmless
  <1>1. accepted \in Nat /\ nread \in Nat /\ Pending(uart) \in Nat
    BY PendingCounts DEF UartInv
  <1>2. Enabled(uart) => Lost' = Lost
    BY <1>1 DEF Lost
  <1>3. k = 0 => accepted' = accepted
    BY <1>1
  <1> QED BY <1>2, <1>3 DEF Harmless, TransmitterReady

\* Arrivals.
LEMMA ArrivalHarmless ==
  ASSUME UartInv, (\E k \in 1 .. USART_RCV_BUF_LEN : Receive(k)) \/ RxWrapper
  PROVE  Harmless /\ wrote' = wrote
  <1>1. accepted \in Nat /\ nread \in Nat /\ Sound(uart, accepted)
    BY DEF UartInv
  <1>2. ASSUME NEW t, Fresh(t, accepted), uart' = receive(uart, t), Len(t) \in Nat,
               accepted' = accepted + Len(t), nread' = nread
        PROVE  Harmless
    <2>1. /\ Enabled(uart) => Pending(uart') = Pending(uart) + Len(t)
          /\ ~Stalled(uart')
          /\ Others(uart') = Others(uart)
      BY <1>1, <1>2, ReceiveCounts
    <2>2. Pending(uart') \in Nat
      <3>1. Sound(uart', accepted + Len(t))
        BY <1>1, <1>2, ReceiveSound DEF UartInv
      <3>2. accepted + Len(t) \in Nat
        BY <1>1, <1>2
      <3> QED BY <3>1, <3>2, PendingCounts
    <2>3. Pending(uart) \in Nat
      BY <1>1, PendingCounts
    <2>4. {"TC", "TXE"} \cap uart.SR \subseteq uart'.SR
      BY <2>1 DEF Others
    <2>5. Enabled(uart) => Pending(uart') = (Pending(uart) + Len(t)) - 0
      BY <1>2, <2>1, <2>3
    <2>6. nread' = nread + 0
      BY <1>1, <1>2
    <2> QED BY <1>2, <2>1, <2>2, <2>4, <2>5, <2>6, HarmlessStep
  <1>3. ASSUME NEW k \in 1 .. USART_RCV_BUF_LEN, Receive(k)
        PROVE  Harmless /\ wrote' = wrote
    <2> DEFINE t == [i \in 1 .. k |-> accepted + i]
    <2>1. Fresh(t, accepted) /\ Len(t) = k /\ k \in Nat
      BY <1>1, UartAssumption DEF Fresh
    <2>2. uart' = receive(uart, t) /\ accepted' = accepted + k /\ UNCHANGED <<nread, wrote>>
      BY <1>3 DEF Receive
    <2> HIDE DEF t
    <2> QED BY <1>2, <2>1, <2>2
  <1>4. CASE RxWrapper /\ can_receive(uart) > 0
    <2> DEFINE t == <<accepted + 1>>
    <2>1. Fresh(t, accepted) /\ Len(t) = 1
      BY <1>1 DEF Fresh
    <2>2. uart' = receive(uart, t) /\ accepted' = accepted + 1 /\ UNCHANGED <<nread, wrote>>
      BY <1>4 DEF RxWrapper
    <2> HIDE DEF t
    <2> QED BY <1>2, <2>1, <2>2
  <1>5. CASE RxWrapper /\ ~(can_receive(uart) > 0)
    <2>1. UNCHANGED <<uart, accepted, nread, wrote>>
      BY <1>5 DEF RxWrapper
    <2> QED BY <2>1 DEF Harmless, Lost, Stalled, TransmitterReady, Enabled, Pending
  <1> QED BY <1>3, <1>4, <1>5

\* Register reads.
LEMMA ReadHarmless ==
  ASSUME UartInv, SRRead \/ DRRead
  PROVE  Harmless /\ wrote' = wrote
  <1>1. /\ accepted \in Nat /\ nread \in Nat /\ Sound(uart, accepted)
        /\ uart \in UartRecord
        /\ Pending(uart) \in Nat
    BY PendingCounts DEF UartInv, Sound
  <1>2. CASE SRRead
    <2>1. uart'.SR = uart.SR /\ uart'.buf = uart.buf /\ uart'.CR1 = uart.CR1
      BY <1>1, <1>2 DEF SRRead, UartRecord
    <2>2. UNCHANGED <<accepted, nread, wrote>>
      BY <1>2 DEF SRRead
    <2> QED BY <2>1, <2>2 DEF Harmless, Lost, Stalled, TransmitterReady, Enabled, Pending
  <1>3. CASE DRRead
    <2>1. /\ uart' = USART_DR_read(uart)
          /\ nread' = IF "RXNE" \in uart.SR THEN nread + 1 ELSE nread
          /\ UNCHANGED <<accepted, wrote>>
      BY <1>3 DEF DRRead
    <2>2. /\ "RXNE" \in uart.SR => /\ Enabled(uart) => Pending(uart') = Pending(uart) - 1
                                   /\ ~Stalled(uart')
          /\ "RXNE" \notin uart.SR => /\ Pending(uart') = Pending(uart)
                                      /\ Stalled(uart') <=> Stalled(uart)
          /\ Others(uart') = Others(uart)
      BY <1>1, <2>1, DRReadCounts
    <2>3. Pending(uart') \in Nat
      <3>1. Sound(uart', accepted)
        BY <1>1, <2>1, DRReadSound
      <3> QED BY <1>1, <3>1, PendingCounts
    <2>4. {"TC", "TXE"} \cap uart.SR \subseteq uart'.SR
      BY <2>2 DEF Others
    <2>5. accepted' = accepted + 0
      BY <1>1, <2>1
    <2>6. CASE "RXNE" \in uart.SR
      <3>1. Enabled(uart) => Pending(uart') = (Pending(uart) + 0) - 1
        BY <1>1, <2>2, <2>6
      <3>2. nread' = nread + 1 /\ ~Stalled(uart')
        BY <2>1, <2>2, <2>6
      <3>3. Harmless
        BY <2>3, <2>4, <2>5, <3>1, <3>2, HarmlessStep
      <3> QED BY <2>1, <3>3
    <2>7. CASE "RXNE" \notin uart.SR
      <3>1. Pending(uart') = (Pending(uart) + 0) - 0 /\ nread' = nread + 0
        BY <1>1, <2>1, <2>2, <2>7
      <3>2. Stalled(uart') => Stalled(uart)
        BY <2>2, <2>7
      <3>3. Harmless
        BY <2>3, <2>4, <2>5, <3>1, <3>2, HarmlessStep
      <3> QED BY <2>1, <3>3
    <2> QED BY <2>6, <2>7
  <1> QED BY <1>2, <1>3

\* Writes to USART_DR and CR3.  A transmitter that is ready puts the character on
\* the line before the write returns.
LEMMA WriteHarmless ==
  ASSUME UartInv, DRWrite \/ \E v \in SUBSET CR3Bits : CR3Write(v)
  PROVE  /\ Harmless
         /\ TransmitterReady(uart) /\ wrote' # wrote => out' = Append(out, wrote')
  <1>1. uart \in UartRecord /\ wrote \in Nat /\ out \in Seq(Nat)
    BY DEF UartInv, Sound
  <1>2. ASSUME NEW v \in SUBSET CR3Bits, CR3Write(v)
        PROVE  /\ Harmless
               /\ TransmitterReady(uart) /\ wrote' # wrote => out' = Append(out, wrote')
    <2>1. uart'.SR = uart.SR /\ uart'.buf = uart.buf /\ uart'.CR1 = uart.CR1
      BY <1>1, <1>2 DEF CR3Write, UartRecord
    <2>2. UNCHANGED <<accepted, nread, wrote>>
      BY <1>2 DEF CR3Write
    <2> QED BY <2>1, <2>2 DEF Harmless, Lost, Stalled, TransmitterReady, Enabled, Pending
  <1>3. CASE DRWrite
    <2> DEFINE s == [uart EXCEPT !.SR = uart.SR \cup {"TXE", "TC"}]
               h == [uart EXCEPT !.TDR = wrote', !.SR = uart.SR \ {"TXE"}]
    <2>1. wrote' = wrote + 1 /\ UNCHANGED <<accepted, nread>>
      BY <1>3 DEF DRWrite
    <2>2. /\ s \in UartRecord /\ s.SR = uart.SR \cup {"TXE", "TC"}
          /\ s.buf = uart.buf /\ s.CR1 = uart.CR1
      BY <1>1 DEF UartRecord, SRBits
    <2>3. /\ h \in UartRecord /\ h.SR = uart.SR \ {"TXE"}
          /\ h.buf = uart.buf /\ h.CR1 = uart.CR1
      <3>1. wrote' \in Nat
        BY <1>1, <2>1
      <3> QED BY <1>1, <3>1 DEF UartRecord
    <2>4. \/ /\ "TC" \in uart.SR
             /\ uart' = update_irq(s)
             /\ out' = out \o sent_by_start_tx(uart, wrote')
          \/ "TC" \notin uart.SR /\ uart' = update_irq(h)
          \/ "TC" \notin uart.SR /\ uart' = update_irq(uart)
      <3>1. update_irq(update_irq(s)) = update_irq(s)
        BY <2>2, UpdateIrqIdempotent
      <3>2. h = [uart EXCEPT !.TDR = wrote', !.SR = @ \ {"TXE"}]
        BY <1>1 DEF UartRecord
      <3> HIDE DEF h
      <3> QED BY <1>3, <3>1, <3>2 DEF DRWrite, start_tx
    <2> HIDE DEF s, h
    <2>5. /\ uart'.buf = uart.buf /\ uart'.CR1 = uart.CR1
          /\ "RXNE" \in uart'.SR <=> "RXNE" \in uart.SR
          /\ TransmitterReady(uart) => TransmitterReady(uart')
      BY <1>1, <2>2, <2>3, <2>4, UpdateIrqKeeps DEF TransmitterReady
    <2>6. Harmless
      BY <2>1, <2>5 DEF Harmless, Lost, Stalled, Enabled, Pending
    <2>7. TransmitterReady(uart) => out' = out \o <<wrote'>>
      BY <2>4 DEF TransmitterReady, sent_by_start_tx
    <2>8. out \o <<wrote'>> = Append(out, wrote')
      BY <1>1, <2>1
    <2> QED BY <2>6, <2>7, <2>8
  <1> QED BY <1>2, <1>3

\* Some write to SR, to CR1, or a reset.
LEMMA ReconfigurationKnown ==
  ASSUME UartInv
  PROVE  /\ \A v \in SRValues : SRWrite(v) => SRWrite(uart'.SR) /\ UNCHANGED <<accepted, wrote>>
         /\ \A v \in SUBSET CR1Bits : CR1Write(v) =>
              /\ CR1Write(uart'.CR1)
              /\ Lost' = Lost
              /\ TransmitterReady(uart) => TransmitterReady(uart')
              /\ UNCHANGED <<accepted, wrote>>
         /\ Reset => /\ ~Stalled(uart')
                     /\ TransmitterReady(uart')
                     /\ UNCHANGED <<accepted, wrote>>
  <1>1. uart \in UartRecord
    BY DEF UartInv, Sound
  <1>2. ASSUME NEW v \in SRValues, SRWrite(v)
        PROVE  SRWrite(uart'.SR) /\ UNCHANGED <<accepted, wrote>>
    <2> DEFINE w == SRStored(uart.SR, v)
               g == [uart EXCEPT !.SR = w]
    <2>1. w \subseteq uart.SR
      BY DEF SRStored
    <2>2. uart' = update_irq(g) /\ UNCHANGED <<accepted, nread, wrote, out>>
      BY <1>2 DEF SRWrite
    <2>3. g \in UartRecord /\ g.SR = w
      BY <1>1, <2>1 DEF UartRecord
    <2>4. uart'.SR = w
      BY <2>2, <2>3, UpdateIrqKeeps
    <2>5. SRStored(uart.SR, w) = w
      <3> HIDE DEF w
      <3> QED BY <2>1 DEF SRStored
    <2> QED BY <2>2, <2>4, <2>5 DEF SRWrite
  <1>3. ASSUME NEW v \in SUBSET CR1Bits, CR1Write(v)
        PROVE  /\ CR1Write(uart'.CR1)
               /\ Lost' = Lost
               /\ TransmitterReady(uart) => TransmitterReady(uart')
               /\ UNCHANGED <<accepted, wrote>>
    <2> DEFINE g == [uart EXCEPT !.CR1 = v]
    <2>1. g \in UartRecord /\ g.SR = uart.SR /\ g.buf = uart.buf /\ g.CR1 = v
      BY <1>1 DEF UartRecord
    <2>2. uart' = update_irq(g) /\ UNCHANGED <<accepted, nread, wrote, out>>
      BY <1>3 DEF CR1Write
    <2> HIDE DEF g
    <2>3. uart'.SR = uart.SR /\ uart'.buf = uart.buf /\ uart'.CR1 = v
      BY <2>1, <2>2, UpdateIrqKeeps
    <2> QED BY <1>3, <2>2, <2>3 DEF Lost, Pending, TransmitterReady
  <1>4. ASSUME Reset
        PROVE  ~Stalled(uart') /\ TransmitterReady(uart') /\ UNCHANGED <<accepted, wrote>>
    <2> DEFINE g == [uart EXCEPT !.SR = {"TC", "TXE"}, !.CR1 = {}, !.CR3 = {}, !.DR = 0]
    <2>1. g \in UartRecord /\ g.SR = {"TC", "TXE"} /\ g.CR1 = {}
      BY <1>1 DEF UartRecord, SRBits
    <2>2. uart' = update_irq(g) /\ UNCHANGED <<accepted, nread, wrote, out>>
      BY <1>4 DEF Reset, reset
    <2> HIDE DEF g
    <2>3. uart'.SR = {"TC", "TXE"} /\ uart'.CR1 = {}
      BY <2>1, <2>2, UpdateIrqKeeps
    <2> QED BY <2>2, <2>3 DEF Stalled, Enabled, TransmitterReady
  <1> QED BY <1>2, <1>3, <1>4

\* An accepted byte only disappears while the receiver is off, by a write to SR or
\* by a reset.
THEOREM UartLosesNothing == UartSpec => LossNeedsGuestAction
  <1>1. ASSUME UartInv, [UartNext]_uartVars
        PROVE  [Lost' # Lost => ~Enabled(uart) \/ SRWrite(uart'.SR) \/ Reset]_uartVars
    BY <1>1, ArrivalHarmless, ReadHarmless, WriteHarmless, ReconfigurationKnown,
       UartSteps
       DEF Harmless
  <1> QED BY <1>1, UartInvariant, PTL DEF UartSpec, LossNeedsGuestAction

\* Neither direction stalls unless the guest reconfigures the USART.
THEOREM UartDoesNotStall == UartSpec => StallNeedsReconfiguration
  <1> DEFINE Receiver == Stalled(uart') => /\ accepted' = accepted
                                           /\ \/ Stalled(uart)
                                              \/ SRWrite(uart'.SR)
                                              \/ CR1Write(uart'.CR1)
             Transmitter == TransmitterReady(uart) =>
                              /\ wrote' # wrote => out' = Append(out, wrote')
                              /\ TransmitterReady(uart') \/ SRWrite(uart'.SR)
  <1>1. ASSUME UartInv, [UartNext]_uartVars
        PROVE  [Receiver /\ Transmitter]_uartVars
    BY <1>1, ArrivalHarmless, ReadHarmless, WriteHarmless, ReconfigurationKnown,
       UartSteps
       DEF Harmless
  <1> QED BY <1>1, UartInvariant, PTL DEF UartSpec, StallNeedsReconfiguration
==============================================================================
