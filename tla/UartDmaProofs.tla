---------------------------- MODULE UartDmaProofs ----------------------------
(***************************************************************************)
(* Proofs about the DMA controller (F2xxDma), for every set of streams and *)
(* USARTs and every width of the counter and the addresses, and about the  *)
(* stream that serves a USART (UartDma).  A stream is shown Valid one function*)
(* at a time; the actions then only apply these functions.                 *)
(***************************************************************************)
EXTENDS UartDma, UartProofs

\* What holds of each stream; `on' says whether it is armed.
Valid(s, on) == /\ s \in StreamType
                /\ s.irq => s.isr # {}
                /\ on => On(s, "EN") /\ (s.xndtr > 0 => InBuffer(s))

DmaInv == /\ armed \subseteq Streams
          /\ stream = [i \in Streams |-> stream[i]]
          /\ \A i \in Streams : Valid(stream[i], i \in armed)

(***************************************************************************)
(* Arithmetic of the counter and the pointer.                              *)
(***************************************************************************)
LEMMA ModSmall == \A m \in Nat \ {0} : \A x \in 0 .. m - 1 : x % m = x
  BY Z3

\* A remainder is in its range.
LEMMA ModRange == \A m \in Nat \ {0} : \A x \in Int : x % m \in 0 .. m - 1
  BY Z3

\* Counting down by one does not wrap above zero.
LEMMA CountDown == \A m \in Nat \ {0} : \A x \in 1 .. m - 1 : (x + m - 1) % m = x - 1
  BY Z3

\* The widths are those of counters and addresses.
LEMMA Widths == /\ NdtrMod \in Nat \ {0}
                /\ AddrMod \in Nat \ {0}
                /\ 0 \in 0 .. NdtrMod - 1
                /\ 0 \in 0 .. AddrMod - 1
                /\ NdtrMod - 1 \in 0 .. NdtrMod - 1
  BY DmaAssumption

\* The end of the largest buffer is an address.
LEMMA BufferFits ==
  \A n \in 0 .. NdtrMod - 1 : \A d \in {0, 1, 2, 4} : n * d \in 0 .. AddrMod - 1
  <1>1. SUFFICES ASSUME NEW n \in 0 .. NdtrMod - 1, NEW d \in {0, 1, 2, 4}
                 PROVE  n * d \in 0 .. AddrMod - 1
    OBVIOUS
  <1>2. CASE d = 0
    BY <1>2, DmaAssumption
  <1>3. CASE d = 1
    BY <1>3, DmaAssumption
  <1>4. CASE d = 2
    BY <1>4, DmaAssumption
  <1>5. CASE d = 4
    BY <1>5, DmaAssumption
  <1> QED
    BY <1>2, <1>3, <1>4, <1>5

(***************************************************************************)
(* The functions on one stream.                                            *)
(***************************************************************************)
LEMMA FlagFields ==
  ASSUME NEW s \in StreamType, NEW f \in {"HTIF", "TCIF"}, NEW e
  PROVE  LET g == Flag(s, f, e)
         IN  /\ g \in StreamType
             /\ g.isr = s.isr \cup {f}
             /\ g.irq => g.isr # {}
             /\ On(s, e) => g.irq
             /\ g.cr = s.cr /\ g.ndtr = s.ndtr /\ g.xndtr = s.xndtr
             /\ g.dest = s.dest /\ g.destinc = s.destinc
  BY Zenon DEF Flag, StreamType, On

\* What disabling a stream leaves alone.
LEMMA DisableFields ==
  ASSUME NEW s \in StreamType
  PROVE  LET g == Disable(s)
         IN  /\ g \in StreamType
             /\ ~On(g, "EN")
             /\ g.isr = s.isr /\ g.irq = s.irq
             /\ g.ndtr = s.ndtr /\ g.xndtr = s.xndtr
             /\ g.dest = s.dest /\ g.destinc = s.destinc
  BY DEF Disable, StreamType, AllCRWords, On

\* A start that sets up a reception begins at the first unit of the buffer;
\* any other leaves the stream disabled, or as it was.
LEMMA StartSound ==
  ASSUME NEW s \in StreamType, s.irq => s.isr # {}
  PROVE  LET g == stream_start(s)
         IN  /\ g \in StreamType
             /\ g.irq => g.isr # {}
             /\ s.cr.dir = 0 /\ s.cr.msize # 0 =>
                  g.cr = s.cr /\ g.ndtr = s.ndtr /\ g.xndtr = s.ndtr /\ g.dest = 0
  <1> DEFINE x == IF s.cr.dir = 3
                  THEN [s EXCEPT !.dest = 0, !.destinc = 0, !.xndtr = 0]
                  ELSE [s EXCEPT !.dest = 0,
                          !.destinc = IF s.cr.dir # 1 /\ On(s, "MINC") THEN s.cr.msize ELSE 0,
                          !.xndtr = s.ndtr]
             y == [x EXCEPT !.dest = s.ndtr * x.destinc, !.ndtr = NdtrMod - 1]
  <1>1. /\ x \in StreamType
        /\ x.isr = s.isr /\ x.irq = s.irq /\ x.cr = s.cr /\ x.ndtr = s.ndtr /\ x.dest = 0
        /\ x.par = s.par
        /\ s.cr.dir # 3 => x.xndtr = s.ndtr
    BY Widths, Zenon DEF StreamType, AllCRWords
  <1>2. s.ndtr * x.destinc \in 0 .. AddrMod - 1
    <2>1. s.ndtr \in 0 .. NdtrMod - 1
      BY DEF StreamType
    <2>2. x.destinc \in {0, 1, 2, 4}
      BY <1>1, Zenon DEF StreamType
    <2> HIDE DEF x
    <2> QED
      BY <2>1, <2>2, BufferFits
  <1> HIDE DEF x
  <1>3. y \in StreamType /\ y.isr = s.isr /\ y.irq = s.irq
    <2> DEFINE at == s.ndtr * x.destinc
               last == NdtrMod - 1
    <2>1. at \in 0 .. AddrMod - 1 /\ last \in 0 .. NdtrMod - 1
      BY <1>2, Widths
    <2>2. y = [x EXCEPT !.dest = at, !.ndtr = last]
      OBVIOUS
    <2> HIDE DEF at, last, y
    <2>3. y \in StreamType
      BY <1>1, <2>1, <2>2, Zenon DEF StreamType
    <2>4. y.isr = x.isr /\ y.irq = x.irq
      BY <1>1, <2>2 DEF StreamType
    <2> QED
      BY <1>1, <2>3, <2>4
  <1> HIDE DEF y
  <1>4. CASE s.cr.msize = 0
    BY <1>4 DEF stream_start
  <1>5. CASE s.cr.msize # 0 /\ s.cr.dir = 0
    <2>1. stream_start(s) = set_DMAR_map(x)
      BY <1>5 DEF stream_start, x
    <2>2. /\ set_DMAR_map(x) \in StreamType
          /\ set_DMAR_map(x).isr = x.isr /\ set_DMAR_map(x).irq = x.irq
          /\ set_DMAR_map(x).cr = x.cr /\ set_DMAR_map(x).ndtr = x.ndtr
          /\ set_DMAR_map(x).xndtr = x.xndtr /\ set_DMAR_map(x).dest = x.dest
      BY <1>1 DEF set_DMAR_map, StreamType
    <2> QED
      BY <1>1, <1>5, <2>1, <2>2
  <1>6. CASE s.cr.msize # 0 /\ s.cr.dir # 0
    <2>1. stream_start(s) = Flag(Disable(y), "TCIF", "TCIE")
      BY <1>6 DEF stream_start, x, y
    <2>2. Disable(y) \in StreamType
      BY <1>3, DisableFields
    <2> QED
      BY <1>6, <2>1, <2>2, FlagFields
  <1> QED
    BY <1>4, <1>5, <1>6

\* A write of SxCR preserves the invariant of its stream.
LEMMA WriteCRSound ==
  ASSUME NEW s, NEW on \in BOOLEAN, Valid(s, on), NEW w \in CRWords
  PROVE  Valid(stream_write_CR(s, w), "EN" \in w.bits /\ (on \/ Starts(s, w)))
  <1> DEFINE t == [s EXCEPT !.cr = w]
             g == stream_write_CR(s, w)
  <1>1. /\ s \in StreamType
        /\ w \in AllCRWords
        /\ t \in StreamType /\ t.cr = w
        /\ t.isr = s.isr /\ t.irq = s.irq /\ t.ndtr = s.ndtr /\ t.xndtr = s.xndtr
        /\ t.dest = s.dest /\ t.destinc = s.destinc
    BY DmaAssumption DEF Valid, StreamType
  <1> HIDE DEF t
  <1>2. t.irq => t.isr # {}
    BY <1>1 DEF Valid
  <1>3. CASE ~On(s, "EN") /\ "EN" \in w.bits
    <2>1. g = stream_start(t)
      BY <1>3 DEF stream_write_CR, t
    <2>2. g \in StreamType /\ (g.irq => g.isr # {})
      BY <1>1, <1>2, <2>1, StartSound
    <2>3. ~on
      BY <1>3 DEF Valid
    <2>4. ASSUME Starts(s, w)
          PROVE  On(g, "EN") /\ (g.xndtr > 0 => InBuffer(g))
      <3>1. g.cr = w /\ g.ndtr = t.ndtr /\ g.xndtr = t.ndtr /\ g.dest = 0
        BY <1>1, <1>2, <2>1, <2>4, StartSound DEF Starts
      <3>2. t.ndtr \in Nat /\ g.destinc \in {0, 1, 2, 4}
        BY <1>1, <2>2 DEF StreamType
      <3>3. (t.ndtr - t.ndtr) * g.destinc = 0
        BY <3>2
      <3> HIDE DEF g
      <3> QED
        BY <1>3, <3>1, <3>2, <3>3 DEF On, InBuffer
    <2> QED
      BY <2>2, <2>3, <2>4 DEF Valid
  <1>4. CASE ~(~On(s, "EN") /\ "EN" \in w.bits)
    <2>1. g = t
      BY <1>4 DEF stream_write_CR, t
    <2>2. ~Starts(s, w)
      BY <1>4 DEF Starts
    <2>3. on => (s.xndtr > 0 => InBuffer(s))
      BY DEF Valid
    <2>4. InBuffer(s) => InBuffer(t)
      BY <1>1 DEF InBuffer
    <2> QED
      BY <1>1, <1>2, <2>1, <2>2, <2>3, <2>4 DEF Valid, On
  <1> QED
    BY <1>3, <1>4

\* One unit moved: the stream stays sound while it stays enabled, and a counter
\* that grows has been reloaded, after the end of the buffer was reported.
LEMMA TransferSound ==
  ASSUME NEW s, NEW on \in BOOLEAN, Valid(s, on)
  PROVE  LET g == dmar_transfer(s)
         IN  /\ Valid(g, on /\ On(g, "EN"))
             /\ on /\ On(g, "EN") /\ s.xndtr > 0 /\ g.ndtr > s.ndtr
                  => "TCIF" \in g.isr /\ (On(s, "TCIE") => g.irq)
  <1> DEFINE moved == [s EXCEPT !.ndtr = (@ + NdtrMod - 1) % NdtrMod,
                                !.dest = (@ + s.destinc) % AddrMod]
             kept == IF On(s, "CIRC") THEN moved ELSE Disable(moved)
             half == IF kept.ndtr = kept.xndtr \div 2 THEN Flag(kept, "HTIF", "HTIE") ELSE kept
             full == IF half.ndtr = 0 THEN Flag(half, "TCIF", "TCIE") ELSE half
             again == [full EXCEPT !.dest = (@ - full.xndtr * full.destinc) % AddrMod,
                                   !.ndtr = full.xndtr]
             g == dmar_transfer(s)
  <1>1. s \in StreamType /\ (s.irq => s.isr # {})
    BY DEF Valid
  <1>2. /\ s.ndtr \in 0 .. NdtrMod - 1 /\ s.xndtr \in 0 .. NdtrMod - 1
        /\ s.dest \in 0 .. AddrMod - 1 /\ s.destinc \in {0, 1, 2, 4}
    BY <1>1 DEF StreamType
  <1> DEFINE n == (s.ndtr + NdtrMod - 1) % NdtrMod
             d == (s.dest + s.destinc) % AddrMod
  <1>3. n \in 0 .. NdtrMod - 1 /\ d \in 0 .. AddrMod - 1
    <2>1. s.ndtr + NdtrMod - 1 \in Int /\ s.dest + s.destinc \in Int
      BY <1>2, Widths
    <2> QED
      BY <2>1, Widths, ModRange, Zenon
  <1>4. /\ moved \in StreamType /\ moved.ndtr = n /\ moved.dest = d
        /\ moved.cr = s.cr /\ moved.xndtr = s.xndtr /\ moved.destinc = s.destinc
        /\ moved.isr = s.isr /\ moved.irq = s.irq
    BY <1>1, <1>3, Zenon DEF StreamType
  <1> HIDE DEF moved, n, d
  <1>5. /\ kept \in StreamType /\ kept.ndtr = n /\ kept.dest = d
        /\ kept.xndtr = s.xndtr /\ kept.destinc = s.destinc
        /\ kept.isr = s.isr /\ kept.irq = s.irq
        /\ On(s, "CIRC") => kept.cr = s.cr
        /\ ~On(s, "CIRC") => ~On(kept, "EN")
    BY <1>4, DisableFields
  <1> HIDE DEF kept
  <1>6. /\ half \in StreamType /\ half.ndtr = n /\ half.dest = d
        /\ half.xndtr = s.xndtr /\ half.destinc = s.destinc
        /\ half.irq => half.isr # {}
        /\ half.cr = kept.cr
    BY <1>1, <1>5, FlagFields
  <1> HIDE DEF half
  <1>7. /\ full \in StreamType /\ full.ndtr = n /\ full.dest = d
        /\ full.xndtr = s.xndtr /\ full.destinc = s.destinc
        /\ full.irq => full.isr # {}
        /\ full.cr = kept.cr
        /\ n = 0 => "TCIF" \in full.isr /\ (On(half, "TCIE") => full.irq)
    BY <1>6, FlagFields
  <1> HIDE DEF full
  <1>8. /\ again \in StreamType /\ again.ndtr = s.xndtr
        /\ again.dest = (d - s.xndtr * s.destinc) % AddrMod
        /\ again.xndtr = s.xndtr /\ again.destinc = s.destinc
        /\ again.isr = full.isr /\ again.irq = full.irq /\ again.cr = kept.cr
    <2>1. d - s.xndtr * s.destinc \in Int
      BY <1>2, <1>3
    <2>2. (d - s.xndtr * s.destinc) % AddrMod \in 0 .. AddrMod - 1
      BY <2>1, Widths, ModRange, Zenon
    <2> QED
      BY <1>2, <1>7, <2>2, Zenon DEF StreamType
  <1> HIDE DEF again
  <1>9. g = IF On(full, "CIRC") /\ full.ndtr = 0 THEN again ELSE full
    BY Zenon DEF dmar_transfer, again, full, half, kept, moved
  <1> HIDE DEF g
  <1>10. g \in StreamType /\ (g.irq => g.isr # {}) /\ g.cr = kept.cr
    BY <1>7, <1>8, <1>9
  <1>11. ASSUME on, On(g, "EN"), s.xndtr > 0
         PROVE  /\ InBuffer(g)
                /\ g.ndtr > s.ndtr => n = 0
    <2>1. On(s, "CIRC") /\ kept.cr = s.cr /\ On(full, "CIRC")
      BY <1>5, <1>7, <1>10, <1>11 DEF On
    <2>2. s.ndtr \in 1 .. s.xndtr /\ s.dest = (s.xndtr - s.ndtr) * s.destinc
      BY <1>11 DEF Valid, InBuffer
    <2>3. n = s.ndtr - 1
      <3>1. s.ndtr \in 1 .. NdtrMod - 1
        BY <1>2, <2>2, Widths
      <3> QED
        BY <3>1, Widths, CountDown DEF n
    <2>4. s.xndtr - n \in 0 .. NdtrMod - 1
      BY <1>2, <2>2, <2>3, Widths
    <2>5. d = (s.xndtr - n) * s.destinc
      <3>1. s.dest + s.destinc = (s.xndtr - n) * s.destinc
        BY <1>2, <2>2, <2>3
      <3>2. (s.xndtr - n) * s.destinc \in 0 .. AddrMod - 1
        BY <1>2, <2>4, BufferFits
      <3> QED
        BY <3>1, <3>2, Widths, ModSmall DEF d
    <2>6. CASE n = 0
      <3>1. g = again
        BY <1>7, <1>9, <2>1, <2>6
      <3>2. d - s.xndtr * s.destinc = 0
        BY <1>2, <2>5, <2>6
      <3>3. again.dest = 0
        BY <1>8, <3>2, Widths, ModSmall
      <3>4. (s.xndtr - s.xndtr) * s.destinc = 0
        BY <1>2
      <3> QED
        BY <1>2, <1>8, <1>11, <2>6, <3>1, <3>3, <3>4 DEF InBuffer
    <2>7. CASE n # 0
      <3>1. g = full
        BY <1>7, <1>9, <2>7
      <3>2. n \in 1 .. s.xndtr /\ ~(n > s.ndtr)
        BY <1>2, <2>2, <2>3, <2>7
      <3> QED
        BY <1>7, <2>5, <3>1, <3>2 DEF InBuffer
    <2> QED
      BY <2>6, <2>7
  <1>12. Valid(g, on /\ On(g, "EN"))
    <2>1. g.xndtr = s.xndtr
      BY <1>7, <1>8, <1>9
    <2> QED
      BY <1>10, <1>11, <2>1 DEF Valid
  <1>13. ASSUME on, On(g, "EN"), s.xndtr > 0, g.ndtr > s.ndtr
         PROVE  "TCIF" \in g.isr /\ (On(s, "TCIE") => g.irq)
    <2>1. n = 0
      BY <1>11, <1>13
    <2>2. half.cr = s.cr
      BY <1>5, <1>6, <1>10, <1>13 DEF On
    <2>3. g.isr = full.isr /\ g.irq = full.irq
      BY <1>8, <1>9
    <2> QED
      BY <1>7, <2>1, <2>2, <2>3 DEF On
  <1> QED
    BY <1>12, <1>13 DEF g

(***************************************************************************)
(* The actions.                                                            *)
(***************************************************************************)
LEMMA InitSound == DmaInit => DmaInv
  <1>1. Idle \in StreamType /\ Idle.irq = FALSE
    BY Widths, DmaAssumption DEF Idle, StreamType, AllCRWords, NoUsart
  <1> QED
    BY <1>1 DEF DmaInit, DmaInv, Valid

\* Preserved by every step; a circular stream that wraps reports it.
LEMMA StepSound ==
  ASSUME DmaInv, [DmaNext]_dmaVars
  PROVE  /\ DmaInv'
         /\ \A i \in armed \cap armed' :
              stream[i].xndtr > 0 /\ stream'[i].ndtr > stream[i].ndtr
                => "TCIF" \in stream'[i].isr /\ (On(stream[i], "TCIE") => stream'[i].irq)
  <1> DEFINE Wraps(i) == stream[i].xndtr > 0 /\ stream'[i].ndtr > stream[i].ndtr
             Goal == DmaInv' /\ \A i \in armed \cap armed' : Wraps(i) =>
                       "TCIF" \in stream'[i].isr /\ (On(stream[i], "TCIE") => stream'[i].irq)
  <1>0. \A i \in Streams : /\ Valid(stream[i], i \in armed)
                           /\ stream[i].ndtr \in Nat /\ stream[i].xndtr \in Nat
    BY DEF DmaInv, Valid, StreamType
  <1>1. ASSUME NEW i \in Streams, NEW w \in CRWords, CRWrite(i, w)
        PROVE  Goal
    <2> DEFINE t == stream_write_CR(stream[i], w)
    <2>1. stream' = [stream EXCEPT ![i] = t]
      BY <1>1 DEF CRWrite
    <2>2. Valid(t, "EN" \in w.bits /\ (i \in armed \/ Starts(stream[i], w)))
      <3> DEFINE on == i \in armed
      <3>1. on \in BOOLEAN /\ Valid(stream[i], on)
        BY <1>0, <1>1
      <3>2. (i \in armed) = on
        OBVIOUS
      <3> HIDE DEF on
      <3>3. Valid(t, "EN" \in w.bits /\ (on \/ Starts(stream[i], w)))
        BY <1>1, <3>1, WriteCRSound
      <3> QED
        BY <3>2, <3>3, Zenon
    <2>3. i \in armed => t.ndtr = stream[i].ndtr
      BY <1>0 DEF stream_write_CR, Valid, On, StreamType
    <2> HIDE DEF t
    <2>4. /\ armed' \subseteq Streams
          /\ i \in armed' <=> "EN" \in w.bits /\ (i \in armed \/ Starts(stream[i], w))
          /\ \A j \in Streams \ {i} : j \in armed' <=> j \in armed
      BY <1>1 DEF CRWrite, DmaInv
    <2>5. stream'[i] = t /\ \A j \in Streams \ {i} : stream'[j] = stream[j]
      BY <2>1 DEF DmaInv
    <2>6. \A j \in Streams : Valid(stream'[j], j \in armed')
      BY <1>0, <2>2, <2>4, <2>5 DEF Valid
    <2>7. DmaInv'
      BY <2>1, <2>4, <2>6 DEF DmaInv
    <2>8. \A j \in armed \cap armed' : stream'[j].ndtr = stream[j].ndtr
      BY <2>3, <2>4, <2>5
    <2>9. \A j \in armed \cap armed' : ~Wraps(j)
      BY <1>0, <2>4, <2>8
    <2> QED
      BY <2>7, <2>9
  <1>2. ASSUME NEW i \in Streams, NEW n \in 0 .. NdtrMod - 1, NDTRWrite(i, n)
        PROVE  Goal
    <2>1. i \notin armed
      BY <1>0, <1>2 DEF NDTRWrite, Valid
    <2>2. stream'[i] = [stream[i] EXCEPT !.ndtr = n]
          /\ \A j \in Streams \ {i} : stream'[j] = stream[j]
      BY <1>2 DEF NDTRWrite, DmaInv
    <2>3. armed' = armed
      BY <1>2 DEF NDTRWrite
    <2>4. Valid(stream'[i], FALSE)
      BY <1>0, <1>2, <2>2 DEF Valid, StreamType
    <2>5. \A j \in Streams : Valid(stream'[j], j \in armed')
      BY <1>0, <2>1, <2>2, <2>3, <2>4, Zenon DEF Valid
    <2>6. DmaInv'
      BY <1>2, <2>3, <2>5 DEF DmaInv, NDTRWrite
    <2>7. \A j \in armed : ~Wraps(j)
      BY <1>0, <2>1, <2>2 DEF DmaInv
    <2> QED
      BY <2>6, <2>7
  <1>3. ASSUME NEW i \in Streams, NEW p \in Usarts \cup {0}, PARWrite(i, p)
        PROVE  Goal
    <2> DEFINE t == [stream[i] EXCEPT !.par = p]
    <2>1. t \in StreamType /\ t.cr = stream[i].cr /\ t.irq = stream[i].irq /\ t.isr = stream[i].isr
          /\ t.ndtr = stream[i].ndtr /\ t.xndtr = stream[i].xndtr
          /\ t.dest = stream[i].dest /\ t.destinc = stream[i].destinc
      BY <1>0, <1>3 DEF Valid, StreamType
    <2> HIDE DEF t
    <2>2. stream'[i] = t /\ \A j \in Streams \ {i} : stream'[j] = stream[j]
      BY <1>3 DEF PARWrite, DmaInv, t
    <2>3. armed' = armed
      BY <1>3 DEF PARWrite
    <2>4. Valid(t, i \in armed)
      BY <1>0, <2>1 DEF Valid, On, InBuffer
    <2>5. \A j \in Streams : Valid(stream'[j], j \in armed')
      BY <1>0, <2>2, <2>3, <2>4
    <2>6. DmaInv'
      BY <1>3, <2>3, <2>5 DEF DmaInv, PARWrite
    <2>7. \A j \in armed : ~Wraps(j)
      BY <1>0, <2>1, <2>2 DEF DmaInv
    <2> QED
      BY <2>6, <2>7
  <1>4. ASSUME NEW bits, LIFCRWrite(bits)
        PROVE  Goal
    <2>1. \A j \in Streams : \/ stream'[j] = stream[j]
                             \/ stream'[j] = [stream[j] EXCEPT !.isr = {}, !.irq = FALSE]
      BY <1>4, Zenon DEF LIFCRWrite
    <2>2. armed' = armed
      BY <1>4, Zenon DEF LIFCRWrite
    <2>3. ASSUME NEW j \in Streams
          PROVE  Valid(stream'[j], j \in armed) /\ stream'[j].ndtr = stream[j].ndtr
      <3> DEFINE t == [stream[j] EXCEPT !.isr = {}, !.irq = FALSE]
      <3>1. t \in StreamType /\ t.cr = stream[j].cr /\ t.irq = FALSE
            /\ t.ndtr = stream[j].ndtr /\ t.xndtr = stream[j].xndtr
            /\ t.dest = stream[j].dest /\ t.destinc = stream[j].destinc
        BY <1>0, Zenon DEF Valid, StreamType
      <3>2. stream'[j] = stream[j] \/ stream'[j] = t
        BY <2>1, Zenon
      <3> HIDE DEF t
      <3>3. Valid(t, j \in armed)
        BY <1>0, <3>1 DEF Valid, On, InBuffer
      <3> QED
        BY <1>0, <3>1, <3>2, <3>3
    <2>4. DmaInv'
      BY <1>4, <2>2, <2>3 DEF DmaInv, LIFCRWrite
    <2>5. \A j \in armed : ~Wraps(j)
      BY <1>0, <2>3 DEF DmaInv
    <2> QED
      BY <2>4, <2>5
  <1>5. ASSUME NEW n \in Usarts, UsartDmar(n)
        PROVE  Goal
    <2>1. \A j \in Streams : stream'[j] = stream[j] \/ stream'[j] = dmar_transfer(stream[j])
      BY <1>5 DEF UsartDmar
    <2>2. armed' \subseteq Streams
          /\ \A j \in Streams : j \in armed' <=> j \in armed /\ On(stream'[j], "EN")
      BY <1>5 DEF UsartDmar, DmaInv
    <2>3. ASSUME NEW j \in Streams
          PROVE  /\ Valid(stream'[j], j \in armed /\ On(stream'[j], "EN"))
                 /\ j \in armed /\ On(stream'[j], "EN") /\ Wraps(j) =>
                       "TCIF" \in stream'[j].isr /\ (On(stream[j], "TCIE") => stream'[j].irq)
      <3>1. CASE stream'[j] = stream[j]
        BY <1>0, <3>1 DEF Valid
      <3>2. CASE stream'[j] = dmar_transfer(stream[j])
        <4> DEFINE on == j \in armed
        <4>1. on \in BOOLEAN /\ Valid(stream[j], on)
          BY <1>0
        <4>2. (j \in armed) = on
          OBVIOUS
        <4> HIDE DEF on
        <4>3. /\ Valid(stream'[j], on /\ On(stream'[j], "EN"))
              /\ on /\ On(stream'[j], "EN") /\ Wraps(j) =>
                    "TCIF" \in stream'[j].isr /\ (On(stream[j], "TCIE") => stream'[j].irq)
          BY <3>2, <4>1, TransferSound
        <4> QED
          BY <4>2, <4>3
      <3> QED
        BY <2>1, <3>1, <3>2
    <2>4. \A j \in Streams : Valid(stream'[j], j \in armed')
      BY <2>2, <2>3 DEF Valid
    <2>5. DmaInv'
      BY <1>5, <2>2, <2>4 DEF DmaInv, UsartDmar
    <2> QED
      BY <2>2, <2>3, <2>5
  <1>6. ASSUME DmaReset
        PROVE  Goal
    <2>1. DmaInit'
      BY <1>6 DEF DmaReset, DmaInit
    <2>2. Idle \in StreamType /\ Idle.irq = FALSE
      BY Widths, DmaAssumption DEF Idle, StreamType, AllCRWords, NoUsart
    <2> QED
      BY <2>1, <2>2 DEF DmaInit, DmaInv, Valid
  <1>7. ASSUME UNCHANGED dmaVars
        PROVE  Goal
    BY <1>0, <1>7 DEF dmaVars, DmaInv
  <1>8. Goal
    BY <1>1, <1>2, <1>3, <1>4, <1>5, <1>6, <1>7 DEF DmaNext
  <1> QED
    BY <1>8

(***************************************************************************)
(* The theorems.                                                           *)
(***************************************************************************)
\* Every reachable state of the controller is sound.
THEOREM DmaInvariant == DmaSpec => []DmaInv
  <1>1. DmaInv /\ [DmaNext]_dmaVars => DmaInv'
    BY StepSound
  <1> QED
    BY <1>1, InitSound, PTL DEF DmaSpec

\* Type correctness: counters and addresses keep their widths.
THEOREM DmaTypeCorrect == DmaSpec => []DmaTypeOK
  <1>1. DmaInv => DmaTypeOK
    BY DEF DmaInv, DmaTypeOK, Valid
  <1> QED
    BY <1>1, DmaInvariant, PTL

\* Received units are written inside the guest's buffer, where SxNDTR says
\* (dmar_transfer, f2xx_dma_stream_start).
THEOREM DmaStaysInBuffer == DmaSpec => []WritesStayInBuffer
  <1>1. DmaInv => WritesStayInBuffer
    BY DEF DmaInv, WritesStayInBuffer, Valid
  <1> QED
    BY <1>1, DmaInvariant, PTL

\* The line of a stream is never raised without a flag to show for it, and is raised
\* for every pass over a circular buffer.
THEOREM DmaInterruptsAreTrue == DmaSpec => InterruptsAreTrue
  <1>1. DmaInv' => IrqHasCause'
    BY DEF DmaInv, IrqHasCause, Valid
  <1>2. DmaInv /\ [DmaNext]_dmaVars => [WrapIsReported]_dmaVars
    BY StepSound DEF WrapIsReported
  <1>3. DmaInv /\ DmaInv' /\ [DmaNext]_dmaVars => [IrqHasCause' /\ WrapIsReported]_dmaVars
    BY <1>1, <1>2
  <1> QED
    BY <1>3, DmaInvariant, PTL DEF DmaSpec, InterruptsAreTrue

(***************************************************************************)
(* The stream behind the USART (UartDma).                                  *)
(***************************************************************************)
\* The bytes of s have arrived, and before those that wait in the USART.
Older(s) == /\ s \in Seq(Nat)
            /\ \A i \in 1 .. Len(s) : /\ s[i] <= accepted
                                      /\ \A b \in Span(uart, accepted) : s[i] < b

\* A raised request line has a byte to fetch; transfers and the bytes that may
\* still cause one are bounded by the receive buffer.
NestInv ==
  /\ UartInv
  /\ req => "RXNE" \in uart.SR
  /\ Len(calls) + Pending(uart) <= USART_RCV_BUF_LEN + 1
  /\ Older(calls)
  /\ Older(stored)

\* Bytes numbered b: those that wait and those that are new.
LEMMA SpanNumbers ==
  ASSUME NEW u, NEW n \in Nat, Sound(u, n)
  PROVE  \A b \in Span(u, n) : b \in Nat
  <1>1. Len(u.buf) \in Nat /\ Len(u.buf) <= n
    BY DEF Sound, InOrder
  <1>2. "RXNE" \in u.SR => u.DR \in Nat
    BY DEF Sound, UartRecord
  <1>3. \A l \in Nat : l <= n => \A b \in n - l + 1 .. n : b \in Nat
    OBVIOUS
  <1>4. \A b \in n - Len(u.buf) + 1 .. n : b \in Nat
    BY <1>1, <1>3, Zenon
  <1> QED BY <1>2, <1>4, Zenon DEF Span

\* Bytes that were older stay so while no byte but new ones joins those that wait.
LEMMA StaysOlder ==
  ASSUME NEW s, NestInv, Older(s), accepted' \in Nat, accepted <= accepted',
         Span(uart', accepted') \subseteq Span(uart, accepted) \cup (accepted + 1 .. accepted'),
         s \in Seq(Nat)
  PROVE  \A i \in 1 .. Len(s) : /\ s[i] <= accepted'
                                /\ \A b \in Span(uart', accepted') : s[i] < b
  <1>1. accepted \in Nat
    BY DEF NestInv, UartInv
  <1>2. SUFFICES ASSUME NEW i \in 1 .. Len(s)
                 PROVE  s[i] <= accepted' /\ \A b \in Span(uart', accepted') : s[i] < b
    OBVIOUS
  <1>3. s[i] \in Nat /\ s[i] <= accepted /\ \A b \in Span(uart, accepted) : s[i] < b
    BY DEF Older
  <1>4. \A b \in accepted + 1 .. accepted' : s[i] < b
    BY <1>1, <1>3
  <1>5. s[i] <= accepted'
    BY <1>1, <1>3
  <1> QED BY <1>3, <1>4, <1>5

\* The oldest byte is taken; those that stay are newer.
LEMMA ReadTakesOldest ==
  ASSUME UartInv, "RXNE" \in uart.SR
  PROVE  /\ Span(USART_DR_read(uart), accepted) \subseteq Span(uart, accepted) \ {uart.DR}
         /\ uart.DR \in Nat /\ uart.DR <= accepted
         /\ uart.DR \in Span(uart, accepted)
         /\ \A b \in Span(uart, accepted) \ {uart.DR} : uart.DR < b
  <1>1. accepted \in Nat /\ Sound(uart, accepted)
    BY DEF UartInv
  <1>2. Loses(uart, Span(uart, accepted) \ {uart.DR}, Span(USART_DR_read(uart), accepted))
    BY <1>1, DRReadKeeps
  <1>3. /\ uart.DR \in 1 .. accepted - Len(uart.buf)
        /\ Len(uart.buf) \in Nat /\ Len(uart.buf) <= accepted
    BY <1>1 DEF Sound, InOrder
  <1>4. Span(uart, accepted) \ {uart.DR} = accepted - Len(uart.buf) + 1 .. accepted
    BY <1>1, OldestIsDR
  <1>5. \A l \in Nat : l <= accepted => \A d \in 1 .. accepted - l :
          d \in Nat /\ d <= accepted /\ \A b \in accepted - l + 1 .. accepted : d < b
    BY <1>1
  <1>6. /\ uart.DR \in Nat /\ uart.DR <= accepted
        /\ \A b \in accepted - Len(uart.buf) + 1 .. accepted : uart.DR < b
    BY <1>3, <1>5, Zenon
  <1>7. uart.DR \in Span(uart, accepted)
    BY DEF Span
  <1> QED BY <1>2, <1>4, <1>6, <1>7 DEF Loses

\* Every handler of the USART keeps the order: what waits afterwards waited
\* before or is new.
LEMMA HandlerSpan ==
  ASSUME UartInv, UartNext
  PROVE  /\ UartInv'
         /\ accepted' \in Nat /\ accepted <= accepted'
         /\ Span(uart', accepted') \subseteq Span(uart, accepted) \cup (accepted + 1 .. accepted')
  <1> DEFINE Goal == /\ accepted' \in Nat /\ accepted <= accepted'
                     /\ Span(uart', accepted')
                          \subseteq Span(uart, accepted) \cup (accepted + 1 .. accepted')
  <1>1. /\ UartInv'
        /\ accepted \in Nat /\ Sound(uart, accepted)
        /\ USART_RCV_BUF_LEN \in Nat
    BY UartNextInv, UartAssumption DEF UartInv
  <1>2. ASSUME NEW t, Fresh(t, accepted), uart' = receive(uart, t), Len(t) \in Nat,
               accepted' = accepted + Len(t)
        PROVE  Goal
    <2>1. Loses(uart, Span(uart, accepted) \cup (accepted + 1 .. accepted'), Span(uart', accepted'))
      BY <1>1, <1>2, ReceiveKeeps
    <2>2. accepted' \in Nat /\ accepted <= accepted'
      BY <1>1, <1>2
    <2> QED BY <2>1, <2>2 DEF Loses
  <1>3. ASSUME UNCHANGED <<uart, accepted>>
        PROVE  Goal
    BY <1>1, <1>3
  <1>4. ASSUME NEW k \in 1 .. USART_RCV_BUF_LEN, Receive(k)
        PROVE  Goal
    <2> DEFINE t == [i \in 1 .. k |-> accepted + i]
    <2>1. Fresh(t, accepted) /\ Len(t) = k /\ k \in Nat
      BY <1>1 DEF Fresh
    <2>2. uart' = receive(uart, t) /\ accepted' = accepted + k
      BY <1>4 DEF Receive
    <2> HIDE DEF t, Goal
    <2> QED BY <1>2, <2>1, <2>2
  <1>5. CASE RxWrapper /\ can_receive(uart) > 0
    <2> DEFINE t == <<accepted + 1>>
    <2>1. Fresh(t, accepted) /\ Len(t) = 1 /\ Len(t) \in Nat
      BY <1>1 DEF Fresh
    <2>2. uart' = receive(uart, t) /\ accepted' = accepted + Len(t)
      BY <1>5, <2>1 DEF RxWrapper
    <2> HIDE DEF t, Goal
    <2>3. Goal
      BY <1>2, <2>1, <2>2
    <2> QED BY <1>1, <2>3 DEF Goal
  <1>6. CASE RxWrapper /\ ~(can_receive(uart) > 0)
    <2>1. UNCHANGED <<uart, accepted>>
      BY <1>6 DEF RxWrapper
    <2> QED BY <1>1, <1>3, <2>1
  <1>7. CASE DRRead
    <2>1. uart' = USART_DR_read(uart) /\ accepted' = accepted
      BY <1>7 DEF DRRead
    <2>2. Span(uart', accepted) \subseteq Span(uart, accepted)
      BY <1>1, <2>1, DRReadKeeps DEF Loses
    <2> QED BY <1>1, <2>1, <2>2
  <1>8. CASE \/ SRRead
             \/ \E v \in SRValues : SRWrite(v)
             \/ DRWrite
             \/ \E v \in SUBSET CR1Bits : CR1Write(v)
             \/ \E v \in SUBSET CR3Bits : CR3Write(v)
             \/ Reset
    <2>1. accepted' = accepted
      BY <1>8 DEF SRRead, SRWrite, DRWrite, CR1Write, CR3Write, Reset
    <2>2. /\ uart'.buf = uart.buf
          /\ \/ "RXNE" \notin uart'.SR
             \/ "RXNE" \in uart.SR /\ uart'.DR = uart.DR
      BY <1>1, <1>8, ControlKeeps
    <2>3. Span(uart', accepted) \subseteq Span(uart, accepted)
      BY <2>2 DEF Span
    <2> QED BY <1>1, <2>1, <2>3
  <1> QED BY <1>1, <1>4, <1>5, <1>6, <1>7, <1>8, UartSteps

\* No transfer is under way: the handler may run, and what it changes.
LEMMA QuietBounded ==
  ASSUME NestInv, UartInv', calls = <<>>, calls' = calls
  PROVE  Len(calls') + Pending(uart') <= USART_RCV_BUF_LEN + 1
  <1>1. /\ accepted' \in Nat /\ Sound(uart', accepted')
        /\ Len(uart'.buf) <= USART_RCV_BUF_LEN
        /\ USART_RCV_BUF_LEN \in Nat
    BY UartAssumption DEF UartInv
  <1>2. /\ Pending(uart') \in Nat /\ Pending(uart') <= Len(uart'.buf) + 1
        /\ Len(uart'.buf) \in Nat
    <2>1. Len(uart'.buf) \in Nat
      BY <1>1 DEF Sound, InOrder
    <2> QED BY <1>1, <2>1, PendingCounts
  <1>3. Len(calls') = 0
    OBVIOUS
  <1>4. \A p, l, n \in Nat : p <= l + 1 /\ l <= n => 0 + p <= n + 1
    OBVIOUS
  <1> QED BY <1>1, <1>2, <1>3, <1>4, Zenon

\* The stack and the stored bytes stay older under a handler of the USART.
LEMMA HandlerInv ==
  ASSUME NestInv, UartNext, calls = <<>>, calls' = calls, stored' = stored,
         req' => DmarLevel(uart') = 1
  PROVE  NestInv'
  <1>1. /\ UartInv'
        /\ accepted' \in Nat /\ accepted <= accepted'
        /\ Span(uart', accepted') \subseteq Span(uart, accepted) \cup (accepted + 1 .. accepted')
    BY HandlerSpan DEF NestInv
  <1>2. Older(calls)' /\ Older(stored)'
    <2>1. Older(calls) /\ Older(stored) /\ calls \in Seq(Nat) /\ stored \in Seq(Nat)
      BY DEF NestInv, Older
    <2> QED BY <1>1, <2>1, StaysOlder DEF Older
  <1>3. req' => "RXNE" \in uart'.SR
    BY DEF DmarLevel
  <1>4. Len(calls') + Pending(uart') <= USART_RCV_BUF_LEN + 1
    BY <1>1, QuietBounded
  <1> QED BY <1>1, <1>2, <1>3, <1>4 DEF NestInv, Pending

\* The last byte of the stack is stored: both sequences hold the same bytes.
LEMMA MovesOne ==
  ASSUME NEW s \in Seq(Nat), NEW t \in Seq(Nat), s # <<>>
  PROVE  /\ SubSeq(s, 1, Len(s) - 1) \in Seq(Nat)
         /\ Len(SubSeq(s, 1, Len(s) - 1)) = Len(s) - 1
         /\ Len(s) \in Nat \ {0}
         /\ Append(t, s[Len(s)]) \in Seq(Nat)
         /\ Len(Append(t, s[Len(s)])) = Len(t) + 1
         /\ \A i \in 1 .. Len(s) - 1 : SubSeq(s, 1, Len(s) - 1)[i] = s[i]
         /\ \A i \in 1 .. Len(t) : Append(t, s[Len(s)])[i] = t[i]
         /\ Append(t, s[Len(s)])[Len(t) + 1] = s[Len(s)]
  <1>1. Len(s) \in Nat \ {0} /\ s[Len(s)] \in Nat
    OBVIOUS
  <1>2. /\ SubSeq(s, 1, Len(s) - 1) \in Seq(Nat)
        /\ Len(SubSeq(s, 1, Len(s) - 1)) = Len(s) - 1
        /\ \A i \in 1 .. Len(s) - 1 : SubSeq(s, 1, Len(s) - 1)[i] = s[i]
    <2>1. PICK m \in Nat : m = Len(s) - 1
      BY <1>1
    <2>2. \A i \in 1 .. m : s[i] \in Nat
      BY <1>1, <2>1
    <2>3. /\ SubSeq(s, 1, m) \in Seq(Nat)
          /\ Len(SubSeq(s, 1, m)) = IF 1 <= m THEN m - 1 + 1 ELSE 0
          /\ \A i \in 1 .. m - 1 + 1 : SubSeq(s, 1, m)[i] = s[1 + i - 1]
      BY <2>2, SubSeqProperties
    <2>4. /\ Len(SubSeq(s, 1, m)) = m
          /\ \A i \in 1 .. m : SubSeq(s, 1, m)[i] = s[i]
      BY <2>3
    <2> QED BY <2>1, <2>3, <2>4, Zenon
  <1>3. /\ Append(t, s[Len(s)]) \in Seq(Nat)
        /\ Len(Append(t, s[Len(s)])) = Len(t) + 1
        /\ \A i \in 1 .. Len(t) : Append(t, s[Len(s)])[i] = t[i]
        /\ Append(t, s[Len(s)])[Len(t) + 1] = s[Len(s)]
    BY <1>1
  <1> QED BY <1>1, <1>2, <1>3

\* cpu_physical_memory_read of USART_DR inside the transfer.
LEMMA TransferReadsInv ==
  ASSUME NestInv, TransferReads
  PROVE  NestInv'
  <1>1. /\ calls' = Append(calls, uart.DR)
        /\ uart' = USART_DR_read(uart)
        /\ req' => DmarLevel(uart') = 1
        /\ UNCHANGED <<accepted, nread, wrote, out, stored>>
        /\ "RXNE" \in uart.SR
        /\ UartInv
    BY DEF TransferReads, NestInv, Seen
  <1>2. /\ accepted \in Nat /\ Sound(uart, accepted)
        /\ calls \in Seq(Nat) /\ stored \in Seq(Nat)
        /\ USART_RCV_BUF_LEN \in Nat
    BY UartAssumption DEF NestInv, UartInv, Older
  <1>3. UartInv'
    <2>1. /\ Sound(uart', accepted) /\ uart'.irq = IrqLevel(uart')
          /\ Len(uart'.buf) <= Len(uart.buf)
      BY <1>1, <1>2, DRReadSound
    <2>2. Len(uart'.buf) \in Nat /\ Len(uart.buf) \in Nat /\ Len(uart.buf) <= USART_RCV_BUF_LEN
      BY <1>1, <1>2, <2>1 DEF Sound, InOrder, UartInv
    <2>3. Len(uart'.buf) <= USART_RCV_BUF_LEN
      BY <1>2, <2>1, <2>2
    <2> QED BY <1>1, <2>1, <2>3 DEF UartInv, IrqLevel
  <1>4. /\ Span(uart', accepted) \subseteq Span(uart, accepted) \ {uart.DR}
        /\ uart.DR \in Nat /\ uart.DR <= accepted
        /\ \A b \in Span(uart, accepted) \ {uart.DR} : uart.DR < b
    BY <1>1, ReadTakesOldest
  <1>5. Older(stored)'
    BY <1>1, <1>2, <1>4 DEF NestInv, Older
  <1>6. Older(calls)'
    <2>1. /\ calls' \in Seq(Nat) /\ Len(calls') = Len(calls) + 1
          /\ Len(calls) \in Nat
          /\ \A i \in 1 .. Len(calls) : calls'[i] = calls[i]
          /\ calls'[Len(calls) + 1] = uart.DR
      BY <1>1, <1>2, <1>4
    <2>2. ASSUME NEW i \in 1 .. Len(calls')
          PROVE  calls'[i] <= accepted /\ \A b \in Span(uart', accepted) : calls'[i] < b
      <3>1. CASE i \in 1 .. Len(calls)
        BY <1>4, <2>1, <3>1 DEF NestInv, Older
      <3>2. CASE i = Len(calls) + 1
        BY <1>4, <2>1, <3>2
      <3> QED BY <2>1, <3>1, <3>2
    <2> QED BY <1>1, <2>1, <2>2 DEF Older
  <1>7. Len(calls') + Pending(uart') <= USART_RCV_BUF_LEN + 1
    <2>1. Pending(uart') <= Pending(uart) - 1
      BY <1>1, <1>2, DRReadCounts
    <2>2. Pending(uart) \in Nat /\ Pending(uart') \in Nat
      BY <1>2, <1>3, PendingCounts DEF UartInv
    <2>3. Len(calls') = Len(calls) + 1 /\ Len(calls) \in Nat
      BY <1>1, <1>2, <1>4
    <2>4. Len(calls) + Pending(uart) <= USART_RCV_BUF_LEN + 1
      BY DEF NestInv
    <2> QED BY <1>2, <2>1, <2>2, <2>3, <2>4
  <1>8. req' => "RXNE" \in uart'.SR
    BY <1>1 DEF DmarLevel
  <1> QED BY <1>3, <1>5, <1>6, <1>7, <1>8 DEF NestInv, Pending

\* The rest of the transfer.
LEMMA TransferStoresInv ==
  ASSUME NestInv, TransferStores
  PROVE  NestInv'
  <1>1. /\ calls # <<>> /\ ~req'
        /\ stored' = Append(stored, calls[Len(calls)])
        /\ calls' = SubSeq(calls, 1, Len(calls) - 1)
        /\ UNCHANGED uartVars
    BY DEF TransferStores
  <1>2. /\ accepted \in Nat /\ Sound(uart, accepted)
        /\ calls \in Seq(Nat) /\ stored \in Seq(Nat)
        /\ USART_RCV_BUF_LEN \in Nat
    BY UartAssumption DEF NestInv, UartInv, Older
  <1>3. UNCHANGED <<uart, accepted, nread, wrote, out>>
    BY <1>1 DEF uartVars
  <1>4. UartInv'
    BY <1>3 DEF NestInv, UartInv, IrqLevel
  <1>5. /\ calls' \in Seq(Nat) /\ Len(calls') = Len(calls) - 1 /\ Len(calls) \in Nat \ {0}
        /\ stored' \in Seq(Nat) /\ Len(stored') = Len(stored) + 1 /\ Len(stored) \in Nat
        /\ \A i \in 1 .. Len(calls) - 1 : calls'[i] = calls[i]
        /\ \A i \in 1 .. Len(stored) : stored'[i] = stored[i]
        /\ stored'[Len(stored) + 1] = calls[Len(calls)]
    BY <1>1, <1>2, MovesOne
  <1>6. Older(calls)'
    <2>1. ASSUME NEW i \in 1 .. Len(calls')
          PROVE  calls'[i] <= accepted /\ \A b \in Span(uart, accepted) : calls'[i] < b
      <3>1. i \in 1 .. Len(calls) - 1 /\ i \in 1 .. Len(calls)
        BY <1>5
      <3> QED BY <1>5, <3>1 DEF NestInv, Older
    <2> QED BY <1>3, <1>5, <2>1 DEF Older
  <1>7. Older(stored)'
    <2>1. ASSUME NEW i \in 1 .. Len(stored')
          PROVE  stored'[i] <= accepted /\ \A b \in Span(uart, accepted) : stored'[i] < b
      <3>1. CASE i \in 1 .. Len(stored)
        BY <1>5, <3>1 DEF NestInv, Older
      <3>2. CASE i = Len(stored) + 1
        <4>1. Len(calls) \in 1 .. Len(calls)
          BY <1>5
        <4> QED BY <1>5, <3>2, <4>1 DEF NestInv, Older
      <3> QED BY <1>5, <3>1, <3>2
    <2> QED BY <1>3, <1>5, <2>1 DEF Older
  <1>8. Len(calls') + Pending(uart') <= USART_RCV_BUF_LEN + 1
    <2>1. Pending(uart) \in Nat /\ Pending(uart') = Pending(uart)
      BY <1>2, <1>3, PendingCounts
    <2>2. Len(calls) + Pending(uart) <= USART_RCV_BUF_LEN + 1
      BY DEF NestInv
    <2> QED BY <1>2, <1>5, <2>1, <2>2
  <1> QED BY <1>1, <1>4, <1>6, <1>7, <1>8 DEF NestInv, Pending

\* The guest's accesses to the USART, and arrivals, are handlers of the USART.
LEMMA HandlersOfUart ==
  ASSUME \/ Arrival \/ GuestReadsDR \/ GuestWritesSR \/ GuestWritesDR
         \/ GuestWritesCR1 \/ GuestWritesCR3
  PROVE  /\ UartNext
         /\ calls = <<>> /\ UNCHANGED <<calls, stored, stream, armed>>
         /\ req' => DmarLevel(uart') = 1
  <1> USE DEF UartHandler, Quiet, Seen, UartNext, dmaVars
  <1>1. CASE Arrival
    BY <1>1 DEF Arrival
  <1>2. CASE GuestReadsDR
    BY <1>2 DEF GuestReadsDR
  <1>3. CASE GuestWritesSR
    BY <1>3 DEF GuestWritesSR
  <1>4. CASE GuestWritesDR
    BY <1>4 DEF GuestWritesDR
  <1>5. CASE GuestWritesCR1
    BY <1>5 DEF GuestWritesCR1
  <1>6. CASE GuestWritesCR3
    BY <1>6 DEF GuestWritesCR3
  <1> QED BY <1>1, <1>2, <1>3, <1>4, <1>5, <1>6

\* Every step preserves the invariant.
LEMMA NestNextInv == NestInv /\ [Next]_vars => NestInv'
  <1> SUFFICES ASSUME NestInv, [Next]_vars
               PROVE  NestInv'
    OBVIOUS
  <1>1. ASSUME UNCHANGED <<uartVars, nestVars>>
        PROVE  NestInv'
    <2>1. UNCHANGED <<uart, accepted, nread, wrote, out, req, calls, stored>>
      BY <1>1 DEF uartVars, nestVars
    <2> QED BY <2>1 DEF NestInv, UartInv, IrqLevel, Older, Pending
  <1>2. CASE \/ Arrival \/ GuestReadsDR \/ GuestWritesSR \/ GuestWritesDR
             \/ GuestWritesCR1 \/ GuestWritesCR3
    BY <1>2, HandlersOfUart, HandlerInv
  <1>3. CASE GuestWritesCR \/ GuestWritesNDTR \/ GuestWritesPAR \/ GuestWritesLIFCR
    BY <1>1, <1>3 DEF GuestWritesCR, GuestWritesNDTR, GuestWritesPAR, GuestWritesLIFCR, DmaHandler
  <1>4. CASE ResetBoth
    <2>1. UartNext /\ calls = <<>> /\ UNCHANGED <<req, calls, stored>> /\ ~req
      BY <1>4 DEF ResetBoth, UartNext, Quiet, nestVars
    <2> QED BY <2>1, HandlerInv
  <1>5. CASE TransferReads
    BY <1>5, TransferReadsInv
  <1>6. CASE TransferStores
    BY <1>6, TransferStoresInv
  <1>7. CASE UNCHANGED vars
    BY <1>1, <1>7 DEF vars
  <1> QED BY <1>2, <1>3, <1>4, <1>5, <1>6, <1>7 DEF Next

\* The invariant of the USART with the stream behind it.
THEOREM NestInvariant == Spec => []NestInv
  <1>1. Init => NestInv
    <2>1. Init => UartInv /\ req = FALSE /\ calls = <<>> /\ stored = <<>>
      BY UartInitInv DEF Init
    <2>2. UartInit => Pending(uart) = 0
      BY DEF UartInit, Pending
    <2> QED BY <2>1, <2>2, UartAssumption DEF Init, NestInv, Older
  <1> QED BY <1>1, NestNextInv, PTL DEF Spec

\* The transfers nested in one request are bounded by the receive buffer of the
\* USART.
THEOREM NestingIsBounded == Spec => []NestingBounded
  <1>1. NestInv => NestingBounded
    BY DEF NestInv, NestingBounded
  <1> QED BY <1>1, NestInvariant, PTL

\* Requests may reverse the bytes of one burst, never those of two.
THEOREM BurstsStayInOrder == Spec => []LaterRequestStoresNewerBytes
  <1>1. NestInv => LaterRequestStoresNewerBytes
    <2> SUFFICES ASSUME NestInv, NEW i \in DOMAIN stored
                 PROVE  /\ "RXNE" \in uart.SR => stored[i] < uart.DR
                        /\ \A j \in DOMAIN uart.buf : stored[i] < uart.buf[j]
      BY DEF LaterRequestStoresNewerBytes
    <2>1. accepted \in Nat /\ Sound(uart, accepted) /\ stored \in Seq(Nat)
      BY DEF NestInv, UartInv, Older
    <2>2. i \in 1 .. Len(stored)
      BY <2>1
    <2>3. \A b \in Waiting(uart) : stored[i] < b
      BY <2>1, <2>2, WaitingIsSpan DEF NestInv, Older
    <2> QED BY <2>3 DEF Waiting
  <1> QED BY <1>1, NestInvariant, PTL

\* However deep the transfers nest, each byte they take is stored once.
THEOREM NestingIsLossless == Spec => NestingLosesNothing
  <1> DEFINE Excused == ~Enabled(uart) \/ GuestWritesSR \/ ResetBoth
  <1>1. ASSUME NestInv, NestInv', [Next]_vars
        PROVE  [Missing' # Missing => Excused]_vars
    <2>1. /\ accepted \in Nat /\ nread \in Nat
          /\ Pending(uart) \in Nat /\ Pending(uart') \in Nat
          /\ Lost \in Int
          /\ calls \in Seq(Nat) /\ stored \in Seq(Nat)
          /\ Sound(uart, accepted)
      <3>1. /\ accepted \in Nat /\ nread \in Nat /\ Sound(uart, accepted)
            /\ accepted' \in Nat /\ Sound(uart', accepted')
            /\ calls \in Seq(Nat) /\ stored \in Seq(Nat)
        BY <1>1 DEF NestInv, UartInv, Older
      <3>2. Pending(uart) \in Nat /\ Pending(uart') \in Nat
        BY <3>1, PendingCounts
      <3> QED BY <3>1, <3>2 DEF Lost
    <2>2. ASSUME UNCHANGED <<uart, accepted, nread, calls, stored>>
          PROVE  Missing' = Missing
      BY <2>2 DEF Missing, Lost, Pending
    <2>3. ASSUME \/ Arrival \/ GuestReadsDR \/ GuestWritesDR \/ GuestWritesCR1 \/ GuestWritesCR3,
                 Enabled(uart)
          PROVE  Missing' = Missing
      <3>1. UNCHANGED <<calls, stored>>
        BY <2>3, HandlersOfUart
      <3>2. \/ \E k \in 1 .. USART_RCV_BUF_LEN : Receive(k)
            \/ DRRead
            \/ DRWrite
            \/ \E v \in SUBSET CR1Bits : CR1Write(v)
            \/ \E v \in SUBSET CR3Bits : CR3Write(v)
        BY <2>3, UartAssumption
           DEF Arrival, GuestReadsDR, GuestWritesDR, GuestWritesCR1, GuestWritesCR3, UartHandler
      <3>3. Lost' = Lost
        BY <1>1, <2>3, <3>2, ArrivalHarmless, ReadHarmless, WriteHarmless, ReconfigurationKnown
           DEF NestInv, Harmless
      <3> QED BY <3>1, <3>3 DEF Missing
    <2>4. ASSUME GuestWritesCR \/ GuestWritesNDTR \/ GuestWritesPAR \/ GuestWritesLIFCR
          PROVE  Missing' = Missing
      <3>1. UNCHANGED <<uartVars, nestVars>>
        BY <2>4 DEF GuestWritesCR, GuestWritesNDTR, GuestWritesPAR, GuestWritesLIFCR, DmaHandler
      <3> QED BY <2>2, <3>1 DEF uartVars, nestVars
    <2>5. ASSUME TransferReads, Enabled(uart)
          PROVE  Missing' = Missing
      <3>1. /\ Len(calls') = Len(calls) + 1 /\ Len(stored') = Len(stored)
            /\ Len(calls) \in Nat /\ Len(stored) \in Nat
            /\ uart' = USART_DR_read(uart)
            /\ UNCHANGED <<accepted, nread>>
            /\ "RXNE" \in uart.SR
        <4>1. uart.DR \in Nat
          BY <2>1 DEF Sound, UartRecord
        <4>2. calls' = Append(calls, uart.DR)
          BY <2>5 DEF TransferReads
        <4>3. Len(calls') = Len(calls) + 1 /\ Len(calls) \in Nat /\ Len(stored) \in Nat
          BY <2>1, <4>1, <4>2
        <4> QED BY <1>1, <2>5, <4>3 DEF TransferReads, NestInv
      <3>2. Pending(uart') = Pending(uart) - 1
        BY <2>1, <2>5, <3>1, DRReadCounts
      <3>3. Lost' = Lost + 1
        BY <2>1, <3>1, <3>2 DEF Lost
      <3>4. PICK a, b \in Nat : a = Len(calls) /\ b = Len(stored)
        BY <3>1
      <3>5. Missing' = (Lost + 1) - ((a + 1) + b) /\ Missing = Lost - (a + b)
        BY <3>1, <3>3, <3>4 DEF Missing
      <3>6. (Lost + 1) - ((a + 1) + b) = Lost - (a + b)
        BY <2>1
      <3> QED BY <3>5, <3>6
    <2>6. ASSUME TransferStores
          PROVE  Missing' = Missing
      <3>1. /\ calls # <<>>
            /\ stored' = Append(stored, calls[Len(calls)])
            /\ calls' = SubSeq(calls, 1, Len(calls) - 1)
            /\ UNCHANGED <<uart, accepted, nread>>
        BY <2>6 DEF TransferStores, uartVars
      <3>2. /\ Len(calls') = Len(calls) - 1 /\ Len(calls) \in Nat
            /\ Len(stored') = Len(stored) + 1 /\ Len(stored) \in Nat
        BY <2>1, <3>1, MovesOne
      <3>3. Lost' = Lost
        BY <3>1 DEF Lost, Pending
      <3>4. Len(calls') + Len(stored') = Len(calls) + Len(stored)
        BY <3>2
      <3> QED BY <3>3, <3>4 DEF Missing
    <2>7. ASSUME UNCHANGED vars
          PROVE  Missing' = Missing
      BY <2>2, <2>7 DEF vars, uartVars, nestVars
    <2> QED BY <1>1, <2>3, <2>4, <2>5, <2>6, <2>7 DEF Next
  <1> QED BY <1>1, NestInvariant, PTL DEF Spec, NestingLosesNothing

\* The stream behind the USART does what any stream does: with USART and stream
\* composed, each step is one of the DMA controller or leaves it alone.
THEOREM StreamBehindUart == Spec => DmaSpec
  <1>1. Init => DmaInit
    BY DEF Init
  <1>2. [Next]_vars => [DmaNext]_dmaVars
    <2> SUFFICES ASSUME [Next]_vars
                 PROVE  [DmaNext]_dmaVars
      OBVIOUS
    <2>0. Rx \in Streams /\ U \in Usarts /\ NdtrWords \subseteq 0 .. NdtrMod - 1
      BY UartDmaAssumption
    <2>1. CASE \/ Arrival \/ GuestReadsDR \/ GuestWritesSR \/ GuestWritesDR
               \/ GuestWritesCR1 \/ GuestWritesCR3
      BY <2>1, HandlersOfUart DEF dmaVars
    <2>2. CASE GuestWritesCR
      BY <2>0, <2>2 DEF GuestWritesCR, DmaHandler, DmaNext
    <2>3. CASE GuestWritesNDTR
      BY <2>0, <2>3 DEF GuestWritesNDTR, DmaHandler, DmaNext
    <2>4. CASE GuestWritesPAR
      BY <2>0, <2>4 DEF GuestWritesPAR, DmaHandler, DmaNext
    <2>5. CASE GuestWritesLIFCR
      BY <2>0, <2>5 DEF GuestWritesLIFCR, DmaHandler, DmaNext
    <2>6. CASE ResetBoth
      BY <2>6 DEF ResetBoth, DmaNext
    <2>7. CASE TransferReads
      BY <2>7 DEF TransferReads
    <2>8. CASE TransferStores
      BY <2>0, <2>8 DEF TransferStores, DmaNext
    <2>9. CASE UNCHANGED vars
      BY <2>9 DEF vars
    <2> QED BY <2>1, <2>2, <2>3, <2>4, <2>5, <2>6, <2>7, <2>8, <2>9 DEF Next
  <1> QED BY <1>1, <1>2, PTL DEF Spec, DmaSpec

\* Therefore the bytes of the USART are written inside the guest's buffer.
THEOREM BytesStayInBuffer == Spec => []WritesStayInBuffer
  BY StreamBehindUart, DmaStaysInBuffer, PTL
==============================================================================
