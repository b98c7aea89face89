---------------------------- MODULE DeviceProofs -----------------------------
(***************************************************************************)
(* Proofs about devices at the edge of the machine: the knob, the button and*)
(* the filament sensor (InputParts); the display, for every size of the panel*)
(* and window (St7789v); and the Ethernet controller, for every size of its*)
(* rings and all frames (EthMac).                                          *)
(***************************************************************************)
EXTENDS InputParts, St7789v, EthMac, TLAPS

Knobs == [phase : 0 .. 3, ticks : Nat, dir : {-1, 0, 1}, left : BOOLEAN, timer : BOOLEAN, release : BOOLEAN]

InputTypeOK ==
  /\ knob \in Knobs
  /\ held \in BOOLEAN /\ ir \in BOOLEAN /\ spoken \in BOOLEAN
  /\ high \subseteq Pins

\* The button is down only while the mouse holds it, as far as the knob knows, or
\* until the timer releases it; the knob forgets, and never invents, that it is held.
ButtonKnown ==
  /\ "button" \notin high => knob.left \/ knob.release
  /\ knob.left => held

InputInv == InputTypeOK /\ GuestReadsInputs /\ ButtonKnown

\* The four phases drive the two lines of the encoder and no other.
LEMMA PhaseLinesType == PhaseLines[0] = {"A", "B"} /\ \A p \in 0 .. 3 : PhaseLines[p] \subseteq {"A", "B"}
  BY DEF PhaseLines

\* Before anything happened every input is high.
LEMMA InputInitInv == InputInit => InputInv
  <1> SUFFICES ASSUME InputInit
               PROVE  InputInv
    OBVIOUS
  <1>1. InputTypeOK
    <2>1. knob \in Knobs
      BY DEF InputInit, Knobs
    <2> QED BY <2>1, Zenon DEF InputInit, InputTypeOK
  <1>2. GuestReadsInputs /\ ButtonKnown
    <2>1. high \cap {"A", "B"} = PhaseLines[knob.phase]
      BY PhaseLinesType DEF InputInit, Pins
    <2> QED BY <2>1 DEF InputInit, GuestReadsInputs, ButtonKnown, Pins
  <1> QED BY <1>1, <1>2 DEF InputInv

\* A turn gives the knob somewhere to go and its timer with it.
LEMMA TurnedKnob ==
  ASSUME NEW k \in Knobs, NEW d \in {-1, 1}, NEW n \in Nat \ {0}
  PROVE  /\ Turned(k, d, n) \in Knobs
         /\ Turned(k, d, n).timer /\ Turned(k, d, n).ticks > 0
         /\ Turned(k, d, n).phase = k.phase /\ Turned(k, d, n).left = k.left
         /\ Turned(k, d, n).release = k.release
  <1> DEFINE t == 2 * n + (IF k.dir = d THEN k.ticks ELSE 0)
  <1>1. t \in Nat /\ t > 0
    BY DEF Knobs
  <1>2. Turned(k, d, n) = [k EXCEPT !.ticks = t, !.dir = d, !.timer = TRUE]
    BY DEF Turned
  <1> HIDE DEF t
  <1> QED BY <1>1, <1>2, Zenon DEF Knobs

\* Every event of the user, of the script, of the timers and a reset preserves it.
LEMMA InputNextInv == InputInv /\ [InputNext]_inputVars => InputInv'
  <1> SUFFICES ASSUME InputInv, [InputNext]_inputVars
               PROVE  InputInv'
    OBVIOUS
  <1>1. /\ InputTypeOK /\ GuestReadsInputs /\ ButtonKnown
        /\ knob \in Knobs /\ high \subseteq Pins
    BY DEF InputInv, InputTypeOK
  <1>2. ASSUME NEW d \in {-1, 1}, NEW n \in 1 .. MaxTwist, Twist(d, n)
        PROVE  InputInv'
    <2>1. n \in Nat \ {0}
      BY InputAssumption
    <2>2. /\ knob' \in Knobs /\ knob'.timer /\ knob'.ticks > 0 /\ knob'.phase = knob.phase
          /\ knob'.left = knob.left /\ knob'.release = knob.release
          /\ UNCHANGED <<held, ir, spoken, high>>
      BY <1>1, <1>2, <2>1, TurnedKnob, Zenon DEF Twist
    <2> QED BY <1>1, <2>2 DEF InputInv, InputTypeOK, GuestReadsInputs, ButtonKnown
  <1>3. ASSUME NEW dz \in {-1, 0, 1}, NEW down \in BOOLEAN, MouseEvent(dz, down)
        PROVE  InputInv'
    <2> DEFINE k == IF dz = 0 THEN knob ELSE Turned(knob, dz, 1)
    <2>1. /\ k \in Knobs /\ (k.timer <=> k.ticks > 0)
          /\ k.phase = knob.phase /\ k.left = knob.left /\ k.release = knob.release
      BY <1>1, TurnedKnob DEF GuestReadsInputs
    <2>2. knob' = [k EXCEPT !.left = down]
      BY <1>3 DEF MouseEvent
    <2> HIDE DEF k
    <2>3. /\ knob' \in Knobs /\ (knob'.timer <=> knob'.ticks > 0)
          /\ knob'.phase = knob.phase /\ knob'.left = down /\ knob'.release = knob.release
      BY <2>1, <2>2 DEF Knobs
    <2>4. /\ high' \subseteq Pins /\ high' \cap {"A", "B"} = high \cap {"A", "B"}
          /\ "ir" \in high' <=> "ir" \in high
          /\ down # knob.left => ("button" \in high' <=> ~down)
          /\ down = knob.left => high' = high
      BY <1>1, <1>3 DEF MouseEvent, Level, Drive, Pins
    <2>5. held' = down /\ UNCHANGED <<ir, spoken>>
      BY <1>3 DEF MouseEvent
    <2>6. InputTypeOK'
      BY <1>1, <2>3, <2>4, <2>5 DEF InputTypeOK
    <2>7. ButtonKnown'
      BY <1>1, <2>3, <2>4, <2>5 DEF ButtonKnown, Knobs
    <2>8. GuestReadsInputs'
      BY <1>1, <2>3, <2>4, <2>5, <2>7 DEF GuestReadsInputs, ButtonKnown
    <2> QED BY <2>6, <2>7, <2>8 DEF InputInv
  <1>4. ASSUME NEW on \in BOOLEAN, SetSensor(on)
        PROVE  InputInv'
    BY <1>1, <1>4 DEF SetSensor, Level, Drive, InputInv, InputTypeOK, GuestReadsInputs, ButtonKnown, Pins
  <1>5. CASE Push
    BY <1>1, <1>5, Zenon DEF Push, Level, Drive, InputInv, InputTypeOK, Knobs, GuestReadsInputs, ButtonKnown, Pins
  <1>6. CASE Release
    BY <1>1, <1>6, Zenon DEF Release, Level, Drive, InputInv, InputTypeOK, Knobs, GuestReadsInputs, ButtonKnown, Pins
  <1>7. CASE KnobExpire
    <2> DEFINE p == (knob.phase + (IF knob.dir < 0 THEN 1 ELSE 3)) % 4
    <2>1. p \in 0 .. 3
      BY <1>1 DEF Knobs
    <2>2. /\ knob.timer /\ knob' = [knob EXCEPT !.phase = p, !.ticks = @ - 1, !.timer = knob.ticks > 1]
          /\ high' = (high \ {"A", "B"}) \cup PhaseLines[p]
          /\ UNCHANGED <<held, ir, spoken>>
      BY <1>7 DEF KnobExpire, Drive
    <2> HIDE DEF p
    <2>3. knob.ticks > 0
      BY <1>1, <2>2 DEF GuestReadsInputs
    <2>4. /\ knob' \in Knobs /\ knob'.phase = p /\ (knob'.timer <=> knob'.ticks > 0)
          /\ knob'.left = knob.left /\ knob'.release = knob.release
      <3> DEFINE more == knob.ticks > 1
                 t == knob.ticks - 1
      <3>1. more \in BOOLEAN /\ t \in Nat /\ (more <=> t > 0)
        BY <1>1, <2>3 DEF Knobs
      <3>2. knob' = [knob EXCEPT !.phase = p, !.ticks = t, !.timer = more]
        BY <2>2
      <3> HIDE DEF more, t
      <3> QED BY <1>1, <2>1, <3>1, <3>2, Zenon DEF Knobs
    <2>5. /\ high' \subseteq Pins /\ high' \cap {"A", "B"} = PhaseLines[p]
          /\ "ir" \in high' <=> "ir" \in high
          /\ "button" \in high' <=> "button" \in high
      BY <1>1, <2>1, <2>2, PhaseLinesType DEF Pins
    <2> QED BY <1>1, <2>2, <2>4, <2>5 DEF InputInv, InputTypeOK, GuestReadsInputs, ButtonKnown
  <1>8. CASE InputReset
    <2>1. /\ knob' \in Knobs /\ knob'.phase = 0 /\ ~knob'.left
          /\ knob'.timer <=> knob.timer
          /\ knob'.ticks = knob.ticks
      <3>1. knob' = [knob EXCEPT !.left = FALSE, !.phase = 0]
        BY <1>8 DEF InputReset, KnobReset
      <3>2. knob' \in Knobs
        <4>1. \A p \in 0 .. 3, b \in BOOLEAN : [knob EXCEPT !.left = b, !.phase = p] \in Knobs
          BY <1>1, Zenon DEF Knobs
        <4>2. 0 \in 0 .. 3 /\ FALSE \in BOOLEAN
          OBVIOUS
        <4> QED BY <3>1, <4>1, <4>2, Zenon
      <3>3. knob'.phase = 0 /\ knob'.ticks = knob.ticks /\ knob'.timer = knob.timer
        BY <1>1, <3>1 DEF Knobs
      <3>4. knob'.left = FALSE
        BY <1>1, <3>1 DEF Knobs
      <3> QED BY <3>2, <3>3, <3>4
    <2>2. spoken' = FALSE /\ high' = Pins /\ UNCHANGED <<held, ir>>
      BY <1>8 DEF InputReset
    <2>3. InputTypeOK'
      BY <1>1, <2>1, <2>2, Zenon DEF InputTypeOK
    <2>4. high' \cap {"A", "B"} = PhaseLines[knob'.phase]
      BY <2>1, <2>2, PhaseLinesType DEF Pins
    <2>5. GuestReadsInputs' /\ ButtonKnown'
      BY <1>1, <2>1, <2>2, <2>4 DEF GuestReadsInputs, ButtonKnown, Pins
    <2> QED BY <2>3, <2>5 DEF InputInv
  <1>9. CASE UNCHANGED inputVars
    BY <1>1, <1>9 DEF inputVars, InputInv, InputTypeOK, GuestReadsInputs, ButtonKnown
  <1> QED BY <1>2, <1>3, <1>4, <1>5, <1>6, <1>7, <1>8, <1>9 DEF InputNext

\* What the guest reads is what the knob, its button and the sensor are at, for
\* turns of any length and resets at any moment.
THEOREM InputsAreRead == InputSpec => []GuestReadsInputs
  <1>1. InputInv => GuestReadsInputs
    BY DEF InputInv
  <1> QED BY <1>1, InputInitInv, InputNextInv, PTL DEF InputSpec

(***************************************************************************)
(* The display (St7789v).                                                  *)
(***************************************************************************)
\* A quotient and a remainder are the only ones.
LEMMA Quotient ==
  ASSUME NEW n \in Nat \ {0}, NEW q \in Int, NEW c \in 0 .. n - 1
  PROVE  (q * n + c) % n = c /\ (q * n + c) \div n = q
  <1> DEFINE a == q * n + c
             d == a \div n
             m == a % n
  <1>1. a \in Int /\ d \in Int /\ m \in 0 .. n - 1 /\ a = n * d + m
    OBVIOUS
  <1> HIDE DEF d, m
  <1>2. n * (q - d) = m - c
    BY <1>1
  <1>3. \A x \in Int : x >= 1 => n * x >= n
    OBVIOUS
  <1>4. \A x \in Int : x <= -1 => n * x <= -n
    OBVIOUS
  <1>5. q - d = 0
    <2>1. q - d \in Int
      BY <1>1
    <2>2. ~(q - d >= 1)
      BY <1>1, <1>2, <1>3, <2>1
    <2>3. ~(q - d <= -1)
      BY <1>1, <1>2, <1>4, <2>1
    <2> QED
      BY <2>1, <2>2, <2>3
  <1> QED
    BY <1>1, <1>2, <1>5 DEF d, m

\* The next number modulo n
LEMMA NextModulo ==
  ASSUME NEW n \in Nat \ {0}, NEW p \in 0 .. n - 1
  PROVE  (p + 1) % n = IF p + 1 = n THEN 0 ELSE p + 1
  <1>1. CASE p + 1 = n
    <2>1. (1 * n + 0) % n = 0
      BY Quotient
    <2>2. 1 * n + 0 = p + 1
      BY <1>1
    <2> QED
      BY <1>1, <2>1, <2>2
  <1>2. CASE p + 1 # n
    <2>1. p + 1 \in 0 .. n - 1
      BY <1>2
    <2>2. (0 * n + (p + 1)) % n = p + 1
      BY <2>1, Quotient
    <2>3. 0 * n + (p + 1) = p + 1
      BY <2>1
    <2> QED
      BY <1>2, <2>2, <2>3
  <1> QED
    BY <1>1, <1>2

\* a pixels from the first corner of a window of h rows of w columns are in row r and
\* column c of it.
Placed(a, r, c, h, w) == \E q \in Int : a = (q * h + r) * w + c

\* So what the property counts is what the cursor shows.
LEMMA PlacedMeans ==
  ASSUME NEW h \in Nat \ {0}, NEW w \in Nat \ {0}, NEW r \in 0 .. h - 1, NEW c \in 0 .. w - 1,
         NEW a, Placed(a, r, c, h, w)
  PROVE  a % w = c /\ (a \div w) % h = r
  <1>1. PICK q \in Int : a = (q * h + r) * w + c
    BY DEF Placed
  <1> DEFINE x == q * h + r
  <1>2. x \in Int /\ a = x * w + c
    BY <1>1
  <1>3. x % h = r
    BY Quotient, Zenon
  <1> HIDE DEF x
  <1>4. a % w = c /\ a \div w = x
    BY <1>2, Quotient, Zenon
  <1> QED
    BY <1>3, <1>4

\* One window further on is the same place.
LEMMA PlacedWraps ==
  ASSUME NEW h \in Nat \ {0}, NEW w \in Nat \ {0}, NEW r \in 0 .. h - 1, NEW c \in 0 .. w - 1,
         NEW a \in Int, Placed(a, r, c, h, w)
  PROVE  Placed(a - w * h, r, c, h, w)
  <1>1. PICK q \in Int : a = (q * h + r) * w + c
    BY DEF Placed
  <1>2. (q - 1) * h = q * h - h
    OBVIOUS
  <1> DEFINE x == q * h + r
  <1>3. x \in Int /\ a = x * w + c /\ (q - 1) * h + r = x - h
    BY <1>1, <1>2
  <1> HIDE DEF x
  <1>4. (x - h) * w = x * w - w * h
    BY <1>3
  <1>5. a - w * h = ((q - 1) * h + r) * w + c
    BY <1>3, <1>4
  <1> QED
    BY <1>5 DEF Placed

\* The next place, along the row or at the start of the next one or of the first
LEMMA PlacedNext ==
  ASSUME NEW h \in Nat \ {0}, NEW w \in Nat \ {0}, NEW r \in 0 .. h - 1, NEW c \in 0 .. w - 1,
         NEW a \in Int, Placed(a, r, c, h, w)
  PROVE  Placed(a + 1, IF c + 1 < w THEN r ELSE IF r + 1 < h THEN r + 1 ELSE 0,
                       IF c + 1 < w THEN c + 1 ELSE 0, h, w)
  <1>1. PICK q \in Int : a = (q * h + r) * w + c
    BY DEF Placed
  <1> DEFINE x == q * h + r
  <1>2. x \in Int /\ a = x * w + c
    BY <1>1
  <1>3. (x + 1) * w = x * w + w
    <2> HIDE DEF x
    <2> QED
      BY <1>2
  <1>4. (q + 1) * h = q * h + h
    OBVIOUS
  <1>5. CASE c + 1 < w
    <2>1. a + 1 = (q * h + r) * w + (c + 1)
      BY <1>1
    <2> QED
      BY <1>5, <2>1 DEF Placed
  <1>6. CASE ~(c + 1 < w) /\ r + 1 < h
    <2>1. x + 1 = q * h + (r + 1) /\ c + 1 = w
      BY <1>6
    <2>2. a + 1 = (x + 1) * w + 0
      <3> HIDE DEF x
      <3> QED
        BY <1>2, <1>3, <2>1
    <2>3. a + 1 = (q * h + (r + 1)) * w + 0
      BY <2>1, <2>2
    <2> QED
      BY <1>6, <2>3 DEF Placed
  <1>7. CASE ~(c + 1 < w) /\ ~(r + 1 < h)
    <2>1. x + 1 = (q + 1) * h + 0 /\ c + 1 = w
      BY <1>4, <1>7
    <2>2. a + 1 = (x + 1) * w + 0
      <3> HIDE DEF x
      <3> QED
        BY <1>2, <1>3, <2>1
    <2>3. a + 1 = ((q + 1) * h + 0) * w + 0 /\ q + 1 \in Int
      BY <2>1, <2>2
    <2> QED
      BY <1>7, <2>3 DEF Placed
  <1> QED
    BY <1>5, <1>6, <1>7

LcdType ==
  [mode : {"cmd", "data"}, cmd : Commands, args : Seq(Nat), redraw : BOOLEAN,
   row : 0 .. Rows - 1, row_start : 0 .. Rows - 1, row_end : 0 .. Rows - 1,
   col : 0 .. Cols - 1, col_start : 0 .. Cols - 1, col_end : 0 .. Cols - 1]

\* The cursor of s is in the window of s, p pixels after the place f.
Cursor(s, f, p) ==
  /\ s.row - s.row_start \in 0 .. Height(s) - 1 /\ s.col - s.col_start \in 0 .. Width(s) - 1
  /\ p \in 0 .. Width(s) * Height(s) - 1
  /\ Placed((f.row - s.row_start) * Width(s) + (f.col - s.col_start) + p,
            s.row - s.row_start, s.col - s.col_start, Height(s), Width(s))

DisplayInv ==
  /\ lcd \in LcdType /\ from \in [row : 0 .. Rows - 1, col : 0 .. Cols - 1]
  /\ Cursor(lcd, from, pixels)
  /\ unshown => lcd.redraw

\* A window has a column and a row at least, and ends at its last ones.
LEMMA WindowFacts ==
  ASSUME NEW s \in LcdType
  PROVE  /\ Width(s) \in Nat \ {0} /\ Height(s) \in Nat \ {0}
         /\ \A x \in Int : x - s.col_start \in 0 .. Width(s) - 1 =>
              (x + 1 > s.col_end <=> ~(x - s.col_start + 1 < Width(s)))
         /\ \A y \in Int : y - s.row_start \in 0 .. Height(s) - 1 =>
              (y + 1 > s.row_end <=> ~(y - s.row_start + 1 < Height(s)))
  <1>1. /\ s.col_start \in 0 .. Cols - 1 /\ s.col_end \in 0 .. Cols - 1
        /\ s.row_start \in 0 .. Rows - 1 /\ s.row_end \in 0 .. Rows - 1
        /\ Rows \in Nat /\ Cols \in Nat
    BY DisplayAssumption DEF LcdType
  <1> QED
    BY <1>1 DEF Width, Height, Extent

\* The invariant gives the property: the cursor is inside the framebuffer because all
\* its places are.
LEMMA CursorMeans == DisplayInv => PixelsFillWindow
  <1> SUFFICES ASSUME DisplayInv PROVE PixelsFillWindow
    OBVIOUS
  <1> DEFINE r == lcd.row - lcd.row_start
             c == lcd.col - lcd.col_start
             w == Width(lcd)
             h == Height(lcd)
             at == (from.row - lcd.row_start) * w + (from.col - lcd.col_start) + pixels
  <1>1. lcd \in LcdType
    BY DEF DisplayInv
  <1>2. w \in Nat \ {0} /\ h \in Nat \ {0}
    BY <1>1, WindowFacts
  <1>3. r \in 0 .. h - 1 /\ c \in 0 .. w - 1 /\ Placed(at, r, c, h, w)
    BY DEF DisplayInv, Cursor
  <1>4. at % w = c /\ (at \div w) % h = r
    <2> HIDE DEF w, h, at, r, c
    <2> QED
      BY <1>2, <1>3, PlacedMeans
  <1>5. /\ lcd.row \in 0 .. Rows - 1 /\ lcd.row_start \in 0 .. Rows - 1
        /\ lcd.col \in 0 .. Cols - 1 /\ lcd.col_start \in 0 .. Cols - 1
    BY <1>1 DEF LcdType
  <1>6. lcd.row = lcd.row_start + r /\ lcd.col = lcd.col_start + c
    BY <1>5, DisplayAssumption
  <1>7. unshown => lcd.redraw
    BY DEF DisplayInv
  <1>8. lcd.col = lcd.col_start + (at % w) /\ lcd.row = lcd.row_start + ((at \div w) % h)
    <2> HIDE DEF w, h, at, r, c
    <2> QED
      BY <1>4, <1>6
  <1> QED
    BY <1>5, <1>7, <1>8 DEF PixelsFillWindow

\* Where the cursor is put, no pixels have been written since.
LEMMA CursorAtMove ==
  ASSUME NEW s \in LcdType, s.row - s.row_start \in 0 .. Height(s) - 1,
         s.col - s.col_start \in 0 .. Width(s) - 1
  PROVE  Cursor(s, [row |-> s.row, col |-> s.col], 0)
  <1> DEFINE r == s.row - s.row_start
             c == s.col - s.col_start
             w == Width(s)
             h == Height(s)
  <1>1. w \in Nat \ {0} /\ h \in Nat \ {0} /\ r \in 0 .. h - 1 /\ c \in 0 .. w - 1
    BY WindowFacts
  <1>2. 0 \in 0 .. w * h - 1 /\ r * w + c + 0 = (0 * h + r) * w + c
    <2> HIDE DEF w, h, r, c
    <2>1. w * h >= 1
      BY <1>1
    <2>2. w * h \in Int /\ 0 * h + r = r /\ r * w + c \in Int
      BY <1>1
    <2> QED
      BY <2>1, <2>2
  <1>3. Placed(r * w + c + 0, r, c, h, w)
    BY <1>2 DEF Placed
  <1> QED
    BY <1>1, <1>2, <1>3 DEF Cursor

\* The cursor after a pixel is one place further on in the same window, inside the
\* framebuffer even where the window ends before it starts.
LEMMA AdvanceCursor ==
  ASSUME NEW s \in LcdType, NEW f \in [row : 0 .. Rows - 1, col : 0 .. Cols - 1],
         NEW p, Cursor(s, f, p)
  PROVE  /\ Advance(s) \in LcdType
         /\ Cursor(Advance(s), f, (p + 1) % (Width(s) * Height(s)))
  <1> DEFINE r == s.row - s.row_start
             c == s.col - s.col_start
             w == Width(s)
             h == Height(s)
             n == Advance(s)
             z == w * h
             at == (f.row - s.row_start) * w + (f.col - s.col_start) + p
             col == IF c + 1 < w THEN c + 1 ELSE 0
             row == IF c + 1 < w THEN r ELSE IF r + 1 < h THEN r + 1 ELSE 0
  <1>1. /\ w \in Nat \ {0} /\ h \in Nat \ {0} /\ r \in 0 .. h - 1 /\ c \in 0 .. w - 1
        /\ p \in 0 .. z - 1 /\ Placed(at, r, c, h, w)
    BY WindowFacts DEF Cursor
  <1>2. /\ s.row \in 0 .. Rows - 1 /\ s.row_start \in 0 .. Rows - 1 /\ s.row_end \in 0 .. Rows - 1
        /\ s.col \in 0 .. Cols - 1 /\ s.col_start \in 0 .. Cols - 1 /\ s.col_end \in 0 .. Cols - 1
        /\ Rows \in Nat /\ Cols \in Nat /\ f.row \in Int /\ f.col \in Int
    BY DisplayAssumption DEF LcdType
  <1>3. /\ s.col + 1 > s.col_end <=> ~(c + 1 < w)
        /\ s.row + 1 > s.row_end <=> ~(r + 1 < h)
    BY <1>1, <1>2, WindowFacts
  <1>4. ~(s.row > s.row_end) \/ (r = 0 /\ h = 1)
    BY <1>1, <1>2 DEF Height, Extent
  <1> DEFINE over == s.col + 1 > s.col_end
             to == IF over THEN s.row + 1 ELSE s.row
             newcol == IF over THEN s.col_start ELSE s.col + 1
             newrow == IF to > s.row_end THEN s.row_start ELSE to
  <1>5. n = [s EXCEPT !.col = newcol, !.row = newrow]
    BY DEF Advance
  <1>6. newcol - s.col_start = col /\ newrow - s.row_start = row
    <2>1. newcol - s.col_start = col
      BY <1>1, <1>2, <1>3
    <2>2. CASE over
      <3>1. to = s.row + 1 /\ ~(c + 1 < w)
        BY <1>3, <2>2
      <3>2. newrow - s.row_start = IF r + 1 < h THEN r + 1 ELSE 0
        BY <1>2, <1>3, <3>1
      <3> QED
        BY <2>1, <3>1, <3>2
    <2>3. CASE ~over
      <3>1. to = s.row /\ c + 1 < w
        BY <1>3, <2>3
      <3>2. newrow - s.row_start = r
        BY <1>2, <1>4, <3>1
      <3> QED
        BY <2>1, <3>1, <3>2
    <2> QED
      BY <2>2, <2>3
  <1>7. newcol \in 0 .. Cols - 1 /\ newrow \in 0 .. Rows - 1
    BY <1>2
  <1> HIDE DEF newcol, newrow
  <1>8. /\ n \in LcdType
        /\ n.row = newrow /\ n.col = newcol /\ n.row_start = s.row_start
        /\ n.row_end = s.row_end /\ n.col_start = s.col_start /\ n.col_end = s.col_end
    BY <1>5, <1>7, Zenon DEF LcdType
  <1> HIDE DEF n
  <1>9. Width(n) = w /\ Height(n) = h
    BY <1>8 DEF Width, Height
  <1>10. at \in Int /\ z \in Nat \ {0}
    <2> HIDE DEF w, h
    <2>1. z \in Nat \ {0}
      BY <1>1
    <2> HIDE DEF z
    <2> QED
      BY <1>1, <1>2, <2>1
  <1> DEFINE q == (p + 1) % z
             at2 == (f.row - s.row_start) * w + (f.col - s.col_start) + q
  <1>11. q = IF p + 1 = z THEN 0 ELSE p + 1
    <2> HIDE DEF z
    <2> QED
      BY <1>1, <1>10, NextModulo, Zenon
  <1>12. Placed(at + 1, row, col, h, w)
    <2> HIDE DEF at, w, h, r, c
    <2> QED
      BY <1>1, <1>10, PlacedNext
  <1>13. row \in 0 .. h - 1 /\ col \in 0 .. w - 1
    <2> HIDE DEF w, h, r, c
    <2> QED
      BY <1>1
  <1>14. Placed((at + 1) - z, row, col, h, w)
    <2> DEFINE a == at + 1
    <2>1. a \in Int /\ Placed(a, row, col, h, w)
      BY <1>10, <1>12
    <2>2. z = w * h /\ a = at + 1
      OBVIOUS
    <2> HIDE DEF a, at, z, w, h, r, c, row, col
    <2>3. Placed(a - w * h, row, col, h, w)
      BY <1>1, <1>13, <2>1, PlacedWraps
    <2> QED
      BY <2>2, <2>3
  <1>15. at2 = (IF p + 1 = z THEN (at + 1) - z ELSE at + 1) /\ q \in 0 .. z - 1
    <2> DEFINE b == (f.row - s.row_start) * w + (f.col - s.col_start)
    <2>1. b \in Int
      <3> HIDE DEF w
      <3> QED
        BY <1>1, <1>2
    <2>2. at = b + p /\ at2 = b + q
      OBVIOUS
    <2> HIDE DEF b, z, at, at2, q
    <2> QED
      BY <1>1, <1>10, <1>11, <2>1, <2>2
  <1>16. Placed(at2, row, col, h, w)
    <2> HIDE DEF at, at2, w, h, z, row, col
    <2> QED
      BY <1>12, <1>14, <1>15
  <1>17. Cursor(n, f, q)
    <2> HIDE DEF w, h, q, row, col
    <2> QED
      BY <1>6, <1>8, <1>9, <1>13, <1>15, <1>16 DEF Cursor
  <1> QED
    BY <1>8, <1>17 DEF n

\* An element of a sequence is in its range.
LEMMA ElementOfSeq == \A S : \A a \in Seq(S) : \A k \in 1 .. Len(a) : a[k] \in S
  OBVIOUS

\* The last of an argument's bytes makes a word inside the framebuffer.
LEMMA WordFacts ==
  ASSUME NEW args \in Seq(Nat), Len(args) = 4, NEW i \in {1, 3}, NEW size \in Nat \ {0}
  PROVE  Word(args, i, size) \in 0 .. size - 1
  <1>1. args[i] \in Nat /\ args[i + 1] \in Nat /\ Byte \in Nat
    <2>1. \A k \in 1 .. Len(args) : args[k] \in Nat
      BY ElementOfSeq, Zenon
    <2>2. i \in 1 .. Len(args) /\ i + 1 \in 1 .. Len(args)
      OBVIOUS
    <2> QED
      BY <2>1, <2>2, DisplayAssumption
  <1> DEFINE x == args[i] * Byte + args[i + 1]
  <1>4. \A a, b \in Nat : a * b \in Nat
    OBVIOUS
  <1>2. x \in Nat
    <2>1. args[i] * Byte \in Nat
      BY <1>1, <1>4
    <2> QED
      BY <1>1, <2>1
  <1>3. Word(args, i, size) = x % size
    BY DEF Word
  <1> HIDE DEF x
  <1> QED
    BY <1>2, <1>3

\* What leaves cursor, window and pixels alone preserves the invariant.
LEMMA SameCursor ==
  ASSUME DisplayInv, lcd' \in LcdType, from' = from, pixels' = pixels,
         lcd'.row = lcd.row, lcd'.row_start = lcd.row_start, lcd'.row_end = lcd.row_end,
         lcd'.col = lcd.col, lcd'.col_start = lcd.col_start, lcd'.col_end = lcd.col_end,
         unshown' => lcd'.redraw
  PROVE  DisplayInv'
  <1>1. Width(lcd') = Width(lcd) /\ Height(lcd') = Height(lcd)
    BY DEF Width, Height
  <1>2. Cursor(lcd', from', pixels')
    BY <1>1 DEF DisplayInv, Cursor
  <1> QED
    BY <1>2 DEF DisplayInv

\* A command drops the arguments of the one before; RAMWR goes to the start of the window.
LEMMA CommandInv ==
  ASSUME DisplayInv, NEW cmd \in Commands, Command(cmd)
  PROVE  DisplayInv'
  <1> DEFINE s == [lcd EXCEPT !.cmd = cmd, !.args = <<>>]
             m == [s EXCEPT !.row = s.row_start, !.col = s.col_start]
  <1>0. <<>> \in Seq(Nat)
    OBVIOUS
  <1>1. /\ s \in LcdType /\ s.redraw = lcd.redraw
        /\ s.row = lcd.row /\ s.row_start = lcd.row_start /\ s.row_end = lcd.row_end
        /\ s.col = lcd.col /\ s.col_start = lcd.col_start /\ s.col_end = lcd.col_end
    BY <1>0, Zenon DEF DisplayInv, LcdType
  <1>2. CASE cmd = "RAMWR"
    <2>0. MoveTo(m)
      BY <1>2 DEF Command
    <2> HIDE DEF s
    <2>1. /\ m \in LcdType /\ m.redraw = s.redraw
          /\ m.row = s.row_start /\ m.col = s.col_start
          /\ m.row_start = s.row_start /\ m.col_start = s.col_start
      BY <1>1, Zenon DEF LcdType
    <2>7. s.row_start \in Int /\ s.col_start \in Int
      BY <1>1, DisplayAssumption DEF LcdType
    <2> HIDE DEF m
    <2>2. m.row - m.row_start = 0 /\ m.col - m.col_start = 0
      BY <2>1, <2>7
    <2>3. 0 \in 0 .. Width(m) - 1 /\ 0 \in 0 .. Height(m) - 1
      BY <2>1, WindowFacts
    <2>4. Cursor(m, [row |-> m.row, col |-> m.col], 0)
      BY <2>1, <2>2, <2>3, CursorAtMove
    <2>5. [row |-> m.row, col |-> m.col] \in [row : 0 .. Rows - 1, col : 0 .. Cols - 1]
      BY <2>1 DEF LcdType
    <2>6. /\ lcd' = m /\ from' = [row |-> m.row, col |-> m.col] /\ pixels' = 0
          /\ unshown' = unshown
      BY <2>0 DEF MoveTo
    <2> QED
      BY <1>1, <2>1, <2>4, <2>5, <2>6 DEF DisplayInv
  <1>3. CASE cmd # "RAMWR"
    <2>1. lcd' = s /\ from' = from /\ pixels' = pixels /\ unshown' = unshown
      BY <1>3 DEF Command
    <2>2. unshown => lcd.redraw
      BY DEF DisplayInv
    <2> HIDE DEF s
    <2> QED
      BY <1>1, <2>1, <2>2, SameCursor
  <1> QED
    BY <1>2, <1>3

\* An argument that does not complete its command only waits.
LEMMA ArgumentInv ==
  ASSUME DisplayInv, NEW data \in 0 .. Byte - 1, Argument(data, Needs(lcd.cmd))
  PROVE  DisplayInv'
  <1> DEFINE s == [lcd EXCEPT !.args = Append(@, data)]
  <1>1. lcd' = s /\ from' = from /\ pixels' = pixels /\ unshown' = unshown
    BY DEF Argument
  <1>2. lcd.args \in Seq(Nat)
    BY DEF DisplayInv, LcdType
  <1>3. Append(lcd.args, data) \in Seq(Nat)
    BY <1>2, DisplayAssumption
  <1>4. /\ s \in LcdType /\ s.redraw = lcd.redraw
        /\ s.row = lcd.row /\ s.row_start = lcd.row_start /\ s.row_end = lcd.row_end
        /\ s.col = lcd.col /\ s.col_start = lcd.col_start /\ s.col_end = lcd.col_end
    BY <1>3, Zenon DEF DisplayInv, LcdType
  <1>5. unshown => lcd.redraw
    BY DEF DisplayInv
  <1> HIDE DEF s
  <1> QED
    BY <1>1, <1>4, <1>5, SameCursor

\* The last argument sets the window or writes a pixel: the window moves under the
\* cursor only in the direction that is set, where the cursor goes to its start.
LEMMA LastArgumentInv ==
  ASSUME DisplayInv, NEW data \in 0 .. Byte - 1, LastArgument(data)
  PROVE  DisplayInv'
  <1> DEFINE args == Append(lcd.args, data)
             s == [lcd EXCEPT !.args = <<>>]
  <1>0. <<>> \in Seq(Nat) /\ lcd.args \in Seq(Nat)
    BY DEF DisplayInv, LcdType
  <1>1. args \in Seq(Nat) /\ Len(args) = Needs(lcd.cmd)
    BY <1>0, DisplayAssumption DEF LastArgument
  <1>2. /\ s \in LcdType /\ s.redraw = lcd.redraw
        /\ s.row = lcd.row /\ s.row_start = lcd.row_start /\ s.row_end = lcd.row_end
        /\ s.col = lcd.col /\ s.col_start = lcd.col_start /\ s.col_end = lcd.col_end
    BY <1>0, Zenon DEF DisplayInv, LcdType
  <1>3. Width(s) = Width(lcd) /\ Height(s) = Height(lcd)
    BY <1>2 DEF Width, Height
  <1>4. Cursor(s, from, pixels)
    BY <1>2, <1>3 DEF DisplayInv, Cursor
  <1>5. (unshown => s.redraw) /\ from \in [row : 0 .. Rows - 1, col : 0 .. Cols - 1]
    BY <1>2 DEF DisplayInv
  <1>6. ASSUME NEW m \in LcdType, m.redraw = s.redraw, MoveTo(m),
               m.row - m.row_start \in 0 .. Height(m) - 1,
               m.col - m.col_start \in 0 .. Width(m) - 1
        PROVE  DisplayInv'
    <2>1. Cursor(m, [row |-> m.row, col |-> m.col], 0)
      BY <1>6, CursorAtMove
    <2>2. [row |-> m.row, col |-> m.col] \in [row : 0 .. Rows - 1, col : 0 .. Cols - 1]
      BY DEF LcdType
    <2>3. /\ lcd' = m /\ from' = [row |-> m.row, col |-> m.col] /\ pixels' = 0
          /\ unshown' = unshown
      BY <1>6 DEF MoveTo
    <2> QED
      BY <1>5, <1>6, <2>1, <2>2, <2>3 DEF DisplayInv
  <1>7. CASE lcd.cmd = "CASET"
    <2> DEFINE first == Word(args, 1, Cols)
               last == Word(args, 3, Cols)
               m == [s EXCEPT !.col = first, !.col_start = first, !.col_end = last]
    <2>1. MoveTo(m)
      BY <1>7 DEF LastArgument
    <2>2. Len(args) = 4
      BY <1>1, <1>7 DEF Needs
    <2> HIDE DEF args, s
    <2>3. first \in 0 .. Cols - 1 /\ last \in 0 .. Cols - 1
      BY <1>1, <2>2, WordFacts, DisplayAssumption
    <2> HIDE DEF first, last
    <2>4. /\ m \in LcdType /\ m.redraw = s.redraw /\ m.col = first /\ m.col_start = first
          /\ m.row = s.row /\ m.row_start = s.row_start /\ m.row_end = s.row_end
      BY <1>2, <2>3, Zenon DEF LcdType
    <2> HIDE DEF m
    <2>5. m.row - m.row_start \in 0 .. Height(m) - 1
      BY <1>4, <2>4 DEF Cursor, Height
    <2>6. m.col - m.col_start \in 0 .. Width(m) - 1
      BY <2>3, <2>4, WindowFacts
    <2> QED
      BY <1>6, <2>1, <2>4, <2>5, <2>6
  <1>8. CASE lcd.cmd = "RASET"
    <2> DEFINE first == Word(args, 1, Rows)
               last == Word(args, 3, Rows)
               m == [s EXCEPT !.row = first, !.row_start = first, !.row_end = last]
    <2>1. MoveTo(m)
      BY <1>8 DEF LastArgument
    <2>2. Len(args) = 4
      BY <1>1, <1>8 DEF Needs
    <2> HIDE DEF args, s
    <2>3. first \in 0 .. Rows - 1 /\ last \in 0 .. Rows - 1
      BY <1>1, <2>2, WordFacts, DisplayAssumption
    <2> HIDE DEF first, last
    <2>4. /\ m \in LcdType /\ m.redraw = s.redraw /\ m.row = first /\ m.row_start = first
          /\ m.col = s.col /\ m.col_start = s.col_start /\ m.col_end = s.col_end
      BY <1>2, <2>3, Zenon DEF LcdType
    <2> HIDE DEF m
    <2>5. m.col - m.col_start \in 0 .. Width(m) - 1
      BY <1>4, <2>4 DEF Cursor, Width
    <2>6. m.row - m.row_start \in 0 .. Height(m) - 1
      BY <2>3, <2>4, WindowFacts
    <2> QED
      BY <1>6, <2>1, <2>4, <2>5, <2>6
  <1>9. CASE lcd.cmd = "RAMWR"
    <2> DEFINE n == Advance(s)
               m == [n EXCEPT !.redraw = TRUE]
    <2>1. lcd' = m /\ pixels' = (pixels + 1) % (Width(s) * Height(s)) /\ from' = from
      BY <1>9 DEF LastArgument
    <2> HIDE DEF s
    <2>2. n \in LcdType /\ Cursor(n, from, pixels')
      BY <1>2, <1>4, <1>5, <2>1, AdvanceCursor
    <2> HIDE DEF n
    <2>3. /\ m \in LcdType /\ m.redraw = TRUE
          /\ m.row = n.row /\ m.row_start = n.row_start /\ m.row_end = n.row_end
          /\ m.col = n.col /\ m.col_start = n.col_start /\ m.col_end = n.col_end
      BY <2>2, Zenon DEF LcdType
    <2> HIDE DEF m
    <2>4. Width(m) = Width(n) /\ Height(m) = Height(n)
      BY <2>3 DEF Width, Height
    <2>5. Cursor(m, from, pixels')
      BY <2>2, <2>3, <2>4 DEF Cursor
    <2> QED
      BY <1>5, <2>1, <2>3, <2>5 DEF DisplayInv
  <1>10. CASE lcd.cmd \notin {"CASET", "RASET", "RAMWR"}
    <2>1. lcd' = s /\ from' = from /\ pixels' = pixels /\ unshown' = unshown
      BY <1>10 DEF LastArgument
    <2> HIDE DEF s
    <2> QED
      BY <1>2, <1>5, <2>1, SameCursor
  <1> QED
    BY <1>7, <1>8, <1>9, <1>10

\* The mode line, a copy to the screen and a request for one leave the cursor alone.
LEMMA OtherInv ==
  ASSUME DisplayInv,
         (\E mode \in {"cmd", "data"} : SetMode(mode)) \/ UpdateDisplay \/ Invalidate
  PROVE  DisplayInv'
  <1>1. lcd \in LcdType /\ (unshown => lcd.redraw)
    BY DEF DisplayInv
  <1>2. from' = from /\ pixels' = pixels
    BY DEF SetMode, UpdateDisplay, Invalidate
  <1>3. /\ lcd' \in LcdType
        /\ lcd'.row = lcd.row /\ lcd'.row_start = lcd.row_start /\ lcd'.row_end = lcd.row_end
        /\ lcd'.col = lcd.col /\ lcd'.col_start = lcd.col_start /\ lcd'.col_end = lcd.col_end
    BY <1>1, Zenon DEF LcdType, SetMode, UpdateDisplay, Invalidate
  <1>4. unshown' => lcd'.redraw
    BY <1>1, Zenon DEF LcdType, SetMode, UpdateDisplay, Invalidate
  <1> QED
    BY <1>2, <1>3, <1>4, SameCursor

\* The invariant of the display holds throughout.
THEOREM DisplayInvariant == DisplaySpec => []DisplayInv
  <1>1. DisplayInit => DisplayInv
    <2> SUFFICES ASSUME DisplayInit PROVE DisplayInv
      OBVIOUS
    <2>1. /\ <<>> \in Seq(Nat) /\ "other" \in Commands
          /\ 0 \in 0 .. Rows - 1 /\ Rows - 1 \in 0 .. Rows - 1
          /\ 0 \in 0 .. Cols - 1 /\ Cols - 1 \in 0 .. Cols - 1
      BY DisplayAssumption DEF Commands
    <2>2. lcd \in LcdType /\ from = [row |-> lcd.row, col |-> lcd.col]
      BY <2>1 DEF DisplayInit, LcdType
    <2>3. lcd.row - lcd.row_start = 0 /\ lcd.col - lcd.col_start = 0
      BY DEF DisplayInit
    <2>4. 0 \in 0 .. Height(lcd) - 1 /\ 0 \in 0 .. Width(lcd) - 1
      BY <2>2, WindowFacts
    <2>5. Cursor(lcd, from, 0)
      BY <2>2, <2>3, <2>4, CursorAtMove
    <2>6. from \in [row : 0 .. Rows - 1, col : 0 .. Cols - 1] /\ pixels = 0 /\ unshown = FALSE
      BY <2>1 DEF DisplayInit
    <2> QED
      BY <2>2, <2>5, <2>6 DEF DisplayInv
  <1>2. DisplayInv /\ [DisplayNext]_displayVars => DisplayInv'
    <2> SUFFICES ASSUME DisplayInv, [DisplayNext]_displayVars PROVE DisplayInv'
      OBVIOUS
    <2>1. CASE UNCHANGED displayVars
      BY <2>1 DEF displayVars, DisplayInv
    <2> QED
      BY <2>1, CommandInv, ArgumentInv, LastArgumentInv, OtherInv DEF DisplayNext
  <1> QED
    BY <1>1, <1>2, PTL DEF DisplaySpec

\* Pixels fill the window of CASET and RASET in the order of reading, inside the
\* framebuffer, for every size of it and every window.
THEOREM DisplayPixelsFillWindow == DisplaySpec => []PixelsFillWindow
  BY DisplayInvariant, CursorMeans, PTL

(***************************************************************************)
(* The rings of the Ethernet controller (EthMac).                          *)
(***************************************************************************)
\* The place k further than a in a ring of r descriptors
Slot(a, k, r) == IF a + k < r THEN a + k ELSE a + k - r
\* How far it is from a to i
Way(a, i, r) == IF i < a THEN i + r - a ELSE i - a

\* The remainders in the code and in the guest's driver are places in the ring.
LEMMA SlotIsRemainder ==
  ASSUME NEW r \in Nat \ {0}, NEW a \in 0 .. r - 1, NEW k \in 0 .. r
  PROVE  (a + k) % r = Slot(a, k, r) /\ Slot(a, k, r) \in 0 .. r - 1
  <1>1. CASE a + k < r
    <2>1. a + k \in 0 .. r - 1
      BY <1>1
    <2>2. (0 * r + (a + k)) % r = a + k
      BY <2>1, Quotient
    <2>3. 0 * r + (a + k) = a + k
      BY <2>1
    <2> QED
      BY <1>1, <2>1, <2>2, <2>3 DEF Slot
  <1>2. CASE a + k >= r
    <2>1. a + k - r \in 0 .. r - 1
      BY <1>2
    <2>2. (1 * r + (a + k - r)) % r = a + k - r
      BY <2>1, Quotient
    <2>3. 1 * r + (a + k - r) = a + k
      BY <2>1
    <2> QED
      BY <1>2, <2>1, <2>2, <2>3 DEF Slot
  <1> QED
    BY <1>1, <1>2

\* The way from one descriptor to another, computed with a remainder.
LEMMA WayIsRemainder ==
  ASSUME NEW r \in Nat \ {0}, NEW a \in 0 .. r - 1, NEW i \in 0 .. r - 1
  PROVE  (i + r - a) % r = Way(a, i, r) /\ Way(a, i, r) \in 0 .. r - 1
  <1>1. CASE i < a
    <2>1. i + r - a \in 0 .. r - 1
      BY <1>1
    <2>2. (0 * r + (i + r - a)) % r = i + r - a
      BY <2>1, Quotient
    <2>3. 0 * r + (i + r - a) = i + r - a
      BY <2>1
    <2> QED
      BY <1>1, <2>1, <2>2, <2>3 DEF Way
  <1>2. CASE i >= a
    <2>1. i - a \in 0 .. r - 1
      BY <1>2
    <2>2. (1 * r + (i - a)) % r = i - a
      BY <2>1, Quotient
    <2>3. 1 * r + (i - a) = i + r - a
      BY <2>1
    <2> QED
      BY <1>2, <2>1, <2>2, <2>3 DEF Way
  <1> QED
    BY <1>1, <1>2

\* Within one round the places differ, and each place is on the way.
LEMMA OneRound ==
  ASSUME NEW r \in Nat \ {0}, NEW a \in 0 .. r - 1
  PROVE  /\ \A j, k \in 0 .. r - 1 : Slot(a, j, r) = Slot(a, k, r) => j = k
         /\ \A k \in 0 .. r - 1 : Way(a, Slot(a, k, r), r) = k
         /\ \A i \in 0 .. r - 1 : Slot(a, Way(a, i, r), r) = i
         /\ Slot(a, 0, r) = a /\ Slot(a, r, r) = a
         /\ \A k \in 0 .. r - 1 : Slot(Slot(a, 1, r), k, r) = IF k = r - 1 THEN a ELSE Slot(a, k + 1, r)
  BY DEF Slot, Way

\* The place after one, and a place reached in two ways
LEMMA NextSlot ==
  ASSUME NEW r \in Nat \ {0}, NEW a \in 0 .. r - 1, NEW k \in 0 .. r - 1
  PROVE  Slot(Slot(a, k, r), 1, r) = Slot(a, k + 1, r)
  BY DEF Slot

\* Going on from a descriptor reached before.
LEMMA Onward ==
  ASSUME NEW r \in Nat \ {0}, NEW a \in 0 .. r - 1, NEW j \in 0 .. r, NEW k \in 0 .. r, j + k <= r
  PROVE  Slot(Slot(a, j, r), k, r) = Slot(a, j + k, r)
  BY DEF Slot

\* The way between two descriptors given by their distances from the same start.
LEMMA WayBetween ==
  ASSUME NEW r \in Nat \ {0}, NEW a \in 0 .. r - 1, NEW j \in 0 .. r, NEW k \in 0 .. r - 1
  PROVE  Way(Slot(a, j, r), Slot(a, k, r), r) = IF j <= k THEN k - j ELSE k - j + r
  BY DEF Slot, Way

(***************************************************************************)
(* Bytes of frames.                                                        *)
(***************************************************************************)
Octets == Nat \X Nat

\* Sequences are equal when they have the same elements, and joined one after the other.
LEMMA SameElements ==
  ASSUME NEW S, NEW s \in Seq(S), NEW t \in Seq(S), Len(s) = Len(t),
         \A i \in 1 .. Len(s) : s[i] = t[i]
  PROVE  s = t
  OBVIOUS

\* The elements of two sequences one after the other.
LEMMA JoinedElements ==
  ASSUME NEW S, NEW s \in Seq(S), NEW t \in Seq(S)
  PROVE  /\ s \o t \in Seq(S) /\ Len(s \o t) = Len(s) + Len(t)
         /\ \A i \in 1 .. Len(s) : (s \o t)[i] = s[i]
         /\ \A i \in 1 .. Len(t) : (s \o t)[Len(s) + i] = t[i]
  OBVIOUS

\* The bytes of a frame up to one of them are a sequence.
LEMMA BytesType ==
  ASSUME NEW name \in Nat, NEW k \in Nat
  PROVE  /\ FrameBytes(name, k) \in Seq(Octets) /\ Len(FrameBytes(name, k)) = k
         /\ FrameBytes(name, 0) = <<>>
  <1>1. FrameBytes(name, k) \in [1 .. k -> Octets]
    BY DEF FrameBytes, Octets
  <1>2. FrameBytes(name, 0) = <<>>
    BY DEF FrameBytes
  <1> QED
    BY <1>1, <1>2

\* What the descriptors of a frame hold, put together, is the frame up to the last of them.
LEMMA BytesJoin ==
  ASSUME NEW name \in Nat, NEW j \in Nat, NEW k \in Nat, j <= k
  PROVE  LET rest == [i \in 1 .. k - j |-> <<name, j + i>>]
         IN  /\ rest \in Seq(Octets) /\ Len(rest) = k - j
             /\ FrameBytes(name, j) \o rest = FrameBytes(name, k)
  <1> DEFINE rest == [i \in 1 .. k - j |-> <<name, j + i>>]
  <1>1. k - j \in Nat /\ rest \in [1 .. k - j -> Octets]
    BY DEF Octets
  <1>2. rest \in Seq(Octets) /\ Len(rest) = k - j
    BY <1>1
  <1>7. \A i \in 1 .. k - j : rest[i] = <<name, j + i>>
    OBVIOUS
  <1> HIDE DEF rest
  <1>3. /\ FrameBytes(name, j) \in Seq(Octets) /\ Len(FrameBytes(name, j)) = j
        /\ FrameBytes(name, k) \in Seq(Octets) /\ Len(FrameBytes(name, k)) = k
    BY BytesType
  <1>4. FrameBytes(name, j) \o rest \in Seq(Octets) /\ Len(FrameBytes(name, j) \o rest) = k
    BY <1>2, <1>3, JoinedElements
  <1>5. \A i \in 1 .. k : (FrameBytes(name, j) \o rest)[i] = FrameBytes(name, k)[i]
    <2> SUFFICES ASSUME NEW i \in 1 .. k
                 PROVE  (FrameBytes(name, j) \o rest)[i] = FrameBytes(name, k)[i]
      BY Zenon
    <2>1. FrameBytes(name, k)[i] = <<name, i>>
      BY DEF FrameBytes
    <2>2. CASE i <= j
      <3>1. (FrameBytes(name, j) \o rest)[i] = FrameBytes(name, j)[i]
        BY <1>2, <1>3, <2>2, JoinedElements
      <3>2. FrameBytes(name, j)[i] = <<name, i>>
        BY <2>2 DEF FrameBytes
      <3> QED
        BY <2>1, <3>1, <3>2
    <2>3. CASE i > j
      <3>1. i - j \in 1 .. k - j /\ j + (i - j) = i
        BY <2>3
      <3>2. (FrameBytes(name, j) \o rest)[j + (i - j)] = rest[i - j]
        <4>1. \A x \in 1 .. Len(rest) :
                (FrameBytes(name, j) \o rest)[Len(FrameBytes(name, j)) + x] = rest[x]
          BY <1>2, <1>3, JoinedElements
        <4> QED
          BY <1>2, <1>3, <3>1, <4>1
      <3> QED
        BY <1>7, <2>1, <3>1, <3>2, Zenon
    <2>4. i <= j \/ i > j
      OBVIOUS
    <2> QED
      BY <2>2, <2>3, <2>4, Zenon
  <1>6. FrameBytes(name, j) \o rest = FrameBytes(name, k)
    BY <1>3, <1>4, <1>5, SameElements
  <1> QED
    BY <1>2, <1>6, Zenon DEF rest

\* A packet is cut off the frame at the length of the last descriptor.
LEMMA BytesCut ==
  ASSUME NEW name \in Nat, NEW k \in Nat, NEW j \in 0 .. k
  PROVE  SubSeq(FrameBytes(name, k), 1, j) = FrameBytes(name, j)
  <1>1. /\ FrameBytes(name, j) \in Seq(Octets) /\ Len(FrameBytes(name, j)) = j
        /\ FrameBytes(name, k) \in Seq(Octets) /\ Len(FrameBytes(name, k)) = k
    BY BytesType
  <1>2. /\ SubSeq(FrameBytes(name, k), 1, j) \in Seq(Octets)
        /\ Len(SubSeq(FrameBytes(name, k), 1, j)) = j
    BY <1>1
  <1>3. \A i \in 1 .. j : SubSeq(FrameBytes(name, k), 1, j)[i] = FrameBytes(name, j)[i]
    <2> SUFFICES ASSUME NEW i \in 1 .. j
                 PROVE  SubSeq(FrameBytes(name, k), 1, j)[i] = FrameBytes(name, j)[i]
      OBVIOUS
    <2>1. SubSeq(FrameBytes(name, k), 1, j)[i] = FrameBytes(name, k)[i]
      BY <1>1
    <2> QED
      BY <2>1 DEF FrameBytes
  <1> QED
    BY <1>1, <1>2, <1>3

(***************************************************************************)
(* The invariant.                                                          *)
(***************************************************************************)
Parts == [name : Nat, frame : Frames, part : Nat \ {0}]
Registers ==
  [status : SUBSET Status, ena : SUBSET Status, sr : BOOLEAN,
   tx : 0 .. TxRing - 1, rx : 0 .. RxRing - 1, irq : BOOLEAN]

EthTypeOK ==
  /\ mac \in Registers
  /\ txd \in [0 .. TxRing - 1 -> [own : BOOLEAN, last : BOOLEAN, bytes : Seq(Octets)]]
  /\ rxd \in [0 .. RxRing - 1 -> [own : BOOLEAN, frame : Nat]]
  /\ gathered \in Seq(Octets) /\ busy \in BOOLEAN
  /\ guest \in [tx : 0 .. TxRing - 1, rx : 0 .. RxRing - 1, name : Nat]
  /\ queued \in Seq(Parts) /\ inbox \in Seq(Nat)

\* From the place of the controller to that of the guest the transmit ring holds the
\* parts handed over, and nothing elsewhere.
TxIsQueue ==
  /\ Len(queued) <= TxRing /\ guest.tx = Slot(mac.tx, Len(queued), TxRing)
  /\ \A k \in 0 .. TxRing - 1 :
       txd[Slot(mac.tx, k, TxRing)] = IF k < Len(queued) THEN Filled(queued[k + 1]) ELSE Free

\* The parts of a frame follow each other, to the last.
PartsFollow ==
  \A i \in 1 .. Len(queued) :
    LET p == queued[i]
    IN  /\ p.part <= Len(p.frame)
        /\ p.part < Len(p.frame) => /\ i < Len(queued)
                                    /\ queued[i + 1] = [p EXCEPT !.part = @ + 1]
        /\ p.part = Len(p.frame) /\ i < Len(queued) => queued[i + 1].part = 1

\* What has been collected is the frame up to the part that is next.
Collected ==
  /\ gathered = IF queued = <<>> THEN <<>>
                ELSE FrameBytes(queued[1].name, Start(queued[1]))
  /\ ~busy /\ queued # <<>> => queued[1].part = 1
  /\ sent # "wrong"

\* From the place of the guest to that of the controller the receive ring holds the
\* frames received, and elsewhere descriptors for more.
RxIsQueue ==
  /\ Len(inbox) <= RxRing /\ mac.rx = Slot(guest.rx, Len(inbox), RxRing)
  /\ \A k \in 0 .. RxRing - 1 :
       rxd[Slot(guest.rx, k, RxRing)] =
         IF k < Len(inbox) THEN [own |-> FALSE, frame |-> inbox[k + 1]] ELSE Empty

LineIsTrue == ~busy => mac.irq = (mac.status \cap mac.ena # {})

EthInv ==
  /\ EthTypeOK /\ TxIsQueue /\ PartsFollow /\ Collected /\ RxIsQueue /\ LineIsTrue

\* The part of a frame that a descriptor holds
LEMMA PartFacts ==
  ASSUME NEW p \in Parts, p.part <= Len(p.frame)
  PROVE  /\ p.frame \in Seq(Nat) /\ Len(p.frame) \in 1 .. TxRing /\ p.part \in 1 .. Len(p.frame)
         /\ Start(p) \in Nat /\ p.frame[p.part] \in Nat /\ p.frame[Len(p.frame)] \in Nat
         /\ Start(p) <= p.frame[p.part] /\ p.frame[p.part] <= p.frame[Len(p.frame)]
         /\ p.frame[Len(p.frame)] < FrameMax
         /\ p.part = 1 => Start(p) = 0
         /\ p.part # 1 => Start(p) = p.frame[p.part - 1]
  <1>1. p.frame \in Frames /\ p.part \in Nat \ {0}
    BY DEF Parts
  <1>2. /\ p.frame \in Seq(Nat) /\ Len(p.frame) \in 1 .. TxRing
        /\ p.frame[Len(p.frame)] < FrameMax
        /\ \A j, k \in 1 .. Len(p.frame) : j <= k => p.frame[j] <= p.frame[k]
    BY <1>1, EthAssumption
  <1>3. p.part \in 1 .. Len(p.frame) /\ Len(p.frame) \in 1 .. Len(p.frame)
    BY <1>1, <1>2
  <1>4. \A k \in 1 .. Len(p.frame) : p.frame[k] \in Nat
    BY <1>2
  <1>5. p.part # 1 => p.part - 1 \in 1 .. Len(p.frame)
    BY <1>3, <1>2
  <1>6. /\ p.frame[p.part] \in Nat /\ p.frame[Len(p.frame)] \in Nat
        /\ p.frame[p.part] <= p.frame[Len(p.frame)]
    BY <1>2, <1>3, <1>4
  <1>7. CASE p.part = 1
    BY <1>2, <1>3, <1>6, <1>7 DEF Start
  <1>8. CASE p.part # 1
    <2>1. Start(p) = p.frame[p.part - 1]
      BY <1>8 DEF Start
    <2>2. p.frame[p.part - 1] \in Nat /\ p.frame[p.part - 1] <= p.frame[p.part]
      BY <1>2, <1>3, <1>4, <1>5, <1>8
    <2> QED
      BY <1>2, <1>3, <1>6, <1>8, <2>1, <2>2, Zenon
  <1> QED
    BY <1>7, <1>8

\* What stm32f4xx_eth_send adds to the bytes it has
LEMMA FilledFacts ==
  ASSUME NEW p \in Parts, p.part <= Len(p.frame)
  PROVE  /\ Filled(p) \in [own : BOOLEAN, last : BOOLEAN, bytes : Seq(Octets)]
         /\ Filled(p).own /\ Filled(p).last = (p.part = Len(p.frame))
         /\ Len(Filled(p).bytes) = p.frame[p.part] - Start(p)
         /\ FrameBytes(p.name, Start(p)) \o Filled(p).bytes = FrameBytes(p.name, p.frame[p.part])
  <1> DEFINE rest == [i \in 1 .. p.frame[p.part] - Start(p) |-> <<p.name, Start(p) + i>>]
  <1>1. p.name \in Nat /\ Start(p) \in Nat /\ p.frame[p.part] \in Nat /\ Start(p) <= p.frame[p.part]
    BY PartFacts DEF Parts
  <1>2. /\ rest \in Seq(Octets) /\ Len(rest) = p.frame[p.part] - Start(p)
        /\ FrameBytes(p.name, Start(p)) \o rest = FrameBytes(p.name, p.frame[p.part])
    BY <1>1, BytesJoin, Zenon
  <1>3. Filled(p) = [own |-> TRUE, last |-> p.part = Len(p.frame), bytes |-> rest]
    BY DEF Filled
  <1> HIDE DEF rest
  <1> QED
    BY <1>2, <1>3

\* The last descriptor of a frame sends a beginning of it, the whole of it if it is
\* the only one.
LEMMA PacketIsRight ==
  ASSUME NEW p \in Parts, p.part = Len(p.frame)
  PROVE  Kind(SubSeq(FrameBytes(p.name, p.frame[p.part]), 1, p.frame[p.part] - Start(p)), p) # "wrong"
  <1> DEFINE size == p.frame[Len(p.frame)]
             cut == size - Start(p)
  <1>1. /\ Len(p.frame) \in Nat /\ p.part \in 1 .. Len(p.frame)
        /\ size \in Nat /\ Start(p) \in Nat /\ Start(p) <= size
        /\ p.part = 1 => Start(p) = 0
    BY PartFacts
  <1>2. p.name \in Nat /\ cut \in 0 .. size /\ p.frame[p.part] = size
    BY <1>1 DEF Parts
  <1>3. SubSeq(FrameBytes(p.name, size), 1, cut) = FrameBytes(p.name, cut)
    BY <1>1, <1>2, BytesCut, Zenon
  <1>4. Len(p.frame) > 1 \/ cut = size
    <2>1. Len(p.frame) = 1 \/ Len(p.frame) > 1
      <3>1. Len(p.frame) \in 1 .. TxRing /\ TxRing \in Nat
        BY PartFacts, EthAssumption
      <3>2. PICK l \in 1 .. TxRing : l = Len(p.frame)
        BY <3>1
      <3>3. l = 1 \/ l > 1
        BY <3>1
      <3> QED
        BY <3>2, <3>3
    <2>2. Len(p.frame) = 1 => p.part = 1
      OBVIOUS
    <2>3. Len(p.frame) = 1 => size - Start(p) = size
      BY <1>1, <2>2
    <2> QED
      BY <2>1, <2>3
  <1> HIDE DEF cut
  <1>5. Kind(FrameBytes(p.name, cut), p) # "wrong"
    BY <1>2, <1>4 DEF Kind
  <1> QED
    BY <1>2, <1>3, <1>5, Zenon DEF cut

(***************************************************************************)
(* The actions.                                                            *)
(***************************************************************************)
\* What the proofs use of the types
LEMMA EthFacts ==
  ASSUME EthInv
  PROVE  /\ TxRing \in Nat \ {0} /\ RxRing \in Nat \ {0} /\ Names \in Nat \ {0}
         /\ mac \in Registers /\ mac.tx \in 0 .. TxRing - 1 /\ mac.rx \in 0 .. RxRing - 1
         /\ guest \in [tx : 0 .. TxRing - 1, rx : 0 .. RxRing - 1, name : Nat]
         /\ guest.tx \in 0 .. TxRing - 1 /\ guest.rx \in 0 .. RxRing - 1 /\ guest.name \in Nat
         /\ queued \in Seq(Parts) /\ inbox \in Seq(Nat)
         /\ Len(queued) \in 0 .. TxRing /\ Len(inbox) \in 0 .. RxRing
         /\ \A i \in 1 .. Len(queued) : queued[i] \in Parts
  <1>1. TxRing \in Nat \ {0} /\ RxRing \in Nat \ {0} /\ Names \in Nat \ {0}
    BY EthAssumption
  <1>2. mac \in Registers /\ mac.tx \in 0 .. TxRing - 1 /\ mac.rx \in 0 .. RxRing - 1
    BY DEF EthInv, EthTypeOK, Registers
  <1>3. /\ guest \in [tx : 0 .. TxRing - 1, rx : 0 .. RxRing - 1, name : Nat]
        /\ queued \in Seq(Parts) /\ inbox \in Seq(Nat)
    BY DEF EthInv, EthTypeOK
  <1>4. guest.tx \in 0 .. TxRing - 1 /\ guest.rx \in 0 .. RxRing - 1 /\ guest.name \in Nat
    BY <1>3
  <1>5. Len(queued) \in 0 .. TxRing /\ Len(inbox) \in 0 .. RxRing
    BY <1>1, <1>3 DEF EthInv, TxIsQueue, RxIsQueue
  <1>6. \A i \in 1 .. Len(queued) : queued[i] \in Parts
    BY <1>3
  <1> QED
    BY <1>1, <1>2, <1>3, <1>4, <1>5, <1>6

\* A step that leaves the transmit ring alone
LEMMA SameTx ==
  ASSUME EthInv, mac'.tx = mac.tx, guest'.tx = guest.tx, txd' = txd, queued' = queued
  PROVE  TxIsQueue' /\ PartsFollow'
  BY DEF EthInv, TxIsQueue, PartsFollow

\* A step that leaves the receive ring alone
LEMMA SameRx ==
  ASSUME EthInv, mac'.rx = mac.rx, guest'.rx = guest.rx, rxd' = rxd, inbox' = inbox
  PROVE  RxIsQueue'
  BY DEF EthInv, RxIsQueue

\* enet_update_irq sets the line and nothing else.
LEMMA LineUpdated ==
  ASSUME NEW m \in Registers
  PROVE  /\ Update(m) \in Registers
         /\ Update(m).irq = (Update(m).status \cap Update(m).ena # {})
         /\ Update(m).tx = m.tx /\ Update(m).rx = m.rx
  BY Zenon DEF Update, Registers

\* Outside stm32f4xx_eth_send nothing is collected.
LEMMA NothingCollected ==
  ASSUME EthInv, ~busy
  PROVE  gathered = <<>>
  <1>1. CASE queued = <<>>
    BY <1>1 DEF EthInv, Collected
  <1>2. CASE queued # <<>>
    <2>1. 1 \in 1 .. Len(queued)
      BY <1>2, EthFacts
    <2>2. queued[1] \in Parts /\ queued[1].part = 1
      BY <1>2, <2>1, EthFacts DEF EthInv, Collected
    <2>3. Start(queued[1]) = 0 /\ queued[1].name \in Nat
      BY <2>2 DEF Start, Parts
    <2>4. FrameBytes(queued[1].name, 0) = <<>>
      BY <2>3, BytesType
    <2> QED
      BY <1>2, <2>3, <2>4 DEF EthInv, Collected
  <1> QED
    BY <1>1, <1>2

\* A write of a register, and a frame too short to be one
LEMMA RegistersInv ==
  ASSUME EthInv, NEW m \in Registers, m.tx = mac.tx, m.rx = mac.rx, mac' = Update(m),
         UNCHANGED <<txd, rxd, gathered, busy, guest, queued, inbox, sent>>
  PROVE  EthInv'
  <1>1. /\ mac' \in Registers /\ mac'.irq = (mac'.status \cap mac'.ena # {})
        /\ mac'.tx = mac.tx /\ mac'.rx = mac.rx
    BY LineUpdated
  <1>2. TxIsQueue' /\ PartsFollow'
    BY <1>1, SameTx
  <1>3. RxIsQueue'
    BY <1>1, SameRx
  <1>4. EthTypeOK' /\ Collected' /\ LineIsTrue'
    BY <1>1 DEF EthInv, EthTypeOK, Collected, LineIsTrue
  <1> QED
    BY <1>2, <1>3, <1>4 DEF EthInv

\* A write to a register (stm32f4xx_eth.c) that leaves the rings alone.
LEMMA WriteRegisterInv ==
  ASSUME EthInv, NEW m \in Registers, m.tx = mac.tx, m.rx = mac.rx, WriteRegister(m)
  PROVE  EthInv'
  BY RegistersInv DEF WriteRegister

\* The writes the driver makes: acknowledging status bits, enabling interrupts, control.
LEMMA WritesInv ==
  ASSUME EthInv,
         \/ \E bits \in {Status, {"NIS", "TI", "RI"}} : ClearStatus(bits)
         \/ \E ena \in Enables : WriteEnable(ena)
         \/ \E sr \in BOOLEAN : WriteControl(sr)
         \/ ReceiveShort
  PROVE  EthInv'
  <1>0. mac \in Registers
    BY EthFacts
  <1>1. ASSUME NEW bits \in {Status, {"NIS", "TI", "RI"}}, ClearStatus(bits) PROVE EthInv'
    <2> DEFINE m == [mac EXCEPT !.status = @ \ bits]
    <2>1. m \in Registers /\ m.tx = mac.tx /\ m.rx = mac.rx
      BY <1>0 DEF Registers
    <2>2. WriteRegister(m)
      BY <1>1 DEF ClearStatus
    <2> QED
      BY <2>1, <2>2, WriteRegisterInv, Zenon
  <1>2. ASSUME NEW ena \in Enables, WriteEnable(ena) PROVE EthInv'
    <2> DEFINE m == [mac EXCEPT !.ena = ena]
    <2>1. m \in Registers /\ m.tx = mac.tx /\ m.rx = mac.rx
      BY <1>0, EthAssumption DEF Registers
    <2>2. WriteRegister(m)
      BY <1>2 DEF WriteEnable
    <2> QED
      BY <2>1, <2>2, WriteRegisterInv, Zenon
  <1>3. ASSUME NEW sr \in BOOLEAN, WriteControl(sr) PROVE EthInv'
    <2> DEFINE m == [mac EXCEPT !.sr = sr]
    <2>1. m \in Registers /\ m.tx = mac.tx /\ m.rx = mac.rx
      BY <1>0 DEF Registers
    <2>2. WriteRegister(m)
      BY <1>3 DEF WriteControl
    <2> QED
      BY <2>1, <2>2, WriteRegisterInv, Zenon
  <1>4. CASE ReceiveShort
    <2> DEFINE m == [mac EXCEPT !.status = @ \cup {"RI", "NIS"}]
    <2>1. m \in Registers /\ m.tx = mac.tx /\ m.rx = mac.rx
      BY <1>0 DEF Registers, Status
    <2>2. mac' = Update(m) /\ UNCHANGED <<txd, rxd, gathered, busy, guest, queued, inbox, sent>>
      BY <1>4 DEF ReceiveShort
    <2> HIDE DEF m
    <2> QED
      BY <2>1, <2>2, RegistersInv
  <1> QED
    BY <1>1, <1>2, <1>3, <1>4

\* The write that begins the loop over the descriptors
LEMMA PollDemandInv ==
  ASSUME EthInv, PollDemand
  PROVE  EthInv'
  <1>1. gathered = <<>> /\ gathered' = gathered
    BY NothingCollected DEF PollDemand
  <1>2. TxIsQueue' /\ PartsFollow' /\ RxIsQueue'
    BY SameTx, SameRx DEF PollDemand
  <1>3. EthTypeOK' /\ Collected' /\ LineIsTrue'
    BY <1>1 DEF PollDemand, EthInv, EthTypeOK, Collected, LineIsTrue
  <1> QED
    BY <1>2, <1>3 DEF EthInv

\* The descriptor that stm32f4xx_eth_send looks at is that of the part that is next,
\* and the frame up to there fits.
LEMMA NextPart ==
  ASSUME EthInv
  PROVE  /\ queued = <<>> => ~txd[mac.tx].own
         /\ queued # <<>> =>
              LET p == queued[1]
                  d == txd[mac.tx]
              IN  /\ p \in Parts /\ p.part <= Len(p.frame) /\ d = Filled(p)
                  /\ d.own /\ d.last = (p.part = Len(p.frame))
                  /\ Len(d.bytes) = p.frame[p.part] - Start(p)
                  /\ gathered \o d.bytes = FrameBytes(p.name, p.frame[p.part])
                  /\ Len(gathered) + Len(d.bytes) = p.frame[p.part] /\ p.frame[p.part] \in Nat
                  /\ Len(gathered \o d.bytes) < FrameMax /\ Len(gathered) + Len(d.bytes) < FrameMax
  <1>1. mac.tx = Slot(mac.tx, 0, TxRing) /\ 0 \in 0 .. TxRing - 1
    <2>1. TxRing \in Nat \ {0} /\ mac.tx \in 0 .. TxRing - 1
      BY EthFacts
    <2>2. mac.tx = Slot(mac.tx, 0, TxRing)
      BY <2>1, OneRound, Zenon
    <2> QED BY <2>1, <2>2
  <1>2. txd[mac.tx] = IF 0 < Len(queued) THEN Filled(queued[0 + 1]) ELSE Free
    BY <1>1 DEF EthInv, TxIsQueue
  <1>3. CASE queued = <<>>
    BY <1>2, <1>3 DEF Free
  <1>4. CASE queued # <<>>
    <2> DEFINE p == queued[1]
               d == txd[mac.tx]
    <2>1. Len(queued) > 0 /\ 1 \in 1 .. Len(queued)
      BY <1>4, EthFacts
    <2>2. p \in Parts /\ p.part <= Len(p.frame) /\ gathered = FrameBytes(p.name, Start(p))
      BY <1>4, <2>1, EthFacts, Zenon DEF EthInv, PartsFollow, Collected
    <2>3. d = Filled(p)
      BY <1>2, <2>1
    <2> HIDE DEF p, d
    <2>4. /\ d.own /\ d.last = (p.part = Len(p.frame))
          /\ Len(d.bytes) = p.frame[p.part] - Start(p)
          /\ gathered \o d.bytes = FrameBytes(p.name, p.frame[p.part])
      BY <2>2, <2>3, FilledFacts, Zenon
    <2>5. /\ p.name \in Nat /\ Start(p) \in Nat /\ p.frame[p.part] \in Nat
          /\ p.frame[p.part] < FrameMax
      <3>1. /\ p.frame[p.part] \in Nat /\ p.frame[Len(p.frame)] \in Nat /\ FrameMax \in Nat
            /\ p.frame[p.part] <= p.frame[Len(p.frame)] /\ p.frame[Len(p.frame)] < FrameMax
        BY <2>2, PartFacts, EthAssumption
      <3> QED
        BY <2>2, <3>1, PartFacts DEF Parts
    <2>6. Len(gathered) = Start(p) /\ Len(gathered \o d.bytes) = p.frame[p.part]
      <3>1. Len(FrameBytes(p.name, Start(p))) = Start(p)
        BY <2>5, BytesType
      <3>2. Len(FrameBytes(p.name, p.frame[p.part])) = p.frame[p.part]
        BY <2>5, BytesType
      <3> QED
        BY <2>2, <2>4, <3>1, <3>2
    <2>7. Len(gathered) + Len(d.bytes) = p.frame[p.part]
      BY <2>4, <2>5, <2>6
    <2> QED
      BY <1>4, <2>2, <2>3, <2>4, <2>5, <2>6, <2>7, Zenon DEF p, d
  <1> QED
    BY <1>3, <1>4, Zenon

\* The loop over the descriptors ends, with none left.
LEMMA SendEndsInv ==
  ASSUME EthInv, SendEnds
  PROVE  EthInv'
  <1> DEFINE d == txd[mac.tx]
             m == [mac EXCEPT !.status = IF d.own THEN @ ELSE @ \cup {"TU"}]
  <1>1. /\ d.own => Len(gathered) + Len(d.bytes) >= FrameMax
        /\ mac' = Update(m) /\ busy' = FALSE
        /\ UNCHANGED <<txd, rxd, gathered, guest, queued, inbox, sent>>
    BY DEF SendEnds
  <1>2. queued = <<>>
    <2> SUFFICES ASSUME queued # <<>> PROVE FALSE
      OBVIOUS
    <2>1. d.own /\ Len(gathered) + Len(d.bytes) < FrameMax /\ Len(gathered) + Len(d.bytes) \in Nat
      BY NextPart, Zenon
    <2> QED
      BY <1>1, <2>1, EthAssumption
  <1>3. m \in Registers /\ m.tx = mac.tx /\ m.rx = mac.rx
    BY EthFacts, Zenon DEF Registers, Status
  <1> HIDE DEF m, d
  <1>4. /\ mac' \in Registers /\ mac'.irq = (mac'.status \cap mac'.ena # {})
        /\ mac'.tx = mac.tx /\ mac'.rx = mac.rx
    BY <1>1, <1>3, LineUpdated
  <1>5. TxIsQueue' /\ PartsFollow'
    BY <1>1, <1>4, SameTx
  <1>6. RxIsQueue'
    BY <1>1, <1>4, SameRx
  <1>7. EthTypeOK' /\ Collected' /\ LineIsTrue'
    BY <1>1, <1>2, <1>4, Zenon DEF EthInv, EthTypeOK, Collected, LineIsTrue
  <1> QED
    BY <1>5, <1>6, <1>7 DEF EthInv

\* A descriptor is sent: the ring and the queue both lose their first, and what is
\* collected is again the frame up to the next.
LEMMA SendDescriptorInv ==
  ASSUME EthInv, SendDescriptor
  PROVE  EthInv'
  <1> DEFINE d == txd[mac.tx]
             p == queued[1]
             all == gathered \o d.bytes
  <1>1. /\ busy /\ d.own /\ gathered' = (IF d.last THEN <<>> ELSE all)
        /\ sent' = (IF d.last THEN Kind(SubSeq(all, 1, Len(d.bytes)), Head(queued)) ELSE sent)
        /\ queued' = Tail(queued)
        /\ mac' = [mac EXCEPT !.tx = (@ + 1) % TxRing,
                              !.status = IF d.last THEN @ \cup {"TI", "NIS"} ELSE @]
        /\ txd' = [txd EXCEPT ![mac.tx] = Free]
        /\ UNCHANGED <<rxd, busy, guest, inbox>>
    BY DEF SendDescriptor
  <1>2. queued # <<>>
    BY <1>1, NextPart
  <1>3. /\ p \in Parts /\ p.part <= Len(p.frame) /\ d = Filled(p)
        /\ d.last = (p.part = Len(p.frame)) /\ Len(d.bytes) = p.frame[p.part] - Start(p)
        /\ all = FrameBytes(p.name, p.frame[p.part]) /\ p.frame[p.part] \in Nat
    BY <1>2, NextPart, Zenon
  <1>4. /\ Len(queued) \in 1 .. TxRing /\ queued \in Seq(Parts) /\ Head(queued) = p
        /\ Tail(queued) \in Seq(Parts) /\ Len(Tail(queued)) = Len(queued) - 1
        /\ \A i \in 1 .. Len(queued) - 1 : Tail(queued)[i] = queued[i + 1]
    BY <1>2, EthFacts
  <1> HIDE DEF d, p, all
  <1>5. /\ TxRing \in Nat \ {0} /\ 1 \in 0 .. TxRing
        /\ mac.tx \in 0 .. TxRing - 1 /\ mac \in Registers
    BY EthFacts
  <1>6. (mac.tx + 1) % TxRing = Slot(mac.tx, 1, TxRing) /\ Slot(mac.tx, 1, TxRing) \in 0 .. TxRing - 1
    BY <1>5, SlotIsRemainder, Zenon
  <1>7. mac' \in Registers /\ mac'.tx = Slot(mac.tx, 1, TxRing) /\ mac'.rx = mac.rx
    BY <1>1, <1>5, <1>6, Zenon DEF Registers, Status
  <1>8. TxIsQueue'
    <2>1. Len(queued') = Len(queued) - 1 /\ Len(queued') <= TxRing
      BY <1>1, <1>4, <1>5
    <2>2. guest'.tx = Slot(mac'.tx, Len(queued'), TxRing)
      <3>1. guest.tx = Slot(mac.tx, Len(queued), TxRing)
        BY DEF EthInv, TxIsQueue
      <3>2. Slot(Slot(mac.tx, 1, TxRing), Len(queued) - 1, TxRing) = Slot(mac.tx, Len(queued), TxRing)
        <4>1. /\ Len(queued) - 1 \in 0 .. TxRing /\ 1 + (Len(queued) - 1) = Len(queued)
              /\ 1 + (Len(queued) - 1) <= TxRing
          BY <1>4, <1>5
        <4>2. Slot(Slot(mac.tx, 1, TxRing), Len(queued) - 1, TxRing)
                = Slot(mac.tx, 1 + (Len(queued) - 1), TxRing)
          BY <1>5, <4>1, Onward
        <4> QED
          BY <4>1, <4>2
      <3> QED
        BY <1>1, <1>7, <2>1, <3>1, <3>2
    <2>3. ASSUME NEW k \in 0 .. TxRing - 1
          PROVE  txd'[Slot(mac'.tx, k, TxRing)] =
                   IF k < Len(queued') THEN Filled(queued'[k + 1]) ELSE Free
      <3>1. DOMAIN txd = 0 .. TxRing - 1
        BY DEF EthInv, EthTypeOK
      <3>2. CASE k = TxRing - 1
        <4>1. Slot(mac'.tx, k, TxRing) = mac.tx
          BY <1>5, <1>7, <3>2, OneRound
        <4>2. ~(k < Len(queued'))
          BY <1>4, <1>5, <2>1, <3>2
        <4> QED
          BY <1>1, <1>5, <3>1, <4>1, <4>2
      <3>3. CASE k # TxRing - 1
        <4>1. k + 1 \in 0 .. TxRing - 1
          BY <1>5, <3>3
        <4>2. Slot(mac'.tx, k, TxRing) = Slot(mac.tx, k + 1, TxRing)
          BY <1>5, <1>7, <3>3, OneRound
        <4>3. Slot(mac.tx, k + 1, TxRing) # mac.tx /\ Slot(mac.tx, k + 1, TxRing) \in 0 .. TxRing - 1
          BY <1>5, <4>1 DEF Slot
        <4>4. txd'[Slot(mac'.tx, k, TxRing)] = txd[Slot(mac.tx, k + 1, TxRing)]
          BY <1>1, <3>1, <4>2, <4>3
        <4>5. txd[Slot(mac.tx, k + 1, TxRing)] =
                IF k + 1 < Len(queued) THEN Filled(queued[(k + 1) + 1]) ELSE Free
          BY <4>1 DEF EthInv, TxIsQueue
        <4>6. (k + 1 < Len(queued)) = (k < Len(queued'))
          BY <1>4, <2>1, <4>1
        <4>7. k < Len(queued') => queued'[k + 1] = queued[(k + 1) + 1]
          BY <1>1, <1>4, <2>1, <4>1
        <4> QED
          BY <4>4, <4>5, <4>6, <4>7
      <3> QED
        BY <3>2, <3>3
    <2> QED
      BY <2>1, <2>2, <2>3 DEF TxIsQueue
  <1>9. PartsFollow'
    <2> SUFFICES ASSUME NEW i \in 1 .. Len(queued')
                 PROVE  LET q == queued'[i]
                        IN  /\ q.part <= Len(q.frame)
                            /\ q.part < Len(q.frame) => /\ i < Len(queued')
                                                        /\ queued'[i + 1] = [q EXCEPT !.part = @ + 1]
                            /\ q.part = Len(q.frame) /\ i < Len(queued') => queued'[i + 1].part = 1
      BY Zenon DEF PartsFollow
    <2>1. Len(queued') = Len(queued) - 1 /\ i + 1 \in 1 .. Len(queued) /\ queued'[i] = queued[i + 1]
      BY <1>1, <1>4
    <2>2. /\ (i < Len(queued')) = (i + 1 < Len(queued))
          /\ i < Len(queued') => queued'[i + 1] = queued[(i + 1) + 1]
      BY <1>1, <1>4, <2>1
    <2>3. LET q == queued[i + 1]
          IN  /\ q.part <= Len(q.frame)
              /\ q.part < Len(q.frame) => /\ i + 1 < Len(queued)
                                          /\ queued[(i + 1) + 1] = [q EXCEPT !.part = @ + 1]
              /\ q.part = Len(q.frame) /\ i + 1 < Len(queued) => queued[(i + 1) + 1].part = 1
      BY <2>1 DEF EthInv, PartsFollow
    <2> QED
      BY <2>1, <2>2, <2>3
  <1>10. Collected' /\ gathered' \in Seq(Octets)
    <2>1. p.name \in Nat /\ Start(p) \in Nat
      BY <1>3, PartFacts DEF Parts
    <2>2. p = queued[1] /\ 1 \in 1 .. Len(queued) /\ 1 + 1 = 2
      BY <1>4 DEF p
    <2>3. queued' = <<>> <=> Len(queued) = 1
      <3>1. Tail(queued) = <<>> <=> Len(Tail(queued)) = 0
        BY <1>4
      <3> QED
        BY <1>1, <1>4, <3>1
    <2>4. queued' # <<>> => queued'[1] = queued[2] /\ 2 \in 1 .. Len(queued)
      BY <1>1, <1>4, <2>3
    <2>5. CASE p.part = Len(p.frame)
      <3>1. sent' # "wrong"
        <4>1. sent' = Kind(SubSeq(all, 1, Len(d.bytes)), p)
          BY <1>1, <1>3, <1>4, <2>5, Zenon
        <4> QED
          BY <1>3, <2>5, <4>1, PacketIsRight
      <3>2. gathered' = <<>>
        BY <1>1, <1>3, <2>5, Zenon
      <3>3. ASSUME queued' # <<>>
            PROVE  FrameBytes(queued'[1].name, Start(queued'[1])) = <<>>
        <4>1. queued[2].part = 1 /\ queued[2] \in Parts
          <5>1. 1 < Len(queued)
            BY <1>4, <2>3, <3>3
          <5> QED
            BY <2>2, <2>4, <2>5, <3>3, <5>1, EthFacts, Zenon DEF EthInv, PartsFollow
        <4>2. Start(queued[2]) = 0 /\ queued[2].name \in Nat
          BY <4>1 DEF Start, Parts
        <4> QED
          BY <2>4, <3>3, <4>2, BytesType, Zenon
      <3> QED
        <4>1. busy' /\ <<>> \in Seq(Octets)
          BY <1>1
        <4> QED
          BY <3>1, <3>2, <3>3, <4>1 DEF Collected
    <2>6. CASE p.part < Len(p.frame)
      <3>1. sent' = sent /\ gathered' = FrameBytes(p.name, p.frame[p.part])
        <4>1. p.part # Len(p.frame)
          BY <1>3, <2>6, PartFacts
        <4> QED
          BY <1>1, <1>3, <4>1, Zenon
      <3>2. 1 < Len(queued) /\ queued[2] = [p EXCEPT !.part = @ + 1]
        BY <2>2, <2>6, Zenon DEF EthInv, PartsFollow
      <3>3. /\ p \in [name : Nat, frame : Frames, part : Nat \ {0}]
            /\ p.part \in Nat \ {0} /\ (p.part + 1) - 1 = p.part /\ p.part + 1 # 1
        BY <1>3 DEF Parts
      <3>4. queued[2].name = p.name /\ queued[2].frame = p.frame /\ queued[2].part = p.part + 1
        BY <3>2, <3>3
      <3>5. Start(queued[2]) = p.frame[p.part]
        BY <3>3, <3>4 DEF Start
      <3>6. queued' # <<>> /\ queued'[1] = queued[2]
        BY <2>3, <2>4, <3>2, <1>4
      <3>7. gathered' \in Seq(Octets)
        BY <1>3, <2>1, <3>1, BytesType
      <3> QED
        BY <1>1, <3>1, <3>4, <3>5, <3>6, <3>7 DEF Collected, EthInv
    <2>7. p.part \in Nat /\ Len(p.frame) \in Nat /\ p.part <= Len(p.frame)
      BY <1>3, PartFacts
    <2> QED
      BY <2>5, <2>6, <2>7
  <1>11. EthTypeOK'
    <2>1. Free \in [own : BOOLEAN, last : BOOLEAN, bytes : Seq(Octets)]
      BY DEF Free
    <2>2. txd' \in [0 .. TxRing - 1 -> [own : BOOLEAN, last : BOOLEAN, bytes : Seq(Octets)]]
      BY <1>1, <2>1, Zenon DEF EthInv, EthTypeOK
    <2> QED
      BY <1>1, <1>4, <1>7, <1>10, <2>2 DEF EthInv, EthTypeOK
  <1>12. RxIsQueue'
    BY <1>1, <1>7, SameRx
  <1>13. LineIsTrue'
    BY <1>1 DEF LineIsTrue
  <1> QED
    BY <1>8, <1>9, <1>10, <1>11, <1>12, <1>13 DEF EthInv

\* The guest builds a ring.
LEMMA TxInitInv ==
  ASSUME EthInv, TxInit
  PROVE  EthInv'
  <1> DEFINE m == [mac EXCEPT !.tx = 0]
  <1>1. /\ ~busy /\ txd' = [i \in DOMAIN txd |-> Free] /\ mac' = Update(m)
        /\ guest' = [guest EXCEPT !.tx = 0] /\ queued' = <<>>
        /\ UNCHANGED <<rxd, gathered, busy, inbox, sent>>
    BY DEF TxInit
  <1>0. 0 \in 0 .. TxRing - 1 /\ mac \in Registers
    BY EthFacts
  <1>2. m \in Registers /\ m.tx = 0 /\ m.rx = mac.rx
    BY <1>0 DEF Registers
  <1> HIDE DEF m
  <1>3. /\ mac' \in Registers /\ mac'.irq = (mac'.status \cap mac'.ena # {})
        /\ mac'.tx = 0 /\ mac'.rx = mac.rx
    BY <1>1, <1>2, LineUpdated
  <1>4. /\ guest' \in [tx : 0 .. TxRing - 1, rx : 0 .. RxRing - 1, name : Nat]
        /\ guest'.tx = 0 /\ guest'.rx = guest.rx
    BY <1>0, <1>1, EthFacts, Zenon
  <1>5. txd' = [i \in 0 .. TxRing - 1 |-> Free]
    BY <1>1 DEF EthInv, EthTypeOK
  <1>6. TxIsQueue' /\ PartsFollow'
    <2>1. TxRing \in Nat \ {0} /\ Len(queued') = 0
      BY <1>1, EthFacts
    <2>2. Slot(0, 0, TxRing) = 0 /\ \A k \in 0 .. TxRing - 1 : Slot(0, k, TxRing) \in 0 .. TxRing - 1
      BY <2>1 DEF Slot
    <2> QED
      BY <1>3, <1>4, <1>5, <2>1, <2>2 DEF TxIsQueue, PartsFollow
  <1>7. RxIsQueue'
    BY <1>1, <1>3, <1>4, SameRx
  <1>8. gathered = <<>>
    BY <1>1, NothingCollected
  <1>9. EthTypeOK'
    <2>1. Free \in [own : BOOLEAN, last : BOOLEAN, bytes : Seq(Octets)]
      BY DEF Free
    <2> QED
      BY <1>1, <1>3, <1>4, <1>5, <2>1 DEF EthInv, EthTypeOK
  <1>10. Collected' /\ LineIsTrue'
    BY <1>1, <1>3, <1>8 DEF EthInv, Collected, LineIsTrue
  <1> QED
    BY <1>6, <1>7, <1>9, <1>10 DEF EthInv

\* The driver sets up its receive ring again, all descriptors owned by the MAC.
LEMMA RxInitInv ==
  ASSUME EthInv, RxInit
  PROVE  EthInv'
  <1> DEFINE m == [mac EXCEPT !.rx = 0, !.status = @ \cup {"TU"}]
  <1>1. /\ ~busy /\ rxd' = [i \in DOMAIN rxd |-> Empty] /\ mac' = Update(m)
        /\ guest' = [guest EXCEPT !.rx = 0] /\ inbox' = <<>>
        /\ UNCHANGED <<txd, gathered, busy, queued, sent>>
    BY DEF RxInit
  <1>0. 0 \in 0 .. RxRing - 1 /\ mac \in Registers
    BY EthFacts
  <1>2. m \in Registers /\ m.rx = 0 /\ m.tx = mac.tx
    BY <1>0, Zenon DEF Registers, Status
  <1> HIDE DEF m
  <1>3. /\ mac' \in Registers /\ mac'.irq = (mac'.status \cap mac'.ena # {})
        /\ mac'.rx = 0 /\ mac'.tx = mac.tx
    BY <1>1, <1>2, LineUpdated
  <1>4. /\ guest' \in [tx : 0 .. TxRing - 1, rx : 0 .. RxRing - 1, name : Nat]
        /\ guest'.rx = 0 /\ guest'.tx = guest.tx
    BY <1>0, <1>1, EthFacts, Zenon
  <1>5. rxd' = [i \in 0 .. RxRing - 1 |-> Empty]
    BY <1>1 DEF EthInv, EthTypeOK
  <1>6. RxIsQueue'
    <2>1. RxRing \in Nat \ {0} /\ Len(inbox') = 0
      BY <1>1, EthFacts
    <2>2. Slot(0, 0, RxRing) = 0 /\ \A k \in 0 .. RxRing - 1 : Slot(0, k, RxRing) \in 0 .. RxRing - 1
      BY <2>1 DEF Slot
    <2> QED
      BY <1>3, <1>4, <1>5, <2>1, <2>2 DEF RxIsQueue
  <1>7. TxIsQueue' /\ PartsFollow'
    BY <1>1, <1>3, <1>4, SameTx
  <1>8. EthTypeOK'
    <2>1. Empty \in [own : BOOLEAN, frame : Nat]
      BY DEF Empty
    <2> QED
      BY <1>1, <1>3, <1>4, <1>5, <2>1 DEF EthInv, EthTypeOK
  <1>9. Collected' /\ LineIsTrue'
    BY <1>1, <1>3 DEF EthInv, Collected, LineIsTrue
  <1> QED
    BY <1>6, <1>7, <1>8, <1>9 DEF EthInv

\* A frame goes into the descriptor at the controller's place, if that is free.
LEMMA ReceiveInv ==
  ASSUME EthInv, Receive
  PROVE  EthInv'
  <1> DEFINE name == (guest.name + 1) % Names
  <1>0. /\ RxRing \in Nat \ {0} /\ 1 \in 0 .. RxRing /\ mac \in Registers
        /\ guest.rx \in 0 .. RxRing - 1 /\ mac.rx \in 0 .. RxRing - 1
        /\ guest.name \in Nat /\ Names \in Nat \ {0}
        /\ guest \in [tx : 0 .. TxRing - 1, rx : 0 .. RxRing - 1, name : Nat]
        /\ Len(inbox) \in 0 .. RxRing /\ inbox \in Seq(Nat)
    BY EthFacts
  <1>1. name \in Nat
    BY <1>0
  <1>2. guest' = [guest EXCEPT !.name = name] /\ UNCHANGED <<txd, gathered, busy, queued, sent>>
    BY DEF Receive
  <1> HIDE DEF name
  <1>3. /\ guest' \in [tx : 0 .. TxRing - 1, rx : 0 .. RxRing - 1, name : Nat]
        /\ guest'.tx = guest.tx /\ guest'.rx = guest.rx
    BY <1>0, <1>1, <1>2, Zenon
  <1>4. CASE ~rxd[mac.rx].own
    <2> DEFINE m == [mac EXCEPT !.status = @ \cup {"RU", "AIS"}]
    <2>1. m \in Registers /\ m.tx = mac.tx /\ m.rx = mac.rx
      BY <1>0, Zenon DEF Registers, Status
    <2>2. mac' = Update(m) /\ UNCHANGED <<rxd, inbox>>
      BY <1>4 DEF Receive
    <2> HIDE DEF m
    <2>3. /\ mac' \in Registers /\ mac'.irq = (mac'.status \cap mac'.ena # {})
          /\ mac'.tx = mac.tx /\ mac'.rx = mac.rx
      BY <2>1, <2>2, LineUpdated
    <2>4. TxIsQueue' /\ PartsFollow' /\ RxIsQueue'
      BY <1>2, <1>3, <2>2, <2>3, SameTx, SameRx
    <2>5. EthTypeOK' /\ Collected' /\ LineIsTrue'
      BY <1>2, <1>3, <2>2, <2>3 DEF EthInv, EthTypeOK, Collected, LineIsTrue
    <2> QED
      BY <2>4, <2>5 DEF EthInv
  <1>5. CASE rxd[mac.rx].own
    <2> DEFINE m == [mac EXCEPT !.rx = (@ + 1) % RxRing, !.status = @ \cup {"RI", "NIS"}]
               entry == [own |-> FALSE, frame |-> guest.name]
    <2>1. (mac.rx + 1) % RxRing = Slot(mac.rx, 1, RxRing) /\ Slot(mac.rx, 1, RxRing) \in 0 .. RxRing - 1
      BY <1>0, SlotIsRemainder, Zenon
    <2>2. m \in Registers /\ m.tx = mac.tx /\ m.rx = Slot(mac.rx, 1, RxRing)
      BY <1>0, <2>1, Zenon DEF Registers, Status
    <2>3. /\ mac' = Update(m) /\ rxd' = [rxd EXCEPT ![mac.rx] = entry]
          /\ inbox' = Append(inbox, guest.name)
      BY <1>5 DEF Receive
    <2> HIDE DEF m
    <2>4. /\ mac' \in Registers /\ mac'.irq = (mac'.status \cap mac'.ena # {})
          /\ mac'.tx = mac.tx /\ mac'.rx = Slot(mac.rx, 1, RxRing)
      BY <2>2, <2>3, LineUpdated
    <2>5. mac.rx = Slot(guest.rx, Len(inbox), RxRing) /\ Len(inbox) < RxRing
      <3>1. mac.rx = Slot(guest.rx, Len(inbox), RxRing)
        BY DEF EthInv, RxIsQueue
      <3>2. ASSUME Len(inbox) = RxRing PROVE FALSE
        <4>1. mac.rx = Slot(guest.rx, 0, RxRing) /\ 0 \in 0 .. RxRing - 1
          BY <1>0, <3>1, <3>2, OneRound
        <4>2. rxd[mac.rx] = [own |-> FALSE, frame |-> inbox[0 + 1]]
          BY <1>0, <3>2, <4>1 DEF EthInv, RxIsQueue
        <4> QED
          BY <1>5, <4>2
      <3> QED
        BY <1>0, <3>1, <3>2
    <2>6. /\ inbox' \in Seq(Nat) /\ Len(inbox') = Len(inbox) + 1
          /\ \A i \in 1 .. Len(inbox) : inbox'[i] = inbox[i]
          /\ inbox'[Len(inbox) + 1] = guest.name
      BY <1>0, <2>3
    <2>7. /\ DOMAIN rxd = 0 .. RxRing - 1 /\ entry \in [own : BOOLEAN, frame : Nat]
          /\ rxd' \in [0 .. RxRing - 1 -> [own : BOOLEAN, frame : Nat]]
      BY <1>0, <2>3 DEF EthInv, EthTypeOK
    <2>8. ASSUME NEW k \in 0 .. RxRing - 1
          PROVE  rxd'[Slot(guest.rx, k, RxRing)] =
                   IF k < Len(inbox') THEN [own |-> FALSE, frame |-> inbox'[k + 1]] ELSE Empty
      <3>1. rxd[Slot(guest.rx, k, RxRing)] =
              IF k < Len(inbox) THEN [own |-> FALSE, frame |-> inbox[k + 1]] ELSE Empty
        BY DEF EthInv, RxIsQueue
      <3>2. Slot(guest.rx, k, RxRing) \in 0 .. RxRing - 1
        BY <1>0 DEF Slot
      <3>3. CASE k = Len(inbox)
        <4>1. rxd'[Slot(guest.rx, k, RxRing)] = entry
          BY <2>3, <2>5, <2>7, <3>2, <3>3
        <4>2. k < Len(inbox') /\ inbox'[k + 1] = guest.name
          BY <1>0, <2>6, <3>3
        <4> QED
          BY <4>1, <4>2
      <3>4. CASE k # Len(inbox)
        <4>1. Slot(guest.rx, k, RxRing) # mac.rx
          BY <1>0, <2>5, <3>4, OneRound
        <4>2. rxd'[Slot(guest.rx, k, RxRing)] = rxd[Slot(guest.rx, k, RxRing)]
          BY <2>3, <2>7, <3>2, <4>1
        <4>3. (k < Len(inbox)) <=> (k < Len(inbox'))
          BY <1>0, <2>6, <3>4
        <4>4. k < Len(inbox) => k + 1 \in 1 .. Len(inbox)
          BY <1>0
        <4> QED
          BY <2>6, <3>1, <4>2, <4>3, <4>4, Zenon
      <3> QED
        BY <3>3, <3>4
    <2>9. RxIsQueue'
      <3>1. Len(inbox') <= RxRing /\ mac'.rx = Slot(guest.rx, Len(inbox'), RxRing)
        <4>1. Len(inbox) \in 0 .. RxRing - 1
          BY <1>0, <2>5
        <4>2. Slot(Slot(guest.rx, Len(inbox), RxRing), 1, RxRing) = Slot(guest.rx, Len(inbox) + 1, RxRing)
          BY <1>0, <4>1, NextSlot
        <4> QED
          BY <1>0, <2>4, <2>5, <2>6, <4>1, <4>2
      <3> QED
        BY <1>3, <2>8, <3>1 DEF RxIsQueue
    <2>10. TxIsQueue' /\ PartsFollow'
      BY <1>2, <1>3, <2>4, SameTx
    <2>11. EthTypeOK' /\ Collected' /\ LineIsTrue'
      BY <1>2, <1>3, <2>4, <2>6, <2>7, Zenon DEF EthInv, EthTypeOK, Collected, LineIsTrue
    <2> QED
      BY <2>9, <2>10, <2>11 DEF EthInv
  <1> QED
    BY <1>4, <1>5

\* The guest takes the oldest frame.
LEMMA TakeFrameInv ==
  ASSUME EthInv, TakeFrame
  PROVE  EthInv'
  <1>0. /\ RxRing \in Nat \ {0} /\ 1 \in 0 .. RxRing /\ 0 \in 0 .. RxRing - 1
        /\ guest.rx \in 0 .. RxRing - 1
        /\ guest \in [tx : 0 .. TxRing - 1, rx : 0 .. RxRing - 1, name : Nat]
        /\ Len(inbox) \in 0 .. RxRing /\ inbox \in Seq(Nat)
    BY EthFacts
  <1>1. /\ ~rxd[guest.rx].own /\ rxd' = [rxd EXCEPT ![guest.rx] = Empty]
        /\ guest' = [guest EXCEPT !.rx = (@ + 1) % RxRing] /\ inbox' = Tail(inbox)
        /\ UNCHANGED <<mac, txd, gathered, busy, queued, sent>>
    BY DEF TakeFrame
  <1>2. /\ (guest.rx + 1) % RxRing = Slot(guest.rx, 1, RxRing)
        /\ Slot(guest.rx, 1, RxRing) \in 0 .. RxRing - 1
    BY <1>0, SlotIsRemainder, Zenon
  <1>3. /\ guest' \in [tx : 0 .. TxRing - 1, rx : 0 .. RxRing - 1, name : Nat]
        /\ guest'.tx = guest.tx /\ guest'.rx = Slot(guest.rx, 1, RxRing)
    BY <1>0, <1>1, <1>2
  <1>4. inbox # <<>>
    <2> SUFFICES ASSUME inbox = <<>> PROVE FALSE
      OBVIOUS
    <2>1. Slot(guest.rx, 0, RxRing) = guest.rx
      BY <1>0, OneRound
    <2>2. rxd[Slot(guest.rx, 0, RxRing)] = Empty
      <3>1. ~(0 < Len(inbox))
        OBVIOUS
      <3> QED
        BY <1>0, <3>1, Zenon DEF EthInv, RxIsQueue
    <2> QED
      BY <1>1, <2>1, <2>2 DEF Empty
  <1>5. /\ Len(inbox) \in 1 .. RxRing /\ inbox' \in Seq(Nat) /\ Len(inbox') = Len(inbox) - 1
        /\ \A i \in 1 .. Len(inbox) - 1 : inbox'[i] = inbox[i + 1]
    BY <1>0, <1>1, <1>4
  <1>6. DOMAIN rxd = 0 .. RxRing - 1 /\ rxd' \in [0 .. RxRing - 1 -> [own : BOOLEAN, frame : Nat]]
    BY <1>1 DEF EthInv, EthTypeOK, Empty
  <1>7. ASSUME NEW k \in 0 .. RxRing - 1
        PROVE  rxd'[Slot(guest'.rx, k, RxRing)] =
                 IF k < Len(inbox') THEN [own |-> FALSE, frame |-> inbox'[k + 1]] ELSE Empty
    <2>1. CASE k = RxRing - 1
      <3>1. Slot(guest'.rx, k, RxRing) = guest.rx
        BY <1>0, <1>3, <2>1, OneRound
      <3>2. ~(k < Len(inbox'))
        BY <1>0, <1>5, <2>1
      <3> QED
        BY <1>0, <1>1, <1>6, <3>1, <3>2
    <2>2. CASE k # RxRing - 1
      <3>1. k + 1 \in 0 .. RxRing - 1
        BY <1>0, <2>2
      <3>2. Slot(guest'.rx, k, RxRing) = Slot(guest.rx, k + 1, RxRing)
        BY <1>0, <1>3, <2>2, OneRound
      <3>3. Slot(guest.rx, k + 1, RxRing) # guest.rx /\ Slot(guest.rx, k + 1, RxRing) \in 0 .. RxRing - 1
        BY <1>0, <3>1 DEF Slot
      <3>4. rxd'[Slot(guest'.rx, k, RxRing)] = rxd[Slot(guest.rx, k + 1, RxRing)]
        BY <1>1, <1>6, <3>2, <3>3
      <3>5. rxd[Slot(guest.rx, k + 1, RxRing)] =
              IF k + 1 < Len(inbox) THEN [own |-> FALSE, frame |-> inbox[(k + 1) + 1]] ELSE Empty
        BY <3>1 DEF EthInv, RxIsQueue
      <3>6. (k + 1 < Len(inbox)) <=> (k < Len(inbox'))
        BY <1>0, <1>5
      <3>7. k + 1 < Len(inbox) => k + 1 \in 1 .. Len(inbox) - 1
        BY <1>0, <1>5
      <3> QED
        BY <1>5, <3>4, <3>5, <3>6, <3>7, Zenon
    <2> QED
      BY <2>1, <2>2
  <1>8. RxIsQueue'
    <2>1. Len(inbox') <= RxRing
      BY <1>0, <1>5
    <2>2. mac'.rx = Slot(guest'.rx, Len(inbox'), RxRing)
      <3>1. Len(inbox) - 1 \in 0 .. RxRing - 1 /\ 1 + (Len(inbox) - 1) = Len(inbox)
        BY <1>5, <1>0
      <3>2. Slot(Slot(guest.rx, 1, RxRing), Len(inbox) - 1, RxRing) = Slot(guest.rx, Len(inbox), RxRing)
        BY <1>0, <1>5, <3>1, Onward
      <3> QED
        BY <1>1, <1>3, <1>5, <3>2 DEF EthInv, RxIsQueue
    <2> QED
      BY <1>7, <2>1, <2>2 DEF RxIsQueue
  <1>9. TxIsQueue' /\ PartsFollow'
    BY <1>1, <1>3, SameTx
  <1>10. EthTypeOK' /\ Collected' /\ LineIsTrue'
    BY <1>1, <1>3, <1>5, <1>6, Zenon DEF EthInv, EthTypeOK, Collected, LineIsTrue
  <1> QED
    BY <1>8, <1>9, <1>10 DEF EthInv

\* The guest hands over a frame: the descriptors for it are free, so it follows what
\* is queued and does not reach round to the controller's place.
LEMMA QueueFrameInv ==
  ASSUME EthInv, NEW f \in Frames, QueueFrame(f)
  PROVE  EthInv'
  <1> DEFINE parts == [k \in 1 .. Len(f) |-> [name |-> guest.name, frame |-> f, part |-> k]]
             place(i) == ((i + TxRing - guest.tx) % TxRing) + 1
             name == (guest.name + 1) % Names
             old == Len(queued)
             new == Len(f)
  <1>0. /\ TxRing \in Nat \ {0} /\ mac.tx \in 0 .. TxRing - 1 /\ guest.tx \in 0 .. TxRing - 1
        /\ guest.name \in Nat /\ Names \in Nat \ {0}
        /\ guest \in [tx : 0 .. TxRing - 1, rx : 0 .. RxRing - 1, name : Nat]
        /\ old \in 0 .. TxRing /\ queued \in Seq(Parts)
    BY EthFacts
  <1>1. f \in Seq(Nat) /\ new \in 1 .. TxRing /\ new \in Nat
    BY EthAssumption
  <1>2. /\ ~busy /\ \A k \in 1 .. new : ~txd[(guest.tx + k - 1) % TxRing].own
        /\ txd' = [i \in DOMAIN txd |->
                     IF place(i) <= new THEN Filled(parts[place(i)]) ELSE txd[i]]
        /\ guest' = [guest EXCEPT !.tx = (@ + new) % TxRing, !.name = name]
        /\ queued' = queued \o parts
        /\ UNCHANGED <<mac, rxd, gathered, busy, inbox, sent>>
    BY DEF QueueFrame
  <1>3. /\ parts \in Seq(Parts) /\ Len(parts) = new
        /\ \A k \in 1 .. new : /\ parts[k].name = guest.name /\ parts[k].frame = f
                               /\ parts[k].part = k /\ parts[k] \in Parts
        /\ \A k \in 1 .. new : k < new => parts[k + 1] = [parts[k] EXCEPT !.part = @ + 1]
    <2>1. \A k \in 1 .. new : [name |-> guest.name, frame |-> f, part |-> k] \in Parts
      BY <1>0, <1>1 DEF Parts
    <2>2. parts \in [1 .. new -> Parts]
      BY <2>1
    <2> QED
      BY <1>1, <2>1, <2>2
  <1>4. guest.tx = Slot(mac.tx, old, TxRing)
    BY DEF EthInv, TxIsQueue
  <1>5. name \in Nat
    BY <1>0
  <1> HIDE DEF parts, name, old, new
  <1>6. old + new <= TxRing
    <2> SUFFICES ASSUME old + new > TxRing PROVE FALSE
      BY <1>0, <1>1
    <2> DEFINE k == TxRing - old
    <2>1. /\ old > 0 /\ k \in 0 .. TxRing /\ k + 1 \in 1 .. new
          /\ old + k = TxRing /\ old + k <= TxRing
          /\ guest.tx + (k + 1) - 1 = guest.tx + k
      BY <1>0, <1>1
    <2> HIDE DEF k
    <2>2. (guest.tx + k) % TxRing = Slot(guest.tx, k, TxRing)
      BY <1>0, <2>1, SlotIsRemainder
    <2>3. Slot(guest.tx, k, TxRing) = Slot(mac.tx, TxRing, TxRing)
      <3>1. Slot(Slot(mac.tx, old, TxRing), k, TxRing) = Slot(mac.tx, old + k, TxRing)
        BY <1>0, <2>1, Onward
      <3> QED
        BY <1>4, <2>1, <3>1
    <2>4. Slot(mac.tx, TxRing, TxRing) = mac.tx
      BY <1>0, OneRound
    <2>5. ~txd[mac.tx].own
      BY <1>2, <2>1, <2>2, <2>3, <2>4
    <2>6. queued # <<>>
      BY <2>1 DEF old
    <2> QED
      BY <2>5, <2>6, NextPart
  <1>7. /\ queued' \in Seq(Parts) /\ Len(queued') = old + new
        /\ \A i \in 1 .. old : queued'[i] = queued[i]
        /\ \A i \in 1 .. new : queued'[old + i] = parts[i]
    <2>1. /\ queued \o parts \in Seq(Parts) /\ Len(queued \o parts) = Len(queued) + Len(parts)
          /\ \A i \in 1 .. Len(queued) : (queued \o parts)[i] = queued[i]
          /\ \A i \in 1 .. Len(parts) : (queued \o parts)[Len(queued) + i] = parts[i]
      <3>1. queued \in Seq(Parts) /\ parts \in Seq(Parts)
        BY <1>0, <1>3
      <3> QED
        BY <3>1, JoinedElements
    <2> QED
      BY <1>2, <1>3, <2>1, Zenon DEF old
  <1>8. /\ guest' \in [tx : 0 .. TxRing - 1, rx : 0 .. RxRing - 1, name : Nat]
        /\ guest'.rx = guest.rx /\ guest'.tx = Slot(mac.tx, old + new, TxRing)
    <2>1. new \in 0 .. TxRing
      BY <1>1
    <2>2. /\ (guest.tx + new) % TxRing = Slot(guest.tx, new, TxRing)
          /\ Slot(guest.tx, new, TxRing) \in 0 .. TxRing - 1
      BY <1>0, <2>1, SlotIsRemainder, Zenon
    <2>3. Slot(guest.tx, new, TxRing) = Slot(mac.tx, old + new, TxRing)
      BY <1>0, <1>4, <1>6, <2>1, Onward
    <2> QED
      BY <1>0, <1>2, <1>5, <2>2, <2>3, Zenon
  <1>9. TxIsQueue'
    <2>1. DOMAIN txd = 0 .. TxRing - 1
      BY DEF EthInv, EthTypeOK
    <2>2. ASSUME NEW j \in 0 .. TxRing - 1
          PROVE  txd'[Slot(mac.tx, j, TxRing)] =
                   IF j < Len(queued') THEN Filled(queued'[j + 1]) ELSE Free
      <3> DEFINE i == Slot(mac.tx, j, TxRing)
      <3>1. i \in 0 .. TxRing - 1
        BY <1>0 DEF Slot
      <3>2. place(i) = (IF old <= j THEN j - old ELSE j - old + TxRing) + 1
        <4>1. (i + TxRing - guest.tx) % TxRing = Way(guest.tx, i, TxRing)
          BY <1>0, <3>1, WayIsRemainder
        <4>2. Way(guest.tx, i, TxRing) = IF old <= j THEN j - old ELSE j - old + TxRing
          BY <1>0, <1>4, WayBetween
        <4> QED
          BY <4>1, <4>2
      <3>3. txd'[i] = IF place(i) <= new THEN Filled(parts[place(i)]) ELSE txd[i]
        BY <1>2, <2>1, <3>1
      <3>4. txd[i] = IF j < old THEN Filled(queued[j + 1]) ELSE Free
        BY DEF EthInv, TxIsQueue, old
      <3> HIDE DEF i, place
      <3>5. CASE j < old
        <4>1. ~(place(i) <= new) /\ j < old + new /\ j + 1 \in 1 .. old
          BY <1>0, <1>1, <1>6, <3>2, <3>5
        <4> QED
          BY <1>7, <3>3, <3>4, <3>5, <4>1, Zenon DEF i
      <3>6. CASE old <= j /\ j < old + new
        <4>1. place(i) \in 1 .. new /\ place(i) <= new /\ old + place(i) = j + 1
          BY <1>0, <1>1, <3>2, <3>6
        <4> QED
          BY <1>7, <3>3, <3>6, <4>1, Zenon DEF i
      <3>7. CASE old + new <= j
        <4>1. ~(place(i) <= new) /\ ~(j < old) /\ ~(j < old + new)
          BY <1>0, <1>1, <3>2, <3>7
        <4> QED
          BY <1>7, <3>3, <3>4, <4>1 DEF i
      <3>8. j < old \/ (old <= j /\ j < old + new) \/ old + new <= j
        BY <1>0, <1>1
      <3> QED
        BY <3>5, <3>6, <3>7, <3>8
    <2> QED
      BY <1>2, <1>6, <1>7, <1>8, <2>2, Zenon DEF TxIsQueue
  <1>10. PartsFollow'
    <2> SUFFICES ASSUME NEW i \in 1 .. Len(queued')
                 PROVE  LET q == queued'[i]
                        IN  /\ q.part <= Len(q.frame)
                            /\ q.part < Len(q.frame) => /\ i < Len(queued')
                                                        /\ queued'[i + 1] = [q EXCEPT !.part = @ + 1]
                            /\ q.part = Len(q.frame) /\ i < Len(queued') => queued'[i + 1].part = 1
      BY Zenon DEF PartsFollow
    <2>0. i \in 1 .. old + new /\ i \in Nat /\ old \in Nat
      BY <1>0, <1>1, <1>7
    <2>1. CASE i <= old
      <3>1. i \in 1 .. old /\ queued'[i] = queued[i] /\ i < old + new
        BY <1>0, <1>1, <1>7, <2>0, <2>1
      <3>2. LET q == queued[i]
            IN  /\ q.part <= Len(q.frame)
                /\ q.part < Len(q.frame) => /\ i < old
                                            /\ queued[i + 1] = [q EXCEPT !.part = @ + 1]
                /\ q.part = Len(q.frame) /\ i < old => queued[i + 1].part = 1
        BY <3>1 DEF EthInv, PartsFollow, old
      <3>3. i < old => queued'[i + 1] = queued[i + 1]
        <4>1. i < old => i + 1 \in 1 .. old
          BY <2>0, <3>1
        <4> QED
          BY <1>7, <4>1
      <3>4. ~(i < old) => queued'[i + 1].part = 1
        <4>1. ~(i < old) => i + 1 = old + 1 /\ 1 \in 1 .. new
          BY <1>1, <2>0, <2>1
        <4> QED
          BY <1>3, <1>7, <4>1
      <3> QED
        BY <1>7, <3>1, <3>2, <3>3, <3>4
    <2>2. CASE i > old
      <3> DEFINE k == i - old
      <3>1. /\ k \in 1 .. new /\ old + k = i /\ (i < old + new <=> k < new)
            /\ k < new => k + 1 \in 1 .. new /\ old + (k + 1) = i + 1
        BY <1>1, <2>0, <2>2
      <3> HIDE DEF k
      <3>2. queued'[i] = parts[k] /\ parts[k].part = k /\ Len(parts[k].frame) = new
        BY <1>3, <1>7, <3>1 DEF new
      <3>3. k < new => queued'[i + 1] = [parts[k] EXCEPT !.part = @ + 1]
        BY <1>3, <1>7, <3>1
      <3>4. k <= new /\ ~(k < new /\ k = new)
        BY <1>1, <3>1
      <3> QED
        BY <1>7, <3>1, <3>2, <3>3, <3>4
    <2> QED
      BY <2>0, <2>1, <2>2
  <1>11. Collected'
    <2>1. gathered = <<>>
      BY <1>2, NothingCollected
    <2>2. queued'[1].part = 1 /\ queued'[1] \in Parts /\ queued' # <<>>
      <3>1. 1 \in 1 .. Len(queued') /\ 1 \in 1 .. new
        BY <1>0, <1>1, <1>7
      <3>2. queued'[1] \in Parts /\ queued' # <<>>
        BY <1>7, <3>1
      <3>3. CASE old = 0
        <4>1. 0 + 1 = 1
          OBVIOUS
        <4> QED
          BY <1>3, <1>7, <3>1, <3>2, <3>3, <4>1
      <3>4. CASE old # 0
        <4>1. 1 \in 1 .. old
          BY <1>0, <3>4
        <4>2. queued[1].part = 1
          BY <1>0, <1>2, <3>4 DEF EthInv, Collected, old
        <4> QED
          BY <1>7, <3>2, <4>1, <4>2
      <3> QED
        BY <3>3, <3>4
    <2>3. FrameBytes(queued'[1].name, Start(queued'[1])) = <<>>
      <3>1. Start(queued'[1]) = 0 /\ queued'[1].name \in Nat
        BY <2>2 DEF Start, Parts
      <3> QED
        BY <3>1, BytesType
    <2> QED
      BY <1>2, <2>1, <2>2, <2>3 DEF Collected, EthInv
  <1>12. EthTypeOK'
    <2>1. txd' \in [0 .. TxRing - 1 -> [own : BOOLEAN, last : BOOLEAN, bytes : Seq(Octets)]]
      <3>1. ASSUME NEW i \in 0 .. TxRing - 1
            PROVE  txd'[i] \in [own : BOOLEAN, last : BOOLEAN, bytes : Seq(Octets)]
        <4>1. DOMAIN txd = 0 .. TxRing - 1 /\ txd[i] \in [own : BOOLEAN, last : BOOLEAN, bytes : Seq(Octets)]
          BY Zenon DEF EthInv, EthTypeOK
        <4>2. txd'[i] = IF place(i) <= new THEN Filled(parts[place(i)]) ELSE txd[i]
          BY <1>2, <4>1
        <4>3. place(i) \in Nat \ {0}
          <5>1. /\ (i + TxRing - guest.tx) % TxRing = Way(guest.tx, i, TxRing)
                /\ Way(guest.tx, i, TxRing) \in 0 .. TxRing - 1
            BY <1>0, WayIsRemainder, Zenon
          <5> QED
            BY <1>0, <5>1
        <4> HIDE DEF place
        <4>4. CASE place(i) <= new
          <5>1. place(i) \in 1 .. new
            BY <1>1, <4>3, <4>4
          <5>2. parts[place(i)] \in Parts /\ parts[place(i)].part <= Len(parts[place(i)].frame)
            BY <1>3, <4>4, <5>1 DEF new
          <5> QED
            BY <4>2, <4>4, <5>2, FilledFacts, Zenon
        <4> QED
          BY <4>1, <4>2, <4>4
      <3>2. txd' = [i \in 0 .. TxRing - 1 |-> txd'[i]]
        BY <1>2 DEF EthInv, EthTypeOK
      <3> QED
        BY <3>1, <3>2
    <2> QED
      BY <1>2, <1>7, <1>8, <2>1, Zenon DEF EthInv, EthTypeOK
  <1>13. RxIsQueue' /\ LineIsTrue'
    BY <1>2, <1>8, SameRx DEF EthInv, LineIsTrue
  <1> QED
    BY <1>9, <1>10, <1>11, <1>12, <1>13 DEF EthInv

\* The invariant says of the two rings what the property does.
LEMMA EthMeans == EthInv => RingsAreQueues
  <1> SUFFICES ASSUME EthInv PROVE RingsAreQueues
    OBVIOUS
  <1>1. /\ TxRing \in Nat \ {0} /\ RxRing \in Nat \ {0}
        /\ mac.tx \in 0 .. TxRing - 1 /\ guest.rx \in 0 .. RxRing - 1
        /\ Len(queued) \in Nat /\ Len(inbox) \in Nat
    BY EthFacts
  <1>2. ASSUME NEW k \in 1 .. TxRing
        PROVE  LET d == txd[(mac.tx + k - 1) % TxRing]
               IN  IF k <= Len(queued) THEN d = Filled(queued[k]) ELSE ~d.own
    <2>1. k - 1 \in 0 .. TxRing - 1 /\ k - 1 \in 0 .. TxRing /\ mac.tx + k - 1 = mac.tx + (k - 1) /\ (k - 1) + 1 = k
      BY <1>1
    <2>2. (mac.tx + (k - 1)) % TxRing = Slot(mac.tx, k - 1, TxRing)
      BY <1>1, <2>1, SlotIsRemainder, Zenon
    <2>3. txd[Slot(mac.tx, k - 1, TxRing)] = IF k <= Len(queued) THEN Filled(queued[k]) ELSE Free
      BY <1>1, <2>1 DEF EthInv, TxIsQueue
    <2>4. ~Free.own
      BY DEF Free
    <2> QED
      BY <2>1, <2>2, <2>3, <2>4
  <1>3. ASSUME NEW k \in 1 .. RxRing
        PROVE  LET d == rxd[(guest.rx + k - 1) % RxRing]
               IN  IF k <= Len(inbox) THEN ~d.own /\ d.frame = inbox[k] ELSE d.own
    <2>1. k - 1 \in 0 .. RxRing - 1 /\ k - 1 \in 0 .. RxRing /\ guest.rx + k - 1 = guest.rx + (k - 1) /\ (k - 1) + 1 = k
      BY <1>1
    <2>2. (guest.rx + (k - 1)) % RxRing = Slot(guest.rx, k - 1, RxRing)
      BY <1>1, <2>1, SlotIsRemainder, Zenon
    <2>3. rxd[Slot(guest.rx, k - 1, RxRing)] =
            IF k <= Len(inbox) THEN [own |-> FALSE, frame |-> inbox[k]] ELSE Empty
      BY <1>1, <2>1 DEF EthInv, RxIsQueue
    <2>4. rxd[(guest.rx + k - 1) % RxRing] = rxd[Slot(guest.rx, k - 1, RxRing)]
      BY <2>1, <2>2, Zenon
    <2> QED
      BY <2>3, <2>4 DEF Empty
  <1>4. queued # <<>> => Head(queued) = queued[1]
    BY DEF EthInv, EthTypeOK
  <1> QED
    BY <1>2, <1>3, <1>4, Zenon DEF RingsAreQueues, EthInv, TxIsQueue, RxIsQueue, Collected, LineIsTrue

\* The rings as the guest has built them
LEMMA EthInitInv ==
  ASSUME EthInit
  PROVE  EthInv
  <1>1. TxRing \in Nat \ {0} /\ RxRing \in Nat \ {0} /\ 0 \in 0 .. TxRing - 1 /\ 0 \in 0 .. RxRing - 1
    BY EthAssumption
  <1>2. /\ mac \in Registers /\ mac.tx = 0 /\ mac.rx = 0
        /\ mac.irq = FALSE /\ mac.ena = {}
    BY <1>1, Zenon DEF EthInit, Registers, Status
  <1>3. EthTypeOK
    <2>1. /\ Free \in [own : BOOLEAN, last : BOOLEAN, bytes : Seq(Octets)]
          /\ Empty \in [own : BOOLEAN, frame : Nat]
      BY DEF Free, Empty
    <2>2. guest \in [tx : 0 .. TxRing - 1, rx : 0 .. RxRing - 1, name : Nat]
      BY <1>1 DEF EthInit
    <2>3. /\ gathered \in Seq(Octets) /\ busy \in BOOLEAN
          /\ queued \in Seq(Parts) /\ inbox \in Seq(Nat)
      <3>1. \A S : <<>> \in Seq(S)
        OBVIOUS
      <3>2. gathered = <<>> /\ queued = <<>> /\ inbox = <<>> /\ busy = FALSE
        BY DEF EthInit
      <3> QED
        BY <3>1, <3>2, Zenon
    <2>4. /\ txd \in [0 .. TxRing - 1 -> [own : BOOLEAN, last : BOOLEAN, bytes : Seq(Octets)]]
          /\ rxd \in [0 .. RxRing - 1 -> [own : BOOLEAN, frame : Nat]]
      <3>1. txd = [i \in 0 .. TxRing - 1 |-> Free] /\ rxd = [i \in 0 .. RxRing - 1 |-> Empty]
        BY DEF EthInit
      <3> QED
        BY <2>1, <3>1
    <2> QED
      BY <1>2, <2>2, <2>3, <2>4 DEF EthTypeOK
  <1>4. /\ Slot(0, 0, TxRing) = 0 /\ \A k \in 0 .. TxRing - 1 : Slot(0, k, TxRing) \in 0 .. TxRing - 1
        /\ Slot(0, 0, RxRing) = 0 /\ \A k \in 0 .. RxRing - 1 : Slot(0, k, RxRing) \in 0 .. RxRing - 1
    BY <1>1 DEF Slot
  <1>5. TxIsQueue /\ PartsFollow
    <2>1. queued = <<>> /\ Len(queued) = 0 /\ guest.tx = 0 /\ txd = [i \in 0 .. TxRing - 1 |-> Free]
      BY DEF EthInit
    <2>2. \A k \in 0 .. TxRing - 1 : txd[Slot(0, k, TxRing)] = Free /\ ~(k < 0)
      BY <1>1, <1>4, <2>1
    <2>3. TxIsQueue
      BY <1>1, <1>2, <1>4, <2>1, <2>2 DEF TxIsQueue
    <2> QED
      BY <2>1, <2>3 DEF PartsFollow
  <1>6. RxIsQueue
    <2>1. Len(inbox) = 0 /\ guest.rx = 0 /\ rxd = [i \in 0 .. RxRing - 1 |-> Empty]
      BY DEF EthInit
    <2>2. \A k \in 0 .. RxRing - 1 : rxd[Slot(0, k, RxRing)] = Empty /\ ~(k < 0)
      BY <1>1, <1>4, <2>1
    <2> QED
      BY <1>1, <1>2, <1>4, <2>1, <2>2 DEF RxIsQueue
  <1>7. Collected /\ LineIsTrue
    BY <1>2, Zenon DEF EthInit, Collected, LineIsTrue
  <1> QED
    BY <1>3, <1>5, <1>6, <1>7 DEF EthInv

\* The invariant of the controller and its two rings (stm32f4xx_eth.c)
THEOREM EthInvariant == EthSpec => []EthInv
  <1>1. EthInit => EthInv
    BY EthInitInv
  <1>2. EthInv /\ [EthNext]_ethVars => EthInv'
    <2> SUFFICES ASSUME EthInv, [EthNext]_ethVars PROVE EthInv'
      OBVIOUS
    <2>1. CASE UNCHANGED ethVars
      BY <2>1 DEF ethVars, EthInv, EthTypeOK, TxIsQueue, PartsFollow, Collected, RxIsQueue, LineIsTrue
    <2>2. CASE EthNext
      BY <2>2, QueueFrameInv, PollDemandInv, SendEndsInv, SendDescriptorInv, ReceiveInv,
         TakeFrameInv, RxInitInv, TxInitInv, WritesInv, Zenon DEF EthNext
    <2> QED
      BY <2>1, <2>2
  <1> QED
    BY <1>1, <1>2, PTL DEF EthSpec

\* The transmit ring is a queue of parts of frames from the guest to the network, the
\* receive ring one of frames from the network to the guest, for every size of the two
\* rings and any frames, whatever is received while stm32f4xx_eth_send runs.
THEOREM EthRingsAreQueues == EthSpec => []RingsAreQueues
  BY EthInvariant, EthMeans, PTL
==============================================================================
