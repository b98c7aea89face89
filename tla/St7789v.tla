------------------------------ MODULE St7789v ------------------------------
(***************************************************************************)
(* The display (hw/arm/prusa/parts/st7789v.c): the commands that come over *)
(* the SPI bus, the window that CASET and RASET set, and the cursor that   *)
(* RAMWR moves through it.  Colours are left out: a pixel is its place.    *)
(***************************************************************************)
EXTENDS Integers, Sequences

CONSTANTS
  Rows, Cols,  \* DPY_ROWS and DPY_COLS
  Byte         \* how many values a byte has: 256

ASSUME DisplayAssumption ==
  /\ Rows \in Nat \ {0} /\ Cols \in Nat \ {0}
  /\ Byte \in Nat \ {0}

VARIABLES
  lcd,    \* st7789v_state; args stands for cmd_data and cmd_len
  from,   \* history: the cursor when CASET, RASET or RAMWR last moved it
  pixels, \* history: the pixels written since then, modulo those of the window
  unshown \* history: whether the framebuffer changed since it was last copied

displayVars == <<lcd, from, pixels, unshown>>

Commands == {"CASET", "RASET", "RAMWR", "other"}

\* The columns (rows) from the first to the last of the window, one at least
Extent(first, last) == IF last < first THEN 1 ELSE last - first + 1
Width(s) == Extent(s.col_start, s.col_end)
Height(s) == Extent(s.row_start, s.row_end)

Word(args, i, size) == (args[i] * Byte + args[i + 1]) % size

\* Every way out of st7789v_transfer that moves the cursor to a place of its own
MoveTo(s) ==
  /\ lcd' = s
  /\ from' = [row |-> s.row, col |-> s.col] /\ pixels' = 0
  /\ UNCHANGED unshown

\* st7789v_transfer with the mode line low
Command(cmd) ==
  LET s == [lcd EXCEPT !.cmd = cmd, !.args = <<>>]
  IN  /\ lcd.mode = "cmd"
      /\ IF cmd = "RAMWR"
         THEN MoveTo([s EXCEPT !.row = s.row_start, !.col = s.col_start])
         ELSE lcd' = s /\ UNCHANGED <<from, pixels, unshown>>

\* The argument of the command under way, when it has need more words to come
Argument(data, need) ==
  /\ lcd.mode = "data"
  /\ Len(lcd.args) + 1 < need
  /\ lcd' = [lcd EXCEPT !.args = Append(@, data)]
  /\ UNCHANGED <<from, pixels, unshown>>

Needs(cmd) == CASE cmd \in {"CASET", "RASET"} -> 4 [] cmd = "RAMWR" -> 2 [] OTHER -> 1

\* Faulty form: the window ends before its last column.
Advance_short(s) ==
  LET over == s.col + 1 >= s.col_end
      row == IF over THEN s.row + 1 ELSE s.row
  IN  [s EXCEPT !.col = IF over THEN s.col_start ELSE @ + 1,
                !.row = IF row > s.row_end THEN s.row_start ELSE row]

\* The cursor after a pixel
Advance(s) ==
  LET over == s.col + 1 > s.col_end
      row == IF over THEN s.row + 1 ELSE s.row
  IN  [s EXCEPT !.col = IF over THEN s.col_start ELSE @ + 1,
                !.row = IF row > s.row_end THEN s.row_start ELSE row]

\* The last argument of CASET and of RASET, the second half of a pixel, and the
\* argument of a command that does nothing with it
LastArgument(data) ==
  LET args == Append(lcd.args, data)
      s == [lcd EXCEPT !.args = <<>>]
  IN  /\ lcd.mode = "data"
      /\ Len(args) = Needs(lcd.cmd)
      /\ CASE lcd.cmd = "CASET" ->
                MoveTo([s EXCEPT !.col = Word(args, 1, Cols), !.col_start = Word(args, 1, Cols),
                                 !.col_end = Word(args, 3, Cols)])
           [] lcd.cmd = "RASET" ->
                MoveTo([s EXCEPT !.row = Word(args, 1, Rows), !.row_start = Word(args, 1, Rows),
                                 !.row_end = Word(args, 3, Rows)])
           [] lcd.cmd = "RAMWR" ->
                /\ lcd' = [Advance(s) EXCEPT !.redraw = TRUE]
                /\ pixels' = (pixels + 1) % (Width(s) * Height(s))
                /\ unshown' = TRUE
                /\ UNCHANGED from
           [] OTHER -> lcd' = s /\ UNCHANGED <<from, pixels, unshown>>

\* st7789v_cd: the guest moves the mode line, even in the middle of arguments.
SetMode(mode) ==
  /\ lcd' = [lcd EXCEPT !.mode = mode]
  /\ UNCHANGED <<from, pixels, unshown>>

\* st7789v_update_display
UpdateDisplay ==
  /\ lcd.redraw
  /\ lcd' = [lcd EXCEPT !.redraw = FALSE]
  /\ unshown' = FALSE
  /\ UNCHANGED <<from, pixels>>

\* st7789v_invalidate_display
Invalidate ==
  /\ lcd' = [lcd EXCEPT !.redraw = TRUE]
  /\ UNCHANGED <<from, pixels, unshown>>

\* st7789v_realize; nothing resets the display.
DisplayInit ==
  /\ lcd = [mode |-> "cmd", cmd |-> "other", args |-> <<>>, redraw |-> FALSE,
            row |-> 0, row_start |-> 0, row_end |-> Rows - 1, col |-> 0, col_start |-> 0, col_end |-> Cols - 1]
  /\ from = [row |-> 0, col |-> 0] /\ pixels = 0 /\ unshown = FALSE

DisplayNext ==
  \/ \E cmd \in Commands : Command(cmd)
  \/ \E data \in 0 .. Byte - 1 : Argument(data, Needs(lcd.cmd)) \/ LastArgument(data)
  \/ \E mode \in {"cmd", "data"} : SetMode(mode)
  \/ UpdateDisplay \/ Invalidate

DisplaySpec == DisplayInit /\ [][DisplayNext]_displayVars

(***************************************************************************)
(* Properties.                                                             *)
(***************************************************************************)
\* Pixels fill the window that the guest set, in the order of reading and over
\* again when it is full, whatever the window (one that ends before it starts is
\* one column or row), however commands cut each other's arguments short, and each
\* one inside the framebuffer: the cursor is where counting the pixels from its
\* last move puts it.  And no pixel waits for a copy that nobody asked for.
PixelsFillWindow ==
  LET at == (from.row - lcd.row_start) * Width(lcd) + (from.col - lcd.col_start) + pixels
  IN  /\ lcd.col = lcd.col_start + (at % Width(lcd))
      /\ lcd.row = lcd.row_start + ((at \div Width(lcd)) % Height(lcd))
      /\ lcd.col \in 0 .. Cols - 1 /\ lcd.row \in 0 .. Rows - 1
      /\ unshown => lcd.redraw
=============================================================================
