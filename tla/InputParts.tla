----------------------------- MODULE InputParts -----------------------------
(***************************************************************************)
(* The knob with its button (hw/arm/prusa/parts/encoder_input.c) and the   *)
(* filament sensor (irsensor.c), as the guest sees them in the input       *)
(* registers of their GPIO ports.                                          *)
(*                                                                         *)
(* Both timers of the knob may fire at any time after they were set: how   *)
(* long they take makes no difference to what can happen.                  *)
(***************************************************************************)
EXTENDS Integers

CONSTANTS
  MaxTwist,  \* bound: detents of one script action
  MaxTicks   \* bound: nobody turns a knob that has so far to go

ASSUME InputAssumption == MaxTwist \in Nat /\ MaxTicks \in Nat

VARIABLES
  knob,   \* InputState; left: MOUSE_EVENT_LBUTTON of last_state
  held,   \* whether the left mouse button is held down
  ir,     \* state of the filament sensor
  spoken, \* history: whether the sensor has driven its line since the reset
  high    \* the input pins that are 1 in IDR

inputVars == <<knob, held, ir, spoken, high>>

Pins == {"A", "B", "button", "ir"}

\* encoder_input_phases: the lines that are high in each phase
PhaseLines == [p \in 0 .. 3 |-> CASE p = 0 -> {"A", "B"} [] p = 1 -> {"B"} [] p = 2 -> {} [] p = 3 -> {"A"}]

\* qemu_set_irq for some of the pins: f2xx_gpio_set puts the levels into IDR.
Drive(pins, up) == (high \ pins) \cup up
Level(pin, up) == Drive({pin}, IF up THEN {pin} ELSE {})

\* n detents in direction dir: a change of direction drops what is left.
Turned(k, dir, n) ==
  [k EXCEPT !.ticks = 2 * n + (IF k.dir = dir THEN k.ticks ELSE 0),
            !.dir = dir, !.timer = TRUE]

\* encoder_input_keyevent with an arrow key, and the script action Twist, which
\* calls it for each detent
Twist(dir, n) ==
  /\ knob.ticks + 2 * n <= MaxTicks
  /\ knob' = Turned(knob, dir, n)
  /\ UNCHANGED <<held, ir, spoken, high>>

\* encoder_input_keyevent with the enter key, and the script action Push
Push ==
  /\ knob' = [knob EXCEPT !.release = TRUE]
  /\ high' = Level("button", FALSE)
  /\ UNCHANGED <<held, ir, spoken>>

\* buddy_autorelease_timer_expire
Release ==
  /\ knob.release
  /\ knob' = [knob EXCEPT !.release = FALSE]
  /\ high' = Level("button", TRUE)
  /\ UNCHANGED <<held, ir, spoken>>

\* encoder_input_mouseevent: the wheel moved by dz, and the button is now down or up.
MouseEvent(dz, down) ==
  /\ dz # 0 => knob.ticks + 2 <= MaxTicks
  /\ held' = down
  /\ knob' = [(IF dz = 0 THEN knob ELSE Turned(knob, dz, 1)) EXCEPT !.left = down]
  /\ high' = IF down # knob.left THEN Level("button", ~down) ELSE high
  /\ UNCHANGED <<ir, spoken>>

\* encoder_input_timer_expire: one phase on, and the two lines with it.
KnobExpire ==
  /\ knob.timer
  /\ LET p == (knob.phase + (IF knob.dir < 0 THEN 1 ELSE 3)) % 4
     IN  /\ knob' = [knob EXCEPT !.phase = p, !.ticks = @ - 1, !.timer = knob.ticks > 1]
         /\ high' = Drive({"A", "B"}, PhaseLines[p])
  /\ UNCHANGED <<held, ir, spoken>>

\* irsensor_process_action: Set and Toggle
SetSensor(on) ==
  /\ ir' = on /\ spoken' = TRUE
  /\ high' = Level("ir", on)
  /\ UNCHANGED <<knob, held>>

\* encoder_input_reset, without its lines: the turn under way goes on.
KnobReset(k) == [k EXCEPT !.left = FALSE, !.phase = 0]

\* Faulty form: the ports are reset before the parts, whose lines are then low.
InputReset_ports_first ==
  /\ knob' = KnobReset(knob)
  /\ spoken' = FALSE
  /\ high' = {"button"}
  /\ UNCHANGED <<held, ir>>

\* A reset of the machine.  bus_add_child puts each device before those created
\* earlier, so the parts are reset first and lower A, B and the sensor's line, and
\* then stm32f2xx_gpio_reset sets IDR to ones.
InputReset ==
  /\ knob' = KnobReset(knob)
  /\ spoken' = FALSE
  /\ high' = Pins
  /\ UNCHANGED <<held, ir>>

InputInit ==
  /\ knob = [phase |-> 0, ticks |-> 0, dir |-> 0, left |-> FALSE, timer |-> FALSE, release |-> FALSE]
  /\ held = FALSE /\ ir = FALSE /\ spoken = FALSE
  /\ high = Pins

InputNext ==
  \/ \E dir \in {-1, 1}, n \in 1 .. MaxTwist : Twist(dir, n)
  \/ \E dz \in {-1, 0, 1}, down \in BOOLEAN : MouseEvent(dz, down)
  \/ \E on \in BOOLEAN : SetSensor(on)
  \/ Push \/ Release \/ KnobExpire \/ InputReset

InputSpec == InputInit /\ [][InputNext]_inputVars

(***************************************************************************)
(* Properties.                                                             *)
(***************************************************************************)
\* What the guest reads is what the parts are at, over resets at any moment of a
\* turn or a press, though neither part drives its lines to match its state then:
\* A and B show the knob's phase (otherwise the first step after a reset would be
\* decoded as one back), a knob on its way has a timer, the button is down only
\* while it is held or about to be released (a reset forgets that the mouse button
\* is down), and the sensor's pin is its state once it has spoken.
GuestReadsInputs ==
  /\ high \cap {"A", "B"} = PhaseLines[knob.phase]
  /\ knob.timer <=> knob.ticks > 0
  /\ "button" \notin high => held \/ knob.release
  /\ spoken => ("ir" \in high <=> ir)
=============================================================================
