---------------------------- MODULE Tmc2209Motion ----------------------------
(***************************************************************************)
(* The motion half of a TMC2209 stepper driver                             *)
(* (hw/arm/prusa/parts/tmc2209.c): STEP, DIR and EN inputs, the position,  *)
(* the DIAG and end-stop outputs, the standstill timer, and the registers  *)
(* CHOPCONF, DRV_STATUS and SG_RESULT that the two halves share.           *)
(*                                                                         *)
(* Time is counted in ticks; the standstill timer runs Standstill ticks    *)
(* (87 ms in the code).                                                    *)
(***************************************************************************)
EXTENDS Integers

CONSTANTS
  ms_increment,   \* microsteps per step (16 in the code)
  max_step,       \* the far end stop, 0 for an axis without end stops
  is_inverted,    \* direction input inverted
  Standstill,     \* ticks without a step until the motor stands still
  SgWords,        \* the 10-bit values a datagram may store in SG_RESULT
  MaxTravel       \* bound: travel of an axis without end stops

SgRange == 0 .. 1023   \* the ten bits of SG_RESULT
FreeLoad == 250        \* its value after a step that is not held back

ASSUME MotionAssumption == /\ ms_increment \in Nat \ {0}
                           /\ max_step \in Nat
                           /\ max_step # 0 => ms_increment <= max_step
                           /\ is_inverted \in BOOLEAN
                           /\ Standstill \in Nat \ {0}
                           /\ SgWords \subseteq SgRange
                           /\ MaxTravel \in Nat

VARIABLES
  motor,   \* struct tmc2209_state
  pin,     \* history: the level of the STEP input
  quiet,   \* history: ticks since the last step, up to Standstill
  stored   \* history: the status registers that hold the word of a datagram

motionVars == <<motor, pin, quiet, stored>>

\* The registers the driver itself reports with
StatusRegs == {"DRV_STATUS", "SG_RESULT"}

PowerOn == [current_step |-> 0, dir |-> FALSE, enabled |-> FALSE, dedge |-> FALSE,
            last_step |-> FALSE, diag |-> FALSE, hard |-> FALSE, stst |-> TRUE,
            sg_result |-> FreeLoad, timer |-> 0]

(***************************************************************************)
(* Functions of the code.                                                  *)
(***************************************************************************)
\* tmc2209_enable: EN is active low, and high clears DIAG.
enable(m, level) == [m EXCEPT !.enabled = ~level, !.diag = IF level THEN FALSE ELSE @]

\* tmc2209_dir
dir(m, level) == [m EXCEPT !.dir = (level # is_inverted)]

\* The input values on which tmc2209_step does not return early.
Steps(m, value) == m.enabled /\ (IF m.dedge THEN value # m.last_step ELSE value)

Target(m) == IF m.dir THEN m.current_step - ms_increment ELSE m.current_step + ms_increment

Clamped(x) == IF max_step = 0 THEN x
              ELSE IF x < 0 THEN 0
              ELSE IF x > max_step THEN max_step
              ELSE x

\* Faulty form: a free step leaves DIAG as it is.
step_keeps_diag(m, value) ==
  LET to == Clamped(Target(m))
      stall == to # Target(m)
  IN  IF ~Steps(m, value) THEN m
      ELSE [m EXCEPT !.current_step = to,
                     !.diag = IF stall THEN TRUE ELSE @,
                     !.hard = IF stall THEN (IF to = 0 THEN TRUE ELSE @) ELSE FALSE,
                     !.sg_result = IF stall THEN 0 ELSE FreeLoad, !.stst = FALSE, !.timer = Standstill]

\* Faulty form: the timer is left running when it is already armed.
step_keeps_timer(m, value) ==
  LET to == Clamped(Target(m))
      stall == to # Target(m)
  IN  IF ~Steps(m, value) THEN m
      ELSE [m EXCEPT !.current_step = to, !.diag = stall,
                     !.hard = IF stall THEN (IF to = 0 THEN TRUE ELSE @) ELSE FALSE,
                     !.sg_result = IF stall THEN 0 ELSE FreeLoad, !.stst = FALSE,
                     !.timer = IF @ = 0 THEN Standstill ELSE @]

\* tmc2209_step.  (`stalled' is never set, and last_step never written.)
step(m, value) ==
  LET to == Clamped(Target(m))
      stall == to # Target(m)
  IN  IF ~Steps(m, value) THEN m
      ELSE [m EXCEPT !.current_step = to, !.diag = stall,
                     !.hard = IF stall THEN (IF to = 0 THEN TRUE ELSE @) ELSE FALSE,
                     !.sg_result = IF stall THEN 0 ELSE FreeLoad, !.stst = FALSE, !.timer = Standstill]

\* Faulty form: DIAG survives the standstill.
standstill_keeps_diag(m) == [m EXCEPT !.stst = TRUE, !.sg_result = 0, !.timer = 0]

\* tmc2209_standstill_timer
standstill_timer(m) ==
  [m EXCEPT !.stst = TRUE, !.diag = FALSE, !.sg_result = 0, !.timer = 0]

(***************************************************************************)
(* Actions.                                                                *)
(***************************************************************************)
MotionInit == motor = PowerOn /\ pin = FALSE /\ quiet = Standstill /\ stored = {}

\* The GPIO port calls on a change of the pin only.
StepPin ==
  /\ pin' = ~pin
  /\ motor' = step(motor, pin')
  /\ motor'.current_step \in -MaxTravel .. MaxTravel
  /\ quiet' = IF Steps(motor, pin') THEN 0 ELSE quiet
  /\ stored' = IF Steps(motor, pin') THEN {} ELSE stored

DirPin(level) == motor' = dir(motor, level) /\ UNCHANGED <<pin, quiet, stored>>

EnPin(level) == motor' = enable(motor, level) /\ UNCHANGED <<pin, quiet, stored>>

\* tmc2209_write stores the word of a datagram in any register, those that only
\* report included.  A word for another register than these changes no motion.
WriteReg ==
  /\ \/ \E dedge \in BOOLEAN : motor' = [motor EXCEPT !.dedge = dedge] /\ stored' = stored
     \/ \E stst \in BOOLEAN : /\ motor' = [motor EXCEPT !.stst = stst]
                             /\ stored' = stored \cup {"DRV_STATUS"}
     \/ \E sg \in SgWords : /\ motor' = [motor EXCEPT !.sg_result = sg]
                           /\ stored' = stored \cup {"SG_RESULT"}
  /\ UNCHANGED <<pin, quiet>>

Tick ==
  /\ motor' = IF motor.timer = 1 THEN standstill_timer(motor)
              ELSE IF motor.timer > 1 THEN [motor EXCEPT !.timer = @ - 1]
              ELSE motor
  /\ quiet' = IF quiet < Standstill THEN quiet + 1 ELSE quiet
  /\ stored' = IF motor.timer = 1 THEN {} ELSE stored
  /\ UNCHANGED pin

MotionNext ==
  \/ StepPin
  \/ \E level \in BOOLEAN : DirPin(level)
  \/ \E level \in BOOLEAN : EnPin(level)
  \/ WriteReg
  \/ Tick

\* Virtual time passes.
MotionSpec == MotionInit /\ [][MotionNext]_motionVars /\ WF_motionVars(Tick)

(***************************************************************************)
(* Properties.                                                             *)
(***************************************************************************)
MotorType ==
  [current_step : Int, dir : BOOLEAN, enabled : BOOLEAN, dedge : BOOLEAN,
   last_step : BOOLEAN, diag : BOOLEAN, hard : BOOLEAN, stst : BOOLEAN,
   sg_result : SgRange, timer : 0 .. Standstill]

MotionTypeOK == /\ motor \in MotorType /\ pin \in BOOLEAN /\ quiet \in 0 .. Standstill
                /\ stored \subseteq StatusRegs

\* The carriage never leaves the axis (the clamping in tmc2209_step).
PositionOnAxis == max_step # 0 => motor.current_step \in 0 .. max_step

\* A raised end-stop output means that the carriage is at zero, and DIAG that
\* it is at one of the ends and that the motor is enabled and was stepped less
\* than the standstill time ago: homing that waits for either output stops at
\* the right place, and neither output survives a move away.
StopsAreReal ==
  /\ motor.hard => max_step # 0 /\ motor.current_step = 0
  /\ motor.diag => /\ max_step # 0 /\ motor.current_step \in {0, max_step}
                   /\ motor.enabled
                   /\ quiet < Standstill

\* STST says whether the motor was stepped within the standstill time, unless a
\* datagram has stored DRV_STATUS since the driver last set the flag; the timer runs
\* for the rest of that time whatever is stored.
StandstillIsExact == /\ "DRV_STATUS" \notin stored => (motor.stst <=> quiet = Standstill)
                     /\ motor.timer = Standstill - quiet

\* SG_RESULT is zero while DIAG reports a stall, and only for a motor that stands
\* still or is at an end of its axis; again unless a datagram has stored SG_RESULT
\* since the driver last set it.
LoadIsReal ==
  "SG_RESULT" \notin stored =>
    /\ motor.diag => motor.sg_result = 0
    /\ motor.sg_result = 0 => \/ quiet = Standstill
                              \/ max_step # 0 /\ motor.current_step \in {0, max_step}

\* What the driver reports of the motor is true: the end-stop and DIAG outputs, the
\* standstill flag and the load.  The two registers may be overwritten by a datagram
\* (tmc2209_write checks no register); the outputs may not, and the next step or the
\* standstill timer makes the registers true again.
ReportsAreTrue == StopsAreReal /\ StandstillIsExact /\ LoadIsReal

\* A motor that is not stepped again and again comes to rest: it releases DIAG and
\* shows STST, or a datagram has stored another word over the flag.
ComesToRest ==
  []<>(~motor.diag /\ (motor.stst \/ "DRV_STATUS" \in stored)) \/ []<>(quiet = 0)

\* "With DEDGE step on each value change": each edge of the STEP input moves
\* an enabled motor that is not at an end.
DedgeStepsOnEachChange ==
  [][pin' # pin /\ motor.enabled /\ motor.dedge /\ max_step = 0
       => motor'.current_step # motor.current_step]_motionVars
=============================================================================
