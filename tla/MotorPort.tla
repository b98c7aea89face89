------------------------------ MODULE MotorPort ------------------------------
(***************************************************************************)
(* A stepper driver between the outputs of GPIO port D and the inputs of   *)
(* port E, as prusa-mini.c wires it.  One write to the output register may *)
(* change STEP, DIR and EN together; the driver sees the changes one at a  *)
(* time, in the order of the pin numbers, and calls back into port E with  *)
(* DIAG before the write returns.  The two halves of a port share nothing, *)
(* so GpioPort stands for the outputs of one and the inputs of the other.  *)
(***************************************************************************)
EXTENDS GpioPort, Tmc2209Motion

CONSTANTS STEP, DIR, EN, DIAG   \* the pins of the axis

ASSUME WiringAssumption == /\ {STEP, DIR, EN, DIAG} \subseteq Pins
                           /\ STEP # DIR /\ STEP # EN /\ DIR # EN

Outputs == {STEP, DIR, EN}

\* The outputs as the loop of f2xx_update_odr comes to them
InOrder == CHOOSE o \in [1 .. 3 -> Outputs] : o[1] < o[2] /\ o[2] < o[3]

VARIABLES
  moved    \* history: pins of the axis that have changed at least once

portVars == <<gpioVars, motionVars, moved>>

\* The driver's handler for a change of one pin
Wired(m, p, level) == CASE p = STEP -> step(m, level)
                        [] p = DIR -> dir(m, level)
                        [] p = EN -> enable(m, level)

\* The driver after the loop has come to the k-th output
Sees(m, k, val) == LET p == InOrder[k]
                   IN  IF p \in changed(val) THEN Wired(m, p, p \in val) ELSE m

\* The states the driver goes through during one register write
Passes(val) == LET a == Sees(motor, 1, val)
                   b == Sees(a, 2, val)
               IN  <<motor, a, b, Sees(b, 3, val)>>

\* Faulty form: the driver sees the changes from the highest pin down.
Deliver_reversed(val) == motor' = Sees(Sees(Sees(motor, 3, val), 2, val), 1, val)

Deliver(val) == motor' = Passes(val)[4]

StepTaken(val) == \E k \in 1 .. 3 : /\ InOrder[k] = STEP /\ STEP \in changed(val)
                                    /\ Steps(Passes(val)[k], STEP \in val)

\* The driver sets its DIAG output with every step and when EN goes high.
SetsDiag(val) == StepTaken(val) \/ EN \in val \ odr

DiagOut(sets) == IF sets THEN gpio_set(DIAG, motor'.diag) ELSE UNCHANGED inVars

\* What the driver does while the port changes its outputs to val
DriverSees(val) ==
  /\ Deliver(val)
  /\ motor'.current_step \in -MaxTravel .. MaxTravel
  /\ pin' = (STEP \in val)
  /\ quiet' = IF StepTaken(val) THEN 0 ELSE quiet
  /\ stored' = IF StepTaken(val) THEN {} ELSE stored
  /\ moved' = moved \cup changed(val)
  /\ DiagOut(SetsDiag(val))

RegisterWrite(val) == ODRWrite(val) /\ DriverSees(val)

SetReset(set, clear) == BSRRWrite(set, clear) /\ DriverSees((odr \ clear) \cup set)

\* The standstill timer sets DIAG too.
Time == Tick /\ DiagOut(motor.timer = 1) /\ UNCHANGED <<odr, moved>>

\* A datagram for the driver is no business of the ports.
Datagram == WriteReg /\ UNCHANGED <<gpioVars, moved>>

\* A reset of the machine reaches the ports; the driver has no reset handler.
MachineReset == GpioReset /\ UNCHANGED <<motionVars, moved>>

PortInit == GpioInit /\ MotionInit /\ moved = {}

PortNext ==
  \/ \E val \in SUBSET Outputs : RegisterWrite(val)
  \/ \E set, clear \in SUBSET Outputs : SetReset(set, clear)
  \/ Time
  \/ Datagram
  \/ MachineReset

\* Virtual time passes.
PortSpec == PortInit /\ [][PortNext]_portVars /\ WF_portVars(Time)

(***************************************************************************)
(* Properties.                                                             *)
(***************************************************************************)
\* What the driver believes of its inputs is what the port shows, for each pin
\* that has changed since power-on; a machine reset, which neither drives the
\* lines nor resets the driver, does not break this.
DriverFollowsPort ==
  /\ DIR \in moved => (motor.dir <=> ((DIR \in odr) # is_inverted))
  /\ EN \in moved => (motor.enabled <=> EN \notin odr)
  /\ pin <=> STEP \in odr

\* The guest that homes the axis reads in IDR the level DIAG really has, once
\* the driver has set it since the reset.  (Until then a reset shows a one.)
GuestSeesDiag == DIAG \in heard => (DIAG \in idr <=> motor.diag)

\* Guest and driver agree on the pins between them, in both directions.
PinsAgree == DriverFollowsPort /\ GuestSeesDiag

\* A register write that changes STEP together with DIR moves the motor in the new
\* direction where DIR has the lower pin number, and still in the old one where STEP
\* has it (the Z axis): the loop of f2xx_update_odr comes to the lower pin first.
MovesByPinOrder ==
  [][LET back == IF DIR < STEP THEN motor'.dir ELSE motor.dir
     IN  /\ motor'.current_step > motor.current_step => ~back
         /\ motor'.current_step < motor.current_step => back]_portVars
=============================================================================
