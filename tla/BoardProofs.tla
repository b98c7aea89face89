----------------------------- MODULE BoardProofs -----------------------------
(***************************************************************************)
(* Proofs about parts of the board: the motion of a motor driver, for      *)
(* every axis length, increment and standstill time (Tmc2209Motion), and   *)
(* behind its GPIO ports, for every choice of pins (MotorPort); the serial *)
(* interface of the drivers (Tmc2209Serial), for every set of drivers and  *)
(* registers and every sequence of datagrams cut short at any byte; the    *)
(* watchdog, for all prescalers, reload values and clocks (Stm32Iwdg); and *)
(* the fan, for every cycle and timeout (SoftPwmFan).                      *)
(***************************************************************************)
EXTENDS MotorPort, Tmc2209Serial, Stm32Iwdg, SoftPwmFan, TLAPS

\* What holds of the driver m when its motor was last stepped q ticks ago and datagrams
\* have stored the registers w since it last set them
Fits(m, q, w) ==
  /\ m \in MotorType /\ q \in 0 .. Standstill /\ w \subseteq StatusRegs
  /\ max_step # 0 => m.current_step \in 0 .. max_step
  /\ m.hard => max_step # 0 /\ m.current_step = 0
  /\ m.diag => /\ max_step # 0 /\ m.current_step \in {0, max_step}
               /\ m.enabled
               /\ q < Standstill
  /\ "DRV_STATUS" \notin w => (m.stst <=> q = Standstill)
  /\ m.timer = Standstill - q
  /\ "SG_RESULT" \notin w =>
       /\ m.diag => m.sg_result = 0
       /\ m.sg_result = 0 => \/ q = Standstill
                             \/ max_step # 0 /\ m.current_step \in {0, max_step}

MotionInv == pin \in BOOLEAN /\ Fits(motor, quiet, stored)

\* The invariant is the type invariant with the four things the driver promises.
LEMMA MotionMeans ==
  MotionInv <=> MotionTypeOK /\ PositionOnAxis /\ ReportsAreTrue
  BY DEF MotionInv, Fits, MotionTypeOK, PositionOnAxis, ReportsAreTrue, StopsAreReal,
         StandstillIsExact, LoadIsReal

\* The values the driver itself gives SG_RESULT
LEMMA LoadFacts == 0 \in SgRange /\ FreeLoad \in SgRange /\ FreeLoad # 0
  BY DEF SgRange, FreeLoad

\* A step that is held back is held at one of the ends.
LEMMA ClampedFacts ==
  ASSUME NEW x \in Int
  PROVE  /\ Clamped(x) \in Int
         /\ max_step # 0 => Clamped(x) \in 0 .. max_step
         /\ Clamped(x) # x => max_step # 0 /\ Clamped(x) \in {0, max_step}
  BY MotionAssumption DEF Clamped

\* The state at power-on satisfies the invariant.
LEMMA InitInv == MotionInit => MotionInv
  <1> SUFFICES ASSUME MotionInit PROVE MotionInv
    OBVIOUS
  <1>1. 0 \in 0 .. Standstill /\ Standstill \in 0 .. Standstill /\ 0 \in Int
        /\ Standstill - Standstill = 0
    BY MotionAssumption
  <1>2. PowerOn \in MotorType
    BY <1>1, LoadFacts DEF PowerOn, MotorType
  <1>3. MotionTypeOK
    BY <1>1, <1>2, Zenon DEF MotionInit, MotionTypeOK
  <1>4. PositionOnAxis /\ ReportsAreTrue
    BY <1>1, MotionAssumption, LoadFacts
    DEF MotionInit, PowerOn, PositionOnAxis, ReportsAreTrue, StopsAreReal, StandstillIsExact,
        LoadIsReal
  <1> QED
    BY <1>3, <1>4, MotionMeans

\* What a step assigns keeps the motor a motor.
LEMMA SteppedType ==
  ASSUME NEW m \in MotorType, NEW to \in Int, NEW d \in BOOLEAN, NEW h \in BOOLEAN,
         NEW f \in SgRange, NEW t \in 0 .. Standstill
  PROVE  [m EXCEPT !.current_step = to, !.diag = d, !.hard = h, !.sg_result = f,
                   !.stst = FALSE, !.timer = t] \in MotorType
  <1>1. [m EXCEPT !.current_step = to, !.diag = d, !.hard = h] \in MotorType
    BY Zenon DEF MotorType
  <1> DEFINE n == [m EXCEPT !.current_step = to, !.diag = d, !.hard = h]
  <1>2. [n EXCEPT !.sg_result = f, !.stst = FALSE, !.timer = t] \in MotorType
    <2> HIDE DEF n
    <2>1. n \in MotorType
      BY <1>1 DEF n
    <2> QED
      BY <2>1, Zenon DEF MotorType
  <1> QED
    BY <1>2

\* tmc2209_step: a step that is held back reports it.
LEMMA StepFits ==
  ASSUME NEW m, NEW q, NEW w, Fits(m, q, w), NEW v \in BOOLEAN
  PROVE  Fits(step(m, v), IF Steps(m, v) THEN 0 ELSE q, IF Steps(m, v) THEN {} ELSE w)
  <1> DEFINE to == Clamped(Target(m))
             stall == to # Target(m)
             n == step(m, v)
  <1>1. m \in MotorType /\ m.current_step \in Int /\ Target(m) \in Int
    BY MotionAssumption DEF Fits, MotorType, Target
  <1>2. CASE ~Steps(m, v)
    BY <1>2 DEF step
  <1>3. CASE Steps(m, v)
    <2>1. n = [m EXCEPT !.current_step = to, !.diag = stall,
                     !.hard = IF stall THEN (IF to = 0 THEN TRUE ELSE @) ELSE FALSE,
                     !.sg_result = IF stall THEN 0 ELSE FreeLoad, !.stst = FALSE,
                     !.timer = Standstill]
      BY <1>3 DEF step
    <2>2. /\ to \in Int
          /\ max_step # 0 => to \in 0 .. max_step
          /\ stall => max_step # 0 /\ to \in {0, max_step}
      BY <1>1, ClampedFacts
    <2>3. Standstill \in Nat \ {0}
      BY MotionAssumption
    <2>4. stall \in BOOLEAN /\ m.hard \in BOOLEAN
      BY <1>1 DEF MotorType
    <2>5. m.hard => max_step # 0 /\ m.current_step = 0
      BY DEF Fits
    <2>6. stall /\ m.hard => to = 0
      BY <1>1, <2>5, MotionAssumption DEF Clamped, Target
    <2>7. m.enabled = TRUE
      BY <1>1, <1>3 DEF Steps, MotorType
    <2> HIDE DEF to, stall, n
    <2>8. n \in MotorType
      <3> DEFINE h == IF stall THEN (IF to = 0 THEN TRUE ELSE m.hard) ELSE FALSE
                 load == IF stall THEN 0 ELSE FreeLoad
      <3>0. Standstill \in 0 .. Standstill
        BY <2>3
      <3>1. h \in BOOLEAN
        BY <2>4, Zenon
      <3>2. load \in SgRange
        BY LoadFacts
      <3>3. n = [m EXCEPT !.current_step = to, !.diag = stall, !.hard = h,
                          !.sg_result = load, !.stst = FALSE, !.timer = Standstill]
        BY <2>1
      <3> HIDE DEF h, load
      <3> QED
        BY <1>1, <2>2, <2>4, <3>0, <3>1, <3>2, <3>3, SteppedType, Zenon
    <2>9. /\ n.current_step = to /\ n.diag = stall /\ n.stst = FALSE
          /\ n.timer = Standstill /\ n.enabled = TRUE
          /\ n.sg_result = (IF stall THEN 0 ELSE FreeLoad)
          /\ n.hard = (IF stall THEN (IF to = 0 THEN TRUE ELSE m.hard) ELSE FALSE)
      BY <1>1, <2>1, <2>7 DEF MotorType
    <2>10. n.hard => max_step # 0 /\ to = 0
      BY <2>2, <2>6, <2>9, Zenon
    <2>11. n.diag => max_step # 0 /\ to \in {0, max_step}
      BY <2>2, <2>9
    <2>12. n.diag => n.sg_result = 0
      BY <2>9
    <2>13. n.sg_result = 0 => max_step # 0 /\ to \in {0, max_step}
      BY <2>2, <2>9, LoadFacts
    <2>14. Fits(n, 0, {})
      BY <2>2, <2>3, <2>8, <2>9, <2>10, <2>11, <2>12, <2>13 DEF Fits
    <2> QED
      BY <1>3, <2>14 DEF n
  <1> QED
    BY <1>2, <1>3

\* tmc2209_dir changes nothing that is reported.
LEMMA DirFits ==
  ASSUME NEW m, NEW q, NEW w, Fits(m, q, w), NEW v \in BOOLEAN
  PROVE  Fits(dir(m, v), q, w)
  <1> DEFINE d == dir(m, v)
  <1>1. m \in MotorType
    BY DEF Fits
  <1>2. /\ d \in MotorType
        /\ d.current_step = m.current_step /\ d.hard = m.hard /\ d.diag = m.diag
        /\ d.enabled = m.enabled /\ d.stst = m.stst /\ d.timer = m.timer
        /\ d.sg_result = m.sg_result
    BY <1>1, MotionAssumption, Zenon DEF dir, MotorType
  <1> HIDE DEF d
  <1>3. Fits(d, q, w)
    BY <1>2 DEF Fits
  <1> QED
    BY <1>3 DEF d

\* tmc2209_enable takes DIAG back when it takes the motor's current.
LEMMA EnableFits ==
  ASSUME NEW m, NEW q, NEW w, Fits(m, q, w), NEW v \in BOOLEAN
  PROVE  Fits(enable(m, v), q, w)
  <1> DEFINE n == enable(m, v)
  <1>1. /\ n \in MotorType
        /\ n.current_step = m.current_step /\ n.hard = m.hard
        /\ n.diag => m.diag /\ n.enabled
        /\ n.stst = m.stst /\ n.timer = m.timer /\ n.sg_result = m.sg_result
    BY Zenon DEF Fits, enable, MotorType
  <1> HIDE DEF n
  <1>2. Fits(n, q, w)
    BY <1>1 DEF Fits
  <1> QED
    BY <1>2 DEF n

\* tmc2209_write: a datagram changes a register and no input, output or timer.
LEMMA WriteRegKeeps ==
  ASSUME motor \in MotorType, WriteReg
  PROVE  /\ motor' \in MotorType /\ pin' = pin /\ quiet' = quiet
         /\ motor'.current_step = motor.current_step /\ motor'.dir = motor.dir
         /\ motor'.enabled = motor.enabled /\ motor'.diag = motor.diag
         /\ motor'.hard = motor.hard /\ motor'.timer = motor.timer
         /\ motor'.stst = motor.stst \/ "DRV_STATUS" \in stored'
         /\ motor'.sg_result = motor.sg_result \/ "SG_RESULT" \in stored'
         /\ stored \subseteq stored' /\ stored' \subseteq stored \cup StatusRegs
  <1>1. pin' = pin /\ quiet' = quiet
    BY DEF WriteReg
  <1>2. CASE \E dedge \in BOOLEAN : motor' = [motor EXCEPT !.dedge = dedge] /\ stored' = stored
    BY <1>1, <1>2 DEF MotorType, StatusRegs
  <1>3. CASE \E stst \in BOOLEAN : /\ motor' = [motor EXCEPT !.stst = stst]
                                   /\ stored' = stored \cup {"DRV_STATUS"}
    BY <1>1, <1>3 DEF MotorType, StatusRegs
  <1>4. CASE \E sg \in SgWords : /\ motor' = [motor EXCEPT !.sg_result = sg]
                                 /\ stored' = stored \cup {"SG_RESULT"}
    <2>1. PICK sg \in SgRange : /\ motor' = [motor EXCEPT !.sg_result = sg]
                              /\ stored' = stored \cup {"SG_RESULT"}
      BY <1>4, MotionAssumption
    <2> QED
      BY <1>1, <2>1 DEF MotorType, StatusRegs
  <1> QED
    BY <1>2, <1>3, <1>4 DEF WriteReg

\* So what is not overwritten stays true.
LEMMA WriteRegPreserves == ASSUME MotionInv, WriteReg PROVE MotionInv'
  <1>1. pin \in BOOLEAN /\ Fits(motor, quiet, stored) /\ motor \in MotorType
    BY DEF MotionInv, Fits
  <1>2. /\ motor' \in MotorType /\ pin' = pin /\ quiet' = quiet
        /\ motor'.current_step = motor.current_step
        /\ motor'.enabled = motor.enabled /\ motor'.diag = motor.diag
        /\ motor'.hard = motor.hard /\ motor'.timer = motor.timer
        /\ motor'.stst = motor.stst \/ "DRV_STATUS" \in stored'
        /\ motor'.sg_result = motor.sg_result \/ "SG_RESULT" \in stored'
        /\ stored \subseteq stored' /\ stored' \subseteq stored \cup StatusRegs
    BY <1>1, WriteRegKeeps
  <1>3. stored' \subseteq StatusRegs
    BY <1>1, <1>2 DEF Fits
  <1>4. "DRV_STATUS" \notin stored' => (motor'.stst <=> quiet' = Standstill)
    BY <1>1, <1>2 DEF Fits
  <1>5. "SG_RESULT" \notin stored' =>
          /\ motor'.diag => motor'.sg_result = 0
          /\ motor'.sg_result = 0 => \/ quiet' = Standstill
                                     \/ max_step # 0 /\ motor'.current_step \in {0, max_step}
    BY <1>1, <1>2 DEF Fits
  <1> QED
    BY <1>1, <1>2, <1>3, <1>4, <1>5 DEF MotionInv, Fits

\* The changes of the three pins preserve the invariant.
LEMMA PinsPreserve ==
  ASSUME MotionInv, StepPin \/ \E level \in BOOLEAN : DirPin(level) \/ EnPin(level)
  PROVE  MotionInv'
  <1>1. CASE StepPin
    <2>1. pin' \in BOOLEAN /\ Fits(motor, quiet, stored)
      BY <1>1 DEF StepPin, MotionInv
    <2>2. Fits(step(motor, pin'), IF Steps(motor, pin') THEN 0 ELSE quiet,
               IF Steps(motor, pin') THEN {} ELSE stored)
      BY <2>1, StepFits
    <2>3. /\ motor' = step(motor, pin') /\ quiet' = IF Steps(motor, pin') THEN 0 ELSE quiet
          /\ stored' = IF Steps(motor, pin') THEN {} ELSE stored
      BY <1>1 DEF StepPin
    <2> QED
      BY <2>1, <2>2, <2>3 DEF MotionInv
  <1>2. ASSUME NEW level \in BOOLEAN, DirPin(level) \/ EnPin(level)
        PROVE  MotionInv'
    <2>1. pin' \in BOOLEAN /\ quiet' = quiet /\ stored' = stored /\ Fits(motor, quiet, stored)
      BY <1>2 DEF DirPin, EnPin, MotionInv
    <2>2. motor' = dir(motor, level) \/ motor' = enable(motor, level)
      BY <1>2 DEF DirPin, EnPin
    <2>3. Fits(motor', quiet, stored)
      BY <2>1, <2>2, DirFits, EnableFits
    <2> QED
      BY <2>1, <2>3 DEF MotionInv
  <1> QED
    BY <1>1, <1>2

\* And so does time, with the standstill timer.
LEMMA TickPreserves == ASSUME MotionInv, Tick PROVE MotionInv'
  <1>1. /\ motor \in MotorType /\ motor.timer \in 0 .. Standstill /\ pin' = pin
        /\ quiet \in 0 .. Standstill /\ motor.timer = Standstill - quiet
        /\ Standstill \in Nat \ {0}
    BY MotionAssumption DEF MotionInv, Fits, MotorType, Tick
  <1>2. CASE motor.timer = 1
    <2>1. /\ motor' \in MotorType
          /\ motor'.current_step = motor.current_step /\ motor'.hard = motor.hard
          /\ motor'.diag = FALSE /\ motor'.stst = TRUE /\ motor'.timer = 0
          /\ motor'.sg_result = 0
      <3>1. 0 \in 0 .. Standstill /\ 0 \in SgRange
        BY <1>1, LoadFacts
      <3>2. motor' = [motor EXCEPT !.stst = TRUE, !.diag = FALSE, !.sg_result = 0, !.timer = 0]
        BY <1>2 DEF Tick, standstill_timer
      <3> QED
        BY <1>1, <3>1, <3>2, Zenon DEF MotorType
    <2>2. quiet' = Standstill /\ stored' = {}
      BY <1>1, <1>2 DEF Tick
    <2> QED
      BY <1>1, <2>1, <2>2 DEF MotionInv, Fits
  <1>3. CASE motor.timer > 1
    <2>1. /\ motor' \in MotorType
          /\ motor'.current_step = motor.current_step /\ motor'.hard = motor.hard
          /\ motor'.diag = motor.diag /\ motor'.enabled = motor.enabled
          /\ motor'.stst = motor.stst /\ motor'.timer = motor.timer - 1
          /\ motor'.sg_result = motor.sg_result
      BY <1>1, <1>3 DEF Tick, MotorType
    <2>2. quiet' = quiet + 1 /\ quiet' < Standstill /\ stored' = stored
      BY <1>1, <1>3 DEF Tick
    <2> QED
      BY <1>1, <2>1, <2>2 DEF MotionInv, Fits
  <1>4. CASE motor.timer = 0
    <2>1. motor' = motor /\ quiet' = quiet /\ stored' = stored
      BY <1>1, <1>4 DEF Tick
    <2> QED
      BY <1>1, <2>1 DEF MotionInv
  <1> QED
    BY <1>1, <1>2, <1>3, <1>4

\* What is reported is inductive only together with the position and the timer.
THEOREM MotionInvariant == MotionSpec => []MotionInv
  <1>1. MotionInv /\ [MotionNext]_motionVars => MotionInv'
    <2>1. MotionInv /\ UNCHANGED motionVars => MotionInv'
      BY DEF motionVars, MotionInv
    <2> QED
      BY <2>1, PinsPreserve, WriteRegPreserves, TickPreserves DEF MotionNext
  <1> QED
    BY <1>1, InitInv, PTL DEF MotionSpec

\* The position stays on the axis (the clamping in tmc2209_step).
THEOREM MotionStaysOnAxis == MotionSpec => []PositionOnAxis
  BY MotionInvariant, MotionMeans, PTL

\* The end-stop and DIAG outputs only report an end that has been reached, whatever
\* datagrams store; STST and SG_RESULT report the standstill and the load from each step
\* or standstill until a datagram stores another word in their register.
THEOREM MotionReportsAreTrue == MotionSpec => []ReportsAreTrue
  BY MotionInvariant, MotionMeans, PTL

(***************************************************************************)
(* The driver behind its GPIO ports (MotorPort).                           *)
(***************************************************************************)
PortInv == MotionInv /\ PinsAgree

\* STEP, DIR and EN are three pins (prusa_mini_init).
LEMMA PinFacts ==
  /\ STEP \in Nat /\ DIR \in Nat /\ EN \in Nat
  /\ STEP # DIR /\ STEP # EN /\ DIR # EN
  <1>1. STEP \in Pins /\ DIR \in Pins /\ EN \in Pins
    BY WiringAssumption
  <1>2. \A p \in Pins : p \in 0 .. 15
    BY GpioAssumption
  <1>3. STEP \in 0 .. 15 /\ DIR \in 0 .. 15 /\ EN \in 0 .. 15
    BY <1>1, <1>2
  <1>4. STEP \in Nat /\ DIR \in Nat /\ EN \in Nat
    BY <1>3
  <1> QED
    BY <1>4, WiringAssumption

\* The pins are numbers that differ, so they have an order.
LEMMA OrderFacts ==
  /\ InOrder \in [1 .. 3 -> Outputs]
  /\ InOrder[1] < InOrder[2] /\ InOrder[2] < InOrder[3]
  <1>1. /\ STEP \in Nat /\ DIR \in Nat /\ EN \in Nat
        /\ STEP # DIR /\ STEP # EN /\ DIR # EN
    BY PinFacts
  <1> DEFINE P(o) == o[1] < o[2] /\ o[2] < o[3]
             Put(a, b, c) == [k \in 1 .. 3 |-> IF k = 1 THEN a ELSE IF k = 2 THEN b ELSE c]
  <1>2. ASSUME NEW a \in Outputs, NEW b \in Outputs, NEW c \in Outputs, a < b, b < c
        PROVE  \E o \in [1 .. 3 -> Outputs] : P(o)
    <2>1. Put(a, b, c) \in [1 .. 3 -> Outputs]
      OBVIOUS
    <2>2. P(Put(a, b, c))
      BY <1>2
    <2> QED
      BY <2>1, <2>2, Zenon
  <1>3. \E a, b, c \in Outputs : a < b /\ b < c
    <2>1. \/ (STEP < DIR /\ DIR < EN) \/ (STEP < EN /\ EN < DIR) \/ (DIR < STEP /\ STEP < EN)
          \/ (DIR < EN /\ EN < STEP) \/ (EN < STEP /\ STEP < DIR) \/ (EN < DIR /\ DIR < STEP)
      BY <1>1
    <2>2. STEP \in Outputs /\ DIR \in Outputs /\ EN \in Outputs
      BY DEF Outputs
    <2> QED
      BY <2>1, <2>2
  <1>4. \E o \in [1 .. 3 -> Outputs] : P(o)
    BY <1>2, <1>3
  <1> QED
    BY <1>4 DEF InOrder

\* Each of the three pins has one place in the order, and a lower pin an earlier one.
LEMMA OrderIsOfPins ==
  /\ \A k \in 1 .. 3 : InOrder[k] \in {STEP, DIR, EN}
  /\ STEP \in {InOrder[1], InOrder[2], InOrder[3]}
  /\ DIR \in {InOrder[1], InOrder[2], InOrder[3]}
  /\ EN \in {InOrder[1], InOrder[2], InOrder[3]}
  /\ InOrder[1] # InOrder[2] /\ InOrder[2] # InOrder[3] /\ InOrder[1] # InOrder[3]
  <1>1. /\ STEP \in Nat /\ DIR \in Nat /\ EN \in Nat
        /\ STEP # DIR /\ STEP # EN /\ DIR # EN
    BY PinFacts
  <1>2. \A k \in 1 .. 3 : InOrder[k] \in {STEP, DIR, EN}
    BY OrderFacts DEF Outputs
  <1> DEFINE a == InOrder[1]
             b == InOrder[2]
             c == InOrder[3]
  <1>3. a \in {STEP, DIR, EN} /\ b \in {STEP, DIR, EN} /\ c \in {STEP, DIR, EN}
    BY <1>2
  <1>4. a < b /\ b < c
    BY OrderFacts
  <1>5. a # b /\ b # c /\ a # c
    BY <1>1, <1>3, <1>4
  <1> HIDE DEF a, b, c
  <1>6. STEP \in {a, b, c} /\ DIR \in {a, b, c} /\ EN \in {a, b, c}
    BY <1>3, <1>5
  <1> QED
    BY <1>2, <1>5, <1>6 DEF a, b, c

\* The k-th pin is a STEP that moves the motor.
Moves(m, k, val) == InOrder[k] = STEP /\ STEP \in changed(val) /\ Steps(m, STEP \in val)

\* n is the driver m after the turn of the loop for the k-th pin.
Turn(m, q, w, k, val, n) ==
  /\ Fits(n, IF Moves(m, k, val) THEN 0 ELSE q, IF Moves(m, k, val) THEN {} ELSE w)
  /\ InOrder[k] = DIR /\ DIR \in changed(val) => (n.dir <=> ((DIR \in val) # is_inverted))
  /\ ~(InOrder[k] = DIR /\ DIR \in changed(val)) => n.dir = m.dir
  /\ InOrder[k] = EN /\ EN \in changed(val) => (n.enabled <=> EN \notin val)
  /\ ~(InOrder[k] = EN /\ EN \in changed(val)) => n.enabled = m.enabled
  /\ ~Moves(m, k, val) => n.current_step = m.current_step
  /\ n.current_step > m.current_step => ~n.dir
  /\ n.current_step < m.current_step => n.dir
  /\ ~Moves(m, k, val) /\ ~(InOrder[k] = EN /\ EN \in val \ odr) => n.diag = m.diag

\* What one turn of the loop of f2xx_update_odr does to the driver: each pin has its
\* own handler, and only a step and a rising EN touch DIAG.
LEMMA SeesFacts ==
  ASSUME NEW m, NEW q, NEW w, Fits(m, q, w), NEW k \in 1 .. 3, NEW val
  PROVE  Turn(m, q, w, k, val, Sees(m, k, val))
  <1> DEFINE n == Sees(m, k, val)
             p == InOrder[k]
  <1>0. /\ m \in MotorType /\ STEP # DIR /\ STEP # EN /\ DIR # EN
        /\ p = STEP \/ p = DIR \/ p = EN
    BY OrderIsOfPins, WiringAssumption DEF Fits
  <1>1. CASE p \notin changed(val)
    <2>1. n = m /\ ~Moves(m, k, val)
      BY <1>1 DEF Sees, Moves
    <2>2. m.current_step \in Int
      BY <1>0 DEF MotorType
    <2>3. ~(n.current_step > m.current_step) /\ ~(n.current_step < m.current_step)
      BY <2>1, <2>2
    <2>4. p = EN => EN \notin val \ odr
      BY <1>1 DEF changed
    <2>5. /\ p = DIR => DIR \notin changed(val)
          /\ p = EN => EN \notin changed(val)
      BY <1>1
    <2>6. Fits(n, IF Moves(m, k, val) THEN 0 ELSE q, IF Moves(m, k, val) THEN {} ELSE w)
      BY <2>1
    <2>7. n.dir = m.dir /\ n.enabled = m.enabled /\ n.diag = m.diag
          /\ n.current_step = m.current_step
      BY <2>1
    <2> HIDE DEF n, p
    <2>8. p = InOrder[k]
      BY DEF p
    <2>9. Turn(m, q, w, k, val, n)
      BY <2>3, <2>5, <2>6, <2>7, <2>8 DEF Turn
    <2> QED
      BY <2>9 DEF n
  <1>2. CASE p = STEP /\ STEP \in changed(val)
    <2> DEFINE v == STEP \in val
    <2>0. n = step(m, v)
      BY <1>0, <1>2 DEF Sees, Wired
    <2>a. v \in BOOLEAN
      OBVIOUS
    <2>b. Moves(m, k, val) <=> Steps(m, v)
      BY <1>2, Zenon DEF Moves
    <2>1. v \in BOOLEAN /\ (Moves(m, k, val) <=> Steps(m, v))
      BY <2>a, <2>b, Zenon
    <2> HIDE DEF v
    <2>2. Fits(n, IF Moves(m, k, val) THEN 0 ELSE q, IF Moves(m, k, val) THEN {} ELSE w)
      BY <2>0, <2>1, StepFits
    <2>3. n.dir = m.dir /\ n.enabled = m.enabled
      BY <1>0, <2>0 DEF step, MotorType
    <2>4. ~Steps(m, v) => n = m
      BY <2>0 DEF step
    <2>5. m.current_step \in Int /\ m.dir \in BOOLEAN
      BY <1>0 DEF MotorType
    <2>6. Steps(m, v) => n.current_step = Clamped(Target(m))
      BY <1>0, <2>0 DEF step, MotorType
    <2>7. /\ n.current_step > m.current_step => ~m.dir
          /\ n.current_step < m.current_step => m.dir
      <3>1. max_step # 0 => m.current_step \in 0 .. max_step
        BY DEF Fits
      <3>2. CASE ~Steps(m, v)
        BY <2>4, <2>5, <3>2
      <3>3. CASE Steps(m, v)
        BY <2>5, <2>6, <3>1, <3>3, MotionAssumption DEF Clamped, Target
      <3> QED
        BY <3>2, <3>3
    <2>8. ~Moves(m, k, val) => n.diag = m.diag /\ n.current_step = m.current_step
      BY <2>1, <2>4
    <2>9. InOrder[k] # DIR /\ InOrder[k] # EN
      BY <1>0, <1>2
    <2> HIDE DEF n
    <2>10. Turn(m, q, w, k, val, n)
      BY <2>2, <2>3, <2>7, <2>8, <2>9 DEF Turn
    <2> QED
      BY <2>10 DEF n
  <1>3. CASE p = DIR /\ DIR \in changed(val)
    <2> DEFINE v == DIR \in val
    <2>1. n = dir(m, v) /\ ~Moves(m, k, val) /\ v \in BOOLEAN
      BY <1>0, <1>3 DEF Sees, Wired, Moves
    <2>2. v <=> DIR \in val
      OBVIOUS
    <2> HIDE DEF v
    <2>3. /\ n.current_step = m.current_step /\ n.enabled = m.enabled /\ n.diag = m.diag
          /\ n.dir = (v # is_inverted)
      BY <1>0, <2>1, MotionAssumption DEF dir, MotorType
    <2>4. m.current_step \in Int
      BY <1>0 DEF MotorType
    <2>5. ~(n.current_step > m.current_step) /\ ~(n.current_step < m.current_step)
      BY <2>3, <2>4
    <2>6. Fits(n, IF Moves(m, k, val) THEN 0 ELSE q, IF Moves(m, k, val) THEN {} ELSE w)
      BY <2>1, DirFits, Zenon
    <2>7. n.dir <=> ((DIR \in val) # is_inverted)
      BY <2>1, <2>2, <2>3, MotionAssumption, Zenon
    <2>8. InOrder[k] = DIR /\ InOrder[k] # EN
      BY <1>0, <1>3
    <2> HIDE DEF n
    <2>9. Turn(m, q, w, k, val, n)
      BY <1>3, <2>3, <2>5, <2>6, <2>7, <2>8 DEF Turn
    <2> QED
      BY <2>9 DEF n
  <1>4. CASE p = EN /\ EN \in changed(val)
    <2> DEFINE v == EN \in val
    <2>1. n = enable(m, v) /\ ~Moves(m, k, val) /\ v \in BOOLEAN
      BY <1>0, <1>4 DEF Sees, Wired, Moves
    <2>2. (v <=> EN \in val) /\ (v => EN \in val \ odr)
      BY <1>4 DEF changed
    <2> HIDE DEF v
    <2>3. /\ n.current_step = m.current_step /\ n.dir = m.dir
          /\ n.enabled <=> ~v
          /\ ~v => n.diag = m.diag
      BY <1>0, <2>1, Zenon DEF enable, MotorType
    <2>4. m.current_step \in Int
      BY <1>0 DEF MotorType
    <2>5. ~(n.current_step > m.current_step) /\ ~(n.current_step < m.current_step)
      BY <2>3, <2>4
    <2>6. Fits(n, IF Moves(m, k, val) THEN 0 ELSE q, IF Moves(m, k, val) THEN {} ELSE w)
      BY <2>1, EnableFits, Zenon
    <2>7. InOrder[k] = EN /\ InOrder[k] # DIR
      BY <1>0, <1>4
    <2> HIDE DEF n
    <2>8. Turn(m, q, w, k, val, n)
      BY <1>4, <2>2, <2>3, <2>5, <2>6, <2>7 DEF Turn
    <2> QED
      BY <2>8 DEF n
  <1> QED
    BY <1>0, <1>1, <1>2, <1>3, <1>4

\* A register write takes the driver through three turns of the loop.
LEMMA WriteTurns ==
  ASSUME Fits(motor, quiet, stored), NEW val
  PROVE  \E a, b, c, q1, q2, w1, w2 :
           /\ Passes(val) = <<motor, a, b, c>>
           /\ Turn(motor, quiet, stored, 1, val, a)
           /\ Turn(a, q1, w1, 2, val, b) /\ Turn(b, q2, w2, 3, val, c)
           /\ q1 = IF Moves(motor, 1, val) THEN 0 ELSE quiet
           /\ q2 = IF Moves(a, 2, val) THEN 0 ELSE q1
           /\ w1 = IF Moves(motor, 1, val) THEN {} ELSE stored
           /\ w2 = IF Moves(a, 2, val) THEN {} ELSE w1
           /\ StepTaken(val) <=>
                Moves(motor, 1, val) \/ Moves(a, 2, val) \/ Moves(b, 3, val)
  <1> DEFINE a == Sees(motor, 1, val)
             b == Sees(a, 2, val)
             c == Sees(b, 3, val)
             q1 == IF Moves(motor, 1, val) THEN 0 ELSE quiet
             q2 == IF Moves(a, 2, val) THEN 0 ELSE q1
             w1 == IF Moves(motor, 1, val) THEN {} ELSE stored
             w2 == IF Moves(a, 2, val) THEN {} ELSE w1
  <1>1. Passes(val) = <<motor, a, b, c>>
    BY DEF Passes
  <1>2. Turn(motor, quiet, stored, 1, val, a)
    BY SeesFacts
  <1>3. Fits(a, q1, w1)
    BY <1>2 DEF Turn
  <1>4. Turn(a, q1, w1, 2, val, b)
    <2> HIDE DEF a, q1, w1
    <2> QED
      BY <1>3, SeesFacts
  <1>5. Fits(b, q2, w2)
    BY <1>4 DEF Turn
  <1>6. Turn(b, q2, w2, 3, val, c)
    <2> HIDE DEF b, q2, w2
    <2> QED
      BY <1>5, SeesFacts
  <1>7. StepTaken(val) <=> Moves(motor, 1, val) \/ Moves(a, 2, val) \/ Moves(b, 3, val)
    <2> HIDE DEF a, b, c
    <2> DEFINE P == Passes(val)
    <2>1. P[1] = motor /\ P[2] = a /\ P[3] = b
      BY <1>1
    <2>2. StepTaken(val) <=> \E k \in 1 .. 3 : Moves(P[k], k, val)
      BY Zenon DEF StepTaken, Moves
    <2> HIDE DEF P
    <2>3. (\E k \in 1 .. 3 : Moves(P[k], k, val))
            <=> Moves(P[1], 1, val) \/ Moves(P[2], 2, val) \/ Moves(P[3], 3, val)
      BY 1 .. 3 = {1, 2, 3}, Zenon
    <2> QED
      BY <2>1, <2>2, <2>3, Zenon
  <1> HIDE DEF a, b, c
  <1> QED
    BY <1>1, <1>2, <1>4, <1>6, <1>7

\* After a register write the driver knows the new levels of DIR and EN, whatever the
\* order of the pins; and DIAG has only changed if the driver has set it.
LEMMA PortWriteEffect ==
  ASSUME Fits(motor, quiet, stored), NEW val, DriverSees(val)
  PROVE  /\ Fits(motor', quiet', stored')
         /\ DIR \in changed(val) => (motor'.dir <=> ((DIR \in val) # is_inverted))
         /\ DIR \notin changed(val) => motor'.dir = motor.dir
         /\ EN \in changed(val) => (motor'.enabled <=> EN \notin val)
         /\ EN \notin changed(val) => motor'.enabled = motor.enabled
         /\ ~SetsDiag(val) => motor'.diag = motor.diag
  <1>1. PICK a, b, c, q1, q2, w1, w2 :
           /\ Passes(val) = <<motor, a, b, c>>
           /\ Turn(motor, quiet, stored, 1, val, a)
           /\ Turn(a, q1, w1, 2, val, b) /\ Turn(b, q2, w2, 3, val, c)
           /\ q1 = IF Moves(motor, 1, val) THEN 0 ELSE quiet
           /\ q2 = IF Moves(a, 2, val) THEN 0 ELSE q1
           /\ w1 = IF Moves(motor, 1, val) THEN {} ELSE stored
           /\ w2 = IF Moves(a, 2, val) THEN {} ELSE w1
           /\ StepTaken(val) <=>
                Moves(motor, 1, val) \/ Moves(a, 2, val) \/ Moves(b, 3, val)
    BY WriteTurns
  <1>2. motor' = c
    BY <1>1 DEF DriverSees, Deliver
  <1>3. /\ quiet' = IF Moves(b, 3, val) THEN 0 ELSE q2
        /\ stored' = IF Moves(b, 3, val) THEN {} ELSE w2
    BY <1>1, Zenon DEF DriverSees
  <1>4. Fits(motor', quiet', stored')
    BY <1>1, <1>2, <1>3 DEF Turn
  <1>5. /\ DIR \in changed(val) => (c.dir <=> ((DIR \in val) # is_inverted))
        /\ DIR \notin changed(val) => c.dir = motor.dir
    <2>1. DIR \in changed(val) =>
            /\ InOrder[1] = DIR => (a.dir <=> ((DIR \in val) # is_inverted))
            /\ InOrder[2] = DIR => (b.dir <=> ((DIR \in val) # is_inverted))
            /\ InOrder[3] = DIR => (c.dir <=> ((DIR \in val) # is_inverted))
      BY <1>1, Zenon DEF Turn
    <2>2. /\ ~(InOrder[1] = DIR /\ DIR \in changed(val)) => a.dir = motor.dir
          /\ ~(InOrder[2] = DIR /\ DIR \in changed(val)) => b.dir = a.dir
          /\ ~(InOrder[3] = DIR /\ DIR \in changed(val)) => c.dir = b.dir
      BY <1>1, Zenon DEF Turn
    <2>3. /\ InOrder[1] = DIR \/ InOrder[2] = DIR \/ InOrder[3] = DIR
          /\ InOrder[1] # InOrder[2] /\ InOrder[2] # InOrder[3] /\ InOrder[1] # InOrder[3]
      BY OrderIsOfPins
    <2> QED
      BY <2>1, <2>2, <2>3, Zenon
  <1>6. /\ EN \in changed(val) => (c.enabled <=> EN \notin val)
        /\ EN \notin changed(val) => c.enabled = motor.enabled
    <2>1. EN \in changed(val) =>
            /\ InOrder[1] = EN => (a.enabled <=> EN \notin val)
            /\ InOrder[2] = EN => (b.enabled <=> EN \notin val)
            /\ InOrder[3] = EN => (c.enabled <=> EN \notin val)
      BY <1>1, Zenon DEF Turn
    <2>2. /\ ~(InOrder[1] = EN /\ EN \in changed(val)) => a.enabled = motor.enabled
          /\ ~(InOrder[2] = EN /\ EN \in changed(val)) => b.enabled = a.enabled
          /\ ~(InOrder[3] = EN /\ EN \in changed(val)) => c.enabled = b.enabled
      BY <1>1, Zenon DEF Turn
    <2>3. /\ InOrder[1] = EN \/ InOrder[2] = EN \/ InOrder[3] = EN
          /\ InOrder[1] # InOrder[2] /\ InOrder[2] # InOrder[3] /\ InOrder[1] # InOrder[3]
      BY OrderIsOfPins
    <2> QED
      BY <2>1, <2>2, <2>3, Zenon
  <1>7. ~SetsDiag(val) => c.diag = motor.diag
    <2> SUFFICES ASSUME ~SetsDiag(val) PROVE c.diag = motor.diag
      OBVIOUS
    <2>1. EN \notin val \ odr /\ ~StepTaken(val)
      BY DEF SetsDiag
    <2>2. ~Moves(motor, 1, val) /\ ~Moves(a, 2, val) /\ ~Moves(b, 3, val)
      BY <1>1, <2>1
    <2>3. a.diag = motor.diag /\ b.diag = a.diag /\ c.diag = b.diag
      BY <1>1, <2>1, <2>2, Zenon DEF Turn
    <2> QED
      BY <2>3
  <1> QED
    BY <1>2, <1>4, <1>5, <1>6, <1>7

\* Guest and driver still agree on the pins after a write to ODR or BSRR.
LEMMA PortWritePreserves ==
  ASSUME PortInv, NEW val, odr' = val, DriverSees(val)
  PROVE  PortInv'
  <1>0. Fits(motor, quiet, stored)
    BY DEF PortInv, MotionInv
  <1>1. Fits(motor', quiet', stored')
    BY <1>0, PortWriteEffect
  <1>2. moved' = moved \cup changed(val) /\ pin' = (STEP \in val)
    BY DEF DriverSees
  <1>3. \A p : p \notin changed(val) => (p \in val <=> p \in odr)
    BY DEF changed
  <1>4. DIR \in moved' => (motor'.dir <=> ((DIR \in odr') # is_inverted))
    <2>1. CASE DIR \in changed(val)
      BY <2>1, <1>0, PortWriteEffect
    <2>2. CASE DIR \notin changed(val)
      <3>1. motor'.dir = motor.dir /\ (DIR \in odr' <=> DIR \in odr)
            /\ (DIR \in moved' => DIR \in moved)
        BY <1>2, <1>3, <2>2, <1>0, PortWriteEffect
      <3>2. DIR \in moved => (motor.dir <=> ((DIR \in odr) # is_inverted))
        BY DEF PortInv, PinsAgree, DriverFollowsPort
      <3> QED
        BY <3>1, <3>2, MotionAssumption
    <2> QED
      BY <2>1, <2>2
  <1>5. EN \in moved' => (motor'.enabled <=> EN \notin odr')
    <2>1. CASE EN \in changed(val)
      BY <2>1, <1>0, PortWriteEffect
    <2>2. CASE EN \notin changed(val)
      <3>1. motor'.enabled = motor.enabled /\ (EN \in odr' <=> EN \in odr)
            /\ (EN \in moved' => EN \in moved)
        BY <1>2, <1>3, <2>2, <1>0, PortWriteEffect
      <3>2. EN \in moved => (motor.enabled <=> EN \notin odr)
        BY DEF PortInv, PinsAgree, DriverFollowsPort
      <3> QED
        BY <3>1, <3>2
    <2> QED
      BY <2>1, <2>2
  <1>6. pin' <=> STEP \in odr'
    BY <1>2, Zenon
  <1>7. pin' \in BOOLEAN
    BY <1>2
  <1>8. GuestSeesDiag'
    <2>1. CASE SetsDiag(val)
      <3>1. gpio_set(DIAG, motor'.diag)
        BY <2>1 DEF DriverSees, DiagOut
      <3> QED
        BY <3>1 DEF gpio_set, GuestSeesDiag
    <2>2. CASE ~SetsDiag(val)
      <3>1. idr' = idr /\ heard' = heard
        BY <2>2 DEF DriverSees, DiagOut, inVars
      <3>2. motor'.diag = motor.diag
        BY <2>2, <1>0, PortWriteEffect
      <3>3. GuestSeesDiag
        BY DEF PortInv, PinsAgree
      <3> QED
        BY <3>1, <3>2, <3>3 DEF GuestSeesDiag
    <2> QED
      BY <2>1, <2>2
  <1> QED
    BY <1>1, <1>4, <1>5, <1>6, <1>7, <1>8 DEF PortInv, MotionInv, PinsAgree, DriverFollowsPort

\* So they do when time passes, a datagram is stored or the machine is reset: the reset
\* leaves ODR and the driver alone, and no input counts as heard after it.
LEMMA PortQuietPreserves ==
  ASSUME PortInv, Time \/ Datagram \/ MachineReset
  PROVE  PortInv'
  <1>1. MotionInv /\ DriverFollowsPort /\ GuestSeesDiag
    BY DEF PortInv, PinsAgree
  <1>2. motor \in MotorType
    BY <1>1 DEF MotionInv, Fits
  <1>3. CASE Time
    <2>1. Tick /\ odr' = odr /\ moved' = moved /\ pin' = pin
      BY <1>3 DEF Time, Tick
    <2>2. MotionInv'
      BY <1>1, <2>1, TickPreserves
    <2>3. motor'.dir = motor.dir /\ motor'.enabled = motor.enabled
          /\ (motor.timer # 1 => motor'.diag = motor.diag)
      BY <1>2, <2>1, Zenon DEF Tick, standstill_timer, MotorType
    <2>4. DriverFollowsPort'
      BY <1>1, <2>1, <2>3 DEF DriverFollowsPort
    <2>5. GuestSeesDiag'
      <3>1. CASE motor.timer = 1
        <4>1. gpio_set(DIAG, motor'.diag)
          BY <1>3, <3>1 DEF Time, DiagOut
        <4> QED
          BY <4>1 DEF gpio_set, GuestSeesDiag
      <3>2. CASE motor.timer # 1
        <4>1. idr' = idr /\ heard' = heard
          BY <1>3, <3>2 DEF Time, DiagOut, inVars
        <4> QED
          BY <1>1, <2>3, <3>2, <4>1 DEF GuestSeesDiag
      <3> QED
        BY <3>1, <3>2
    <2> QED
      BY <2>2, <2>4, <2>5 DEF PortInv, PinsAgree
  <1>4. CASE Datagram
    <2>1. WriteReg /\ odr' = odr /\ idr' = idr /\ heard' = heard /\ moved' = moved
      BY <1>4 DEF Datagram, gpioVars, inVars
    <2>2. MotionInv'
      BY <1>1, <2>1, WriteRegPreserves
    <2>3. /\ motor'.dir = motor.dir /\ motor'.enabled = motor.enabled
          /\ motor'.diag = motor.diag /\ pin' = pin
      BY <1>2, <2>1, WriteRegKeeps
    <2>4. DriverFollowsPort' /\ GuestSeesDiag'
      BY <1>1, <2>1, <2>3 DEF DriverFollowsPort, GuestSeesDiag
    <2> QED
      BY <2>2, <2>4 DEF PortInv, PinsAgree
  <1>5. CASE MachineReset
    <2>1. /\ motor' = motor /\ pin' = pin /\ quiet' = quiet /\ stored' = stored
          /\ odr' = odr /\ moved' = moved /\ heard' = {}
      BY <1>5 DEF MachineReset, GpioReset, motionVars
    <2> QED
      BY <1>1, <2>1 DEF PortInv, MotionInv, PinsAgree, DriverFollowsPort, GuestSeesDiag
  <1> QED
    BY <1>3, <1>4, <1>5

\* The invariant of the port: what the driver itself guarantees is needed for what it
\* tells the guest.
THEOREM PortInvariant == PortSpec => []PortInv
  <1>1. PortInit => PortInv
    <2> SUFFICES ASSUME PortInit PROVE PortInv
      OBVIOUS
    <2>1. MotionInv
      BY InitInv DEF PortInit
    <2>2. PinsAgree
      BY DEF PortInit, GpioInit, MotionInit, PinsAgree, DriverFollowsPort, GuestSeesDiag
    <2> QED
      BY <2>1, <2>2 DEF PortInv
  <1>2. PortInv /\ [PortNext]_portVars => PortInv'
    <2> SUFFICES ASSUME PortInv, [PortNext]_portVars PROVE PortInv'
      OBVIOUS
    <2>1. ASSUME NEW val \in SUBSET Outputs, RegisterWrite(val) PROVE PortInv'
      BY <2>1, PortWritePreserves DEF RegisterWrite, ODRWrite, update_odr
    <2>2. ASSUME NEW set \in SUBSET Outputs, NEW clear \in SUBSET Outputs, SetReset(set, clear)
          PROVE  PortInv'
      BY <2>2, PortWritePreserves DEF SetReset, BSRRWrite, update_odr
    <2>3. CASE UNCHANGED portVars
      BY <2>3 DEF portVars, gpioVars, inVars, motionVars, PortInv, MotionInv, PinsAgree,
                  DriverFollowsPort, GuestSeesDiag
    <2> QED
      BY <2>1, <2>2, <2>3, PortQuietPreserves DEF PortNext
  <1> QED
    BY <1>1, <1>2, PTL DEF PortSpec

\* Guest and driver agree on the pins between them, for every assignment of pins, any
\* combination of changes in one write and any resets.
THEOREM GuestAndDriverAgree == PortSpec => []PinsAgree
  BY PortInvariant, PTL DEF PortInv

\* The reports of the driver are true, with the same exception for a register that a
\* datagram has stored, behind the port too, where one register write makes it run
\* several of its handlers.
THEOREM PortReportsAreTrue == PortSpec => []ReportsAreTrue
  BY PortInvariant, MotionMeans, PTL DEF PortInv

\* A write that changes DIR and STEP together moves the motor in the new direction if
\* the DIR pin comes before the STEP pin, and in the old one if it comes after (the Z
\* axis), wherever the EN pin is: for every wiring of an axis.
THEOREM WriteMovesByPinOrder == PortSpec => MovesByPinOrder
  <1> DEFINE back == IF DIR < STEP THEN motor'.dir ELSE motor.dir
             Right == /\ motor'.current_step > motor.current_step => ~back
                      /\ motor'.current_step < motor.current_step => back
  <1>1. ASSUME PortInv, NEW val, DriverSees(val) PROVE Right
    <2>0. Fits(motor, quiet, stored)
      BY <1>1 DEF PortInv, MotionInv
    <2>1. PICK a, b, c, q1, q2, w1, w2 :
           /\ Passes(val) = <<motor, a, b, c>>
           /\ Turn(motor, quiet, stored, 1, val, a)
           /\ Turn(a, q1, w1, 2, val, b) /\ Turn(b, q2, w2, 3, val, c)
           /\ q1 = IF Moves(motor, 1, val) THEN 0 ELSE quiet
           /\ q2 = IF Moves(a, 2, val) THEN 0 ELSE q1
           /\ w1 = IF Moves(motor, 1, val) THEN {} ELSE stored
           /\ w2 = IF Moves(a, 2, val) THEN {} ELSE w1
           /\ StepTaken(val) <=>
                Moves(motor, 1, val) \/ Moves(a, 2, val) \/ Moves(b, 3, val)
      BY <2>0, WriteTurns
    <2>2. motor' = c
      BY <1>1, <2>1 DEF DriverSees, Deliver
    <2>3. /\ ~Moves(motor, 1, val) => a.current_step = motor.current_step
          /\ ~Moves(a, 2, val) => b.current_step = a.current_step
          /\ ~Moves(b, 3, val) => c.current_step = b.current_step
      BY <2>1, Zenon DEF Turn
    <2>4. /\ InOrder[1] \in {STEP, DIR, EN} /\ InOrder[2] \in {STEP, DIR, EN}
          /\ InOrder[3] \in {STEP, DIR, EN}
          /\ InOrder[1] # InOrder[2] /\ InOrder[2] # InOrder[3] /\ InOrder[1] # InOrder[3]
          /\ InOrder[1] < InOrder[2] /\ InOrder[2] < InOrder[3]
      BY OrderIsOfPins, OrderFacts
    <2>5. /\ b.current_step > a.current_step => ~b.dir
          /\ b.current_step < a.current_step => b.dir
          /\ a.current_step > motor.current_step => ~a.dir
          /\ a.current_step < motor.current_step => a.dir
          /\ c.current_step > b.current_step => ~c.dir
          /\ c.current_step < b.current_step => c.dir
      BY <2>1, Zenon DEF Turn
    <2>6. /\ InOrder[1] # DIR => a.dir = motor.dir
          /\ InOrder[2] # DIR => b.dir = a.dir
          /\ InOrder[3] # DIR => c.dir = b.dir
      BY <2>1, Zenon DEF Turn
    <2>7. CASE InOrder[1] = STEP
      <3>1. c.current_step = a.current_step
        BY <2>3, <2>4, <2>7 DEF Moves
      <3>2. a.dir = motor.dir /\ ~(DIR < STEP)
        BY <2>4, <2>6, <2>7, PinFacts, OrderIsOfPins
      <3> QED
        BY <2>2, <2>5, <3>1, <3>2
    <2>8. CASE InOrder[2] = STEP
      <3>1. c.current_step = b.current_step /\ a.current_step = motor.current_step
        BY <2>3, <2>4, <2>8 DEF Moves
      <3>2. CASE DIR < STEP
        <4>1. c.dir = b.dir
          BY <2>4, <2>6, <2>8, <3>2, PinFacts
        <4> QED
          BY <2>2, <2>5, <3>1, <3>2, <4>1
      <3>3. CASE ~(DIR < STEP)
        <4>1. InOrder[1] # DIR
          BY <2>4, <2>8, <3>3, PinFacts
        <4>2. b.dir = motor.dir
          BY <2>4, <2>6, <2>8, <4>1, PinFacts
        <4> QED
          BY <2>2, <2>5, <3>1, <3>3, <4>2
      <3> QED
        BY <3>2, <3>3
    <2>9. CASE InOrder[3] = STEP
      <3>1. b.current_step = motor.current_step
        BY <2>3, <2>4, <2>9 DEF Moves
      <3>2. DIR < STEP
        BY <2>4, <2>9, PinFacts, OrderIsOfPins
      <3> QED
        BY <2>2, <2>5, <3>1, <3>2
    <2> QED
      BY <2>7, <2>8, <2>9, OrderIsOfPins
  <1>2. ASSUME PortInv, motor'.current_step = motor.current_step PROVE Right
    <2>1. motor.current_step \in Int
      BY <1>2 DEF PortInv, MotionInv, Fits, MotorType
    <2> QED
      BY <1>2, <2>1
  <1>3. PortInv /\ [PortNext]_portVars => [Right]_portVars
    <2> SUFFICES ASSUME PortInv, PortNext PROVE Right
      OBVIOUS
    <2> HIDE DEF Right
    <2>0. motor \in MotorType
      BY DEF PortInv, MotionInv, Fits
    <2>1. ASSUME NEW val \in SUBSET Outputs, RegisterWrite(val) PROVE Right
      BY <1>1, <2>1 DEF RegisterWrite
    <2>2. ASSUME NEW set \in SUBSET Outputs, NEW clear \in SUBSET Outputs, SetReset(set, clear)
          PROVE  Right
      BY <1>1, <2>2 DEF SetReset
    <2>3. CASE Time
      <3>1. motor'.current_step = motor.current_step
        BY <2>0, <2>3 DEF Time, Tick, standstill_timer, MotorType
      <3> QED
        BY <1>2, <3>1
    <2>4. CASE Datagram
      <3>1. motor'.current_step = motor.current_step
        BY <2>0, <2>4, WriteRegKeeps DEF Datagram
      <3> QED
        BY <1>2, <3>1
    <2>5. CASE MachineReset
      <3>1. motor'.current_step = motor.current_step
        BY <2>5 DEF MachineReset, motionVars
      <3> QED
        BY <1>2, <3>1
    <2> QED
      BY <2>1, <2>2, <2>3, <2>4, <2>5 DEF PortNext
  <1>4. PortSpec => [][Right]_portVars
    <2> HIDE DEF Right
    <2> QED
      BY <1>3, PortInvariant, PTL DEF PortSpec
  <1> QED
    BY <1>4 DEF MovesByPinOrder

(***************************************************************************)
(* The watchdog (Stm32Iwdg).                                               *)
(***************************************************************************)
WdType == [key : Keys, pr : PRs, rl : RLs, started : BOOLEAN, timer : Nat \cup {Stopped}]

IwdgInv ==
  /\ IwdgTypeOK
  /\ OnlyStartedFires
  /\ steady /\ wd.started => lsi
  /\ TimerIsCurrent

\* stm32f4xx_iwdg_update arms the timer of a started watchdog with the delay its
\* registers give, if there is a clock, and does nothing else.
LEMMA UpdateFacts ==
  ASSUME NEW w \in WdType, NEW on \in BOOLEAN
  PROVE  LET u == update(w, on) IN
         /\ u \in WdType
         /\ u.key = w.key /\ u.pr = w.pr /\ u.rl = w.rl /\ u.started = w.started
         /\ w.started /\ on => u.timer = Delay(w.pr, w.rl)
         /\ ~(w.started /\ on) => u.timer = w.timer
  <1>1. w.pr \in PRs /\ w.rl \in RLs
    BY DEF WdType
  <1>2. Delay(w.pr, w.rl) \in Nat
    BY <1>1, IwdgAssumption
  <1>3. CASE w.started /\ on
    BY <1>2, <1>3, Zenon DEF update, WdType
  <1>4. CASE ~(w.started /\ on)
    BY <1>4 DEF update
  <1> QED
    BY <1>3, <1>4

\* A write that leaves the watchdog in state w keeps the invariant: either it
\* does not concern the count, or the count begins anew.
LEMMA WritePreserves ==
  ASSUME IwdgInv, NEW w \in WdType, NEW served \in BOOLEAN, Write(w, served),
         w.timer # Stopped => w.started,
         ~served => w.timer = wd.timer /\ w.pr = wd.pr /\ w.rl = wd.rl,
         served /\ lsi /\ w.timer # Stopped => w.timer = Delay(w.pr, w.rl),
         wd.started => w.started
  PROVE  IwdgInv'
  <1>1. /\ wd \in WdType /\ lsi \in BOOLEAN /\ request \in BOOLEAN /\ steady \in BOOLEAN
        /\ since \in Nat
    BY DEF IwdgInv, IwdgTypeOK, WdType
  <1>2. /\ wd' = w /\ lsi' = lsi /\ request' = request
        /\ since' = (IF served THEN 0 ELSE since)
        /\ steady' = (steady /\ (w.started => lsi))
    BY DEF Write
  <1>3. steady' \in BOOLEAN
    BY <1>1, <1>2, Zenon
  <1>4. since' \in Nat
    BY <1>1, <1>2
  <1>5. IwdgTypeOK'
    BY <1>1, <1>2, <1>3, <1>4 DEF IwdgTypeOK, WdType
  <1>6. OnlyStartedFires'
    BY <1>2 DEF OnlyStartedFires
  <1>7. (steady /\ wd.started => lsi)'
    BY <1>2, Zenon
  <1>8. TimerIsCurrent'
    <2> SUFFICES ASSUME steady', w.timer # Stopped PROVE w.timer + since' = Delay(w.pr, w.rl)
      BY <1>2 DEF TimerIsCurrent
    <2>1. steady /\ lsi
      BY <1>2 , Zenon
    <2>2. CASE served
      <3>1. w.timer = Delay(w.pr, w.rl) /\ since' = 0
        BY <1>2, <2>1, <2>2
      <3>2. w.timer \in Nat
        BY DEF WdType
      <3> QED
        BY <3>1, <3>2
    <2>3. CASE ~served
      BY <1>2, <2>1, <2>3 DEF IwdgInv, TimerIsCurrent
    <2> QED
      BY <2>2, <2>3
  <1> QED
    BY <1>5, <1>6, <1>7, <1>8 DEF IwdgInv

\* A write of a key preserves the invariant (stm32f4xx_iwdg_write, KR).
LEMMA WriteKRPreserves == ASSUME IwdgInv, NEW k \in Keys, WriteKR(k) PROVE IwdgInv'
  <1> DEFINE v == [wd EXCEPT !.key = k, !.started = IF k = "start" THEN TRUE ELSE @]
             w == KRWrite(wd, lsi, k)
             served == k \in {"start", "refresh"}
  <1>1. wd \in WdType /\ lsi \in BOOLEAN /\ (wd.timer # Stopped => wd.started)
    BY DEF IwdgInv, IwdgTypeOK, WdType, OnlyStartedFires
  <1>2. /\ v \in WdType /\ v.pr = wd.pr /\ v.rl = wd.rl /\ v.timer = wd.timer
        /\ wd.started => v.started
    BY <1>1, Zenon DEF WdType
  <1>3. w = IF served THEN update(v, lsi) ELSE v
    BY DEF KRWrite
  <1>4. Write(w, served)
    BY DEF WriteKR
  <1> HIDE DEF v
  <1>5. served \in BOOLEAN
    OBVIOUS
  <1>6. CASE served
    <2> DEFINE u == update(v, lsi)
    <2>1. /\ u \in WdType /\ u.pr = v.pr /\ u.rl = v.rl /\ u.started = v.started
          /\ v.started /\ lsi => u.timer = Delay(v.pr, v.rl)
          /\ ~(v.started /\ lsi) => u.timer = v.timer
      BY <1>1, <1>2, UpdateFacts
    <2> HIDE DEF u
    <2>2. w = u
      BY <1>3, <1>6 DEF u
    <2> HIDE DEF w, served
    <2>3. u.timer # Stopped => u.started
      BY <1>1, <1>2, <2>1
    <2>4. lsi /\ u.timer # Stopped => u.timer = Delay(u.pr, u.rl)
      BY <2>1, <2>3
    <2>5. wd.started => u.started
      BY <1>2, <2>1
    <2> QED
      BY <1>4, <1>5, <1>6, <2>1, <2>2, <2>3, <2>4, <2>5, WritePreserves, Zenon
  <1>7. CASE ~served
    <2>1. w = v
      BY <1>3, <1>7
    <2> HIDE DEF w, served
    <2> QED
      BY <1>1, <1>2, <1>4, <1>5, <1>7, <2>1, WritePreserves
  <1> QED
    BY <1>6, <1>7

\* PR and RLR: x replaces one of the two.
LEMMA SetupPreserves ==
  ASSUME IwdgInv, NEW v \in WdType,
         v.started = wd.started, v.timer = wd.timer,
         Write(IF wd.key # "unlock" THEN wd ELSE update(v, lsi), wd.key = "unlock")
  PROVE  IwdgInv'
  <1> DEFINE served == wd.key = "unlock"
             u == update(v, lsi)
  <1>1. wd \in WdType /\ lsi \in BOOLEAN /\ (wd.timer # Stopped => wd.started)
    BY DEF IwdgInv, IwdgTypeOK, WdType, OnlyStartedFires
  <1>2. /\ u \in WdType /\ u.pr = v.pr /\ u.rl = v.rl /\ u.started = v.started
        /\ v.started /\ lsi => u.timer = Delay(v.pr, v.rl)
        /\ ~(v.started /\ lsi) => u.timer = v.timer
    BY <1>1, UpdateFacts
  <1>3. served \in BOOLEAN
    OBVIOUS
  <1> HIDE DEF u
  <1>4. CASE served
    <2>1. Write(u, served)
      BY <1>4 DEF u
    <2> HIDE DEF served
    <2>2. u.timer # Stopped => u.started
      BY <1>1, <1>2
    <2>3. lsi /\ u.timer # Stopped => u.timer = Delay(u.pr, u.rl)
      BY <1>2, <2>2
    <2> QED
      BY <1>2, <1>3, <1>4, <2>1, <2>2, <2>3, WritePreserves, Zenon
  <1>5. CASE ~served
    <2>1. Write(wd, served)
      BY <1>5
    <2> HIDE DEF served
    <2> QED
      BY <1>1, <1>3, <1>5, <2>1, WritePreserves
  <1> QED
    BY <1>4, <1>5

\* So does a write of the prescaler.
LEMMA WritePRPreserves == ASSUME IwdgInv, NEW x \in PRs, WritePR(x) PROVE IwdgInv'
  <1> DEFINE v == [wd EXCEPT !.pr = x]
  <1>1. v \in WdType /\ v.started = wd.started /\ v.timer = wd.timer
    BY DEF IwdgInv, IwdgTypeOK, WdType
  <1>2. Write(IF wd.key # "unlock" THEN wd ELSE update(v, lsi), wd.key = "unlock")
    BY DEF WritePR, PRWrite
  <1> HIDE DEF v
  <1> QED
    BY <1>1, <1>2, SetupPreserves

\* So does a write of the reload value.
LEMMA WriteRLRPreserves == ASSUME IwdgInv, NEW x \in RLs, WriteRLR(x) PROVE IwdgInv'
  <1> DEFINE v == [wd EXCEPT !.rl = x]
  <1>1. v \in WdType /\ v.started = wd.started /\ v.timer = wd.timer
    BY DEF IwdgInv, IwdgTypeOK, WdType
  <1>2. Write(IF wd.key # "unlock" THEN wd ELSE update(v, lsi), wd.key = "unlock")
    BY DEF WriteRLR, RLRWrite
  <1> HIDE DEF v
  <1> QED
    BY <1>1, <1>2, SetupPreserves

\* So does switching LSI in the RCC.
LEMMA WriteCSRPreserves == ASSUME IwdgInv, NEW on \in BOOLEAN, WriteCSR(on) PROVE IwdgInv'
  <1>1. steady' \in BOOLEAN
    BY Zenon DEF WriteCSR, IwdgInv, IwdgTypeOK
  <1>2. IwdgTypeOK'
    BY <1>1 DEF WriteCSR, IwdgInv, IwdgTypeOK
  <1>3. (steady /\ wd.started => lsi)'
    BY Zenon DEF WriteCSR
  <1>4. OnlyStartedFires' /\ TimerIsCurrent'
    BY Zenon DEF WriteCSR, IwdgInv, OnlyStartedFires, TimerIsCurrent
  <1> QED
    BY <1>2, <1>3, <1>4 DEF IwdgInv

\* The timer and the time since the reload move in step: the history is not at
\* its cap while the timer is pending.
LEMMA IwdgTickPreserves == ASSUME IwdgInv, IwdgTick PROVE IwdgInv'
  <1>1. /\ wd \in WdType /\ lsi \in BOOLEAN /\ request \in BOOLEAN /\ steady \in BOOLEAN
        /\ since \in Nat /\ MaxDelay \in Nat
    BY IwdgAssumption DEF IwdgInv, IwdgTypeOK, WdType
  <1>2. /\ wd.timer \in Nat \cup {Stopped} /\ wd.timer # 0 /\ wd.pr \in PRs /\ wd.rl \in RLs
        /\ lsi' = lsi /\ request' = request /\ steady' = steady
        /\ since' = IF since < MaxDelay THEN since + 1 ELSE since
    BY <1>1 DEF IwdgTick, WdType
  <1>3. Delay(wd.pr, wd.rl) \in 0 .. MaxDelay
    BY <1>2, IwdgAssumption
  <1>4. CASE wd.timer = Stopped
    <2>1. wd' = [wd EXCEPT !.timer = Stopped]
      BY <1>4 DEF IwdgTick
    <2>2. wd' \in WdType /\ wd'.timer = Stopped /\ wd'.started = wd.started
      BY <1>1, <2>1 DEF WdType
    <2>3. since' \in Nat
      BY <1>1, <1>2
    <2> QED
      BY <1>1, <1>2, <2>2, <2>3 DEF IwdgInv, IwdgTypeOK, OnlyStartedFires, TimerIsCurrent, WdType
  <1>5. CASE wd.timer # Stopped
    <2>1. wd' = [wd EXCEPT !.timer = wd.timer - 1]
      BY <1>5 DEF IwdgTick
    <2>2. wd.timer \in Nat /\ wd.timer - 1 \in Nat
      BY <1>2, <1>5
    <2>3. /\ wd' \in WdType /\ wd'.timer = wd.timer - 1 /\ wd'.started = wd.started
          /\ wd'.pr = wd.pr /\ wd'.rl = wd.rl
      BY <1>1, <2>1, <2>2 DEF WdType
    <2>4. since' \in Nat
      BY <1>1, <1>2
    <2>5. wd.started
      BY <1>5 DEF IwdgInv, OnlyStartedFires
    <2>6. ASSUME steady PROVE wd'.timer + since' = Delay(wd.pr, wd.rl)
      <3>1. wd.timer + since = Delay(wd.pr, wd.rl)
        BY <1>5, <2>6 DEF IwdgInv, TimerIsCurrent
      <3>2. since < MaxDelay
        BY <1>1, <1>2, <1>3, <2>2, <3>1
      <3> QED
        BY <1>1, <1>2, <2>2, <2>3, <3>1, <3>2
    <2>7. TimerIsCurrent'
      BY <1>2, <2>3, <2>6 DEF TimerIsCurrent
    <2>8. IwdgTypeOK'
      BY <1>1, <1>2, <2>3, <2>4 DEF IwdgTypeOK, WdType
    <2>9. OnlyStartedFires' /\ (steady /\ wd.started => lsi)'
      BY <1>2, <2>3, <2>5 DEF OnlyStartedFires, IwdgInv
    <2> QED
      BY <2>7, <2>8, <2>9 DEF IwdgInv
  <1> QED
    BY <1>4, <1>5

\* So does the end of the timer (stm32f4xx_iwdg_fire).
LEMMA FirePreserves == ASSUME IwdgInv, Fire PROVE IwdgInv'
  <1>1. wd' \in WdType /\ wd'.timer = Stopped /\ wd'.started = wd.started
    BY DEF Fire, IwdgInv, IwdgTypeOK, WdType
  <1> QED
    BY <1>1 DEF Fire, IwdgInv, IwdgTypeOK, OnlyStartedFires, TimerIsCurrent, WdType

\* The registers after a reset.
LEMMA ResetState == WdReset \in WdType /\ WdReset.timer = Stopped /\ WdReset.started = FALSE
  BY IwdgAssumption DEF WdReset, WdType, Keys

\* The invariant holds after a reset.
LEMMA ResetPreserves == ASSUME Reset PROVE IwdgInv'
  <1>1. /\ wd' = WdReset /\ lsi' = FALSE /\ request' = FALSE /\ since' = 0 /\ steady' = TRUE
    BY DEF Reset, iwdg_reset
  <1>2. IwdgTypeOK'
    BY <1>1, ResetState, Zenon DEF IwdgTypeOK, WdType
  <1>3. OnlyStartedFires' /\ TimerIsCurrent' /\ (steady /\ wd.started => lsi)'
    BY <1>1, ResetState DEF OnlyStartedFires, TimerIsCurrent
  <1> QED
    BY <1>2, <1>3 DEF IwdgInv

\* It holds at power-on.
LEMMA IwdgInitInv == ASSUME IwdgInit PROVE IwdgInv
  <1>1. wd = WdReset /\ lsi = FALSE /\ request = FALSE /\ since = 0 /\ steady = TRUE
    BY DEF IwdgInit
  <1>2. IwdgTypeOK
    BY <1>1, ResetState, Zenon DEF IwdgTypeOK, WdType
  <1>3. OnlyStartedFires /\ TimerIsCurrent /\ (steady /\ wd.started => lsi)
    BY <1>1, ResetState DEF OnlyStartedFires, TimerIsCurrent
  <1> QED
    BY <1>2, <1>3 DEF IwdgInv

(***************************************************************************)
(* The theorems.                                                           *)
(***************************************************************************)
\* The inductive invariant: types, a pending timer only after a start, a clock
\* as long as steady says so, and the timer in step with the registers.
THEOREM IwdgInvariant == IwdgSpec => []IwdgInv
  <1>1. IwdgInv /\ [IwdgNext]_iwdgVars => IwdgInv'
    <2> SUFFICES ASSUME IwdgInv, [IwdgNext]_iwdgVars PROVE IwdgInv'
      OBVIOUS
    <2>1. CASE UNCHANGED iwdgVars
      BY <2>1 DEF iwdgVars, IwdgInv, IwdgTypeOK, OnlyStartedFires, TimerIsCurrent
    <2>2. CASE IwdgNext
      BY <2>2, WriteKRPreserves, WritePRPreserves, WriteRLRPreserves, WriteCSRPreserves,
         IwdgTickPreserves, FirePreserves, ResetPreserves DEF IwdgNext
    <2> QED
      BY <2>1, <2>2
  <1>2. IwdgInit => IwdgInv
    BY IwdgInitInv
  <1> QED
    BY <1>1, <1>2, PTL DEF IwdgSpec

\* The watchdog never fires before it is started, nor after a reset.
THEOREM IwdgOnlyStartedFires == IwdgSpec => []OnlyStartedFires
  <1>1. IwdgInv => OnlyStartedFires
    BY DEF IwdgInv
  <1> QED
    BY <1>1, IwdgInvariant, PTL

\* A refresh is never lost while LSI is on: the reset comes exactly the delay of
\* the registers after the last refresh or change of the registers.
THEOREM IwdgTimerIsCurrent == IwdgSpec => []TimerIsCurrent
  <1>1. IwdgInv => TimerIsCurrent
    BY DEF IwdgInv
  <1> QED
    BY <1>1, IwdgInvariant, PTL

(***************************************************************************)
(* The fan (SoftPwmFan).                                                   *)
(***************************************************************************)
FanTypeOK ==
  /\ last_level \in BOOLEAN /\ is_nonlinear \in BOOLEAN /\ is_stalled \in BOOLEAN
  /\ pulse_state \in BOOLEAN /\ tach_pulse \in BOOLEAN
  /\ onFor \in {Unknown} \cup Nat
  /\ softpwm_left \in {Idle} \cup 0 .. FanTimeout
  /\ speed \in 0 .. Cycle
  /\ tach_left \in {Idle} \cup 0 .. Pulse[speed]
  /\ still \in 0 .. FanTimeout /\ lull \in Nat

\* The timer runs out when the pin has been still for the timeout, and after that
\* the fan runs by the pin.
TimerMeasuresStill ==
  IF softpwm_left = Idle
  THEN still = FanTimeout /\ speed = (IF last_level THEN Cycle ELSE 0)
  ELSE still + softpwm_left = FanTimeout

\* The tachometer's timer is pending while the fan turns.
TachFollowsSpeed == /\ speed > 0 => tach_left # Idle
                    /\ ~is_nonlinear /\ tach_left # Idle => speed > 0

\* The next run of the timer gives an edge, or the one after it when a stall has left
\* the line at another level than pulse_state.
EdgeIsNear ==
  speed > 0 /\ ~is_stalled =>
    lull + tach_left <= (IF tach_pulse = pulse_state THEN 2 * Pulse[speed] ELSE Pulse[speed])

FanInv == FanTypeOK /\ TimerMeasuresStill /\ TachFollowsSpeed /\ EdgeIsNear

\* Every duty has its pulse.
LEMMA PulseType == ASSUME NEW level \in 0 .. Cycle PROVE Pulse[level] \in Nat \ {0}
  BY FanAssumption

\* The fan that was never switched.
LEMMA FanInitInv == FanInit => FanInv
  <1> SUFFICES ASSUME FanInit
               PROVE  FanInv
    OBVIOUS
  <1>1. FanTypeOK
    <2>1. /\ last_level \in BOOLEAN /\ is_nonlinear \in BOOLEAN /\ is_stalled \in BOOLEAN
          /\ pulse_state \in BOOLEAN /\ tach_pulse \in BOOLEAN
      BY Zenon DEF FanInit
    <2>2. /\ onFor = Unknown /\ softpwm_left = Idle /\ tach_left = Idle
          /\ speed = 0 /\ still = FanTimeout /\ lull = 0
      BY DEF FanInit
    <2> QED BY <2>1, <2>2, FanAssumption DEF FanTypeOK
  <1>2. TimerMeasuresStill /\ TachFollowsSpeed /\ EdgeIsNear
    BY DEF FanInit, TimerMeasuresStill, TachFollowsSpeed, EdgeIsNear
  <1> QED BY <1>1, <1>2 DEF FanInv

\* The duty of a pulse of any length is that of a cycle.
LEMMA DutyType ==
  ASSUME NEW t \in {Unknown} \cup Nat, NEW d \in Duty(t)
  PROVE  d \in 0 .. Cycle
  BY FanAssumption DEF Duty, Unknown

\* fan_pwm_change keeps the tachometer in step with the speed.
LEMMA PwmChange ==
  ASSUME NEW level \in 0 .. Cycle, fan_pwm_change(level), UNCHANGED is_nonlinear
  PROVE  /\ speed' = level /\ tach_left' \in {Idle} \cup 0 .. Pulse[level] /\ lull' = 0
         /\ TachFollowsSpeed' /\ EdgeIsNear'
  <1>1. Pulse[level] \in Nat \ {0} /\ speed' = level /\ lull' = 0
        /\ tach_left' = (IF Turns(level) THEN Pulse[level] ELSE Idle)
    BY PulseType DEF fan_pwm_change
  <1>2. tach_left' \in {Idle} \cup 0 .. Pulse[level] /\ TachFollowsSpeed'
    BY <1>1 DEF Turns, TachFollowsSpeed, Idle
  <1>3. EdgeIsNear'
    BY <1>1 DEF Turns, EdgeIsNear, Idle
  <1> QED
    BY <1>1, <1>2, <1>3

\* A rise of the pin leaves speed and tachometer alone.
LEMMA SameTach ==
  ASSUME FanInv, UNCHANGED <<speed, tach_left, pulse_state, tach_pulse, is_stalled,
                             is_nonlinear, lull>>
  PROVE  TachFollowsSpeed' /\ EdgeIsNear'
  BY DEF FanInv, TachFollowsSpeed, EdgeIsNear

\* fan_tach_expire: an edge, or one pulse of the two that are allowed is over.
LEMMA TachExpires ==
  ASSUME FanInv, fan_tach_expire
  PROVE  /\ tach_left' = Pulse[speed] /\ lull' \in Nat
         /\ pulse_state' \in BOOLEAN /\ tach_pulse' \in BOOLEAN
         /\ TachFollowsSpeed' /\ EdgeIsNear'
  <1>1. FanTypeOK /\ TachFollowsSpeed /\ EdgeIsNear /\ tach_left = 0
    BY DEF FanInv, fan_tach_expire
  <1>2. /\ Pulse[speed] \in Nat \ {0} /\ lull \in Nat /\ speed \in 0 .. Cycle
        /\ tach_left' = Pulse[speed] /\ speed' = speed /\ is_stalled' = is_stalled
        /\ is_nonlinear' = is_nonlinear
    BY <1>1, PulseType DEF FanTypeOK, fan_tach_expire
  <1>3. pulse_state' \in BOOLEAN /\ tach_pulse' \in BOOLEAN
    BY Zenon DEF fan_tach_expire
  <1>4. lull' \in Nat
    BY <1>2 DEF fan_tach_expire
  <1>5. TachFollowsSpeed'
    BY <1>1, <1>2 DEF TachFollowsSpeed, Idle
  <1>6. EdgeIsNear'
    <2> SUFFICES ASSUME speed > 0, ~is_stalled
                 PROVE  lull' + tach_left' <= IF tach_pulse' = pulse_state'
                                              THEN 2 * Pulse[speed] ELSE Pulse[speed]
      BY <1>2 DEF EdgeIsNear
    <2>1. tach_pulse' = pulse_state' /\ pulse_state' = ~pulse_state
      <3>1. is_stalled = FALSE /\ pulse_state \in BOOLEAN
        BY <1>1 DEF FanTypeOK
      <3> QED
        BY <3>1, Zenon DEF fan_tach_expire
    <2>2. CASE tach_pulse = pulse_state
      <3>1. lull' = 0
        <4>1. tach_pulse' # tach_pulse
          BY <1>1, <2>1, <2>2 DEF FanTypeOK
        <4> QED
          BY <4>1 DEF fan_tach_expire
      <3> QED
        BY <1>2, <2>1, <3>1
    <2>3. CASE tach_pulse # pulse_state
      <3>1. lull <= Pulse[speed]
        BY <1>1, <1>2, <2>3 DEF EdgeIsNear
      <3>2. lull' \in {0, lull}
        BY DEF fan_tach_expire
      <3> QED
        BY <1>2, <2>1, <3>1, <3>2
    <2> QED
      BY <2>2, <2>3
  <1> QED
    BY <1>2, <1>3, <1>4, <1>5, <1>6

\* Every edge, timer, action of the script and passing of time preserves it.
LEMMA FanNextInv == FanInv /\ [FanNext]_fanVars => FanInv'
  <1> SUFFICES ASSUME FanInv, [FanNext]_fanVars
               PROVE  FanInv'
    OBVIOUS
  <1>1. FanTypeOK /\ TimerMeasuresStill /\ TachFollowsSpeed /\ EdgeIsNear
    BY DEF FanInv
  <1>0. Pulse[speed] \in Nat \ {0} /\ Cycle \in Nat \ {0} /\ FanTimeout \in Nat \ {0}
    BY <1>1, PulseType, FanAssumption DEF FanTypeOK
  <1>2. CASE Rise
    <2>1. FanTypeOK'
      BY <1>0, <1>1, <1>2 DEF Rise, FanTypeOK, tachVars
    <2>2. TimerMeasuresStill'
      BY <1>0, <1>2 DEF Rise, TimerMeasuresStill, Idle
    <2>3. TachFollowsSpeed' /\ EdgeIsNear'
      BY <1>2, SameTach DEF Rise, tachVars
    <2> QED BY <2>1, <2>2, <2>3 DEF FanInv
  <1>3. CASE Fall
    <2>1. PICK d \in Duty(onFor) : fan_pwm_change(d)
      BY <1>3 DEF Fall
    <2>2. d \in 0 .. Cycle
      BY <1>1, <2>1, DutyType DEF FanTypeOK
    <2>3. /\ last_level' = FALSE /\ softpwm_left' = FanTimeout /\ still' = 0
          /\ UNCHANGED <<onFor, is_nonlinear, is_stalled, pulse_state, tach_pulse>>
      BY <1>3 DEF Fall, tachVars
    <2>4. /\ speed' = d /\ tach_left' \in {Idle} \cup 0 .. Pulse[d] /\ lull' = 0
          /\ TachFollowsSpeed' /\ EdgeIsNear'
      BY <2>1, <2>2, <2>3, PwmChange
    <2>5. FanTypeOK'
      <3>1. /\ last_level' \in BOOLEAN /\ is_nonlinear' \in BOOLEAN /\ is_stalled' \in BOOLEAN
            /\ pulse_state' \in BOOLEAN /\ tach_pulse' \in BOOLEAN /\ onFor' = onFor
        BY <1>1, <2>3, Zenon DEF FanTypeOK
      <3>2. softpwm_left' \in {Idle} \cup 0 .. FanTimeout /\ still' \in 0 .. FanTimeout
        BY <1>0, <2>3
      <3>3. speed' \in 0 .. Cycle /\ tach_left' \in {Idle} \cup 0 .. Pulse[speed'] /\ lull' \in Nat
        BY <2>2, <2>4
      <3>4. onFor \in {Unknown} \cup Nat
        BY <1>1 DEF FanTypeOK
      <3> QED
        BY <3>1, <3>2, <3>3, <3>4, Zenon DEF FanTypeOK
    <2>6. TimerMeasuresStill'
      BY <1>0, <2>3 DEF TimerMeasuresStill, Idle
    <2> QED BY <2>4, <2>5, <2>6 DEF FanInv
  <1>4. CASE fan_softpwm_timeout
    <2> DEFINE level == IF last_level THEN Cycle ELSE 0
    <2>1. level \in 0 .. Cycle /\ fan_pwm_change(level)
      BY <1>0, <1>4 DEF fan_softpwm_timeout
    <2>2. /\ onFor' = Unknown /\ softpwm_left = 0 /\ softpwm_left' = Idle
          /\ UNCHANGED <<last_level, is_nonlinear, is_stalled, pulse_state, tach_pulse, still>>
      BY <1>4 DEF fan_softpwm_timeout, tachVars
    <2>3. speed' = level /\ level = (IF last_level' THEN Cycle ELSE 0)
      BY <2>1, <2>2, PwmChange
    <2>4. /\ tach_left' \in {Idle} \cup 0 .. Pulse[level] /\ lull' = 0
          /\ TachFollowsSpeed' /\ EdgeIsNear'
      <3> HIDE DEF level
      <3> QED
        BY <2>1, <2>2, PwmChange
    <2>5. FanTypeOK'
      <3> HIDE DEF level
      <3> QED
        BY <1>1, <2>1, <2>2, <2>3, <2>4 DEF FanTypeOK
    <2>6. TimerMeasuresStill'
      <3>1. still' = FanTimeout
        BY <1>0, <1>1, <2>2 DEF TimerMeasuresStill, FanTypeOK, Idle
      <3> QED
        BY <2>2, <2>3, <3>1 DEF TimerMeasuresStill
    <2> QED BY <2>4, <2>5, <2>6 DEF FanInv
  <1>5. CASE fan_tach_expire
    <2>1. /\ tach_left' = Pulse[speed] /\ lull' \in Nat
          /\ pulse_state' \in BOOLEAN /\ tach_pulse' \in BOOLEAN
          /\ TachFollowsSpeed' /\ EdgeIsNear'
      BY <1>5, TachExpires
    <2>2. UNCHANGED <<last_level, onFor, softpwm_left, speed, is_stalled, is_nonlinear, still>>
      BY <1>5 DEF fan_tach_expire
    <2>3. FanTypeOK'
      BY <1>0, <1>1, <2>1, <2>2 DEF FanTypeOK
    <2>4. TimerMeasuresStill'
      BY <1>1, <2>2, Zenon DEF TimerMeasuresStill
    <2> QED BY <2>1, <2>3, <2>4 DEF FanInv
  <1>6. ASSUME NEW on \in BOOLEAN, Stall(on)
        PROVE  FanInv'
    <2>1. /\ is_stalled' = on /\ lull' = 0
          /\ UNCHANGED <<last_level, onFor, softpwm_left, tach_left, speed, pulse_state,
                         tach_pulse, is_nonlinear, still>>
      BY <1>6 DEF Stall, tachVars
    <2>2. FanTypeOK'
      BY <1>1, <2>1 DEF FanTypeOK
    <2>3. TimerMeasuresStill' /\ TachFollowsSpeed'
      BY <1>1, <2>1 DEF TimerMeasuresStill, TachFollowsSpeed
    <2>4. EdgeIsNear'
      BY <1>0, <1>1, <2>1 DEF EdgeIsNear, FanTypeOK, Idle
    <2> QED BY <2>2, <2>3, <2>4 DEF FanInv
  <1>7. CASE FanTime
    <2>0. /\ UNCHANGED <<last_level, speed, pulse_state, tach_pulse, is_stalled, is_nonlinear>>
          /\ softpwm_left # 0 /\ tach_left # 0
          /\ softpwm_left' = Passed(softpwm_left) /\ tach_left' = Passed(tach_left)
          /\ still' = (IF still < FanTimeout THEN still + 1 ELSE still)
          /\ lull' = (IF speed > 0 /\ ~is_stalled THEN lull + 1 ELSE 0)
      BY <1>7 DEF FanTime, tachVars
    <2>1. onFor' \in {Unknown} \cup Nat
      BY <1>0, <1>1, <1>7 DEF FanTime, FanTypeOK, Unknown
    <2>2. FanTypeOK'
      <3>1. softpwm_left' \in {Idle} \cup 0 .. FanTimeout /\ still' \in 0 .. FanTimeout
        BY <1>0, <1>1, <2>0 DEF Passed, FanTypeOK, Idle
      <3>2. tach_left' \in {Idle} \cup 0 .. Pulse[speed] /\ lull' \in Nat
        BY <1>0, <1>1, <2>0 DEF Passed, FanTypeOK, Idle
      <3> QED
        BY <1>1, <2>0, <2>1, <3>1, <3>2 DEF FanTypeOK
    <2>3. TimerMeasuresStill'
      BY <1>0, <1>1, <2>0 DEF Passed, FanTypeOK, TimerMeasuresStill, Idle
    <2>4. TachFollowsSpeed'
      BY <1>0, <1>1, <2>0 DEF Passed, FanTypeOK, TachFollowsSpeed, Idle
    <2>5. EdgeIsNear'
      <3> SUFFICES ASSUME speed > 0, ~is_stalled
                   PROVE  lull' + tach_left' <= IF tach_pulse = pulse_state
                                                THEN 2 * Pulse[speed] ELSE Pulse[speed]
        BY <2>0 DEF EdgeIsNear
      <3>1. tach_left' = tach_left - 1 /\ lull' = lull + 1
        BY <1>1, <2>0 DEF Passed, TachFollowsSpeed
      <3>2. lull \in Nat /\ tach_left \in Int
        BY <1>0, <1>1 DEF FanTypeOK, Idle
      <3>3. lull' + tach_left' = lull + tach_left
        BY <3>1, <3>2
      <3> QED
        BY <1>1, <3>3 DEF EdgeIsNear
    <2> QED BY <2>2, <2>3, <2>4, <2>5 DEF FanInv
  <1>8. CASE UNCHANGED fanVars
    BY <1>1, <1>8 DEF fanVars, tachVars, FanInv, FanTypeOK, TimerMeasuresStill,
                      TachFollowsSpeed, EdgeIsNear
  <1> QED BY <1>2, <1>3, <1>4, <1>5, <1>6, <1>7, <1>8 DEF FanNext

\* Only the timer moves the line, and it is pending only for a fan that turns.
LEMMA NoFalsePulses == FanInv /\ [FanNext]_fanVars => [NoFalsePulse]_fanVars
  <1> SUFFICES ASSUME FanInv, FanNext
               PROVE  NoFalsePulse
    OBVIOUS
  <1>1. CASE fan_tach_expire
    <2>1. speed > 0 \/ is_nonlinear
      BY <1>1 DEF fan_tach_expire, FanInv, TachFollowsSpeed, Idle
    <2>2. tach_pulse' => ~is_stalled
      BY <1>1, Zenon DEF fan_tach_expire
    <2> QED
      BY <2>1, <2>2 DEF NoFalsePulse
  <1>2. CASE ~fan_tach_expire
    <2>1. tach_pulse' = tach_pulse
      BY <1>2 DEF FanNext, Rise, Fall, fan_softpwm_timeout, Stall, FanTime, tachVars
    <2> QED
      BY <2>1 DEF NoFalsePulse
  <1> QED
    BY <1>1, <1>2

\* A still pin is what the fan runs by; a fan that turns gives an edge of the tachometer
\* within two pulses of the last one or of the last setting of its duty, and a stopped
\* print fan none: for every cycle, timeout and length of the pulses of each duty.
THEOREM FanRunsByPin == FanSpec => FanFollowsPin
  <1>1. FanInv => RunsByPin /\ PulsesWhenTurning
    <2> SUFFICES ASSUME FanInv PROVE RunsByPin /\ PulsesWhenTurning
      OBVIOUS
    <2>1. FanTypeOK /\ TimerMeasuresStill /\ TachFollowsSpeed /\ EdgeIsNear
      BY DEF FanInv
    <2>2. RunsByPin
      BY <2>1 DEF FanTypeOK, TimerMeasuresStill, RunsByPin, Idle
    <2>3. ASSUME speed > 0, ~is_stalled PROVE lull <= 2 * Pulse[speed]
      <3>1. Pulse[speed] \in Nat \ {0} /\ lull \in Nat /\ tach_left \in Nat
        BY <2>1, <2>3, PulseType DEF FanTypeOK, TachFollowsSpeed
      <3> QED
        BY <2>1, <2>3, <3>1 DEF EdgeIsNear
    <2> QED BY <2>2, <2>3 DEF PulsesWhenTurning
  <1>2. FanInv /\ FanInv' /\ [FanNext]_fanVars
          => [RunsByPin' /\ PulsesWhenTurning' /\ NoFalsePulse]_fanVars
    <2>1. FanInv' => RunsByPin' /\ PulsesWhenTurning'
      BY <1>1, PTL
    <2> QED BY <2>1, NoFalsePulses
  <1> QED BY <1>2, FanInitInv, FanNextInv, PTL DEF FanSpec, FanFollowsPin

(***************************************************************************)
(* The serial interface of the drivers (Tmc2209Serial).                    *)
(***************************************************************************)
\* A sequence that is not empty has a head and a tail.
LEMMA SeqFacts ==
  \A S : \A s \in Seq(S) :
    /\ Len(s) \in Nat
    /\ s # <<>> => /\ Len(s) > 0 /\ Head(s) \in S /\ Tail(s) \in Seq(S)
                   /\ Len(s) = Len(Tail(s)) + 1
  OBVIOUS

DriverType == [rx : Seq(Bytes), file : FileType]

\* A buffer that has passed byte 3 belongs to a write.
Parsing(rx) == Len(rx) < 8 /\ (Len(rx) >= 4 => IsWrite(rx[3]))

SerialInv == /\ SerialTypeOK
             /\ \A a \in Drivers : Parsing(driver[a].rx)
             /\ Lockstep
             /\ OneAnswer

(***************************************************************************)
(* The functions of the code.                                              *)
(***************************************************************************)
LEMMA AppendFacts ==
  ASSUME NEW rx \in Seq(Bytes), NEW b \in Bytes
  PROVE  /\ Append(rx, b) \in Seq(Bytes)
         /\ Len(Append(rx, b)) = Len(rx) + 1
         /\ Len(rx) >= 3 => Append(rx, b)[3] = rx[3]
         /\ \A i \in 1 .. Len(rx) + 1 : Append(rx, b)[i] \in Bytes
  BY SerialAssumption DEF Bytes

\* A register write keeps the register file one of bytes.
LEMMA StoreType ==
  ASSUME NEW f \in FileType, NEW r \in Registers, NEW data \in [1 .. 4 -> Bytes]
  PROVE  Store(f, r, data) \in FileType
  <1> DEFINE g == [f EXCEPT ![r] = data]
             c == g[IFCNT][4]
  <1>1. g \in FileType
    BY DEF FileType
  <1>2. IFCNT \in Registers /\ g[IFCNT] \in [1 .. 4 -> Bytes]
    BY <1>1, SerialAssumption DEF FileType
  <1>3. c \in Bytes
    BY <1>2
  <1>4. Store(f, r, data) = [g EXCEPT ![IFCNT] = [g[IFCNT] EXCEPT ![4] = (c + 1) % (2 * WriteBit)]]
    BY DEF Store
  <1> HIDE DEF g, c
  <1>5. c \in Nat /\ 2 * WriteBit \in Nat \ {0}
    BY <1>3, SerialAssumption DEF Bytes
  <1>6. (c + 1) % (2 * WriteBit) \in Bytes
    BY <1>5, Z3 DEF Bytes
  <1> QED
    BY <1>1, <1>2, <1>4, <1>6 DEF FileType

\* The state at power-on has its type.
LEMMA PowerOnType == NoData \in [1 .. 4 -> Bytes] /\ PowerOnRegs \in FileType
  <1>1. 0 \in Bytes
    BY SerialAssumption DEF Bytes
  <1>2. NoData \in [1 .. 4 -> Bytes]
    BY <1>1 DEF NoData
  <1> QED
    BY <1>2 DEF PowerOnRegs, FileType

\* What tmc2209_receive does to the buffer of one driver, by the byte it gets.
LEMMA ReceiveFacts ==
  ASSUME NEW d \in DriverType, Parsing(d.rx), NEW a, NEW b \in Bytes
  PROVE  /\ receive(d, a, b) \in DriverType
         /\ receive(d, a, b).rx = IF Completes(Append(d.rx, b)) THEN <<>> ELSE Append(d.rx, b)
         /\ Parsing(receive(d, a, b).rx)
  <1> DEFINE rx == Append(d.rx, b)
             g == receive(d, a, b)
  <1>0. d.rx \in Seq(Bytes) /\ d.file \in FileType
    BY DEF DriverType
  <1>1. d.rx \in Seq(Bytes) /\ d.file \in FileType /\ Len(d.rx) \in Nat /\ Len(d.rx) < 8
    <2>1. Len(d.rx) \in Nat
      BY <1>0, SeqFacts
    <2>2. Len(d.rx) < 8
      BY DEF Parsing
    <2> QED
      BY <1>0, <2>1, <2>2
  <1>2. /\ rx \in Seq(Bytes) /\ Len(rx) = Len(d.rx) + 1 /\ (Len(d.rx) >= 3 => rx[3] = d.rx[3])
        /\ \A i \in 1 .. Len(rx) : rx[i] \in Bytes
    BY <1>1, AppendFacts
  <1>3. CASE ~Completes(rx)
    <2>1. g = [d EXCEPT !.rx = rx]
      BY <1>3 DEF receive
    <2>2. g \in DriverType /\ g.rx = rx
      BY <1>2, <2>1 DEF DriverType
    <2>3. Len(rx) >= 4 => IsWrite(rx[3])
      BY <1>1, <1>2, <1>3 DEF Completes, Parsing
    <2>4. Len(rx) < 8
      BY <1>1, <1>2, <1>3, <2>3 DEF Completes
    <2> QED
      BY <1>3, <2>2, <2>3, <2>4 DEF Parsing
  <1>4. CASE Completes(rx)
    <2> DEFINE t == IF IsWrite(rx[3]) /\ rx[2] = a THEN write(d, rx) ELSE d
    <2>1. g = [t EXCEPT !.rx = <<>>]
      BY <1>4, Zenon DEF receive
    <2>2. t \in DriverType
      <3>1. CASE ~(IsWrite(rx[3]) /\ rx[2] = a)
        BY <3>1, Zenon
      <3>2. CASE IsWrite(rx[3]) /\ rx[2] = a
        <4>1. Len(rx) = 8 /\ rx[3] \in Bytes /\ rx[3] >= WriteBit
          <5> HIDE DEF rx
          <5>1. Len(rx) = 8 /\ IsWrite(rx[3])
            BY <1>4, <3>2, Zenon DEF Completes
          <5>2. 3 \in 1 .. Len(rx)
            BY <5>1
          <5>3. rx[3] \in Bytes
            BY <1>2, <5>2, Zenon
          <5> QED
            BY <5>1, <5>3, Zenon DEF IsWrite
        <4>2. rx[3] - WriteBit \in Registers
          BY <4>1, SerialAssumption DEF Bytes, Registers
        <4>3. SubSeq(rx, 4, 7) \in [1 .. 4 -> Bytes]
          <5>1. SubSeq(rx, 4, 7) = [i \in 1 .. 4 |-> rx[i + 3]]
            BY <1>2, <4>1
          <5>2. \A i \in 1 .. 4 : rx[i + 3] \in Bytes
            BY <1>2, <4>1
          <5> QED
            BY <5>1, <5>2, Zenon
        <4>4. Store(d.file, rx[3] - WriteBit, SubSeq(rx, 4, 7)) \in FileType
          BY <1>1, <4>2, <4>3, StoreType, Zenon
        <4> QED
          BY <3>2, <4>4, Zenon DEF write, DriverType
      <3> QED
        BY <3>1, <3>2, Zenon
    <2> HIDE DEF t
    <2>3. <<>> \in Seq(Bytes) /\ Len(<<>>) = 0
      OBVIOUS
    <2>4. g \in DriverType /\ g.rx = <<>>
      BY <2>1, <2>2, <2>3, Zenon DEF DriverType
    <2>5. Parsing(g.rx)
      <3> HIDE DEF g
      <3> QED
        BY <2>3, <2>4 DEF Parsing
    <2> QED
      BY <1>4, <2>4, <2>5, Zenon
  <1> QED
    BY <1>3, <1>4

(***************************************************************************)
(* The steps.                                                              *)
(***************************************************************************)
LEMMA SerialInitInv == SerialInit => SerialInv
  <1> SUFFICES ASSUME SerialInit PROVE SerialInv
    OBVIOUS
  <1>2. <<>> \in Seq(Bytes) /\ Len(<<>>) = 0
    OBVIOUS
  <1>3. PowerOnRegs \in FileType
    BY PowerOnType
  <1>4. SerialTypeOK
    BY <1>2, <1>3, Zenon DEF SerialInit, SerialTypeOK, AllPowerOn
  <1>5. \A a \in Drivers : driver[a].rx = <<>>
    BY DEF SerialInit
  <1>6. OneAnswer
    BY DEF SerialInit, OneAnswer
  <1> QED
    BY <1>2, <1>4, <1>5, <1>6 DEF SerialInv, Lockstep, Parsing

\* One byte on the line: all drivers parse it alike, and the one whose address
\* the common buffer holds is the only one to answer.
LEMMA SendPreserves == ASSUME SerialInv, Send PROVE SerialInv'
  <1> DEFINE b == Head(frame)
  <1>1. /\ driver \in [Drivers -> DriverType] /\ frame \in Seq(Bytes)
        /\ expected \in [Drivers -> FileType] /\ broken \in BOOLEAN
    BY DEF SerialInv, SerialTypeOK, DriverType
  <1>2. b \in Bytes /\ Tail(frame) \in Seq(Bytes)
    BY <1>1, SeqFacts DEF Send
  <1>3. /\ driver' = [a \in Drivers |-> receive(driver[a], a, b)]
        /\ frame' = Tail(frame) /\ expected' = expected /\ broken' = broken
        /\ reply' = {<<a, Answer(driver[a], Append(driver[a].rx, b)[3])>> :
                       a \in {c \in Drivers : Replies(driver[c], c, b)}}
    BY DEF Send, Hear
  <1> HIDE DEF b
  <1>4. \A a \in Drivers : driver[a] \in DriverType /\ Parsing(driver[a].rx)
    BY <1>1 DEF SerialInv
  <1>5. ASSUME NEW a \in Drivers
        PROVE  /\ driver'[a] \in DriverType
               /\ driver'[a].rx = IF Completes(Append(driver[a].rx, b)) THEN <<>> ELSE Append(driver[a].rx, b)
               /\ Parsing(driver'[a].rx)
    <2>1. driver'[a] = receive(driver[a], a, b)
      BY <1>3
    <2>2. driver[a] \in DriverType /\ Parsing(driver[a].rx)
      BY <1>4
    <2>3. /\ receive(driver[a], a, b) \in DriverType
          /\ receive(driver[a], a, b).rx =
               IF Completes(Append(driver[a].rx, b)) THEN <<>> ELSE Append(driver[a].rx, b)
          /\ Parsing(receive(driver[a], a, b).rx)
      BY <1>2, <2>2, ReceiveFacts
    <2> QED
      BY <2>1, <2>3, Zenon
  <1>6. driver' \in [Drivers -> DriverType]
    BY <1>3, <1>5, Zenon
  <1>7. SerialTypeOK'
    BY <1>1, <1>2, <1>3, <1>6 DEF SerialTypeOK, DriverType
  <1>8. Lockstep'
    <2> SUFFICES ASSUME NEW a \in Drivers, NEW c \in Drivers PROVE driver'[a].rx = driver'[c].rx
      BY DEF Lockstep
    <2>1. driver[a].rx = driver[c].rx
      BY DEF SerialInv, Lockstep
    <2> QED
      BY <1>5, <2>1
  <1>9. OneAnswer'
    <2> SUFFICES ASSUME NEW r \in reply', NEW s \in reply' PROVE r = s
      BY DEF OneAnswer
    <2>1. PICK a \in Drivers : /\ Replies(driver[a], a, b)
                               /\ r = <<a, Answer(driver[a], Append(driver[a].rx, b)[3])>>
      BY <1>3, Zenon
    <2>2. PICK c \in Drivers : /\ Replies(driver[c], c, b)
                               /\ s = <<c, Answer(driver[c], Append(driver[c].rx, b)[3])>>
      BY <1>3, Zenon
    <2>3. a = c
      BY <2>1, <2>2, Zenon DEF Replies, SerialInv, Lockstep
    <2> QED
      BY <2>1, <2>2, <2>3
  <1>10. \A a \in Drivers : Parsing(driver'[a].rx)
    BY <1>5
  <1> QED
    BY <1>7, <1>8, <1>9, <1>10 DEF SerialInv

\* The guest's own steps do not reach the drivers.
LEMMA GuestPreserves ==
  ASSUME SerialInv,
         driver' = driver, reply' = reply, frame' \in Seq(Bytes),
         expected' \in [Drivers -> FileType], broken' \in BOOLEAN
  PROVE  SerialInv'
  BY DEF SerialInv, SerialTypeOK, Lockstep, OneAnswer

\* A read request that begins preserves the invariant.
LEMMA BeginReadPreserves ==
  ASSUME SerialInv, NEW a \in Drivers, NEW r \in Used, BeginRead(a, r) PROVE SerialInv'
  <1>1. 0 \in Bytes /\ a \in Bytes /\ r \in Bytes
    BY SerialAssumption DEF Bytes, Registers
  <1>2. <<0, a, r, 0>> \in Seq(Bytes)
    BY <1>1
  <1> QED
    BY <1>2, GuestPreserves, Zenon DEF BeginRead, SerialInv, SerialTypeOK

\* So does a write that begins.
LEMMA BeginWritePreserves ==
  ASSUME SerialInv, NEW a \in Drivers, NEW r \in Used, NEW v \in Data, BeginWrite(a, r, v)
  PROVE  SerialInv'
  <1>1. 0 \in Bytes /\ a \in Bytes /\ v \in Bytes /\ WriteBit + r \in Bytes /\ r \in Registers
    BY SerialAssumption DEF Bytes, Registers
  <1>2. <<0, a, WriteBit + r, v, v, v, v, 0>> \in Seq(Bytes)
    BY <1>1
  <1>3. <<v, v, v, v>> \in [1 .. 4 -> Bytes]
    BY <1>1
  <1>4. expected \in [Drivers -> FileType] /\ broken \in BOOLEAN
    BY DEF SerialInv, SerialTypeOK
  <1>5. Store(expected[a], r, <<v, v, v, v>>) \in FileType
    BY <1>1, <1>3, <1>4, StoreType
  <1>6. expected' \in [Drivers -> FileType]
    BY <1>4, <1>5 DEF BeginWrite
  <1> QED
    BY <1>2, <1>4, <1>6, GuestPreserves DEF BeginWrite

\* So does a reset of the firmware in the middle of a datagram.
LEMMA RestartPreserves == ASSUME SerialInv, Restart PROVE SerialInv'
  <1>2. <<>> \in Seq(Bytes)
    OBVIOUS
  <1>4. AllPowerOn \in [Drivers -> FileType]
    BY PowerOnType DEF AllPowerOn
  <1>5. expected \in [Drivers -> FileType] /\ broken \in BOOLEAN
    BY DEF SerialInv, SerialTypeOK
  <1>6. expected' \in [Drivers -> FileType] /\ broken' \in BOOLEAN
    BY <1>4, <1>5, Zenon DEF Restart
  <1> QED
    BY <1>2, <1>6, GuestPreserves DEF Restart

(***************************************************************************)
(* The theorems.                                                           *)
(***************************************************************************)
\* The inductive invariant: types, the position in the datagram and what byte 2
\* says about it, equal buffers, a single answer.
THEOREM SerialInvariant == SerialSpec => []SerialInv
  <1>1. SerialInv /\ [SerialNext]_serialVars => SerialInv'
    <2> SUFFICES ASSUME SerialInv, [SerialNext]_serialVars PROVE SerialInv'
      OBVIOUS
    <2>1. CASE UNCHANGED serialVars
      BY <2>1 DEF serialVars, SerialInv, SerialTypeOK, Lockstep, OneAnswer
    <2>2. CASE SerialNext
      BY <2>2, BeginReadPreserves, BeginWritePreserves, SendPreserves, RestartPreserves DEF SerialNext
    <2> QED
      BY <2>1, <2>2
  <1> QED
    BY <1>1, SerialInitInv, PTL DEF SerialSpec

\* tmc2209_receive never writes past rx_buffer, whatever is sent and wherever a
\* reset cuts a datagram.
THEOREM SerialStaysInBuffer == SerialSpec => []RxPosInBuffer
  <1>1. SerialInv => RxPosInBuffer
    BY DEF SerialInv, RxPosInBuffer, Parsing
  <1> QED
    BY <1>1, SerialInvariant, PTL

\* Drivers that hear the same line parse it alike, and no two answer the same
\* byte, for any number of drivers (tmc2209_receive, tmc2209_serial_read).
THEOREM SerialLineInStep == SerialSpec => []LineInStep
  <1>1. SerialInv => LineInStep
    BY DEF SerialInv, LineInStep
  <1> QED
    BY <1>1, SerialInvariant, PTL

(***************************************************************************)
(* What the datagrams do to the registers.                                 *)
(***************************************************************************)
\* The bytes of a datagram as a driver has and will have them: a read request, or a
\* write request whose effect on driver a's registers f gives e.
IsRead(w) == Len(w) = 4 /\ ~IsWrite(w[3])
WriteGives(w, a, f, e) ==
  /\ Len(w) = 8 /\ IsWrite(w[3])
  /\ e = IF w[2] = a THEN Store(f, w[3] - WriteBit, SubSeq(w, 4, 7)) ELSE f

\* Between datagrams the registers are as expected; inside one they are so once
\* the bytes still to go have arrived.
OnTheWay(a) ==
  IF frame = <<>>
  THEN driver[a].rx = <<>> /\ driver[a].file = expected[a]
  ELSE \/ IsRead(driver[a].rx \o frame) /\ driver[a].file = expected[a]
       \/ WriteGives(driver[a].rx \o frame, a, driver[a].file, expected[a])

EffectInv == ~broken => \A a \in Drivers : OnTheWay(a)

\* What tmc2209_receive does to the registers of one driver.
LEMMA ReceiveFile ==
  ASSUME NEW d \in DriverType, NEW a, NEW b \in Bytes
  PROVE  receive(d, a, b).file =
           IF Completes(Append(d.rx, b)) /\ IsWrite(Append(d.rx, b)[3]) /\ Append(d.rx, b)[2] = a
           THEN write(d, Append(d.rx, b)).file
           ELSE d.file
  <1> DEFINE x == Append(d.rx, b)
  <1> DEFINE t == IF IsWrite(x[3]) /\ x[2] = a THEN write(d, x) ELSE d
             new == Store(d.file, x[3] - WriteBit, SubSeq(x, 4, 7))
  <1>1. write(d, x) = [d EXCEPT !.file = new]
    BY DEF write
  <1>2. receive(d, a, b) = IF Completes(x) THEN [t EXCEPT !.rx = <<>>] ELSE [d EXCEPT !.rx = x]
    BY DEF receive
  <1>3. t = IF IsWrite(x[3]) /\ x[2] = a THEN [d EXCEPT !.file = new] ELSE d
    BY <1>1
  <1>4. t.file = IF IsWrite(x[3]) /\ x[2] = a THEN new ELSE d.file
    BY <1>3, Zenon DEF DriverType
  <1>5. \A s, y : [[d EXCEPT !.file = s] EXCEPT !.rx = y].file = s
    BY DEF DriverType
  <1>6. \A y : [d EXCEPT !.rx = y].file = d.file
    BY DEF DriverType
  <1> HIDE DEF t, new
  <1>7. receive(d, a, b).file = IF Completes(x) /\ IsWrite(x[3]) /\ x[2] = a THEN new ELSE d.file
    BY <1>2, <1>3, <1>5, <1>6, Zenon
  <1>8. write(d, x).file = new
    BY <1>1 DEF DriverType
  <1> HIDE DEF x
  <1> QED BY <1>7, <1>8 DEF x

\* A byte moves from the guest's side of the datagram to the driver's.
LEMMA ByteMoves ==
  ASSUME NEW s \in Seq(Bytes), NEW f \in Seq(Bytes), f # <<>>
  PROVE  /\ Append(s, Head(f)) \o Tail(f) = s \o f
         /\ s \o f \in Seq(Bytes) /\ Append(s, Head(f)) \in Seq(Bytes)
         /\ Len(s \o f) = Len(Append(s, Head(f))) + Len(Tail(f))
         /\ \A i \in 1 .. Len(Append(s, Head(f))) : Append(s, Head(f))[i] = (s \o f)[i]
         /\ Tail(f) = <<>> => Append(s, Head(f)) = s \o f
         /\ Tail(f) # <<>> => Len(Tail(f)) > 0
         /\ Head(f) \in Bytes /\ Tail(f) \in Seq(Bytes)
  <1>1. Head(f) \in Bytes /\ Tail(f) \in Seq(Bytes) /\ Len(f) = Len(Tail(f)) + 1
    BY SeqFacts
  <1> DEFINE h == Head(f)
             t == Tail(f)
  <1>2. f = <<h>> \o t
    BY <1>1
  <1> HIDE DEF h, t
  <1>3. Append(s, h) \o t = s \o (<<h>> \o t)
    BY <1>1 DEF h, t
  <1>4. Append(s, h) \in Seq(Bytes) /\ t \in Seq(Bytes) /\ s \o f \in Seq(Bytes)
    BY <1>1 DEF h, t
  <1>5. Append(s, h) \o t = s \o f
    BY <1>2, <1>3
  <1>6. /\ Len(s \o f) = Len(Append(s, h)) + Len(t)
        /\ \A i \in 1 .. Len(Append(s, h)) : Append(s, h)[i] = (s \o f)[i]
    BY <1>4, <1>5
  <1>7. t = <<>> => Append(s, h) = s \o f
    BY <1>4, <1>5
  <1>8. t # <<>> => Len(t) > 0
    BY <1>4, SeqFacts
  <1> QED BY <1>1, <1>4, <1>5, <1>6, <1>7, <1>8 DEF h, t

\* One more byte of the datagram on the line.
LEMMA SendEffect == ASSUME SerialInv, EffectInv, Send PROVE EffectInv'
  <1> SUFFICES ASSUME ~broken, NEW a \in Drivers
               PROVE  OnTheWay(a)'
    BY DEF EffectInv, Send
  <1> DEFINE d == driver[a]
             b == Head(frame)
             rx == Append(d.rx, b)
             w == d.rx \o frame
  <1>1. /\ d \in DriverType /\ d.rx \in Seq(Bytes) /\ Parsing(d.rx) /\ frame \in Seq(Bytes) /\ frame # <<>>
    BY DEF SerialInv, SerialTypeOK, DriverType, Send
  <1>2. /\ rx \o Tail(frame) = w
        /\ w \in Seq(Bytes) /\ rx \in Seq(Bytes)
        /\ Len(w) = Len(rx) + Len(Tail(frame))
        /\ \A i \in 1 .. Len(rx) : rx[i] = w[i]
        /\ Tail(frame) = <<>> => rx = w
        /\ Tail(frame) # <<>> => Len(Tail(frame)) > 0
        /\ b \in Bytes /\ Tail(frame) \in Seq(Bytes)
    BY <1>1, ByteMoves, Zenon
  <1>3. /\ driver'[a] = receive(d, a, b) /\ frame' = Tail(frame) /\ expected' = expected
    BY Zenon DEF Send, Hear
  <1>4. driver'[a].rx = IF Completes(rx) THEN <<>> ELSE rx
    <2> HIDE DEF d, b
    <2>1. receive(d, a, b).rx = IF Completes(rx) THEN <<>> ELSE rx
      BY <1>1, <1>2, ReceiveFacts
    <2> QED BY <1>3, <2>1
  <1>5. driver'[a].file = IF Completes(rx) /\ IsWrite(rx[3]) /\ rx[2] = a
                          THEN Store(d.file, rx[3] - WriteBit, SubSeq(rx, 4, 7))
                          ELSE d.file
    <2> HIDE DEF d, b
    <2>1. receive(d, a, b).file = IF Completes(rx) /\ IsWrite(rx[3]) /\ rx[2] = a THEN write(d, rx).file ELSE d.file
      BY <1>1, <1>2, ReceiveFile, Zenon
    <2>2. write(d, rx).file = Store(d.file, rx[3] - WriteBit, SubSeq(rx, 4, 7))
      BY <1>1, Zenon DEF write, DriverType
    <2> QED BY <1>3, <2>1, <2>2
  <1>6. \/ IsRead(w) /\ d.file = expected[a]
        \/ WriteGives(w, a, d.file, expected[a])
    BY <1>1, Zenon DEF EffectInv, OnTheWay
  <1>7. Len(rx) \in Nat /\ Len(w) \in Nat /\ Len(Tail(frame)) \in Nat
    BY <1>2, SeqFacts
  <1> HIDE DEF d, b, rx, w
  <1>8. Len(rx) >= 3 => rx[3] = w[3]
    BY <1>2, <1>7
  <1>9. CASE Tail(frame) = <<>>
    <2>1. rx = w
      BY <1>2, <1>9
    <2>2. Completes(w)
      BY <1>6 DEF IsRead, WriteGives, Completes
    <2>3. driver'[a].rx = <<>> /\ driver'[a].file = expected[a]
      BY <1>4, <1>5, <1>6, <2>1, <2>2 DEF IsRead, WriteGives
    <2> QED BY <1>3, <1>9, <2>3 DEF OnTheWay
  <1>10. CASE Tail(frame) # <<>>
    <2>1. Len(rx) < Len(w)
      BY <1>2, <1>7, <1>10
    <2>2. ~Completes(rx)
      <3>1. \/ Len(w) = 4 /\ ~IsWrite(w[3])
            \/ Len(w) = 8 /\ IsWrite(w[3])
        BY <1>6, Zenon DEF IsRead, WriteGives
      <3> QED BY <3>1, <1>7, <1>8, <2>1 DEF Completes
    <2>3. driver'[a].rx = rx /\ driver'[a].file = d.file /\ rx \o Tail(frame) = w
      BY <1>2, <1>4, <1>5, <2>2
    <2>4. driver'[a].rx \o frame' = w
      BY <1>3, <2>3
    <2> QED BY <1>3, <1>6, <1>10, <2>3, <2>4, Zenon DEF OnTheWay
  <1> QED BY <1>9, <1>10

\* A read request that begins: the registers will be what they are.
LEMMA BeginReadEffect ==
  ASSUME SerialInv, EffectInv, NEW a \in Drivers, NEW r \in Used, BeginRead(a, r)
  PROVE  EffectInv'
  <1> DEFINE w == <<0, a, r, 0>>
  <1>1. frame = <<>> /\ frame' = w /\ UNCHANGED <<driver, expected, broken>>
    BY DEF BeginRead
  <1>2. 0 \in Bytes /\ a \in Bytes /\ r \in Bytes /\ ~(r >= WriteBit)
    BY SerialAssumption DEF Bytes, Registers
  <1>3. w \in Seq(Bytes) /\ Len(w) = 4 /\ w[3] = r
    BY <1>2
  <1> HIDE DEF w
  <1>4. <<>> \o w = w /\ w # <<>> /\ IsRead(w)
    BY <1>2, <1>3 DEF IsRead, IsWrite
  <1>5. ASSUME ~broken, NEW c \in Drivers
        PROVE  OnTheWay(c)'
    <2>1. driver[c].rx = <<>> /\ driver[c].file = expected[c]
      BY <1>1, <1>5, Zenon DEF EffectInv, OnTheWay
    <2> QED BY <1>1, <1>4, <2>1 DEF OnTheWay
  <1> QED BY <1>1, <1>5 DEF EffectInv

\* A write request that begins: they will be what they are but for its register.
LEMMA BeginWriteEffect ==
  ASSUME SerialInv, EffectInv, NEW a \in Drivers, NEW r \in Used, NEW v \in Data, BeginWrite(a, r, v)
  PROVE  EffectInv'
  <1> DEFINE w == <<0, a, WriteBit + r, v, v, v, v, 0>>
             data == <<v, v, v, v>>
  <1>1. frame = <<>> /\ frame' = w /\ UNCHANGED <<driver, broken>>
    BY DEF BeginWrite
  <1>2. /\ 0 \in Bytes /\ a \in Bytes /\ v \in Bytes /\ WriteBit + r \in Bytes
        /\ r \in Nat /\ WriteBit \in Nat
    BY SerialAssumption DEF Bytes, Registers
  <1>3. w \in Seq(Bytes) /\ Len(w) = 8 /\ w[2] = a /\ w[3] = WriteBit + r
    BY <1>2
  <1>4. SubSeq(w, 4, 7) = data
    <2>1. w[4] = v /\ w[5] = v /\ w[6] = v /\ w[7] = v
      OBVIOUS
    <2> HIDE DEF w
    <2>2. SubSeq(w, 4, 7) = [i \in 1 .. 4 |-> w[i + 3]]
      BY <1>3
    <2>3. data = [i \in 1 .. 4 |-> v]
      OBVIOUS
    <2>4. \A i \in 1 .. 4 : w[i + 3] = v
      BY <2>1
    <2> QED BY <2>2, <2>3, <2>4, Zenon
  <1> HIDE DEF w, data
  <1>5. <<>> \o w = w /\ w # <<>>
    BY <1>3
  <1>6. w[3] - WriteBit = r /\ IsWrite(w[3])
    BY <1>2, <1>3 DEF IsWrite
  <1>7. ASSUME ~broken, NEW c \in Drivers
        PROVE  OnTheWay(c)'
    <2>1. driver[c].rx = <<>> /\ driver[c].file = expected[c]
      BY <1>1, <1>7, Zenon DEF EffectInv, OnTheWay
    <2>2. expected' = [expected EXCEPT ![a] = Store(expected[a], r, data)]
      BY <1>7 DEF BeginWrite, data
    <2>3. expected'[c] = IF a = c THEN Store(driver[c].file, r, data) ELSE driver[c].file
      BY <2>1, <2>2 DEF SerialInv, SerialTypeOK
    <2>4. WriteGives(w, c, driver[c].file, expected'[c])
      BY <1>3, <1>4, <1>6, <2>3, Zenon DEF WriteGives
    <2> QED BY <1>1, <1>5, <2>1, <2>4 DEF OnTheWay
  <1> QED BY <1>1, <1>7 DEF EffectInv

\* Every step preserves it.
LEMMA EffectNextInv == SerialInv /\ EffectInv /\ [SerialNext]_serialVars => EffectInv'
  <1> SUFFICES ASSUME SerialInv, EffectInv, [SerialNext]_serialVars
               PROVE  EffectInv'
    OBVIOUS
  <1>1. CASE Restart
    BY <1>1, Zenon DEF Restart, EffectInv, OnTheWay
  <1>2. CASE UNCHANGED serialVars
    BY <1>2, Zenon DEF serialVars, EffectInv, OnTheWay
  <1> QED BY <1>1, <1>2, SendEffect, BeginReadEffect, BeginWriteEffect DEF SerialNext

\* The end of each datagram finds the registers and the counters of writes as the
\* datagrams sent define them, for every set of drivers, registers and data
\* (tmc2209_receive, tmc2209_write).
THEOREM SerialDatagramsTakeEffect == SerialSpec => []DatagramsTakeEffect
  <1>1. SerialInit => EffectInv
    BY DEF SerialInit, EffectInv, OnTheWay, AllPowerOn
  <1>2. EffectInv => DatagramsTakeEffect
    BY DEF EffectInv, OnTheWay, DatagramsTakeEffect
  <1> QED BY <1>1, <1>2, EffectNextInv, SerialInvariant, PTL DEF SerialSpec
==============================================================================
