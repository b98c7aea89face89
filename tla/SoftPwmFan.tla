----------------------------- MODULE SoftPwmFan -----------------------------
(***************************************************************************)
(* A fan (hw/arm/prusa/parts/fan.c) driven by a pin of GPIO port E that    *)
(* the firmware switches by software.  The fan infers its duty from the    *)
(* length of the last pulse; a timer makes up for a pin that stays as it   *)
(* is, and another one produces the tachometer pulses the firmware counts. *)
(* All times are in units of the tachometer; the speed is the duty.        *)
(***************************************************************************)
EXTENDS Integers

CONSTANTS
  Cycle,        \* 50 ms: a full cycle of the software PWM
  FanTimeout,  \* 200 ms
  Pulse        \* usec_per_pulse of each duty, zero included for the hotend's fan

ASSUME FanAssumption == /\ {Cycle, FanTimeout} \subseteq Nat \ {0}
                        /\ Pulse \in [0 .. Cycle -> Nat \ {0}]

VARIABLES
  last_level,   \* the level of the pin
  onFor,        \* time since tOn, or Unknown
  softpwm_left, \* time left of the two timers
  tach_left,
  speed,        \* current_rpm as a duty in 0 .. Cycle
  pulse_state,  \* the level of the tachometer but for a stall
  tach_pulse,   \* the tachometer's line
  is_stalled,
  is_nonlinear, \* the hotend's fan: fan_corrections are added to current_rpm
  still,        \* history: time since the pin last changed, up to FanTimeout
  lull          \* history: time a fan that turns has given no edge of tach_pulse, counted
                \* anew from each call of fan_pwm_change, Stall and Resume

tachVars == <<pulse_state, tach_pulse>>

fanVars == <<last_level, onFor, softpwm_left, tach_left, speed, tachVars, is_stalled,
             is_nonlinear, still, lull>>

Idle == -1      \* the timer is not pending
Unknown == -1   \* tOn = 0: the time since the emulator was started

\* current_rpm > 0: the corrections of every level are positive, that of zero too.
Turns(level) == level > 0 \/ is_nonlinear

\* fan_pwm_change: each call starts the tachometer's timer anew, pending or not.
fan_pwm_change(level) ==
  /\ speed' = level
  /\ tach_left' = IF Turns(level) THEN Pulse[level] ELSE Idle
  /\ lull' = 0

\* The duty of a pulse; one that is longer than a cycle counts from the last
\* full cycle.
Duty(t) == CASE t = Unknown -> 0 .. Cycle
             [] t > Cycle -> {t % Cycle}
             [] OTHER -> {t}

\* fan_pwm_change_soft
Rise ==
  /\ ~last_level
  /\ last_level' = TRUE
  /\ onFor' = 0
  /\ softpwm_left' = FanTimeout
  /\ still' = 0
  /\ UNCHANGED <<tach_left, speed, tachVars, is_stalled, is_nonlinear, lull>>

Fall ==
  /\ last_level
  /\ last_level' = FALSE
  /\ \E duty \in Duty(onFor) : fan_pwm_change(duty)
  /\ softpwm_left' = FanTimeout
  /\ still' = 0
  /\ UNCHANGED <<onFor, tachVars, is_stalled, is_nonlinear>>

\* Faulty form: the fan takes the pin for low.
fan_softpwm_timeout_off ==
  /\ softpwm_left = 0
  /\ fan_pwm_change(0)
  /\ onFor' = Unknown
  /\ softpwm_left' = Idle
  /\ UNCHANGED <<last_level, tachVars, is_stalled, is_nonlinear, still>>

\* fan_softpwm_timeout
fan_softpwm_timeout ==
  /\ softpwm_left = 0
  /\ fan_pwm_change(IF last_level THEN Cycle ELSE 0)
  /\ onFor' = Unknown
  /\ softpwm_left' = Idle
  /\ UNCHANGED <<last_level, tachVars, is_stalled, is_nonlinear, still>>

\* fan_tach_expire: the line of a stalled fan falls, and pulse_state keeps its value.
fan_tach_expire ==
  /\ tach_left = 0
  /\ pulse_state' = (pulse_state # ~is_stalled)
  /\ tach_pulse' = (~is_stalled /\ pulse_state')
  /\ tach_left' = Pulse[speed]
  /\ lull' = IF tach_pulse' # tach_pulse THEN 0 ELSE lull
  /\ UNCHANGED <<last_level, onFor, softpwm_left, speed, is_stalled, is_nonlinear, still>>

\* fan_process_action: Stall and Resume
Stall(on) ==
  /\ is_stalled' = on
  /\ lull' = 0
  /\ UNCHANGED <<last_level, onFor, softpwm_left, tach_left, speed, tachVars, is_nonlinear, still>>

Passed(t) == IF t = Idle THEN t ELSE t - 1

\* Beyond two cycles only the time within the cycle matters.
FanTime ==
  /\ softpwm_left # 0 /\ tach_left # 0
  /\ softpwm_left' = Passed(softpwm_left)
  /\ tach_left' = Passed(tach_left)
  /\ onFor' = IF onFor = Unknown THEN Unknown
              ELSE IF onFor = 2 * Cycle THEN Cycle + 1 ELSE onFor + 1
  /\ still' = IF still < FanTimeout THEN still + 1 ELSE still
  /\ lull' = IF speed > 0 /\ ~is_stalled THEN lull + 1 ELSE 0
  /\ UNCHANGED <<last_level, speed, tachVars, is_stalled, is_nonlinear>>

FanInit ==
  /\ last_level = FALSE /\ onFor = Unknown /\ softpwm_left = Idle /\ tach_left = Idle
  /\ speed = 0 /\ pulse_state = FALSE /\ tach_pulse = FALSE
  /\ is_stalled = FALSE /\ is_nonlinear \in BOOLEAN /\ still = FanTimeout /\ lull = 0

FanNext ==
  \/ Rise
  \/ Fall
  \/ fan_softpwm_timeout
  \/ fan_tach_expire
  \/ \E on \in BOOLEAN : Stall(on)
  \/ FanTime

FanSpec == FanInit /\ [][FanNext]_fanVars

(***************************************************************************)
(* Properties.                                                             *)
(***************************************************************************)
\* A pin that has not changed for the length of the timeout is what the fan runs by,
\* at full speed or not at all, once the timer that is due has run.
RunsByPin ==
  still = FanTimeout /\ softpwm_left # 0 => speed = (IF last_level THEN Cycle ELSE 0)

\* A fan that turns and is not stalled gives an edge of the tachometer within two
\* pulses, counted from its last edge, its last stall or resume, or the last time
\* its duty was set.  That last clause is needed: fan_pwm_change starts the timer anew
\* each time (fan.c:97), where the comment says "Restart the timer if it has expired,
\* otherwise leave it be", so a fan whose pin falls again within each pulse, as at a
\* low duty, gives no edge at all.
PulsesWhenTurning == speed > 0 /\ ~is_stalled => lull <= 2 * Pulse[speed]

\* The tachometer gives no edge for a print fan that has stopped and does not rise for
\* one that is stalled.  (The hotend's fan pulses for ever once it was switched.)
NoFalsePulse == tach_pulse' # tach_pulse => /\ speed > 0 \/ is_nonlinear
                                            /\ tach_pulse' => ~is_stalled

\* The fan follows its pin and the firmware can tell from the tachometer whether it
\* turns (fan_pwm_change_soft with its two timers).
FanFollowsPin == [][RunsByPin' /\ PulsesWhenTurning' /\ NoFalsePulse]_fanVars
=============================================================================
