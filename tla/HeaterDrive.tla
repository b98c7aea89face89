----------------------------- MODULE HeaterDrive -----------------------------
(***************************************************************************)
(* A heater (hw/arm/prusa/parts/heater.c) and the PWM channel of TIM3 that *)
(* drives it (stm32f2xx_tim.c, wired in prusa-mini.c).  The heater has two *)
(* timers: one makes up for the end of the pulses, the other heats and     *)
(* cools and stops when there is nothing left to do, to be started again   *)
(* by whatever gives it work.                                              *)
(*                                                                         *)
(* A PWM value is zero or not; a temperature is a number of levels above   *)
(* the ambient one, of which level 0 reaches up to 0.3 degrees and -1 is   *)
(* anything below.                                                         *)
(***************************************************************************)
EXTENDS Integers

CONSTANTS
  FirstTick, Period,      \* 1 ms and 250 ms: the heating timer
  OnTimeout, OffTimeout,  \* 500 ms and 3000 ms: the end of the pulses
  FullScale,              \* 255
  CCRs, HeaterARRs,       \* values the guest stores in CCR4 and in ARR
  MaxTemp,                \* bound: the highest level, and all above it
  MaxActs                 \* bound: script actions

ASSUME HeaterAssumption ==
  {FirstTick, Period, OnTimeout, OffTimeout, MaxTemp} \subseteq Nat \ {0} /\ 0 \in HeaterARRs

VARIABLES
  heater,      \* the heater's state
  temp_tick,   \* time left of the two timers
  softpwm,
  CCER,        \* CC4E and CC4P of the channel
  divided,     \* the emulator has divided by zero
  acts,        \* script actions so far
  forced       \* history: a script set the temperature while nothing was ticking

heaterVars == <<heater, temp_tick, softpwm, CCER, divided, acts, forced>>

NotPending == -1

\* usedpwmval
Used(h) == CASE h.mode = "normal" -> h.pwm [] h.mode = "runaway" -> TRUE [] OTHER -> FALSE

\* The heating timer is started unless it runs.
Tickle == IF heater.is_ticking THEN UNCHANGED temp_tick ELSE temp_tick' = FirstTick

\* heater_pwm_change.  The PWM value is the length of the pulse in ms, of which
\* eight bits are kept: a pulse of any length may leave zero.
heater_pwm_change(level) ==
  /\ \E pwm \in IF level THEN {heater.pwm} ELSE BOOLEAN :
       heater' = [heater EXCEPT !.pwm = pwm, !.timeout_level = level, !.is_ticking = TRUE]
  /\ softpwm' = IF level THEN OnTimeout ELSE OffTimeout
  /\ Tickle

(***************************************************************************)
(* The guest.  What it stores in CCMR2, CCR4 and ARR has no effect before  *)
(* it changes the channel's bits of CCER; an enabled channel in PWM mode   *)
(* then sends its ratio, and a channel that is switched off nothing.       *)
(***************************************************************************)
Ratio(ccr, arr, low) == IF low THEN FullScale - (ccr * FullScale) \div arr
                        ELSE (ccr * FullScale) \div arr

WriteCCER(v, OC4M, ccr, arr) ==
  LET sends == "CC4E" \in v /\ OC4M = 6
  IN  /\ ~divided /\ v # CCER
      /\ CCER' = v
      /\ divided' = (sends /\ arr = 0)
      /\ IF sends /\ arr # 0 THEN heater_pwm_change(Ratio(ccr, arr, "CC4P" \in v) # 0)
         ELSE UNCHANGED <<heater, softpwm, temp_tick>>
      /\ UNCHANGED <<acts, forced>>

\* heater_softpwm_timeout
SoftTimeout ==
  /\ ~divided /\ softpwm = 0
  /\ heater' = [heater EXCEPT !.pwm = heater.timeout_level, !.is_ticking = TRUE]
  /\ softpwm' = NotPending
  /\ Tickle
  /\ UNCHANGED <<CCER, divided, acts, forced>>

\* A step up or not at all when heating, since a small PWM value heats little;
\* towards the ambient temperature when cooling.
Heated(t) == IF t < MaxTemp THEN {t, t + 1} ELSE {t}
Cooled(t) == IF t > 0 THEN {t - 1} ELSE {t}

\* Faulty form: the heater stops ticking as soon as its power is off.
TempTick_cold ==
  /\ ~divided /\ temp_tick = 0
  /\ LET used == Used(heater)
     IN  \E t \in IF used \/ heater.lastpwm THEN Heated(heater.temp) ELSE Cooled(heater.temp) :
           /\ heater' = [heater EXCEPT !.temp = t, !.lastpwm = used, !.is_ticking = used]
           /\ temp_tick' = IF used THEN Period ELSE NotPending
  /\ UNCHANGED <<softpwm, CCER, divided, acts, forced>>

\* heater_temp_tick_expire
TempTick ==
  /\ ~divided /\ temp_tick = 0
  /\ LET used == Used(heater)
     IN  \E t \in IF used \/ heater.lastpwm THEN Heated(heater.temp) ELSE Cooled(heater.temp) :
           LET on == used \/ t > 0
           IN  /\ heater' = [heater EXCEPT !.temp = IF on THEN t ELSE 0, !.lastpwm = used,
                                           !.is_ticking = on]
               /\ temp_tick' = IF on THEN Period ELSE NotPending
               /\ forced' = (forced /\ on)
  /\ UNCHANGED <<softpwm, CCER, divided, acts>>

\* heater_process_action: Restore, Runaway, Open.  Only Runaway looks whether the
\* heater has to be woken, which it leaves to the timeout of the pulses.
SetMode(mode) ==
  /\ ~divided /\ acts < MaxActs
  /\ heater' = [heater EXCEPT !.mode = mode]
  /\ softpwm' = IF mode = "runaway" /\ ~heater.is_ticking THEN OnTimeout ELSE softpwm
  /\ acts' = acts + 1
  /\ UNCHANGED <<temp_tick, CCER, divided, forced>>

SetTemp(t) ==
  /\ ~divided /\ acts < MaxActs
  /\ heater' = [heater EXCEPT !.temp = t]
  /\ acts' = acts + 1
  /\ forced' = (forced \/ ~heater.is_ticking)
  /\ UNCHANGED <<temp_tick, softpwm, CCER, divided>>

\* heater_reset and f2xx_tim_reset: the heater keeps its power and its timers.
ResetHeater ==
  /\ ~divided
  /\ heater' = [heater EXCEPT !.temp = 0]
  /\ CCER' = {}
  /\ forced' = FALSE
  /\ UNCHANGED <<temp_tick, softpwm, divided, acts>>

Left(t) == IF t = NotPending THEN t ELSE t - 1

HeaterTime ==
  /\ ~divided /\ temp_tick # 0 /\ softpwm # 0
  /\ temp_tick' = Left(temp_tick)
  /\ softpwm' = Left(softpwm)
  /\ UNCHANGED <<heater, CCER, divided, acts, forced>>

HeaterInit ==
  /\ heater = [pwm |-> FALSE, lastpwm |-> FALSE, timeout_level |-> FALSE, mode |-> "normal",
               is_ticking |-> FALSE, temp |-> 0]
  /\ temp_tick = NotPending /\ softpwm = NotPending
  /\ CCER = {} /\ divided = FALSE /\ acts = 0 /\ forced = FALSE

HeaterNext ==
  \/ \E v \in SUBSET {"CC4E", "CC4P"}, m \in {0, 6, 7}, ccr \in CCRs, arr \in HeaterARRs :
       WriteCCER(v, m, ccr, arr)
  \/ SoftTimeout
  \/ TempTick
  \/ \E mode \in {"normal", "runaway", "open"} : SetMode(mode)
  \/ \E t \in {-1, MaxTemp} : SetTemp(t)
  \/ ResetHeater
  \/ HeaterTime
  \/ divided /\ UNCHANGED heaterVars   \* the emulator has ended

\* Virtual time passes and timers that are due run.
HeaterSpec == /\ HeaterInit /\ [][HeaterNext]_heaterVars
              /\ WF_heaterVars(HeaterTime) /\ WF_heaterVars(SoftTimeout) /\ WF_heaterVars(TempTick)

(***************************************************************************)
(* Properties.                                                             *)
(***************************************************************************)
\* A heater that was told to be off and is left alone cools down and comes to
\* rest, whatever pulses, timeouts, resets and script actions went before, unless
\* a script makes it run away or gave it a temperature while at rest.  (A guest
\* that keeps telling it to be off may keep it hot: each time the PWM value is the
\* time since the last pulse began.)
ColdAfterOff ==
  (/\ <>[](~heater.timeout_level /\ heater.mode # "runaway" /\ ~forced /\ ~divided)
   /\ <>[][CCER' = CCER]_CCER)
    => <>[](heater.temp = 0 /\ temp_tick = NotPending)
=============================================================================
