------------------------------ MODULE Stm32Tim ------------------------------
(***************************************************************************)
(* The update half of a general timer                                      *)
(* (hw/arm/prusa/stm32f407/stm32f2xx_tim.c): CR1, DIER, SR, PSC, ARR, the  *)
(* timer of virtual time behind the counter and the interrupt line.  The   *)
(* period is computed anew, from the registers and from the clock of that  *)
(* moment, each time the timer is armed; with a clock that is too slow the *)
(* code divides by zero.  The PWM half is in HeaterDrive.                  *)
(***************************************************************************)
EXTENDS Integers

CONSTANTS
  TimFreqs,   \* frequencies the clock of the timer may have, 0 when it is off
  Giga,       \* 1000000000UL in the code
  TimWord,    \* 2^32
  PSCs, ARRs  \* values of PSC and ARR

ASSUME TimAssumption == 0 \in PSCs \cap ARRs \cap TimFreqs /\ TimWord > 0

VARIABLES
  tim,        \* CEN, UIE, UIF, PSC and ARR
  left,       \* time left until f2xx_tim_timer runs
  line,       \* s->irq
  freq,       \* stm32_rcc_get_periph_freq
  trapped     \* the emulator has divided by zero

timVars == <<tim, left, line, freq, trapped>>

NotArmed == -1

\* The divisor of f2xx_tim_period
TimRate == freq \div (tim.PSC + 1)

\* f2xx_tim_next_transition less the current time: a product of 32 bits
Transition == ((Giga \div TimRate) * (tim.ARR + 1)) % TimWord

\* timer_mod(s->timer, f2xx_tim_next_transition(s, now))
Arm == IF TimRate = 0 THEN trapped' = TRUE /\ UNCHANGED left
       ELSE left' = Transition /\ UNCHANGED trapped

(***************************************************************************)
(* Guest writes; one that changes nothing returns at once.                 *)
(***************************************************************************)
WriteCR1(cen) ==
  /\ ~trapped /\ cen # tim.CEN
  /\ tim' = [tim EXCEPT !.CEN = cen]
  /\ IF cen THEN Arm ELSE left' = NotArmed /\ UNCHANGED trapped
  /\ UNCHANGED <<line, freq>>

\* DIER, PSC, ARR: stored, for the next time the timer is armed or runs out.
WriteStored(t) ==
  /\ ~trapped /\ t # tim
  /\ tim' = t
  /\ UNCHANGED <<left, line, freq, trapped>>

\* SR is written with UIF clear: regs &= data, and the line goes down.
WriteSR ==
  /\ ~trapped /\ tim.UIF
  /\ tim' = [tim EXCEPT !.UIF = FALSE]
  /\ line' = FALSE
  /\ UNCHANGED <<left, freq, trapped>>

\* Faulty form: the timer is armed again by the guest's next write.
Expire_once ==
  /\ ~trapped /\ left = 0
  /\ left' = NotArmed
  /\ tim' = [tim EXCEPT !.UIF = TRUE]
  /\ line' = (line \/ tim.UIE)
  /\ UNCHANGED <<freq, trapped>>

\* f2xx_tim_timer
Expire ==
  /\ ~trapped /\ left = 0
  /\ IF tim.CEN THEN Arm ELSE left' = NotArmed /\ UNCHANGED trapped
  /\ tim' = [tim EXCEPT !.UIF = IF trapped' THEN @ ELSE TRUE]
  /\ line' = IF tim.UIE /\ ~trapped' THEN TRUE ELSE line
  /\ UNCHANGED freq

TimReset == [CEN |-> FALSE, UIE |-> FALSE, UIF |-> FALSE, PSC |-> 0, ARR |-> 0]

\* f2xx_tim_reset: the timer is deleted, the line stays as it is.
ResetTim ==
  /\ ~trapped
  /\ tim' = TimReset
  /\ left' = NotArmed
  /\ UNCHANGED <<line, freq, trapped>>

\* RCC changes the clock; the timer is not told.
SetFreq(f) == ~trapped /\ f # freq /\ freq' = f /\ UNCHANGED <<tim, left, line, trapped>>

TimTick ==
  /\ ~trapped /\ left > 0
  /\ left' = left - 1
  /\ UNCHANGED <<tim, line, freq, trapped>>

TimInit ==
  /\ tim = TimReset /\ left = NotArmed /\ line = FALSE
  /\ freq \in TimFreqs
  /\ trapped = FALSE

TimNext ==
  \/ \E cen \in BOOLEAN : WriteCR1(cen)
  \/ \E uie \in BOOLEAN : WriteStored([tim EXCEPT !.UIE = uie])
  \/ \E psc \in PSCs : WriteStored([tim EXCEPT !.PSC = psc])
  \/ \E arr \in ARRs : WriteStored([tim EXCEPT !.ARR = arr])
  \/ WriteSR
  \/ \E f \in TimFreqs : SetFreq(f)
  \/ ResetTim
  \/ TimTick
  \/ Expire
  \/ trapped /\ UNCHANGED timVars   \* the emulator has ended

\* Virtual time passes and a timer that is due runs.
TimSpec == TimInit /\ [][TimNext]_timVars /\ WF_timVars(TimTick) /\ WF_timVars(Expire)

(***************************************************************************)
(* Properties.                                                             *)
(***************************************************************************)
\* A counter that is left running with its interrupt enabled raises the line again
\* after every acknowledgement, across changes of PSC, ARR and the clock, or the
\* clock is slower than the prescaler and the emulator ends.
UpdatesGoOn == []<>line \/ []<>(~tim.CEN \/ ~tim.UIE) \/ <>trapped
=============================================================================
