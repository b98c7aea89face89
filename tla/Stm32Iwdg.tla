------------------------------ MODULE Stm32Iwdg ------------------------------
(***************************************************************************)
(* The independent watchdog (hw/arm/prusa/stm32f407/stm32f4xx_iwdg.c), the *)
(* LSI oscillator it is clocked by and the reset of the machine it asks    *)
(* for.  The timer is the time left until it fires.                        *)
(***************************************************************************)
EXTENDS Integers

CONSTANTS
  PRs,       \* values of PR
  RLs,       \* values of RLR
  MaxRL,     \* 0xFFF in the code: RLR after a reset
  Mega,      \* 1000000U in the code
  ClkRate,   \* 32000 in the code: frequency of LSI when it is on
  MaxDelay   \* bound of the history since: the longest delay

\* stm32f4xx_iwdg_update: prescale, tickrate and delay_us.
Delay(pr, rl) == (Mega * rl) \div (ClkRate \div (4 * 2^pr))

ASSUME IwdgAssumption == /\ 0 \in PRs
                         /\ MaxRL \in RLs
                         /\ \A pr \in PRs, rl \in RLs : Delay(pr, rl) \in 0 .. MaxDelay
                         /\ MaxDelay \in Nat

VARIABLES
  wd,        \* the watchdog
  lsi,       \* LSION: LSI is on
  request,   \* qemu_system_reset_request is outstanding
  since,     \* history: time since the watchdog was last started, refreshed or set up
  steady     \* history: LSI has been on ever since the watchdog was started

iwdgVars == <<wd, lsi, request, since, steady>>

Stopped == -1   \* the timer is not pending
Keys == {"start", "refresh", "unlock", "other"}   \* 0xCCCC, 0xAAAA, 0x5555, any other

WdReset == [key |-> "other", pr |-> 0, rl |-> MaxRL, started |-> FALSE, timer |-> Stopped]

(***************************************************************************)
(* Functions of the code.                                                  *)
(***************************************************************************)
\* stm32f4xx_iwdg_update
update(w, on) == IF w.started /\ on THEN [w EXCEPT !.timer = Delay(w.pr, w.rl)] ELSE w

\* stm32f4xx_iwdg_write to KR; the start falls through to the refresh.
KRWrite(w, on, k) ==
  LET v == [w EXCEPT !.key = k, !.started = IF k = "start" THEN TRUE ELSE @]
  IN  IF k \in {"start", "refresh"} THEN update(v, on) ELSE v

\* Faulty form: new values wait for the next refresh.
PRWrite_lazy(w, on, x) == IF w.key # "unlock" THEN w ELSE [w EXCEPT !.pr = x]

\* stm32f4xx_iwdg_write to PR and to RLR
PRWrite(w, on, x) == IF w.key # "unlock" THEN w ELSE update([w EXCEPT !.pr = x], on)
RLRWrite(w, on, x) == IF w.key # "unlock" THEN w ELSE update([w EXCEPT !.rl = x], on)

\* stm32f4xx_iwdg_reset
iwdg_reset(w) == WdReset

(***************************************************************************)
(* Actions.                                                                *)
(***************************************************************************)
IwdgInit ==
  /\ wd = WdReset
  /\ lsi = FALSE
  /\ request = FALSE
  /\ since = 0
  /\ steady = TRUE

\* A write by the guest leaves the watchdog in state w; served tells whether it
\* is one that starts the count anew.
Write(w, served) ==
  /\ wd' = w
  /\ since' = IF served THEN 0 ELSE since
  /\ steady' = (steady /\ (w.started => lsi))
  /\ UNCHANGED <<lsi, request>>

WriteKR(k) == Write(KRWrite(wd, lsi, k), k \in {"start", "refresh"})
WritePR(x) == Write(PRWrite(wd, lsi, x), wd.key = "unlock")
WriteRLR(x) == Write(RLRWrite(wd, lsi, x), wd.key = "unlock")

\* stm32_rcc_RCC_CSR_write: LSI on or off; the watchdog is not told.
WriteCSR(on) ==
  /\ lsi' = on
  /\ steady' = (steady /\ (wd.started => on))
  /\ UNCHANGED <<wd, request, since>>

\* Time passes while no timer is due.
IwdgTick ==
  /\ wd.timer # 0
  /\ wd' = [wd EXCEPT !.timer = IF @ = Stopped THEN Stopped ELSE @ - 1]
  /\ since' = IF since < MaxDelay THEN since + 1 ELSE since
  /\ UNCHANGED <<lsi, request, steady>>

\* Faulty form: the event is reported and no reset asked for.
Fire_silent ==
  /\ wd.timer = 0
  /\ wd' = [wd EXCEPT !.timer = Stopped]
  /\ UNCHANGED <<lsi, request, since, steady>>

\* stm32f4xx_iwdg_fire
Fire ==
  /\ wd.timer = 0
  /\ wd' = [wd EXCEPT !.timer = Stopped]
  /\ request' = TRUE
  /\ UNCHANGED <<lsi, since, steady>>

\* The main loop serves the request, or the guest resets itself: LSI is off.
Reset ==
  /\ wd' = iwdg_reset(wd)
  /\ lsi' = FALSE
  /\ request' = FALSE
  /\ since' = 0
  /\ steady' = TRUE

IwdgNext ==
  \/ \E k \in Keys : WriteKR(k)
  \/ \E x \in PRs : WritePR(x)
  \/ \E x \in RLs : WriteRLR(x)
  \/ \E on \in BOOLEAN : WriteCSR(on)
  \/ IwdgTick
  \/ Fire
  \/ Reset

\* Time passes, timers that are due fire, and the main loop serves a request.
IwdgSpec == /\ IwdgInit /\ [][IwdgNext]_iwdgVars
            /\ WF_iwdgVars(IwdgTick) /\ WF_iwdgVars(Fire) /\ WF_iwdgVars(request /\ Reset)

(***************************************************************************)
(* Properties.                                                             *)
(***************************************************************************)
IwdgTypeOK ==
  /\ wd \in [key : Keys, pr : PRs, rl : RLs, started : BOOLEAN, timer : Nat \cup {Stopped}]
  /\ lsi \in BOOLEAN /\ request \in BOOLEAN /\ steady \in BOOLEAN
  /\ since \in Nat

\* The timer is pending only for a watchdog that was started and not reset since,
\* whatever keys and values are written before.
OnlyStartedFires == wd.timer # Stopped => wd.started

\* While LSI stays on, the pending timer measures the time the registers give,
\* from the last start, refresh or change of the registers: no refresh is lost
\* and no old value lives on.
TimerIsCurrent ==
  steady /\ wd.timer # Stopped => wd.timer + since = Delay(wd.pr, wd.rl)

\* A guest that does not refresh in time is reset: a watchdog started while LSI
\* is on does not go on for ever without a refresh, a write to its registers or
\* a reset.
HangIsCaught == []<>(since = 0) \/ <>[](~wd.started \/ ~steady)
=============================================================================
