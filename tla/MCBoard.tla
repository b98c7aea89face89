------------------------------ MODULE MCBoard ------------------------------
(***************************************************************************)
(* The smaller parts of the board for TLC.  They share no state, so one    *)
(* run explores them one after the other: the part under test is chosen    *)
(* with the initial state and the others stay as they are.                 *)
(***************************************************************************)
EXTENDS MotorPort, Stm32Iwdg, Stm32Rcc, Stm32Tim, HeaterDrive, SoftPwmFan

VARIABLE part

boardVars == <<part, portVars, iwdgVars, rccVars, timVars, heaterVars, fanVars>>

Parts == {"port", "iwdg", "rcc", "tim", "heater", "fan"}

Others(p) ==
  /\ part' = part
  /\ p # "port" => UNCHANGED portVars
  /\ p # "iwdg" => UNCHANGED iwdgVars
  /\ p # "rcc" => UNCHANGED rccVars
  /\ p # "tim" => UNCHANGED timVars
  /\ p # "heater" => UNCHANGED heaterVars
  /\ p # "fan" => UNCHANGED fanVars

BoardInit ==
  /\ part \in Parts
  /\ PortInit /\ IwdgInit /\ RccInit /\ TimInit /\ HeaterInit /\ FanInit
  /\ part # "tim" => freq = 0
  /\ part # "fan" => ~is_nonlinear

BoardNext ==
  \/ part = "port" /\ PortNext /\ Others("port")
  \/ part = "iwdg" /\ IwdgNext /\ Others("iwdg")
  \/ part = "rcc" /\ RccNext /\ Others("rcc")
  \/ part = "tim" /\ TimNext /\ Others("tim")
  \/ part = "heater" /\ HeaterNext /\ Others("heater")
  \/ part = "fan" /\ FanNext /\ Others("fan")

\* The fairness of the parts' own specifications
BoardFairness ==
  /\ WF_boardVars(part = "port" /\ Time /\ Others("port"))
  /\ WF_boardVars(part = "iwdg" /\ IwdgTick /\ Others("iwdg"))
  /\ WF_boardVars(part = "iwdg" /\ Fire /\ Others("iwdg"))
  /\ WF_boardVars(part = "iwdg" /\ request /\ Reset /\ Others("iwdg"))
  /\ WF_boardVars(part = "tim" /\ TimTick /\ Others("tim"))
  /\ WF_boardVars(part = "tim" /\ Expire /\ Others("tim"))
  /\ WF_boardVars(part = "heater" /\ HeaterTime /\ Others("heater"))
  /\ WF_boardVars(part = "heater" /\ SoftTimeout /\ Others("heater"))
  /\ WF_boardVars(part = "heater" /\ TempTick /\ Others("heater"))

BoardSpec == BoardInit /\ [][BoardNext]_boardVars /\ BoardFairness

\* A pulse of the fan takes the longer the slower it turns.
MCPulse == [duty \in 0 .. Cycle |-> 3 - duty]

(***************************************************************************)
(* Values of the constants of Stm32Rcc: kHz, the settings after a reset    *)
(* and those of the firmware's start-up, scaled and unscaled, with an      *)
(* invalid SW, divisors of zero, and a PLLI2SM of 336 MHz * 192 / 12,      *)
(* which wraps.                                                            *)
(***************************************************************************)
MCSrcFreq == [HSI |-> 16000, LSI |-> 32, HSE |-> 12000, LSE |-> 33]

MCCrBits == {{"HSI"}, {"HSI", "PLLCLK"}, {"HSE", "PLLCLK", "PLLI2SCLK"}}

MCPllFields == {PllReset, [M |-> 12, N |-> 336, SRC |-> 1, P |-> 1],
                [M |-> 0, N |-> 192, SRC |-> 0, P |-> 0]}

MCI2sFields == {[N |-> 192, R |-> 2], [N |-> 192, R |-> 0]}

MCCfgFields == {[PPRE2 |-> 0, PPRE1 |-> 0, HPRE |-> 0, SW |-> 1],
                [PPRE2 |-> 0, PPRE1 |-> 0, HPRE |-> 0, SW |-> 3],
                [PPRE2 |-> 4, PPRE1 |-> 5, HPRE |-> 8, SW |-> 2]}
=============================================================================
