------------------------------ MODULE Stm32Rcc ------------------------------
(***************************************************************************)
(* The clock tree (hw/arm/prusa/stm32f407/stm32_clktree.c) and the RCC     *)
(* registers that drive it (stm32f2xx_rcc.c).  A register write calls the  *)
(* tree once per field; each call recalculates one clock and goes down the *)
(* tree only where the frequency changed, so a frequency no call comes by  *)
(* is an old one.                                                          *)
(*                                                                         *)
(* Of the peripheral clocks, which are leaves and differ in bus, scale and *)
(* enable bit only, one of each kind is kept.  Warnings are left out: the  *)
(* code prints them and goes on, also for a divisor of zero, which ends    *)
(* the emulator once a clock is calculated with it.                        *)
(***************************************************************************)
EXTENDS Integers, SequencesExt

CONSTANTS
  SrcFreq,     \* frequencies of the oscillators HSI, LSI, HSE and LSE
  Word,        \* 2^32 in the code: frequencies are uint32_t
  Second,      \* 1000000000LL in the code
  CrBits,      \* values of CR: the sets of clocks switched on
  PllFields,   \* settings of PLLCFGR: records of M, N, SRC and P
  I2sFields,   \* settings of PLLI2SCFGR: records of N and R
  CfgFields    \* settings of CFGR: records of PPRE2, PPRE1, HPRE and SW

VARIABLES
  tree,        \* the clocks and what their users were told, or the division by zero
  PLLM_field   \* RCC_PLLCFGR_PLLM

rccVars == <<tree, PLLM_field>>

(***************************************************************************)
(* The tree as stm32_rcc_realize builds it.                               *)
(***************************************************************************)
Inputs ==
  [HSI |-> <<>>, LSI |-> <<>>, HSE |-> <<>>, LSE |-> <<>>,
   RTCCLK |-> <<"LSE", "LSI", "HSE">>,
   PLLM |-> <<"HSI", "HSE">>, PLLCLK |-> <<"PLLM">>, PLL48CLK |-> <<"PLLM">>,
   PLLI2SM |-> <<"PLLM">>, PLLI2SCLK |-> <<"PLLI2SM">>,
   SYSCLK |-> <<"HSI", "HSE", "PLLCLK">>, HCLK |-> <<"SYSCLK">>,
   PCLK1 |-> <<"HCLK">>, PCLK2 |-> <<"HCLK">>,
   GPIOA |-> <<"HCLK">>, UART1 |-> <<"PCLK2">>, UART2 |-> <<"PCLK1">>,
   TIM1 |-> <<"PCLK2">>, TIM3 |-> <<"PCLK1">>, IWDG |-> <<"LSI">>, FSMC |-> <<"HCLK">>]

Clocks == DOMAIN Inputs

NoInput == 0     \* CLKTREE_NO_INPUT; input i of the code is i + 1 here

\* The clocks that may be fed, through clk->output, by clock c
Above[c \in Clocks] == {c} \cup UNION {Above[d] : d \in Range(Inputs[c])}
Below == [c \in Clocks |-> {d \in Clocks : c \in Above[d]}]

\* clktree_adduser: RCC itself for HCLK, every USART for its clock.
Users == {"HCLK", "UART1", "UART2"}

\* clktree_get_input_clk
Input(t, c) == IF t.clk[c].sel = NoInput THEN "none" ELSE Inputs[c][t.clk[c].sel]

(***************************************************************************)
(* stm32_clktree.c                                                         *)
(***************************************************************************)
\* The new output frequency of a clock: the product has 64 bits, the result 32.
Calc(k) == IF k.enabled THEN ((k.in * k.mul) \div k.div) % Word ELSE 0

\* muldiv64 divides by zero.
Traps(k) == k.enabled /\ k.div = 0

\* Clock d once the recalculation of clock c is over: c itself is calculated
\* anew, another clock when the output of its selected input has changed.
RECURSIVE Recalculated(_, _, _)
Recalculated(t, c, d) ==
  LET k == t.clk[d]
      up == Input(t, d)
  IN  CASE d = c -> [k EXCEPT !.out = Calc(k)]
        [] d # c /\ up = "none" -> k
        [] OTHER -> LET f == Recalculated(t, c, up).out
                        j == [k EXCEPT !.in = f]
                    IN  IF f = t.clk[up].out THEN k ELSE [j EXCEPT !.out = Calc(j)]

\* clktree_recalc_output_freq with the calls below it.  The users of a clock that
\* changes read its frequency; stm32_rcc_hclk_upd_irq_handler leaves the scale of
\* SysTick alone while HCLK stands still.  Only c itself can trap: a clock with the
\* divisor zero is calculated when it gets it or when it is switched on.
recalc_output_freq(t, c) ==
  LET new == [d \in Below[c] |-> Recalculated(t, c, d)] @@ t.clk
      changed == {u \in Users : new[u].out # t.clk[u].out}
      h == new["HCLK"].out
  IN  IF t.trapped \/ Traps(t.clk[c]) THEN [t EXCEPT !.trapped = TRUE]
      ELSE [clk |-> new,
            told |-> [u \in changed |-> new[u].out] @@ t.told,
            scale |-> IF "HCLK" \in changed /\ h > 0 THEN Second \div h ELSE t.scale,
            trapped |-> FALSE]

set_scale(t, c, mul, div) ==
  recalc_output_freq([t EXCEPT !.clk[c].mul = mul, !.clk[c].div = div], c)

set_enabled(t, c, on) == recalc_output_freq([t EXCEPT !.clk[c].enabled = on], c)

\* Faulty form: the frequency of the new input is taken over with its next change.
set_selected_input_lazy(t, c, i) == [t EXCEPT !.clk[c].sel = i]

set_selected_input(t, c, i) ==
  LET f == IF i = NoInput THEN 0 ELSE t.clk[Inputs[c][i]].out
  IN  recalc_output_freq([t EXCEPT !.clk[c].sel = i, !.clk[c].in = f], c)

Clk(mul, div, enabled, sel, in) ==
  [in |-> in, out |-> 0, mul |-> mul, div |-> div, enabled |-> enabled, sel |-> sel]

\* clktree_create_src_clk, clktree_create_clk: no clock runs before the reset.
Create(c) ==
  CASE c \in DOMAIN SrcFreq -> Clk(1, 1, FALSE, NoInput, SrcFreq[c])
    [] c = "RTCCLK" -> Clk(1, 1, FALSE, NoInput, 0)
    [] c = "SYSCLK" -> Clk(1, 1, TRUE, NoInput, 0)
    [] c \in {"PLLM", "PLLI2SM"} -> Clk(1, 16, TRUE, 1, 0)
    [] c \in {"PLLCLK", "PLLI2SCLK", "FSMC"} -> Clk(1, 2, FALSE, 1, 0)
    [] c \in {"HCLK", "PCLK1", "PCLK2"} -> Clk(0, 1, TRUE, 1, 0)
    [] c \in {"TIM1", "TIM3"} -> Clk(2, 1, FALSE, 1, 0)
    [] c = "IWDG" -> Clk(1, 1, TRUE, 1, 0)
    [] OTHER -> Clk(1, 1, FALSE, 1, 0)

(***************************************************************************)
(* Register writes of stm32f2xx_rcc.c, as functions of the tree.           *)
(***************************************************************************)
CR_write(t, on) ==
  FoldLeft(LAMBDA u, c : set_enabled(u, c, c \in on), t, <<"PLLCLK", "HSE", "HSI", "PLLI2SCLK">>)

PLLCFGR_write(t, f) ==
  set_scale(set_selected_input(set_scale(t, "PLLM", f.N, f.M), "PLLM", f.SRC + 1),
            "PLLCLK", 1, 2 + 2 * f.P)

\* The divider M of the last write to PLLCFGR is taken.
PLLI2SCFGR_write(t, f, m) == set_scale(set_scale(t, "PLLI2SM", f.N, m), "PLLI2SCLK", 1, f.R)

\* The three prescalers: no division below base.
Prescale(t, c, field, base) ==
  set_scale(t, c, 1, IF field < base THEN 1 ELSE 2 * (field - base + 1))

CFGR_write(t, f) ==
  LET u == Prescale(Prescale(Prescale(t, "PCLK2", f.PPRE2, 4), "PCLK1", f.PPRE1, 4),
                    "HCLK", f.HPRE, 8)
  IN  IF f.SW \in 0 .. 2 THEN set_selected_input(u, "SYSCLK", f.SW + 1) ELSE u

\* AHB1ENR, AHB3ENR, APB1ENR and APB2ENR: bits clocks, of which on are set.
ENR_write(t, bits, on) == FoldLeft(LAMBDA u, c : set_enabled(u, c, c \in on), t, bits)

AHB == <<"GPIOA", "FSMC">>
APB1 == <<"UART2", "TIM3">>
APB2 == <<"UART1", "TIM1">>

\* The reset values of CR, PLLCFGR and CFGR.
PllReset == [M |-> 16, N |-> 192, SRC |-> 0, P |-> 0]
CfgReset == [PPRE2 |-> 0, PPRE1 |-> 0, HPRE |-> 0, SW |-> 0]

\* stm32_rcc_reset: the AHB enables and PLLI2SCFGR keep their values.
rcc_reset(t) ==
  LET u == CFGR_write(PLLCFGR_write(CR_write(t, {"HSI"}), PllReset), CfgReset)
      v == ENR_write(ENR_write(u, APB2, {}), APB1, {})
  IN  set_enabled(set_enabled(v, "LSE", FALSE), "LSI", FALSE)

(***************************************************************************)
(* Actions: one per register.                                              *)
(***************************************************************************)
RccInit ==
  /\ tree = rcc_reset([clk |-> [c \in Clocks |-> Create(c)], told |-> [c \in Users |-> 0],
                       scale |-> 0, trapped |-> FALSE])
  /\ PLLM_field = PllReset.M

Apply(t) == tree' = t /\ UNCHANGED PLLM_field

WriteCR(on) == Apply(CR_write(tree, on))
WritePLLCFGR(f) == tree' = PLLCFGR_write(tree, f) /\ PLLM_field' = f.M
WritePLLI2SCFGR(f) == Apply(PLLI2SCFGR_write(tree, f, PLLM_field))
WriteCFGR(f) == Apply(CFGR_write(tree, f))
WriteENR(bits, on) == Apply(ENR_write(tree, bits, on))
WriteOscillator(c, on) == Apply(set_enabled(tree, c, on))   \* BDCR: LSE, CSR: LSI
RccReset == tree' = rcc_reset(tree) /\ PLLM_field' = PllReset.M

RccWrite ==
  \/ \E on \in CrBits : WriteCR(on)
  \/ \E f \in PllFields : WritePLLCFGR(f)
  \/ \E f \in I2sFields : WritePLLI2SCFGR(f)
  \/ \E f \in CfgFields : WriteCFGR(f)
  \/ \E bits \in {AHB, APB1, APB2} : \E on \in {{}, Range(bits)} : WriteENR(bits, on)
  \/ \E c \in {"LSE", "LSI"}, on \in BOOLEAN : WriteOscillator(c, on)
  \/ RccReset

\* Nothing follows a division by zero.
RccNext ==
  \/ ~tree.trapped /\ RccWrite
  \/ tree.trapped /\ UNCHANGED rccVars

RccSpec == RccInit /\ [][RccNext]_rccVars

(***************************************************************************)
(* Properties.                                                             *)
(***************************************************************************)
\* The frequency of a clock from the oscillators up: the reference definition.
RECURSIVE Freq(_)
Freq(c) ==
  LET k == tree.clk[c]
      in == IF c \in DOMAIN SrcFreq THEN SrcFreq[c]
            ELSE IF k.sel = NoInput THEN 0 ELSE Freq(Inputs[c][k.sel])
  IN  IF k.enabled THEN ((in * k.mul) \div k.div) % Word ELSE 0

\* After every register write each clock has the frequency its settings and
\* those of the selected path above it give, whatever was switched off,
\* rescaled or selected before and in which order; each user of a clock has
\* been told that frequency, and SysTick is scaled to it unless HCLK stands.  The
\* frequency is that of the registers up to 32 bits: a clock that its settings take
\* past 2^32 Hz, as PLLI2SM may be (it multiplies what PLLM has multiplied), shows the
\* rest.  Nothing is said of an emulator that has divided by zero, as a PLLM of 0 in
\* PLLCFGR, or a PLLI2SR of 0 in a PLLI2S that is on, makes it (warned about only).
TreeIsCurrent ==
  ~tree.trapped =>
  /\ \A c \in Clocks : tree.clk[c].out = Freq(c)
  /\ \A c \in Users : tree.told[c] = tree.clk[c].out
  /\ tree.clk["HCLK"].out > 0 => tree.scale = Second \div tree.clk["HCLK"].out
=============================================================================
