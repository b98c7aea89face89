------------------------------- MODULE GpioPort -------------------------------
(***************************************************************************)
(* A GPIO port (hw/arm/prusa/stm32f407/stm32f2xx_gpio.c).                  *)
(*                                                                         *)
(* A register is the set of pins whose bit is 1.  A write to the output    *)
(* register calls the device behind each pin that changes, one after the   *)
(* other from pin 0 up, before the new value is stored: `changed' is the    *)
(* set of those pins.  MODER and the other registers are only stored (the  *)
(* alternate-function lines of MODER are connected to nothing).            *)
(***************************************************************************)
EXTENDS Naturals

CONSTANTS
  Pins,      \* the pins of the port in use
  idr_mask   \* input bits cleared by a reset

ASSUME GpioAssumption == Pins \subseteq 0 .. 15 /\ idr_mask \subseteq Pins

VARIABLES
  odr,     \* regs[STM32_GPIO_ODR]
  idr,     \* regs[STM32_GPIO_IDR]
  heard    \* history: pins whose input line was driven since the reset

inVars == <<idr, heard>>
gpioVars == <<odr, inVars>>

\* Faulty form: falling edges are not passed on.
changed_rising_only(val) == val \ odr

\* The pins whose device f2xx_update_odr calls: qemu_set_irq(s->pin[i], i \in val).
changed(val) == (odr \ val) \cup (val \ odr)

\* f2xx_update_odr; what the calls do is up to the devices.
update_odr(val) == odr' = val

ODRWrite(val) == update_odr(val)

\* In BSRR the set half is applied last.
BSRRWrite(set, clear) == update_odr((odr \ clear) \cup set)

\* Faulty form: an input that goes low is not noticed.
gpio_set_only_high(pin, level) ==
  /\ idr' = IF level THEN idr \cup {pin} ELSE idr
  /\ heard' = heard \cup {pin}

\* f2xx_gpio_set, called by the device that drives the pin
gpio_set(pin, level) ==
  /\ idr' = IF level THEN idr \cup {pin} ELSE idr \ {pin}
  /\ heard' = heard \cup {pin}

\* stm32f2xx_gpio_reset: the output register keeps its value and calls nobody,
\* the inputs are assumed high until their devices speak again.
GpioReset ==
  /\ idr' = Pins \ idr_mask
  /\ heard' = {}
  /\ UNCHANGED odr

GpioInit == /\ odr = {}
            /\ idr = Pins \ idr_mask
            /\ heard = {}

GpioNext ==
  \/ \E val \in SUBSET Pins : ODRWrite(val) /\ UNCHANGED inVars
  \/ \E set, clear \in SUBSET Pins : BSRRWrite(set, clear) /\ UNCHANGED inVars
  \/ \E pin \in Pins, level \in BOOLEAN : gpio_set(pin, level) /\ UNCHANGED odr
  \/ GpioReset

GpioSpec == GpioInit /\ [][GpioNext]_gpioVars
=============================================================================
