# TLA+ models of MINI404

MINI404 is QEMU with a simulated Prusa Mini printer board. What is specific to it
lives in `src/hw/arm/prusa/`: the peripherals of an STM32F407 (`stm32f407/`), the
parts around the chip (`parts/`), the board that wires them together
(`prusa-mini.c`) and a script engine with a console (`utility/`). Under it is the
core of QEMU: the threads of virtual CPUs, the main loop with its timers, and RCU.
This directory holds models of those parts, the TLC configurations that check them on
small instances, and proofs of their main invariants for all instances.

## 1. How the program runs, and what that means for a model

**Devices.** All device code runs under QEMU's big lock (BQL). A device has three
kinds of entry points: register accesses of the guest (`MemoryRegionOps`), timers, and
lines (`qemu_irq`) and back ends that deliver levels, bytes or frames. One entry point
runs to its end before the next begins, so each is one action, with everything it
calls.

The exception is what makes device code hard: `qemu_set_irq` is a function call. A
device that raises a line runs the receiver's handler inside its own, and that
handler may call back into the first device. Where this happens (USART and DMA,
GPIO port and stepper driver, drivers and USART, a packet sent and its answer) a
module models the nesting.

The nondeterminism is in what the guest writes and when, when bytes arrive, how late a
timer is, and when the machine is reset. A machine reset calls the reset handler of
each device that has one. Several devices have none and keep their state over it.

**Core.** What makes the above true is code with threads in it: the loops of the
virtual CPUs and of the main thread, which hand work to each other, the exclusive
sections between CPUs, RCU, and the main loop that sleeps until the next timer while
other threads schedule work for it. There a step is one access to something the
threads share, or a whole critical section where nothing in it is accessed outside the
lock. The code's barriers (`smp_mb`, atomic operations) make those accesses
sequentially consistent.

C structures are records, C functions operators on them, and the actions apply
these operators to the variables; names follow the source. Registers are sets of the
bits that matter. Bytes whose value does not matter are numbered by their arrival,
which lets a property speak of order, loss and duplication.

## 2. Inventory

State, operations, what can go wrong, and what should hold, for each part.

| Part (files) | State and operations | Hard behaviour | What should hold | Module |
|---|---|---|---|---|
| USART (`stm32_uart.c`) | SR, CR1, CR3, data and transmit registers, receive buffer, two lines; register accesses, arrivals, reset | refill of the data register inside a read; lines that must follow flags; a full buffer | a byte channel: in order, nothing lost or stuck without a cause; lines equal to what the flags ask for | `Stm32Uart`, `UartChannel` |
| DMA (`stm32f2xx_dma.c`) | streams: SxCR, SxNDTR, SxPAR, SxM0AR, an active transfer, flags and lines | writes while enabled, circular reload, a mapping that outlives the stream | units are written inside the buffer; an interrupt has a cause and a wrap is reported | `F2xxDma` |
| USART and DMA (`stm32f407_soc.c`) | request line from USART to stream | transfers nest inside each other's read of the data register | no byte lost or stored twice, nesting bounded, requests end | `UartDma` |
| GPIO (`stm32f2xx_gpio.c`) | ODR, IDR; ODR and BSRR writes, input lines, reset | one write changes several pins, devices see them one by one | devices agree with ODR, IDR with the devices | `GpioPort`, `MotorPort`, `InputParts` |
| Stepper driver, motion (`tmc2209.c`) | position, direction, enable, DIAG and end-stop outputs, standstill timer, status registers | timer against next step, outputs that outlive their cause, datagrams over the status registers, both ends of the axis | the position is on the axis, reports are true, the motor comes to rest | `Tmc2209Motion`, `MotorPort` |
| Stepper driver, serial (`tmc2209.c`) | receive buffer, register file, write counter | four drivers parse one line; a datagram cut off by a reset | the addressed driver alone obeys and answers; the drivers stay in step | `Tmc2209Serial` |
| Clock tree, RCC (`stm32_clktree.c`, `stm32f2xx_rcc.c`) | per clock: source, enable, multiplier, divisor, frequency; RCC registers | recursive propagation that stops where nothing changed; order of the calls of one write | each frequency equals its reference definition; users were told | `Stm32Rcc` |
| Timers, PWM (`stm32f2xx_tim.c`) | CR1, DIER, SR, PSC, ARR, CCRs, QEMU timer, line | a period from registers and a clock that changed since; division by zero | interrupts go on | `Stm32Tim`, `HeaterDrive` |
| Heaters (`heater.c`) | PWM value, temperature, two timers | a timer that stops when there is nothing to do and must be started again | cold after off | `HeaterDrive` |
| Fans (`fan.c`) | pin, duty, timeout, tachometer | timeout and tachometer timer against the next edge | fan and tachometer follow the pin | `SoftPwmFan` |
| Knob, filament sensor (`encoder_input.c`, `irsensor.c`) | phase, detents to go, button, sensor | reset in the middle of a turn or press, order of resets | what the guest reads is where the parts are | `InputParts` |
| Display (`st7789v.c`) | command, arguments, window, cursor | commands cut short, edges of the window | pixels fill the window in order | `St7789v` |
| Ethernet (`stm32f4xx_eth.c`) | descriptor rings, status, line | reception inside a transmission, full and empty rings | each ring is a queue | `EthMac` |
| RTC (`stm32f2xx_rtc.c`) | ticks, offset to the host, prescaler, alarms, wake-up timer, protection | late timer, conversion there and back, jumps | the clock is right, no alarm is missed but in a jump | `Stm32Rtc` |
| Watchdog (`stm32f4xx_iwdg.c`) | key, PR, RLR, started, timer | refresh against timer; reset request against refresh | the time the registers give, and a hang is caught | `Stm32Iwdg` |
| Script host, console (`ScriptHost.cpp`, `p404_script_console.c`) | script, line, status, timeout, wait; busy flag, prompt | lines that wait over many calls; commands typed while a file runs | the line at the line number is run; waits last; the prompt is true and comes back | `ScriptHost`, `ScriptConsole` |
| CPU threads (`cpus-common.c`, `softmmu/cpus.c`, `tcg-cpus.c`, `cputlb.c`) | `pending_cpus`, `running`, work lists, stop and exit requests, BQL | unlocked flags, work queued while a CPU leaves or enters `cpu_exec` | exclusion, quiet pause, flush before code, no one waits for ever | `CpuExclusive`, `VcpuThreads` |
| RCU, events (`rcu.c`, `rcu.h`, `qemu-thread-posix.c`) | counters, reader lists, futex, callback queue | lock-free readers, lost wake-ups, truncated counter | grace periods, callbacks once and in order, all of them | `Rcu`, `QemuEvent`, `CallRcu` |
| Main loop (`main-loop.c`, `async.c`, `qemu-timer.c`) | `notify_me`, notifier, bottom halves, timer list | work scheduled while the loop decides to sleep | it never sleeps through anything | `MainLoop` |
| ADC, I2C, USB, SPI, flash and others | | | | none, see section 6 |

## 3. Modules

| Module | Code | Notes |
|---|---|---|
| `Stm32Uart` | `stm32_uart.c` | one USART; `uart` is `struct Stm32Uart`, one action per register access, arrival and reset |
| `ByteChannel` | | abstract specification of reception |
| `UartChannel`, `MCUart` | | `Stm32Uart` with the mapping under which it implements `ByteChannel`, and its run `uart` |
| `F2xxDma` | `stm32f2xx_dma.c` | one half controller of four streams; `stream[i]` is `f2xx_dma_stream` |
| `UartDma`, `MCUartDma` | wiring in `stm32f407_soc.c` | `Stm32Uart` and `F2xxDma` composed, with the stack of nested transfers |
| `Tmc2209Serial` | `tmc2209.c`, datagrams | all drivers on the line of USART2 |
| `InputParts`, `St7789v`, `EthMac`, `Stm32Rtc` | see section 2 | one device each |
| `MCF2xxDma`, `MCDevices` | | the devices above, one per initial state, for the run `devices` |
| `GpioPort` | `stm32f2xx_gpio.c` | output and input half of a port |
| `Tmc2209Motion` | `tmc2209.c`, motion | one driver |
| `MotorPort` | `prusa-mini.c` 147-190 | `GpioPort` and `Tmc2209Motion` composed: STEP, DIR, EN out, DIAG in |
| `Stm32Iwdg` | `stm32f4xx_iwdg.c`, CSR and reset of the RCC | watchdog, LSI and the reset it asks for |
| `Stm32Rcc`, `Stm32Tim`, `HeaterDrive`, `SoftPwmFan` | see section 2 | `HeaterDrive` composes a heater with its PWM channel |
| `MCBoard` | | these parts, for the run `board` |
| `ScriptHost`, `ScriptConsole`, `MCScriptConsole` | `ScriptHost.cpp`, `p404_script_console.c` | the console drives the host |
| `CallRcu` | `util/rcu.c` | callbacks and their thread |
| `MCHost` | | script console and callbacks, for the run `host` |
| `CpuExclusive` | `cpus-common.c` | exclusive sections |
| `VcpuThreads` | `cpus-common.c`, `softmmu/cpus.c`, `accel/tcg/` | the loops around them, extends `CpuExclusive` |
| `QemuEvent`, `Rcu` | `qemu-thread-posix.c`, `rcu.h`, `rcu.c` | readers and `synchronize_rcu` |
| `MainLoop` | `main-loop.c`, `async.c`, `qemu-timer.c` | |
| `MCCore` | | RCU and main loop, for the run `core` |
| `UartProofs`, `UartDmaProofs`, `BoardProofs`, `DeviceProofs`, `HostProofs`, `VcpuProofs`, `CoreProofs`, `CallRcuProofs` | | the proofs, see section 5 |

`PROJECT.json` maps each definition to the lines it models. Variables marked
*history* are not in the code: they record what a property has to know of the past
(how many bytes arrived, when the motor was last stepped) and no guard of a modelled
handler reads them, bounds apart. Definitions marked *faulty form* are plausible
mistakes in the definition below them; replacing the definition by the faulty form
must break the property that `PROJECT.json` names with it, which shows that the
property can fail.

Parts that share no state are checked in one run: a variable `part`, chosen in the
initial state, says which of them runs, and the others stand still. Each part is
explored completely this way, and nothing is multiplied.

### USART

`fill_receive_data_register`, `USART_DR_read`, `update_irq` and `start_tx` are the
functions of those names. A byte is the number of its arrival. SR keeps the bits RXNE,
ORE, TC and TXE; the clear-only mask of an SR write is modelled with the bits outside
them merged into one. Overrun is compiled out (`STM32_UART_ENABLE_OVERRUN`), as are
baud delays, so a transmission completes inside the write that starts it. A reset keeps
the receive buffer, as the code does.

`ByteChannel` says what a guest may rely on: bytes come in the order of arrival, each
at most once, and go missing only while the receiver is off or, the oldest one, when the
configuration changes. The mapping takes the bytes that wait to be the one in the data
register, while RXNE is set, and those in `rcv_char_buf`.

### DMA, and USART with DMA

SxCR is a set of bits with direction and memory size; addresses are offsets from
SxM0AR. A start (`stream_start`) sets up the transfer, `dmar_transfer` moves one unit
for a request of a USART. In the composition the transfer is cut at its read of
USART_DR: `TransferReads` is the read with the refill it causes, and pushes the byte;
`TransferStores` is the remainder, for the innermost transfer. All other handlers
wait for an empty stack, because the whole nest is one call in the program.

### GPIO, stepper drivers, and their serial line

`changed(val)` is the set of the pins whose devices `f2xx_update_odr` calls, in pin order
(`InOrder`). In `MotorPort` a register write lets the driver pass through the states
`Passes(val)`, one pin after the other (`Sees` is one turn of the loop), and a driver that sets
DIAG writes IDR of the other port in the same step. Time is counted in ticks, and
the standstill timer takes `Standstill` of them. `tmc2209_write` stores the word of a
datagram in any register, so `WriteReg` may overwrite STST and SG_RESULT as well as DEDGE;
`stored` remembers which of the two reports is such a word. On the serial line each byte of a
datagram is one step, heard by every driver. The firmware may be reset after any byte
(`Restart`), and the drivers, which have no reset handler, keep what they received.

### Clocks, timers, heaters and fans

`Stm32Rcc` calls the tree once per field of a register write, in the order of the code,
and the recalculation goes down only where a frequency changed. The property compares
the result with a definition of each frequency from the oscillators up. Frequencies are
taken modulo `Word`, and a clock that is calculated with the divisor zero ends the program
(`trapped`). `Stm32Tim`
takes the clock as an input that may change at any time; where the code divides by zero
(a clock slower than the prescaler, or off) the program ends (`trapped`).
`HeaterDrive` has a PWM ratio of zero or more and temperatures in levels; how fast the
level rises is left open. `SoftPwmFan` has the state of the
pulse and the line apart, as the code, and the length of a pulse as a function of the duty;
`lull` is the time since the last edge or setting of the duty.

### Knob, display, Ethernet and real-time clock

`InputParts` keeps the input register of the port, because that is where the order of
resets shows: `bus_add_child` (`hw/core/qdev.c`) puts each device before those created
earlier, so the parts are reset before the ports. In `St7789v` a pixel is its place.
`EthMac` takes the transmit loop a descriptor at a time, since `qemu_send_packet` may
deliver an answer through `eth_rx` before it returns; the guest's half is that of the
driver the code names (descriptors chained, filled in ring order, rings built while they
are not used). A frame is the list of how many of its bytes are in its descriptors up to
each, and a byte is its number in its frame. `Stm32Rtc` keeps the sum of host time and offset, and days of a few
ticks; the loop that makes up missed ticks is the recursive function in `CatchUp`. `due` is
the set of alarms an update has passed and the guest has not cleared since, `late` those
of them that were passed in a jump.

### Script host and console

`m_script` from `m_iLine` on is a queue. A line is its action with one argument; what
the text looks like is left out, what can be wrong with it is not: a line may fail to
parse, have an argument that cannot be converted, or name an action its device does not
handle. The timer may be late by up to `MaxDelay` periods.

### Watchdog

The timer is the time left. `request` stands between `stm32f4xx_iwdg_fire` and the
reset the main loop carries out, and the guest can still write in between.

### Threads of the core

`CpuExclusive` models `start_exclusive`, `end_exclusive`, `cpu_exec_start` and
`cpu_exec_end` with their unlocked reads and writes; `start_exclusive` looks at the
CPUs one by one. `VcpuThreads` puts the loop of `tcg_cpu_thread_fn` around it: queued,
synchronous and safe work, the synchronised TLB flush, halting, interrupts, atomic
instructions, and a main thread that pauses, resumes and calls `run_on_cpu`. The board
has one CPU, the code is the generic one and is checked with two.

`Rcu` has readers that nest, register and unregister, and `synchronize_rcu` with its two
lists and the `QemuEvent` it sleeps on. `rcu_read_lock` holds the counter in an
`unsigned`; the model truncates it. `CallRcu` has the queue with its dummy node, the
thread that runs callbacks, and `drain_call_rcu`. `MainLoop` has the decision how long to
sleep against threads that schedule, cancel and set timers meanwhile.

## 4. Runs

| Run | Distinct states | What it shows |
|---|---|---|
| `uart` | 114,560 | reception implements the byte channel (`ImplementsChannel`); bytes are lost (`LossNeedsGuestAction`) or stuck (`StallNeedsReconfiguration`) only by the guest actions named; both lines follow the flags, the DMA request but for writes to CR3 (`LinesFollowFlags`) |
| `devices` | 1,444,789 | DMA: writes inside the buffer at the place SxNDTR shows, interrupts with a cause and for every wrap. Drivers' line: in step, at most one answer, datagrams have exactly their effect. Knob and sensor: the guest reads what they are at (`GuestReadsInputs`). Display: pixels fill the window (`PixelsFillWindow`). Ethernet: both rings are queues, descriptor by descriptor (`RingsAreQueues`). RTC: `ClockAndAlarmsRight` |
| `uart_dma` | 532,544 | nested transfers: depth bounded, no byte lost or doubled, bytes of later requests newer, every request ends |
| `board` | 87,172 | port and driver agree over writes and resets (`PinsAgree`), stops, standstill and load are reported truly until a datagram overwrites the report (`ReportsAreTrue`), a write that turns and steps moves by the order of the pins (`MovesByPinOrder`), the motor comes to rest; watchdog: the time the registers give (`TimerIsCurrent`), a hang is caught; clocks: `TreeIsCurrent`; timer: `UpdatesGoOn`; heater: `ColdAfterOff`; fan: `FanFollowsPin` |
| `host` | 128,218 | the line at the line number is run, waits last their time, the prompt is true and returns; RCU callbacks come after a grace period, once, in order (`CallbackAfterGrace`), and all of them (`CallbacksRun`) |
| `vcpu` | 235,593 | an exclusive section is alone; a paused machine is quiet; no CPU executes in `cpu_exec` with a finished flush in its queue; pause and `run_on_cpu` return (`MainThreadReturns`) |
| `core` | 164,964 | grace periods hold, also once the counter is truncated, and end; the loop never oversleeps (`NeverOversleeps`), bottom halves run |
| `dma_ack_layout` | violation | LISR shows stream 2 at bits that LIFCR does not clear |
| `uart_dma_order` | violation | a burst of two bytes is stored in reverse |
| `motion_dedge` | violation | with DEDGE the falling edge does not step |
| `script_timeout` | violation | after SetTimeoutMs a wait times out at once, whatever the value |
| `flush_order` | violation | a CPU executes an atomic instruction with a synchronised flush, already over for its source, still in its queue |

The five violations are disagreements between the code and a comment or help text of
its own. Each is listed under `findings` with the line it contradicts.

Some behaviours hold as modelled but will surprise a reader of the code. They are part
of the models, and the properties are stated around them:

* Timers: a clock that is off or slower than the prescaler, or ARR 0, leads to a
  division by zero; the period is computed in 32 bits and wraps; a reset leaves the
  interrupt line up; CCR writes reach the PWM outputs only with the next CCER change.
* Heater: power survives a reset; a guest that repeats "off" can keep it hot, because
  each "off" sends the time since the last pulse; a script that opens and restores the
  heater leaves its timer stopped.
* Fan: the hotend fan sends tachometer pulses for ever once it was switched. The timer of
  the tachometer is started anew with each duty, though the comment says "Restart the timer
  if it has expired, otherwise leave it be": at a duty so low that a pulse is longer than a
  cycle of the pin the tachometer gives no edge at all.
* Driver: a datagram may store STST and SG_RESULT, which are then what it says until the
  next step or standstill. On the Z axis, where STEP is below DIR, a write that changes both
  steps in the old direction.
* RCC: a reset leaves AHBxENR and PLLI2SCFGR; "PLL cannot be disabled while it is
  selected" is printed and the PLL is disabled; PLLI2S uses the PLLM of the last write
  of PLLCFGR. Frequencies wrap at 2^32 Hz, as that of PLLI2SM does with 336 MHz * 192 / 12. A
  PLLM of 0, or a PLLI2SR of 0 with PLLI2S on, is warned about and then divided by.
* Knob: a change of direction drops the half steps still to go. A reset hides the state
  of the filament sensor until it changes.
* Ethernet: of a frame in several descriptors as many bytes are sent as the last one
  holds; a frame that is too short raises RI without being delivered.
* RTC: with a period that is not whole microseconds a clock that was set reads one tick
  less; a new prescaler makes the time jump; clearing ALRBF does not lower the line
  of alarm B; a reset clears CR alone. An update more than 1000 ticks late jumps to the new
  time "without checking alarms", so those in between are lost.
* CPUs: nothing in `exclusive_idle` is fair, so `run_on_cpu` returns only if exclusive
  sections do not follow one another for ever.
* RCU: once the counter of grace periods no longer fits `unsigned`, grace periods still
  hold, but readers that come back may be waited for again.

### Bounds

* USART: a buffer of 2 (256 in the code) and 4 bytes. The data register and a full buffer
  take 3, so there is always one that comes when nothing is free. The guest writes every
  combination of RXNE, TC and TXE to SR, and to CR1 every combination of UE and RE with no
  or one interrupt enabled: ORE is never set and a level is a disjunction, so more bits
  add no behaviour. The proofs cover every size and every word.
* DMA: counters modulo 4, one stream. Reload, half and full transfer, and the counter
  passing below zero all happen with counts up to 3. Streams do not interact except
  through LISR, which `dma_ack_layout` looks at. Both interrupts are
  enabled or none; the directions that are done on the spot are not combined with
  circular mode, which they do not read.
* Motor: an axis of 5 microsteps and increments of 2, so that the far end is not a
  multiple of the increment; pins of the Y axis; 0 and 250 as the loads a datagram may store,
  the two the driver stores itself.
* Serial: two drivers, 2-bit bytes with the write bit above one bit of register number,
  so that the write counter wraps after four writes. One of the two registers is the
  counter itself.
* Clock tree: of the leaves one of each kind; two or more values for each multiplier,
  divisor and selection, so that every clock can change, stop and be selected from
  elsewhere, divisors of zero among them. Frequencies are in kHz, as TLC has no larger
  numbers, and wrap at 4,294,967 of them. Timer: three clocks (one of them off), two prescalers and limits, words that
  wrap at 5.
* Heater and fan: timeouts of 2 to 5 units, so that each can expire before and after
  the next edge; a pulse is 1 to 3 units long, the slower the fan the longer; temperatures of
  two levels above ambient.
* Knob: up to 4 half steps to go, which is more than one turn of the four phases when a
  second twist is added. Display: 2 by 3 pixels and bytes of two values, which gives
  words past both edges, and windows that end before they start. Ethernet: rings of two,
  frames in one descriptor and in two; two names tell a frame from its neighbour. RTC: days
  of two ticks, one period of whole microseconds and one that is not, catch-up of at
  most 2 ticks (1000 in the code), so that both branches of the update are taken.
* Script: waits up to 3 periods, delays up to 2, at most 3 lines waiting when a command
  is typed. Callbacks: two threads with two calls in all, one of them with the BQL,
  batches of 2 (`RCU_CALL_MIN_SIZE`, 30 in the code) and one try (5 in the code).
* Watchdog: two prescalers, three reload values, delays up to 6.
* CPUs: two, with one queued item each; RCU: two readers nested twice, a counter
  truncated to 4 values and grace periods up to 5, past the truncation; main loop: two
  threads, one bottom half beside the notifier's, two timers up to 2 ahead.

### Fairness

Nothing is assumed of the guest: it may stop, or repeat any access for ever. Assumed is:

* nested calls go on until they return (`UartDma`): they are function calls;
* virtual time passes and QEMU runs timers that are due (`MotorPort`, `Stm32Iwdg`,
  `Stm32Tim`, `HeaterDrive`, `ScriptConsole`, `MainLoop`), and the main loop serves a
  reset request;
* a thread that can go on is scheduled by the host (weak fairness for each thread), and
  one that again and again finds a mutex free gets it in the end (strong fairness, for
  `VcpuThreads` and `CallRcu`): POSIX mutexes promise little more than the first, and
  without the second no program with two threads and a lock ends a wait;
* a reader leaves its critical section (strong fairness of `Unlock` in `Rcu`), as RCU
  requires of its users.

## 5. Proofs

TLAPS proves the following for every value of the constants that satisfies the named
assumption of the module (`UartAssumption`, `DmaAssumption` and so on), which TLC
evaluates on the runs. A property with its own name is one that a run checks.

**USART and DMA** (`UartProofs`, `UartDmaProofs`)

* *USART*: type and buffer bound, order of the waiting bytes, `LinesFollowFlags`, and that
  ORE is never set. Order alone is not inductive: `fill_receive_data_register` would
  overwrite the data register if ORE could arise, and the numbering of the buffer says
  nothing of the data register. `UartInv` therefore joins type, order of buffer and
  register (`Sound`), the absence of ORE and the interrupt level. Each function of the code
  has one lemma that says it preserves `Sound`; the actions only combine them.
* *Causes*: `LossNeedsGuestAction` and `StallNeedsReconfiguration`. A step that neither
  reconfigures nor clears flags is `Harmless`: with the receiver on it loses nothing, ends
  or keeps a stall but begins none, and leaves the transmitter ready. Receiving and reading
  are so, by the number of bytes that wait before and after them.
* *Byte channel*: `ImplementsChannel`, the refinement. The waiting bytes are an interval of
  numbers plus the data register (`WaitingIsSpan`); with that, the refill, arrival and read
  each have a lemma saying what becomes of the set, and each handler is one step of the
  channel or none. `UartDeliversInOrder` then follows from the channel's own invariant.
* *DMA*: widths, `WritesStayInBuffer` and `InterruptsAreTrue` (an action property). `DmaInv`
  says of each stream that an armed one is enabled and its pointer equals (count -
  remaining) times the increment. The arithmetic of counters that wrap is in lemmas of its
  own. The assumption that the address space holds the largest buffer (`AddrMod >= 4 *
  NdtrMod`) is true in the code (2^32 and 2^16).
* *The two composed*: `NestingBounded`, `LaterRequestStoresNewerBytes` and
  `NestingLosesNothing`. `NestInv` adds to `UartInv` that a raised request has a byte to
  fetch, that transfers under way and bytes that may still start one are together at most
  one more than the receive buffer holds, and that both what was stored and what the nested
  transfers carry is older than every byte in the USART. And the composition refines the
  controller alone (`StreamBehindUart`: every step is a step of `F2xxDma` or leaves it
  unchanged), so what is proved of any stream holds for the one behind the USART
  (`BytesStayInBuffer`).

**Board** (`BoardProofs`)

* *Motion*: position on the axis, `ReportsAreTrue`. `Fits` states them for a driver, the
  time since its last step and the registers a datagram has overwritten, with the type: that a DIAG does not outlive the standstill time
  needs the timer to equal the time left. The increment must not exceed the axis: otherwise
  a step from zero could hit the far end with the end-stop output still raised. On the
  board the increment is 16 and the shortest axis 291,200 microsteps.
* *Driver behind its ports*: `PinsAgree`, `ReportsAreTrue` and `MovesByPinOrder`, for
  every choice of pins. A write runs up to three handlers of the driver; `Turn` says what
  each turn of the loop in `f2xx_update_odr` keeps and changes, and `WriteTurns` chains
  three of them. The last theorem is about either order of DIR and STEP: the direction of a
  move is the new one if DIR comes first, as on every axis but Z, and otherwise the old one.
* *Watchdog*: only a started one fires, and `TimerIsCurrent`. The strengthening is that LSI
  is on for a started watchdog whose clock was steady.
* *Fan*: `FanFollowsPin`, for every length of the pulses. `FanInv` adds that time without a
  change of the pin and time left of the timeout are together the timeout, that the timer of
  the tachometer is pending while the fan turns, and that the time since the last edge and
  the time left of that timer are together at most two pulses, or one where a stall left the
  line at another level than `pulse_state` and the next run will not move it (`EdgeIsNear`).
* *Serial line*: buffer bound, `LineInStep` and `DatagramsTakeEffect`, for any number of
  drivers and any data. The bound of the buffer rests on `Parsing`: a buffer with four bytes
  or more holds a write, since a read request would have ended. For the effect, `OnTheWay`
  says in the middle of a datagram what its remaining bytes will do: received bytes and
  bytes to come are together a read request, or a write whose effect is the expected one.

**Devices** (`DeviceProofs`)

* *Knob, button, sensor*: `GuestReadsInputs`. The button needs `ButtonKnown`: it is down
  only while the knob knows of the mouse holding it or the timer will release it.
* *Display*: `PixelsFillWindow`, for every size of panel and window. The property divides
  and takes remainders; `Placed` says the same with a quotient that exists, which the steps
  along a row, past its end and past the last row each preserve without division.
* *Ethernet*: `RingsAreQueues`, for every size of the two rings and all frames. The
  property finds its way round a ring with remainders; `EthInv` counts places from where
  the controller or the guest stands (`Slot`), and a few lemmas on `Slot` and on the way
  from one place to another (`Way`) replace the arithmetic of remainders. That the packet
  sent is right is not inductive: it needs that the parts of a frame follow each other in
  the ring to the last (`PartsFollow`) and that what was collected is the frame up to the
  part that is next (`Collected`), since between two descriptors `eth_rx` may run. The
  assumption that a frame is smaller than the buffer is the guest's part: at a longer one
  the code stops, as its comment says of buggy guests.

**Host** (`HostProofs`)

* *Script host*: `RunsLineAtHead`, `PromptIsTrue` and `WaitsItsTime`, for any set of lines
  and any delays. `Outcome` lists the seven ways in which `OnMachineCycle` can leave the
  host; the invariant says that a current line is a wait in progress that began with it
  (`WaitIsOfLine`) and that, without a script file, the queue is exactly the command typed
  (`QueueIsCommand`).
* *Clock*: `ClockAndAlarmsRight`, with the jumps and the alarms lost in them. `RightCounts` relates the registers to the host's time by
  one equation, ticks times period plus what is left over, so that the division in the code
  has a unique result. Missed ticks are made up in a loop; `CatchUpFacts` is an induction
  over its turns, stated for the set of the numbers of turns after which `Reached` holds
  (`Induction`, from the well-foundedness of the natural numbers).

**CPU threads** (`VcpuProofs`), for any finite number of CPUs

* *Exclusive sections*: `ExclusiveAlone`. `ExclusiveInv` says that there is one owner at
  most, that `running` is set wherever a CPU may execute, and that `pending_cpus` is one
  more than the CPUs with `has_waiter`, which are all that executed when the owner looked
  at them.
* *The loops around them*: the threads implement the specification of exclusive sections
  (`VcpuImplementsExclusive`), so exclusion holds there too. With where a thread can be in
  that specification at each point of its loop (`PlacesAgree`), the BQL has one holder
  (`VcpuLocks`), a paused machine is quiet (`PausedIsQuiet`: a stopped CPU is at a point from
  which it does not enter `cpu_exec`), and no CPU executes with a finished flush in its
  queue (`FlushedBeforeGuest`: whoever queued it has kicked the CPU, or is about to).

**Core** (`CoreProofs`)

* *RCU*: `GracePeriod` for any set of readers, nesting and width of the counter. `RcuInv`
  says that a reader to be waited for is on the list that is looked at and holds the number
  of an earlier grace period. Numbers are odd and the range of `unsigned` is even, so a
  truncated number is never 0, the mark of a reader outside (`OddTruncated`).
* *Main loop*: `NeverOversleeps` for any threads, bottom halves and timers. `LoopInv` says
  that the timer list is sorted and holds exactly the armed timers, that a bottom half
  marked pending is in a list or about to be, and, point by point of the decision to sleep,
  which of the threads will still wake the loop for what it has not seen.

**Callbacks** (`CallRcuProofs`): `CallbackAfterGrace`, for any finite set of threads and number of calls.
The list in memory is not a list while threads enqueue: a node is at the tail before
anything points to it. `CallInv` therefore says that there is a sequence q and a window
q[lo] .. q[hi] of it which is the queue: each node points to the next or still to nothing,
and a thread between its two steps makes one of the missing links (`Linked`, `Missing`). Enqueuing
moves the upper end, dequeuing the lower one, making a link neither. The window holds the
nodes that wait, those of a thread in the order of its calls (`Holds`). `Counts` says that
the counter, the batch and the threads between link and count make up the nodes that wait;
so the thread never meets an empty queue. And, from the beginning of the grace period on,
at least n nodes at the front had been called for by then (`Batch`): the ones the thread
takes, though it looks at the queue only afterwards.

Only model-checked:

* `TreeIsCurrent`: the clock tree is a RECURSIVE operator, as the code is recursive, and
  tlapm has no SMT backend in a module that reaches one. It is the only invariant of the
  runs without a theorem.
* All liveness (`UpdatesGoOn`, `ColdAfterOff`, `HangIsCaught`, `CallbacksRun`,
  `MainThreadReturns` and the like): this prover handles neither fairness nor ENABLED.

The proofs contain no induction over sequences or recursive definitions of arbitrary data;
where a recursive function is over numbers, as in `Stm32Rtc`, the numbers with a property form a set
and the induction is over that set.

## 6. What is left out

Of the modelled parts:

* USART: baud rate (nothing waits for it), the text conversion of newlines for the
  character device, saved states.
* DMA: memory contents, SxM1AR and SxFCR (only stored), the receive timer (never armed),
  directions other than peripheral-to-memory beyond their start, the second half
  controller (same code).
* GPIO: narrow accesses, MODER and the registers that are only stored, the lines to
  EXTI and wake-up.
* Drivers: the position sent to the visualisation, the checksum of answers (drivers do
  not look at the one they receive).
* RCC, timers: reads, warnings, maximal frequencies; counting modes that are only
  logged. Heater and fan: curves and labels.
* Display: colours, screenshots. Ethernet: PHY registers, MAC address, checksums. RTC:
  the calendar and the masks of alarms, the 12-hour format, backup registers.
* Script host: text, completion, registration of clients, HoldExec and Running (returned
  by no client), menu and key callbacks (called by nobody).
* Watchdog: reads, and the merge of 16-bit accesses.
* CPU threads: the round-robin thread, unplugging, the debugger, icount. RCU: fork. Main
  loop: file descriptors, one-shot bottom halves, nested `aio_poll`.

Parts not modelled, and why:

* **ADC, thermistors**: a conversion is over when the write that starts it returns, of
  the first channel of the sequence only, and nothing follows from it but a number from
  a table; there is no order of events to check.
* **I2C, USB host**: each is one half of a protocol. The other half is the firmware,
  which is not in the repository, and for USB also QEMU's USB core. What the registers
  do under arbitrary writes says little without it.
* **SPI**: a transfer is complete when the write to the data register returns.
* **Flash, OTP, CRC, PWR, ITM**: stored registers.
* **Visualisation, arguments**: drawing and strings.
* **Board assembly**: runs once; the wiring is in the models that need it.
* **The remainder of QEMU**: other machines and devices, the block layer, migration, user
  interfaces and the translator, none of which this board's code has a protocol with
  beyond the lines, timers and back ends modelled as it uses them.

The repository has about 1.74 million lines, nearly all of them that remainder. The
definitions map to about 5,400 lines: some 3,800 of the 13,300 in `hw/arm/prusa`, and
1,600 of the core. As a share of the whole repository this is a fraction of a percent,
and models of this kind will not change that. In `hw/arm/prusa` the files of the
modelled parts are mostly covered by a third to two thirds of their lines; the others are
reads, register layouts, text, saved states and set-up.

## 7. What could come next

* A proof that the clock tree agrees with the reference frequency, for any tree.
* A driver that obeys whole datagrams as the abstract specification of
  `Tmc2209Serial`.
* The main thread and the main loop in one model: `VcpuThreads` takes the main thread as
  one that may do anything next, `MainLoop` takes the threads so.
