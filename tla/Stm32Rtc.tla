------------------------------ MODULE Stm32Rtc ------------------------------
(***************************************************************************)
(* The real-time clock (hw/arm/prusa/stm32f407/stm32f2xx_rtc.c).  It keeps *)
(* the guest's time as an offset to the host's, and brings the registers   *)
(* up to date when they are read and on a timer, checking the alarms for   *)
(* every second it skips.                                                  *)
(*                                                                         *)
(* TR and DR are the time of day and the day of ticks.  What the fields    *)
(* and masks of an alarm register match is a set of times of day.  The     *)
(* host's time and the offset are kept as their sum, the only thing that   *)
(* is ever made of them.  The timers may fire late, so they may fire at    *)
(* any time.                                                               *)
(***************************************************************************)
EXTENDS Integers

CONSTANTS
  Day,       \* ticks of a day
  Days,      \* values written to DR
  NsPerUs,   \* 1000
  Periods,   \* values of f2xx_clock_period_ns for the prescalers written
  Alarms,    \* what the alarm registers are set to match
  RtcCR,     \* values written to CR, as sets of bits
  RtcISR,    \* values written to ISR, as sets of flags
  MaxDelta,  \* the ticks that are made up for one by one: 1000
  MaxTime    \* bound: the guest's time is neither set past it nor runs past it

ASSUME RtcAssumption ==
  /\ Day \in Nat \ {0} /\ NsPerUs \in Nat \ {0}
  /\ Days \subseteq Nat /\ Periods \subseteq Nat \ {0}
  /\ MaxDelta \in Nat /\ MaxTime \in Nat

VARIABLES
  rtc,   \* f2xx_rtc; time: the host's time plus host_to_target_offset_us
  right, \* history: a clock set with this one, that counts the host's time by the tick
  due,   \* history: the alarms that went by since their flags were last cleared
  late   \* history: those that last went by in an update more than MaxDelta ticks late

rtcVars == <<rtc, right, due, late>>

Units == {"A", "B"}
\* Bits of CR and of ISR, and lines: alarm units and the wake-up timer
Enabled(s, u) == <<"enable", u>> \in s.cr
Interrupts(s, u) == <<"interrupt", u>> \in s.cr
Line(s, u, up) == IF up THEN s.irq \cup {u} ELSE s.irq \ {u}

\* f2xx_rtc_compute_target_time_from_host_time
TargetTicks(s) == (s.time * NsPerUs) \div s.period

\* f2xx_rtc_compute_host_to_target_offset, with the host's time put back
TimeOf(ticks, period) == (ticks * period) \div NsPerUs

\* f2xx_alarm_check with f2xx_alarm_match
AlarmCheck(s, u) ==
  LET isr == IF s.ticks % Day \in s.alarm[u] THEN s.isr \cup {u} ELSE s.isr
  IN  IF Enabled(s, u)
      THEN [s EXCEPT !.isr = isr, !.irq = Line(s, u, Interrupts(s, u) /\ u \in isr)]
      ELSE s

\* The registers step on to the tick k, with its alarms.
TickTo(s, k) == AlarmCheck(AlarmCheck([s EXCEPT !.ticks = k], "A"), "B")

\* Faulty form: the alarms are checked for the new time only.
CatchUp_last(s, new) == IF s.ticks = new THEN s ELSE TickTo(s, new)

\* The loop of f2xx_update_current_date_and_time
CatchUp(s, new) ==
  LET loop[k \in s.ticks .. new] == IF k = s.ticks THEN s ELSE TickTo(loop[k - 1], k)
  IN  loop[new]

\* The alarms that s has enabled and that go by on its way to the tick new
AlarmsPassed(s, new) ==
  {u \in Units : Enabled(s, u) /\ \E k \in s.ticks + 1 .. new : k % Day \in s.alarm[u]}

\* f2xx_update_current_date_and_time, from f2xx_timer or a read of TR or DR: a step
\* back or too far ahead is made at once, without the alarms.
UpdateTime ==
  LET new == TargetTicks(rtc)
      delta == new - rtc.ticks
      passed == AlarmsPassed(rtc, new)
  IN  /\ rtc' = IF delta < 0 \/ delta > MaxDelta THEN [rtc EXCEPT !.ticks = new]
                ELSE CatchUp(rtc, new)
      /\ due' = due \cup passed
      /\ late' = IF delta > MaxDelta THEN late \cup passed ELSE late \ passed
      /\ UNCHANGED right

\* f2xx_rtc_write of WPR: the two keys in turn
WriteWPR(first, second) ==
  /\ rtc' = [rtc EXCEPT !.wp = IF (rtc.wp = 0 /\ first) \/ (rtc.wp = 1 /\ second) THEN @ + 1 ELSE 0]
  /\ UNCHANGED <<right, due, late>>

\* f2xx_rtc_write of TR or DR: the clock is set to what both now say.
SetClock(ticks) ==
  /\ rtc.wp = 2
  /\ TimeOf(ticks, rtc.period) <= MaxTime
  /\ rtc' = [rtc EXCEPT !.ticks = ticks, !.time = TimeOf(ticks, rtc.period)]
  /\ right' = [ticks |-> ticks, ns |-> 0, kept |-> TRUE]
  /\ UNCHANGED <<due, late>>
WriteTR(time) == SetClock((rtc.ticks \div Day) * Day + time)
WriteDR(day) == SetClock(day * Day + (rtc.ticks % Day))

\* of PRER: the offset stays as it is, and the clock is no longer right.
WritePRER(period) ==
  /\ rtc.wp = 2
  /\ rtc' = [rtc EXCEPT !.period = period]
  /\ right' = IF period = rtc.period THEN right ELSE [ticks |-> 0, ns |-> 0, kept |-> FALSE]
  /\ UNCHANGED <<due, late>>

\* of CR, where a change of WUTE sets or stops the wake-up timer
WriteCR(cr) ==
  LET on == <<"enable", "wakeup">> \in cr
      changed == on # Enabled(rtc, "wakeup")
  IN  /\ rtc.wp = 2
      /\ rtc' = [rtc EXCEPT !.cr = cr,
                            !.wut = IF changed THEN on ELSE @,
                            !.irq = IF changed /\ ~on THEN @ \ {"wakeup"} ELSE @]
      /\ UNCHANGED <<right, due, late>>

\* of WUTR, with the same trailing code
WriteWUTR ==
  /\ rtc.wp = 2
  /\ rtc' = [rtc EXCEPT !.wut = Enabled(rtc, "wakeup"),
                        !.irq = IF Enabled(rtc, "wakeup") THEN @ ELSE @ \ {"wakeup"}]
  /\ UNCHANGED <<right, due, late>>

\* of ALRMAR and ALRMBR
WriteAlarm(u, times) ==
  /\ rtc.wp = 2
  /\ rtc' = [rtc EXCEPT !.alarm[u] = times]
  /\ UNCHANGED <<right, due, late>>

\* of ISR, which is not protected: the flags become what is written, and the lines
\* of alarm A and the wake-up timer fall with theirs (alarm B's waits for a tick).
WriteISR(flags) ==
  /\ rtc' = [rtc EXCEPT !.isr = flags,
                        !.irq = @ \ ((rtc.isr \ flags) \cap {"A", "wakeup"})]
  /\ due' = due \cap flags
  /\ late' = late \cap flags
  /\ UNCHANGED right

\* f2xx_wu_timer
WakeUp ==
  /\ rtc.wut
  /\ rtc' = IF Enabled(rtc, "wakeup")
            THEN [rtc EXCEPT !.isr = @ \cup {"wakeup"},
                             !.irq = Line(rtc, "wakeup", Interrupts(rtc, "wakeup"))]
            ELSE [rtc EXCEPT !.wut = FALSE]
  /\ UNCHANGED <<right, due, late>>

\* f2xx_rtc_reset: timers, flags and lines are left alone.
RtcReset ==
  /\ rtc' = [rtc EXCEPT !.cr = {}]
  /\ UNCHANGED <<right, due, late>>

HostPasses(us) ==
  LET ns == right.ns + us * NsPerUs
  IN  /\ rtc.time + us <= MaxTime
      /\ rtc' = [rtc EXCEPT !.time = @ + us]
      /\ right' = IF right.kept
                  THEN [right EXCEPT !.ticks = @ + (ns \div rtc.period), !.ns = ns % rtc.period]
                  ELSE right
      /\ UNCHANGED <<due, late>>

\* f2xx_rtc_init
RtcInit ==
  /\ \E period \in Periods :
       rtc = [ticks |-> 0, time |-> 0, period |-> period, cr |-> {}, isr |-> {}, irq |-> {},
              wp |-> 0, alarm |-> [u \in Units |-> {0}], wut |-> FALSE]
  /\ right = [ticks |-> 0, ns |-> 0, kept |-> TRUE]
  /\ due = {} /\ late = {}

RtcNext ==
  \/ \E us \in {1, MaxTime} : HostPasses(us)
  \/ UpdateTime \/ WakeUp \/ RtcReset \/ WriteWUTR
  \/ WriteWPR(TRUE, FALSE) \/ WriteWPR(FALSE, TRUE)
  \/ \E time \in 0 .. Day - 1 : WriteTR(time)
  \/ \E day \in Days : WriteDR(day)
  \/ \E period \in Periods : WritePRER(period)
  \/ \E cr \in RtcCR : WriteCR(cr)
  \/ \E u \in Units, times \in Alarms : WriteAlarm(u, times)
  \/ \E flags \in RtcISR : WriteISR(flags)

RtcSpec == RtcInit /\ [][RtcNext]_rtcVars

(***************************************************************************)
(* Properties.                                                             *)
(***************************************************************************)
\* The clock runs from where it was last set, tick by tick with the host's time,
\* though it is worked out through microseconds and back (with a period of whole
\* microseconds, and no new prescaler meanwhile); the registers lag but are never
\* ahead.  An alarm that was enabled when an update of the registers took them past
\* its time is in its flag until the guest clears it, whether or not the update ended
\* on that time, unless the update was more than MaxDelta ticks late: then the code
\* goes to the new time "without checking alarms" (rtc.c:473) and the alarm is lost.
\* The lines of alarm A and of the wake-up timer are up only with their flags.
ClockAndAlarmsRight ==
  /\ right.kept /\ rtc.period % NsPerUs = 0 =>
       TargetTicks(rtc) = right.ticks /\ rtc.ticks <= right.ticks
  /\ due \ late \subseteq rtc.isr
  /\ rtc.irq \ {"B"} \subseteq rtc.isr
=============================================================================
