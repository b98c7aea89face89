------------------------------ MODULE QemuEvent ------------------------------
(***************************************************************************)
(* QemuEvent (util/qemu-thread-posix.c): a value that is set, free or busy *)
(* and a futex.  Each operator is one access to the value: where the       *)
(* thread goes, and the value it leaves.                                   *)
(***************************************************************************)

EventValues == {"set", "free", "busy"}

EventStep(p, v) == [to |-> p, value |-> v]

\* qemu_event_reset: EV_SET | EV_FREE is free; free and busy are left alone.
ResetPoints == {"reset_read", "reset_or"}

ResetStep(p, v, end) ==
  IF p = "reset_read"
  THEN EventStep(IF v = "set" THEN "reset_or" ELSE end, v)
  ELSE EventStep(end, IF v = "set" THEN "free" ELSE v)

\* qemu_event_set: read, exchange, wake the waiters.
SetPoints == {"set_read", "set_xchg"}

SetStep(p, v, wake, end) ==
  IF p = "set_read"
  THEN EventStep(IF v = "set" THEN end ELSE "set_xchg", v)
  ELSE EventStep(IF v = "busy" THEN wake ELSE end, "set")

\* qemu_event_wait: read, compare and swap, then futex_wait, which sleeps only
\* if the value is still busy.
WaitPoints == {"wait_read", "wait_cas", "wait_futex"}

WaitStep(p, v, end) ==
  CASE p = "wait_read" ->
         EventStep(IF v = "set" THEN end ELSE IF v = "free" THEN "wait_cas" ELSE "wait_futex", v)
    [] p = "wait_cas" ->
         EventStep(IF v = "set" THEN end ELSE "wait_futex", IF v = "free" THEN "busy" ELSE v)
    [] p = "wait_futex" ->
         EventStep(IF v = "busy" THEN "asleep" ELSE end, v)
=============================================================================
