------------------------------ MODULE MainLoop ------------------------------
(***************************************************************************)
(* The main loop (util/main-loop.c), its bottom halves (util/async.c) and  *)
(* its timers (util/qemu-timer.c), with threads that schedule bottom       *)
(* halves and set timers while the loop decides how long to sleep.         *)
(*                                                                         *)
(* A step is one access to what the threads share, or a critical section.  *)
(* Times are relative to now; time passes while the loop is in poll(), so  *)
(* the loop's own steps take none, and timers are set ahead of now.  GLib  *)
(* calls the check function of the context's source only if its prepare    *)
(* function returned FALSE.                                                *)
(***************************************************************************)
EXTENDS Integers, Sequences, FiniteSetsExt

CONSTANTS
  LoopThreads,   \* threads other than the main thread
  TimerThreads,  \* those that set timers
  Bhs,           \* bottom halves
  NotifyBh,      \* qemu_notify_bh
  Timers,        \* timers of one list of main_loop_tlg
  MaxDelay       \* bound: how far ahead a timer is set, and the 10 ms of idle ones

ASSUME LoopAssumption ==
  NotifyBh \notin Bhs /\ TimerThreads \subseteq LoopThreads /\ MaxDelay \in Nat

VARIABLES
  lat,           \* where the main thread is
  timeout,       \* its timeout; Forever is -1
  ready,         \* the source is ready: prepare returned TRUE
  revents,       \* poll() has found the notifier set
  notify_me, notifier,
  flags,         \* QEMUBH::flags
  bh_list, slice,
  expire,        \* the time to each timer; Off if it is not pending
  active_timers, \* the list
  tat,           \* where each thread is
  target,        \* the bottom half it enqueues (NotifyBh if none)
  asked          \* history: bottom halves scheduled and neither run nor cancelled

Forever == MaxDelay + 1
Off == -1
AllBhs == Bhs \cup {NotifyBh}

loopVars == <<lat, timeout, ready, revents, slice>>
threadVars == <<tat, target>>
mainVars == <<loopVars, threadVars, notify_me, notifier, flags, bh_list, expire, active_timers, asked>>

LoopInit ==
  /\ lat = "deadline" /\ timeout = 0 /\ ready = FALSE /\ revents = FALSE
  /\ notify_me = FALSE /\ notifier = FALSE
  /\ flags = [b \in AllBhs |-> {}]
  /\ bh_list = <<>> /\ slice = <<>>
  /\ expire = [x \in Timers |-> Off]
  /\ active_timers = <<>>
  /\ tat = [t \in LoopThreads |-> "idle"]
  /\ target = [t \in LoopThreads |-> NotifyBh]
  /\ asked = {}

(***************************************************************************)
(* Bottom halves, from a thread                                            *)
(***************************************************************************)
ThreadTo(t, p) == tat' = [tat EXCEPT ![t] = p]

\* aio_bh_enqueue up to the list: set the flags, remember whether to insert.
Enqueue(t, b, new) ==
  /\ flags' = [flags EXCEPT ![b] = @ \cup {"PENDING"} \cup new]
  /\ target' = [target EXCEPT ![t] = b]
  /\ ThreadTo(t, IF "PENDING" \in flags[b] THEN "notify" ELSE "insert")
  /\ asked' = IF "SCHEDULED" \in new THEN asked \cup {b} ELSE asked

qemu_bh_schedule(t, b) ==
  /\ tat[t] = "idle" /\ Enqueue(t, b, {"SCHEDULED"})
  /\ UNCHANGED <<loopVars, notify_me, notifier, bh_list, expire, active_timers>>

qemu_bh_schedule_idle(t, b) ==
  /\ tat[t] = "idle" /\ Enqueue(t, b, {"SCHEDULED", "IDLE"})
  /\ UNCHANGED <<loopVars, notify_me, notifier, bh_list, expire, active_timers>>

qemu_bh_cancel(t, b) ==
  /\ tat[t] = "idle"
  /\ flags' = [flags EXCEPT ![b] = @ \ {"SCHEDULED"}]
  /\ asked' = asked \ {b}
  /\ UNCHANGED <<loopVars, threadVars, notify_me, notifier, bh_list, expire, active_timers>>

\* QSLIST_INSERT_HEAD_ATOMIC
Insert(t) ==
  /\ tat[t] = "insert"
  /\ bh_list' = <<target[t]>> \o bh_list
  /\ ThreadTo(t, "notify")
  /\ UNCHANGED <<loopVars, target, notify_me, notifier, flags, expire, active_timers, asked>>

\* aio_notify
Notify(t) ==
  /\ tat[t] = "notify"
  /\ ThreadTo(t, IF notify_me THEN "set" ELSE "idle")
  /\ target' = [target EXCEPT ![t] = NotifyBh]
  /\ UNCHANGED <<loopVars, notify_me, notifier, flags, bh_list, expire, active_timers, asked>>

\* event_notifier_set
SetNotifier(t) ==
  /\ tat[t] = "set"
  /\ notifier' = TRUE
  /\ ThreadTo(t, "idle")
  /\ UNCHANGED <<loopVars, target, notify_me, flags, bh_list, expire, active_timers, asked>>

(***************************************************************************)
(* Timers                                                                  *)
(***************************************************************************)
\* A list without its entry k, and with x before it
UnlinkAt(list, k) == SubSeq(list, 1, k - 1) \o SubSeq(list, k + 1, Len(list))
LinkAt(list, k, x) == SubSeq(list, 1, k - 1) \o <<x>> \o SubSeq(list, k, Len(list))

\* The list behind timer_del_locked
timer_del_locked(list, x) ==
  LET at == {i \in DOMAIN list : list[i] = x}
  IN  IF at = {} THEN list ELSE UnlinkAt(list, Min(at))

\* timer_mod_ns_locked: before the first timer that is later
Later(list, d) == {i \in DOMAIN list : expire[list[i]] > d}

Sorted(list, x, d) ==
  LinkAt(list, IF Later(list, d) = {} THEN Len(list) + 1 ELSE Min(Later(list, d)), x)

\* timer_mod_ns
SetTimer(x, d) ==
  /\ active_timers' = Sorted(timer_del_locked(active_timers, x), x, d)
  /\ expire' = [expire EXCEPT ![x] = d]

\* The deadline has changed: the timer is the new head.
Rearm(x) == Head(active_timers') = x

timer_mod(t, x, d) ==
  /\ tat[t] = "idle"
  /\ SetTimer(x, d)
  /\ ThreadTo(t, IF Rearm(x) THEN "rearm" ELSE "idle")
  /\ UNCHANGED <<loopVars, target, notify_me, notifier, flags, bh_list, asked>>

timer_del(t, x) ==
  /\ tat[t] = "idle"
  /\ active_timers' = timer_del_locked(active_timers, x)
  /\ expire' = [expire EXCEPT ![x] = Off]
  /\ UNCHANGED <<loopVars, threadVars, notify_me, notifier, flags, bh_list, asked>>

\* timerlist_notify: qemu_notify_event
timerlist_rearm(t) ==
  /\ tat[t] = "rearm" /\ Enqueue(t, NotifyBh, {"SCHEDULED"})
  /\ UNCHANGED <<loopVars, notify_me, notifier, bh_list, expire, active_timers>>

(***************************************************************************)
(* main_loop_wait                                                          *)
(***************************************************************************)
Due(b) == "SCHEDULED" \in flags[b]

\* timerlist_deadline_ns
Deadline ==
  /\ lat = "deadline"
  /\ timeout' = IF active_timers = <<>> THEN Forever ELSE expire[Head(active_timers)]
  /\ lat' = "prepare"
  /\ UNCHANGED <<ready, revents, slice, threadVars, notify_me, notifier, flags, bh_list, expire,
                 active_timers, asked>>

\* Faulty form: the flag is set when the timeout has been computed.
Prepare_late ==
  /\ lat = "prepare"
  /\ lat' = "compute"
  /\ UNCHANGED <<timeout, ready, revents, slice, threadVars, notify_me, notifier, flags, bh_list,
                 expire, active_timers, asked>>

\* aio_ctx_prepare: ask to be notified...
Prepare ==
  /\ lat = "prepare"
  /\ notify_me' = TRUE
  /\ lat' = "compute"
  /\ UNCHANGED <<timeout, ready, revents, slice, threadVars, notifier, flags, bh_list, expire,
                 active_timers, asked>>

\* ...then look for bottom halves: aio_compute_timeout.
Compute ==
  /\ lat = "compute"
  /\ LET due == {i \in DOMAIN bh_list : Due(bh_list[i])}
         now == \E i \in due : "IDLE" \notin flags[bh_list[i]]
         bhTimeout == IF now THEN 0 ELSE IF due # {} THEN MaxDelay ELSE Forever
     IN ready' = now /\ timeout' = Min({timeout, bhTimeout})
  /\ lat' = "poll"
  /\ UNCHANGED <<revents, slice, threadVars, notify_me, notifier, flags, bh_list, expire,
                 active_timers, asked>>

\* qemu_poll_ns returns: the notifier is set or the time is up.
Poll ==
  /\ lat = "poll" /\ (notifier \/ timeout = 0)
  /\ revents' = notifier
  /\ lat' = IF ready THEN "move" ELSE "check"
  /\ timeout' = 0
  /\ UNCHANGED <<ready, slice, threadVars, notify_me, notifier, flags, bh_list, expire,
                 active_timers, asked>>

\* aio_ctx_check
Check ==
  /\ lat = "check"
  /\ notify_me' = FALSE
  /\ lat' = IF revents \/ (\E i \in DOMAIN bh_list : Due(bh_list[i])) THEN "move" ELSE "timers"
  /\ UNCHANGED <<timeout, ready, revents, slice, threadVars, notifier, flags, bh_list, expire,
                 active_timers, asked>>

\* aio_bh_poll: QSLIST_MOVE_ATOMIC
MoveList ==
  /\ lat = "move"
  /\ slice' = bh_list /\ bh_list' = <<>>
  /\ lat' = "dequeue"
  /\ UNCHANGED <<timeout, ready, revents, threadVars, notify_me, notifier, flags, expire,
                 active_timers, asked>>

\* Faulty form of the fetch: BH_PENDING stays set.
Fetched_pending(b) == flags[b] \ {"SCHEDULED", "IDLE"}

Fetched(b) == flags[b] \ {"PENDING", "SCHEDULED", "IDLE"}

\* aio_bh_dequeue and the callback: the bottom half is off the list and its
\* flags are fetched.  A thread that schedules it before the fetch finds it
\* pending and does not insert it.
RunBh ==
  /\ lat = "dequeue" /\ slice # <<>>
  /\ LET b == Head(slice)
     IN flags' = [flags EXCEPT ![b] = Fetched(b)] /\ asked' = asked \ {b}
  /\ slice' = Tail(slice)
  /\ UNCHANGED <<lat, timeout, ready, revents, threadVars, notify_me, notifier, bh_list, expire,
                 active_timers>>

\* aio_dispatch_handlers: aio_context_notifier_cb if poll() reported it.
Handlers ==
  /\ lat = "dequeue" /\ slice = <<>>
  /\ notifier' = (notifier /\ ~revents)
  /\ revents' = FALSE /\ ready' = FALSE
  /\ lat' = "timers"
  /\ UNCHANGED <<timeout, slice, threadVars, notify_me, flags, bh_list, expire, active_timers, asked>>

Expired == active_timers # <<>> /\ expire[Head(active_timers)] <= 0

\* timerlist_run_timers: take an expired timer off the list and call back.  What
\* a callback does to timers and bottom halves, a thread does in the model.
RunTimer ==
  /\ lat = "timers" /\ Expired
  /\ LET x == Head(active_timers) IN
     /\ active_timers' = Tail(active_timers)
     /\ expire' = [expire EXCEPT ![x] = Off]
  /\ UNCHANGED <<loopVars, threadVars, notify_me, notifier, flags, bh_list, asked>>

TimersDone ==
  /\ lat = "timers" /\ ~Expired
  /\ lat' = "deadline"
  /\ UNCHANGED <<timeout, ready, revents, slice, threadVars, notify_me, notifier, flags, bh_list,
                 expire, active_timers, asked>>

\* Time passes while the loop is in poll().
PassTime ==
  /\ lat = "poll" /\ ~notifier /\ timeout > 0
  /\ timeout' = IF timeout = Forever THEN Forever ELSE timeout - 1
  /\ expire' = [x \in Timers |-> IF expire[x] > 0 THEN expire[x] - 1 ELSE expire[x]]
  /\ UNCHANGED <<lat, ready, revents, slice, threadVars, notify_me, notifier, flags, bh_list,
                 active_timers, asked>>

(***************************************************************************)
(* The specification                                                       *)
(***************************************************************************)
LoopProgress ==
  \/ Deadline \/ Prepare \/ Compute \/ Poll \/ Check
  \/ MoveList \/ RunBh \/ Handlers \/ RunTimer \/ TimersDone

ThreadProgress(t) == Insert(t) \/ Notify(t) \/ SetNotifier(t) \/ timerlist_rearm(t)

ThreadRequest(t) ==
  \/ \E b \in Bhs : qemu_bh_schedule(t, b) \/ qemu_bh_schedule_idle(t, b) \/ qemu_bh_cancel(t, b)
  \/ /\ t \in TimerThreads
     /\ \E x \in Timers : timer_del(t, x) \/ \E d \in 1..MaxDelay : timer_mod(t, x, d)

LoopNext ==
  \/ LoopProgress \/ PassTime
  \/ \E t \in LoopThreads : ThreadProgress(t) \/ ThreadRequest(t)

LoopFairness ==
  /\ WF_mainVars(LoopProgress) /\ WF_mainVars(PassTime)
  /\ \A t \in LoopThreads : WF_mainVars(ThreadProgress(t))

LoopSpec == LoopInit /\ [][LoopNext]_mainVars /\ LoopFairness

(***************************************************************************)
(* Properties.                                                             *)
(***************************************************************************)
\* The loop never sleeps through something: while it is in poll() and no thread
\* has still to notify it, either the notifier is set or the timeout ends no
\* later than the first timer and no bottom half that is due is in the list
\* (idle ones wait for the timeout).
NeverOversleeps ==
  lat = "poll" /\ ~notifier /\ (\A t \in LoopThreads : tat[t] = "idle")
  => /\ \A x \in Timers : expire[x] # Off => timeout <= expire[x]
     /\ \A b \in AllBhs : Due(b) => timeout = 0 \/ ("IDLE" \in flags[b] /\ timeout <= MaxDelay)

\* A bottom half that is scheduled runs or is cancelled, whatever the order in
\* which flags, list, notify_me and notifier are written and read.
BhRuns == \A b \in Bhs : b \in asked ~> b \notin asked
=============================================================================
