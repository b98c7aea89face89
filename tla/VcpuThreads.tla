----------------------------- MODULE VcpuThreads -----------------------------
(***************************************************************************)
(* The threads of virtual CPUs (tcg_cpu_thread_fn), the work queued to     *)
(* them (cpus-common.c) and the main thread that pauses, resumes and       *)
(* interrupts them (softmmu/cpus.c), around the exclusive sections of      *)
(* CpuExclusive and the big lock (BQL).                                    *)
(*                                                                         *)
(* The point `at' of CpuExclusive is where a thread is inside              *)
(* tcg_cpu_exec, start_exclusive and end_exclusive; `pc' is where it is in *)
(* its loop.  Code that holds the BQL is one step unless something it      *)
(* reads is written without the BQL, as the work queues are.               *)
(***************************************************************************)
EXTENDS CpuExclusive, Sequences

CONSTANTS
  MaxQueue     \* bound: items in a work queue

ASSUME MaxQueueAssumption == MaxQueue \in Nat

VARIABLES
  pc,
  bql,           \* who holds the BQL
  exit_request,  \* the CPUs with cpu->exit_request
  work,          \* cpu->work_list: items run under the BQL (async, sync) or alone (safe)
  stop, stopped, \* the CPUs with cpu->stop, cpu->stopped
  halted,        \* the CPUs that are halted and have no interrupt to take
  kicked,        \* threads woken from halt_cond
  io,            \* where the main thread is
  io_woken,      \* it is woken from qemu_pause_cond or qemu_work_cond
  done,          \* wi.done of the main thread's run_on_cpu
  paused,        \* history: pause_all_vcpus has returned, resume_all_vcpus not run
  late           \* history: CPUs that had a flush queued when that flush was over, and have
                 \* not emptied their queue since

cpuVars == <<pc, exit_request, work, stop, stopped, halted, kicked>>
ioVars == <<io, io_woken, done, paused>>
vcpuVars == <<exclusiveVars, cpuVars, bql, ioVars, late>>

Free == "free"
MainThread == "main_thread"

ASSUME NamesAssumption == Free \notin Cpus /\ MainThread \notin Cpus

VcpuInit ==
  /\ ExclusiveInit
  /\ pc = [c \in Cpus |-> "boot"]
  /\ bql = MainThread
  /\ exit_request = {}
  /\ work = [c \in Cpus |-> <<>>]
  /\ stop = {} /\ stopped = Cpus
  /\ halted = {}
  /\ kicked = {}
  /\ io = "main" /\ io_woken = FALSE /\ done = FALSE
  /\ paused = FALSE
  /\ late = {}

(***************************************************************************)
(* Helpers                                                                 *)
(***************************************************************************)
GotoPc(c, p) == pc' = [pc EXCEPT ![c] = p]

\* qemu_cpu_kick with tcg_kick_vcpu_thread: wakes the sleepers and asks the
\* CPUs that execute to leave.
qemu_cpu_kick(S) ==
  /\ kicked' = kicked \cup {c \in S : pc[c] = "sleep"}
  /\ exit_request' = exit_request \cup S

\* cpu_thread_is_idle
cpu_thread_is_idle(c) ==
  c \notin stop /\ work[c] = <<>> /\ (c \in stopped \/ c \in halted)

cpu_can_run(c) == c \notin stop /\ c \notin stopped

TakeBql(t) == bql = Free /\ bql' = t

Append1(c, item) == work' = [work EXCEPT ![c] = Append(@, item)]

(***************************************************************************)
(* tcg_cpu_thread_fn: start, execution, and what follows it                *)
(***************************************************************************)
Boot(c) ==
  /\ pc[c] = "boot" /\ TakeBql(c)
  /\ exit_request' = exit_request \cup {c}
  /\ GotoPc(c, "top")
  /\ UNCHANGED <<exclusiveVars, work, stop, stopped, halted, kicked, ioVars, late>>

Top(c) ==
  /\ pc[c] = "top"
  /\ IF cpu_can_run(c)
     THEN bql' = Free /\ GotoPc(c, "enter") /\ UNCHANGED exit_request
     ELSE UNCHANGED bql /\ GotoPc(c, "event") /\ exit_request' = exit_request \ {c}
  /\ UNCHANGED <<exclusiveVars, work, stop, stopped, halted, kicked, ioVars, late>>

Enter(c) ==
  /\ pc[c] = "enter" /\ StartRunning(c)
  /\ GotoPc(c, "run")
  /\ UNCHANGED <<exit_request, work, stop, stopped, halted, kicked, bql, ioVars, late>>

\* cpu_exec_start and cpu_exec_end around cpu_exec.
StartOrEnd(c) ==
  /\ StartCheck(c) \/ StartLocked(c) \/ StartWoken(c) \/ EndCheck(c) \/ EndLocked(c)
  /\ UNCHANGED <<cpuVars, bql, ioVars, late>>

InExec(c) == at[c] = "exec" /\ pc[c] = "run"

\* cpu_exec executes guest code: no request to leave, not halted.
InGuest(c) == InExec(c) /\ c \notin exit_request /\ c \notin halted

\* cpu_exec_step_atomic executes guest code, alone.
InAtomicStep(c) == pc[c] = "atomic" /\ at[c] = "exclusive"

\* cpu_handle_interrupt and cpu_handle_halt: leave.
Exit(c) ==
  /\ InExec(c) /\ (c \in exit_request \/ c \in halted)
  /\ EndRunning(c)
  /\ exit_request' = exit_request \ {c}
  /\ UNCHANGED <<pc, work, stop, stopped, halted, kicked, bql, ioVars, late>>

\* The guest waits for an interrupt (EXCP_HALTED).
Halt(c) ==
  /\ InGuest(c)
  /\ halted' = halted \cup {c}
  /\ UNCHANGED <<exclusiveVars, pc, exit_request, work, stop, stopped, kicked, bql, ioVars, late>>

\* An instruction that must run alone (EXCP_ATOMIC).
ExitAtomic(c) ==
  /\ InGuest(c)
  /\ EndRunning(c)
  /\ GotoPc(c, "ran_atomic")
  /\ UNCHANGED <<exit_request, work, stop, stopped, halted, kicked, bql, ioVars, late>>

\* An access to a device takes the BQL, does its work and releases it.
Mmio(c) ==
  /\ InGuest(c)
  /\ GotoPc(c, "mmio")
  /\ UNCHANGED <<exclusiveVars, exit_request, work, stop, stopped, halted, kicked, bql, ioVars, late>>

MmioDone(c) ==
  /\ pc[c] = "mmio" /\ bql = Free
  /\ GotoPc(c, "run")
  /\ UNCHANGED <<exclusiveVars, exit_request, work, stop, stopped, halted, kicked, bql, ioVars, late>>

\* tlb_flush_by_mmuidx_all_cpus_synced: the flush is queued on every other CPU...
FlushOthers(c) ==
  /\ InGuest(c) /\ \A d \in Cpus : Len(work[d]) < MaxQueue
  /\ work' = [d \in Cpus |-> IF d = c THEN work[d] ELSE Append(work[d], [kind |-> "async", from |-> c])]
  /\ GotoPc(c, "flush")
  /\ UNCHANGED <<exclusiveVars, exit_request, stop, stopped, halted, kicked, bql, ioVars, late>>

\* Faulty form: the other CPUs are not kicked.
FlushSelf_quiet(c) ==
  /\ pc[c] = "flush"
  /\ qemu_cpu_kick({c})
  /\ Append1(c, [kind |-> "safe", from |-> c])
  /\ GotoPc(c, "run")
  /\ UNCHANGED <<exclusiveVars, stop, stopped, halted, bql, ioVars, late>>

\* ...which is then kicked, and as safe work on this one.
FlushSelf(c) ==
  /\ pc[c] = "flush"
  /\ qemu_cpu_kick(Cpus)
  /\ Append1(c, [kind |-> "safe", from |-> c])
  /\ GotoPc(c, "run")
  /\ UNCHANGED <<exclusiveVars, stop, stopped, halted, bql, ioVars, late>>

\* Back from tcg_cpu_exec.
Ran(c) ==
  /\ pc[c] = "run" /\ at[c] = "out" /\ TakeBql(c)
  /\ exit_request' = exit_request \ {c}
  /\ GotoPc(c, "event")
  /\ UNCHANGED <<exclusiveVars, work, stop, stopped, halted, kicked, ioVars, late>>

\* Back with EXCP_ATOMIC: the BQL is taken and released again.
RanAtomic(c) ==
  /\ pc[c] = "ran_atomic" /\ at[c] = "out" /\ bql = Free
  /\ WantExclusive(c)
  /\ GotoPc(c, "atomic")
  /\ UNCHANGED <<exit_request, work, stop, stopped, halted, kicked, bql, ioVars, late>>

AtomicDone(c) ==
  /\ pc[c] = "atomic_done" /\ TakeBql(c)
  /\ exit_request' = exit_request \ {c}
  /\ GotoPc(c, "event")
  /\ UNCHANGED <<exclusiveVars, work, stop, stopped, halted, kicked, ioVars, late>>

(***************************************************************************)
(* start_exclusive and end_exclusive, for an atomic step or a safe item    *)
(***************************************************************************)
Exclusive(c) ==
  /\ ExclusiveLocked(c) \/ ExclusiveIdleWoken(c) \/ ScanDone(c) \/ ExclusiveWoken(c)
  /\ UNCHANGED <<cpuVars, bql, ioVars, late>>

ScanKick(c, d) ==
  /\ Scan(c, d)
  /\ IF d \in running THEN qemu_cpu_kick({d}) ELSE UNCHANGED <<kicked, exit_request>>
  /\ UNCHANGED <<pc, work, stop, stopped, halted, bql, ioVars, late>>

\* A flush is over when its safe item has run.
LeaveExclusive(c) ==
  /\ EndExclusive(c)
  /\ GotoPc(c, IF pc[c] = "atomic" THEN "atomic_done" ELSE "safe_done")
  /\ late' = late \cup {d \in Cpus : pc[c] = "safe"
                                     /\ \E i \in DOMAIN work[d] : work[d][i] = [kind |-> "async", from |-> c]}
  /\ UNCHANGED <<exit_request, work, stop, stopped, halted, kicked, bql, ioVars>>

(***************************************************************************)
(* qemu_wait_io_event                                                      *)
(***************************************************************************)
Event(c) ==
  /\ pc[c] = "event"
  /\ IF cpu_thread_is_idle(c)
     THEN GotoPc(c, "drowsy") /\ UNCHANGED <<stop, stopped, io_woken>>
     ELSE /\ GotoPc(c, "work")
          /\ stop' = stop \ {c}
          /\ stopped' = IF c \in stop THEN stopped \cup {c} ELSE stopped
          /\ io_woken' = (io_woken \/ (c \in stop /\ io = "pause_wait"))
  /\ UNCHANGED <<exclusiveVars, exit_request, work, halted, kicked, bql, io, done, paused, late>>

\* qemu_cond_wait(cpu->halt_cond)
Sleep(c) ==
  /\ pc[c] = "drowsy"
  /\ GotoPc(c, "sleep") /\ bql' = Free
  /\ UNCHANGED <<exclusiveVars, exit_request, work, stop, stopped, halted, kicked, ioVars, late>>

Wake(c) ==
  /\ pc[c] = "sleep" /\ c \in kicked /\ TakeBql(c)
  /\ kicked' = kicked \ {c}
  /\ GotoPc(c, "event")
  /\ UNCHANGED <<exclusiveVars, exit_request, work, stop, stopped, halted, ioVars, late>>

\* Faulty form: a safe item runs with the BQL held.
RunSafe_locked(c) ==
  /\ WantExclusive(c) /\ GotoPc(c, "safe")
  /\ UNCHANGED <<bql, done, io_woken, late>>

RunSafe(c) ==
  /\ WantExclusive(c) /\ GotoPc(c, "safe") /\ bql' = Free
  /\ UNCHANGED <<done, io_woken, late>>

\* process_queued_cpu_work: the next item, or the end; waiters are told if there
\* was an item.
Work(c) ==
  /\ pc[c] \in {"work", "more"}
  /\ IF work[c] = <<>>
     THEN /\ GotoPc(c, "top")
          /\ io_woken' = (io_woken \/ (pc[c] = "more" /\ io = "work_wait"))
          /\ late' = late \ {c}
          /\ UNCHANGED <<exclusiveVars, work, bql, done>>
     ELSE /\ work' = [work EXCEPT ![c] = Tail(@)]
          /\ IF Head(work[c]).kind = "safe"
             THEN RunSafe(c)
             ELSE /\ done' = (done \/ Head(work[c]).kind = "sync")
                  /\ GotoPc(c, "more")
                  /\ UNCHANGED <<exclusiveVars, bql, io_woken, late>>
  /\ UNCHANGED <<exit_request, stop, stopped, halted, kicked, io, paused>>

SafeDone(c) ==
  /\ pc[c] = "safe_done" /\ TakeBql(c)
  /\ GotoPc(c, "more")
  /\ UNCHANGED <<exclusiveVars, exit_request, work, stop, stopped, halted, kicked, ioVars, late>>

(***************************************************************************)
(* The main thread                                                         *)
(***************************************************************************)
IoLock ==
  /\ io = "poll" /\ TakeBql(MainThread)
  /\ io' = "main"
  /\ UNCHANGED <<exclusiveVars, cpuVars, io_woken, done, paused, late>>

IoPoll ==
  /\ io = "main"
  /\ io' = "poll" /\ bql' = Free
  /\ UNCHANGED <<exclusiveVars, cpuVars, io_woken, done, paused, late>>

\* cpu_interrupt
Interrupt(c) ==
  /\ io = "main"
  /\ halted' = halted \ {c}
  /\ qemu_cpu_kick({c})
  /\ UNCHANGED <<exclusiveVars, pc, work, stop, stopped, bql, ioVars, late>>

RunOnCpu(c) ==
  /\ io = "main" /\ Len(work[c]) < MaxQueue
  /\ Append1(c, [kind |-> "sync", from |-> MainThread])
  /\ qemu_cpu_kick({c})
  /\ done' = FALSE
  /\ io' = "work_wait" /\ io_woken' = FALSE /\ bql' = Free
  /\ UNCHANGED <<exclusiveVars, pc, stop, stopped, halted, paused, late>>

WorkWoken ==
  /\ io = "work_wait" /\ io_woken /\ bql = Free
  /\ io_woken' = FALSE
  /\ IF done THEN io' = "main" /\ bql' = MainThread ELSE UNCHANGED <<io, bql>>
  /\ UNCHANGED <<exclusiveVars, cpuVars, done, paused, late>>

\* pause_all_vcpus up to its first wait.  Where it returns it releases the BQL
\* and takes it again.
PauseAll ==
  /\ io = "main"
  /\ stop' = Cpus
  /\ qemu_cpu_kick(Cpus)
  /\ bql' = Free /\ io_woken' = FALSE
  /\ IF stopped = Cpus
     THEN io' = "poll" /\ paused' = TRUE
     ELSE io' = "pause_wait" /\ UNCHANGED paused
  /\ UNCHANGED <<exclusiveVars, pc, work, stopped, halted, done, late>>

\* Faulty form: any CPU that stops ends the wait.
PauseWoken_any ==
  /\ io = "pause_wait" /\ io_woken /\ bql = Free
  /\ qemu_cpu_kick(Cpus)
  /\ io_woken' = FALSE
  /\ io' = "poll" /\ paused' = TRUE
  /\ UNCHANGED <<exclusiveVars, pc, bql, work, stop, stopped, halted, done, late>>

PauseWoken ==
  /\ io = "pause_wait" /\ io_woken /\ bql = Free
  /\ qemu_cpu_kick(Cpus)
  /\ io_woken' = FALSE
  /\ IF stopped = Cpus
     THEN io' = "poll" /\ paused' = TRUE
     ELSE UNCHANGED <<io, paused>>
  /\ UNCHANGED <<exclusiveVars, pc, bql, work, stop, stopped, halted, done, late>>

ResumeAll ==
  /\ io = "main"
  /\ stop' = {} /\ stopped' = {}
  /\ qemu_cpu_kick(Cpus)
  /\ paused' = FALSE
  /\ UNCHANGED <<exclusiveVars, pc, bql, work, halted, io, io_woken, done, late>>

\* A wait on a condition variable may return without a signal.
SpuriousWake ==
  \/ \E c \in Cpus : Spurious(c) /\ UNCHANGED <<cpuVars, bql, ioVars, late>>
  \/ \E c \in Cpus : /\ pc[c] = "sleep"
                     /\ kicked' = kicked \cup {c}
                     /\ UNCHANGED <<exclusiveVars, pc, exit_request, work, stop, stopped, halted,
                                    bql, ioVars, late>>
  \/ /\ io \in {"pause_wait", "work_wait"}
     /\ io_woken' = TRUE
     /\ UNCHANGED <<exclusiveVars, cpuVars, bql, io, done, paused, late>>

(***************************************************************************)
(* The specification                                                       *)
(***************************************************************************)
\* What a CPU's thread does without being asked again.
CpuProgress(c) ==
  \/ Boot(c) \/ Top(c) \/ Enter(c) \/ StartOrEnd(c) \/ Exit(c) \/ MmioDone(c) \/ FlushSelf(c)
  \/ Ran(c) \/ RanAtomic(c) \/ AtomicDone(c)
  \/ Exclusive(c) \/ (\E d \in Cpus : ScanKick(c, d)) \/ LeaveExclusive(c)
  \/ Event(c) \/ Sleep(c) \/ Wake(c) \/ Work(c) \/ SafeDone(c)

\* What the guest decides.
Guest(c) == Halt(c) \/ ExitAtomic(c) \/ Mmio(c) \/ FlushOthers(c)

IoProgress == IoLock \/ IoPoll \/ WorkWoken \/ PauseWoken

IoRequest == (\E c \in Cpus : Interrupt(c) \/ RunOnCpu(c)) \/ PauseAll \/ ResumeAll

VcpuNext ==
  \/ \E c \in Cpus : CpuProgress(c) \/ Guest(c)
  \/ IoProgress \/ IoRequest
  \/ SpuriousWake

\* A thread that can go on infinitely often does: the host schedules it, and
\* lets it have a mutex it waits for.
VcpuFairness == (\A c \in Cpus : SF_vcpuVars(CpuProgress(c))) /\ SF_vcpuVars(IoProgress)

VcpuSpec == VcpuInit /\ [][VcpuNext]_vcpuVars /\ VcpuFairness

(***************************************************************************)
(* Properties.                                                             *)
(***************************************************************************)
\* After pause_all_vcpus has returned, and until resume_all_vcpus, no CPU is in
\* cpu_exec or in an atomic step, whatever else its thread still does.
PausedIsQuiet == paused => \A c \in Cpus : at[c] # "exec" /\ ~InAtomicStep(c)

\* A synchronised TLB flush that is over is not overtaken by translated code: a
\* CPU that had it in its queue then executes no guest code in cpu_exec before
\* process_queued_cpu_work has emptied the queue.
FlushedBeforeGuest == \A c \in late : ~InGuest(c)

\* The main thread does not wait for ever.  pause_all_vcpus returns, whatever the
\* guest, exclusive sections and accesses to devices do with the BQL: a CPU that is
\* asked to stop stops.  run_on_cpu returns unless exclusive sections follow one
\* another for ever: nothing in exclusive_idle lets a CPU that waits go first.
MainThreadReturns ==
  /\ io = "pause_wait" ~> io # "pause_wait"
  /\ <>[](\A c \in Cpus : ~Owner(c)) => (io = "work_wait" ~> io # "work_wait")

\* The comment of flush_all_helper: "all queued work will be finished before
\* execution starts again", in cpu_exec or in an atomic step.
WorkBeforeExecution == \A c \in late : ~InGuest(c) /\ ~InAtomicStep(c)
=============================================================================
