---------------------------- MODULE CpuExclusive ----------------------------
(***************************************************************************)
(* Exclusive sections of virtual CPUs (cpus-common.c): start_exclusive     *)
(* waits until no CPU is between cpu_exec_start and cpu_exec_end.          *)
(*                                                                         *)
(* Each CPU is a thread.  A step is what a thread does between two points  *)
(* where another thread can see or change what it works on: pending_cpus   *)
(* and running are read and written outside qemu_cpu_list_lock, has_waiter *)
(* only under it.  A critical section is therefore one step, except that   *)
(* of start_exclusive, which reads the running flags one by one while the  *)
(* other threads go on; the lock is taken while a thread is at "ex_scan".  *)
(* smp_mb() after each write makes the accesses sequentially consistent.   *)
(***************************************************************************)
EXTENDS Naturals, FiniteSets

CONSTANT Cpus

ASSUME CpusAssumption == IsFiniteSet(Cpus)

VARIABLES
  at,            \* where each thread is
  running,       \* the CPUs with cpu->running
  has_waiter,    \* the CPUs with cpu->has_waiter
  pending_cpus,
  todo,          \* CPUs start_exclusive has still to look at
  woken          \* threads woken from qemu_cond_wait

exclusiveVars == <<at, running, has_waiter, pending_cpus, todo, woken>>

Points == {"out",                               \* neither in cpu_exec nor exclusive
           "starting", "start_lock", "start_wait",  \* in cpu_exec_start
           "exec",                              \* in cpu_exec
           "ending", "end_lock",                \* in cpu_exec_end
           "ex_lock", "ex_idle", "ex_scan", "ex_wait",  \* in start_exclusive
           "exclusive"}

Unlocked == \A c \in Cpus : at[c] # "ex_scan"   \* qemu_cpu_list_lock is free

Goto(c, p) == at' = [at EXCEPT ![c] = p]

ExclusiveInit ==
  /\ at = [c \in Cpus |-> "out"]
  /\ running = {}
  /\ has_waiter = {}
  /\ pending_cpus = 0
  /\ todo = {}
  /\ woken = {}

(***************************************************************************)
(* cpu_exec_start                                                          *)
(***************************************************************************)
StartRunning(c) ==
  /\ at[c] = "out"
  /\ running' = running \cup {c}
  /\ Goto(c, "starting")
  /\ UNCHANGED <<has_waiter, pending_cpus, todo, woken>>

\* Faulty form: pending_cpus is not looked at.
StartCheck_skipped(c) ==
  /\ at[c] = "starting"
  /\ Goto(c, "exec")
  /\ UNCHANGED <<running, has_waiter, pending_cpus, todo, woken>>

StartCheck(c) ==
  /\ at[c] = "starting"
  /\ Goto(c, IF pending_cpus = 0 THEN "exec" ELSE "start_lock")
  /\ UNCHANGED <<running, has_waiter, pending_cpus, todo, woken>>

\* With the lock: a counted CPU goes ahead, another one lets the exclusive
\* section run first (exclusive_idle).
StartLocked(c) ==
  /\ at[c] = "start_lock" /\ Unlocked
  /\ IF c \in has_waiter \/ pending_cpus = 0
     THEN Goto(c, "exec") /\ UNCHANGED running
     ELSE Goto(c, "start_wait") /\ running' = running \ {c}
  /\ UNCHANGED <<has_waiter, pending_cpus, todo, woken>>

StartWoken(c) ==
  /\ at[c] = "start_wait" /\ c \in woken /\ Unlocked
  /\ woken' = woken \ {c}
  /\ IF pending_cpus = 0
     THEN Goto(c, "exec") /\ running' = running \cup {c}
     ELSE UNCHANGED <<at, running>>
  /\ UNCHANGED <<has_waiter, pending_cpus, todo>>

(***************************************************************************)
(* cpu_exec_end                                                            *)
(***************************************************************************)
EndRunning(c) ==
  /\ at[c] = "exec"
  /\ running' = running \ {c}
  /\ Goto(c, "ending")
  /\ UNCHANGED <<has_waiter, pending_cpus, todo, woken>>

EndCheck(c) ==
  /\ at[c] = "ending"
  /\ Goto(c, IF pending_cpus = 0 THEN "out" ELSE "end_lock")
  /\ UNCHANGED <<running, has_waiter, pending_cpus, todo, woken>>

\* qemu_cond_signal(&exclusive_cond)
SignalWaiter(n) ==
  woken' = woken \cup (IF n = 1 THEN {d \in Cpus : at[d] = "ex_wait"} ELSE {})

EndLocked(c) ==
  /\ at[c] = "end_lock" /\ Unlocked
  /\ Goto(c, "out")
  /\ IF c \in has_waiter
     THEN /\ has_waiter' = has_waiter \ {c}
          /\ pending_cpus' = pending_cpus - 1
          /\ SignalWaiter(pending_cpus')
     ELSE UNCHANGED <<has_waiter, pending_cpus, woken>>
  /\ UNCHANGED <<running, todo>>

(***************************************************************************)
(* start_exclusive and end_exclusive                                       *)
(***************************************************************************)
WantExclusive(c) ==
  /\ at[c] = "out"
  /\ Goto(c, "ex_lock")
  /\ UNCHANGED <<running, has_waiter, pending_cpus, todo, woken>>

\* With the lock: wait for the end of another section, or ask the CPUs to stop.
Claim(c) ==
  IF pending_cpus = 0
  THEN Goto(c, "ex_scan") /\ pending_cpus' = 1 /\ todo' = Cpus
  ELSE Goto(c, "ex_idle") /\ UNCHANGED <<pending_cpus, todo>>

ExclusiveLocked(c) ==
  /\ at[c] = "ex_lock" /\ Unlocked
  /\ Claim(c)
  /\ UNCHANGED <<running, has_waiter, woken>>

ExclusiveIdleWoken(c) ==
  /\ at[c] = "ex_idle" /\ c \in woken /\ Unlocked
  /\ woken' = woken \ {c}
  /\ Claim(c)
  /\ UNCHANGED <<running, has_waiter>>

\* CPU_FOREACH: one CPU is looked at, and counted and kicked if it runs.
Scan(c, d) ==
  /\ at[c] = "ex_scan" /\ d \in todo
  /\ todo' = todo \ {d}
  /\ has_waiter' = IF d \in running THEN has_waiter \cup {d} ELSE has_waiter
  /\ UNCHANGED <<at, running, pending_cpus, woken>>

ScanDone(c) ==
  /\ at[c] = "ex_scan" /\ todo = {}
  /\ pending_cpus' = Cardinality(has_waiter) + 1
  /\ Goto(c, IF has_waiter = {} THEN "exclusive" ELSE "ex_wait")
  /\ UNCHANGED <<running, has_waiter, todo, woken>>

ExclusiveWoken(c) ==
  /\ at[c] = "ex_wait" /\ c \in woken /\ Unlocked
  /\ woken' = woken \ {c}
  /\ IF pending_cpus > 1 THEN UNCHANGED at ELSE Goto(c, "exclusive")
  /\ UNCHANGED <<running, has_waiter, pending_cpus, todo>>

\* end_exclusive: qemu_cond_broadcast(&exclusive_resume)
EndExclusive(c) ==
  /\ at[c] = "exclusive" /\ Unlocked
  /\ pending_cpus' = 0
  /\ woken' = woken \cup {d \in Cpus : at[d] \in {"start_wait", "ex_idle"}}
  /\ Goto(c, "out")
  /\ UNCHANGED <<running, has_waiter, todo>>

\* A wait on a condition variable may return without a signal.
Spurious(c) ==
  /\ at[c] \in {"start_wait", "ex_idle", "ex_wait"}
  /\ woken' = woken \cup {c}
  /\ UNCHANGED <<at, running, has_waiter, pending_cpus, todo>>

ExclusiveStep(c) ==
  \/ StartRunning(c) \/ StartCheck(c) \/ StartLocked(c) \/ StartWoken(c)
  \/ EndRunning(c) \/ EndCheck(c) \/ EndLocked(c)
  \/ WantExclusive(c) \/ ExclusiveLocked(c) \/ ExclusiveIdleWoken(c)
  \/ (\E d \in Cpus : Scan(c, d)) \/ ScanDone(c) \/ ExclusiveWoken(c)
  \/ EndExclusive(c) \/ Spurious(c)

ExclusiveNext == \E c \in Cpus : ExclusiveStep(c)

ExclusiveSpec == ExclusiveInit /\ [][ExclusiveNext]_exclusiveVars

(***************************************************************************)
(* Properties.                                                             *)
(***************************************************************************)
ExclusiveTypeOK ==
  /\ at \in [Cpus -> Points]
  /\ running \subseteq Cpus
  /\ has_waiter \subseteq Cpus
  /\ pending_cpus \in Nat
  /\ todo \subseteq Cpus
  /\ woken \subseteq Cpus

\* Between start_exclusive and end_exclusive no other CPU is in cpu_exec and no
\* other thread is exclusive, however the unlocked accesses to running and
\* pending_cpus interleave.
ExclusiveAlone ==
  \A c, d \in Cpus : at[c] = "exclusive" /\ d # c => at[d] \notin {"exec", "exclusive"}

Owner(c) == at[c] \in {"ex_scan", "ex_wait", "exclusive"}

\* The counter counts: pending_cpus is 0 unless a thread is inside
\* start_exclusive/end_exclusive, and then, once the scan is over, one more than
\* the CPUs that have still to report.
CounterCounts ==
  /\ pending_cpus = 0 <=> \A c \in Cpus : ~Owner(c)
  /\ \A c \in Cpus : at[c] \in {"ex_wait", "exclusive"}
                     => pending_cpus = Cardinality(has_waiter) + 1
=============================================================================
