---------------------------- MODULE VcpuProofs ----------------------------
(***************************************************************************)
(* For any finite set of CPUs: exclusive sections exclude (CpuExclusive),  *)
(* the threads around them use them as they are meant to be used, the BQL  *)
(* has one holder, paused CPUs are quiet and a finished TLB flush is not   *)
(* overtaken (VcpuThreads).                                                *)
(***************************************************************************)
EXTENDS VcpuThreads, FiniteSetTheorems, TLAPS

(***************************************************************************)
(* CpuExclusive                                                            *)
(***************************************************************************)
Runs == {"starting", "start_lock", "exec"}

\* A thread with a waiter is on its way to the end of cpu_exec_end.
Reporting == Runs \cup {"ending", "end_lock"}

\* At most one thread is inside start_exclusive/end_exclusive, and pending_cpus
\* tells whether there is one.
OneOwner ==
  /\ \A c, d \in Cpus : Owner(c) /\ Owner(d) => c = d
  /\ pending_cpus = 0 <=> \A c \in Cpus : ~Owner(c)

\* running is what it says, and a CPU with a waiter will report to an owner.
FlagsMeanIt ==
  /\ \A d \in Cpus : d \in running <=> at[d] \in Runs
  /\ \A d \in has_waiter : at[d] \in Reporting
  /\ has_waiter # {} => \E c \in Cpus : Owner(c)

\* A CPU the owner has looked at is in cpu_exec only if it is counted.
Counted ==
  /\ \A c, d \in Cpus : at[c] = "ex_scan" /\ at[d] = "exec" /\ d \notin todo => d \in has_waiter
  /\ \A c, d \in Cpus : at[c] \in {"ex_wait", "exclusive"} /\ at[d] = "exec" => d \in has_waiter
  /\ \A c \in Cpus : at[c] \in {"ex_wait", "exclusive"} => pending_cpus = Cardinality(has_waiter) + 1
  /\ \A c \in Cpus : at[c] = "exclusive" => has_waiter = {}

ExclusiveInv == ExclusiveTypeOK /\ OneOwner /\ FlagsMeanIt /\ Counted

\* The CPUs that have still to report are finitely many.
LEMMA WaitersFinite ==
  ASSUME has_waiter \subseteq Cpus
  PROVE  /\ IsFiniteSet(has_waiter)
         /\ Cardinality(has_waiter) \in Nat
         /\ Cardinality(has_waiter) = 0 <=> has_waiter = {}
         /\ \A c \in has_waiter : Cardinality(has_waiter \ {c}) = Cardinality(has_waiter) - 1
  <1>1. IsFiniteSet(has_waiter)
    BY CpusAssumption, FS_Subset
  <1> QED BY <1>1, FS_CardinalityType, FS_EmptySet, FS_RemoveElement

\* The invariant holds before any thread has started.
LEMMA ExclusiveInitInv == ExclusiveInit => ExclusiveInv
  BY DEF ExclusiveInit, ExclusiveInv, ExclusiveTypeOK, OneOwner, FlagsMeanIt, Counted,
       Points, Owner, Runs, Reporting

\* Steps that leave the counter and the waiters alone, move one thread between
\* points that are not an owner's, and keep running in line.
LEMMA QuietStep ==
  ASSUME ExclusiveInv, NEW c \in Cpus, NEW p \in Points,
         ~Owner(c), p \notin {"ex_scan", "ex_wait", "exclusive"}, Goto(c, p),
         UNCHANGED <<has_waiter, pending_cpus, todo>>, woken' \subseteq Cpus,
         running' \subseteq Cpus,
         \A d \in Cpus : d \in running' <=> IF d = c THEN p \in Runs ELSE d \in running,
         c \in has_waiter => p \in Reporting,
         p = "exec" => at[c] = "exec" \/ c \in has_waiter \/ pending_cpus = 0
  PROVE  ExclusiveInv'
  <1>1. /\ at \in [Cpus -> Points]
        /\ at' = [at EXCEPT ![c] = p]
    BY DEF ExclusiveInv, ExclusiveTypeOK, Goto
  <1>2. \A d \in Cpus : at'[d] = IF d = c THEN p ELSE at[d]
    BY <1>1
  <1>3. ExclusiveTypeOK'
    BY <1>1 DEF ExclusiveInv, ExclusiveTypeOK
  <1>4. \A d \in Cpus : Owner(d)' <=> Owner(d)
    BY <1>2 DEF Owner
  <1>5. OneOwner'
    BY <1>4 DEF OneOwner, ExclusiveInv
  <1>6. FlagsMeanIt'
    <2>1. \A d \in has_waiter : d \in Cpus /\ at[d] \in Reporting
      BY DEF FlagsMeanIt, ExclusiveInv, ExclusiveTypeOK
    <2>2. \A d \in has_waiter : at'[d] \in Reporting
      BY <1>2, <2>1
    <2>3. \A d \in Cpus : d \in running' <=> at'[d] \in Runs
      BY <1>2 DEF FlagsMeanIt, ExclusiveInv
    <2>4. has_waiter # {} => \E d \in Cpus : Owner(d)'
      BY <1>4 DEF FlagsMeanIt, ExclusiveInv
    <2> QED BY <2>2, <2>3, <2>4 DEF FlagsMeanIt
  <1>7. Counted'
    <2>1. \A d \in Cpus : d # c => at'[d] = at[d]
      BY <1>2
    <2>2. at'[c] = p
      BY <1>2
    <2>3. \A d \in Cpus : at'[d] \in {"ex_scan", "ex_wait", "exclusive"}
                          => at[d] = at'[d] /\ pending_cpus # 0
      BY <1>4, <2>1, <2>2 DEF OneOwner, Owner, ExclusiveInv
    <2>4. \A d, e \in Cpus : Owner(d)' /\ at'[e] = "exec" => at[e] = "exec" \/ e \in has_waiter
      BY <2>1, <2>2, <2>3 DEF Owner
    <2> QED BY <2>3, <2>4 DEF Counted, ExclusiveInv, Owner
  <1> QED BY <1>3, <1>5, <1>6, <1>7 DEF ExclusiveInv

\* cpu_exec_start, cpu_exec_end up to its lock, and waits.
LEMMA QuietSteps ==
  ASSUME ExclusiveInv, NEW c \in Cpus,
         \/ StartRunning(c) \/ StartCheck(c) \/ StartLocked(c) \/ StartWoken(c)
         \/ EndRunning(c) \/ EndCheck(c) \/ WantExclusive(c) \/ Spurious(c)
  PROVE  ExclusiveInv'
  <1>1. /\ at \in [Cpus -> Points] /\ running \subseteq Cpus /\ woken \subseteq Cpus
        /\ c \in running <=> at[c] \in Runs
        /\ c \in has_waiter => at[c] \in Reporting /\ pending_cpus # 0
    BY DEF ExclusiveInv, ExclusiveTypeOK, FlagsMeanIt, OneOwner
  <1> USE DEF Runs, Reporting, Points, Owner
  <1>2. CASE StartRunning(c)
    BY <1>1, <1>2, QuietStep DEF StartRunning
  <1>3. CASE StartCheck(c)
    BY <1>1, <1>3, QuietStep DEF StartCheck
  <1>4. CASE StartLocked(c)
    BY <1>1, <1>4, QuietStep DEF StartLocked
  <1>5. CASE StartWoken(c)
    <2>1. CASE pending_cpus = 0
      BY <1>1, <1>5, <2>1, QuietStep DEF StartWoken
    <2>2. CASE pending_cpus # 0
      <3>1. UNCHANGED <<at, running, has_waiter, pending_cpus, todo>> /\ woken' \subseteq Cpus
        BY <1>1, <1>5, <2>2 DEF StartWoken
      <3> QED BY <3>1 DEF ExclusiveInv, ExclusiveTypeOK, OneOwner, FlagsMeanIt, Counted
    <2> QED BY <2>1, <2>2
  <1>6. CASE EndRunning(c)
    BY <1>1, <1>6, QuietStep DEF EndRunning
  <1>7. CASE EndCheck(c)
    BY <1>1, <1>7, QuietStep DEF EndCheck
  <1>8. CASE WantExclusive(c)
    BY <1>1, <1>8, QuietStep DEF WantExclusive
  <1>9. CASE Spurious(c)
    <2>1. UNCHANGED <<at, running, has_waiter, pending_cpus, todo>> /\ woken' \subseteq Cpus
      BY <1>1, <1>9 DEF Spurious
    <2> QED BY <2>1 DEF ExclusiveInv, ExclusiveTypeOK, OneOwner, FlagsMeanIt, Counted
  <1> QED BY <1>2, <1>3, <1>4, <1>5, <1>6, <1>7, <1>8, <1>9

\* The end of cpu_exec_end: one CPU less to wait for.
LEMMA EndLockedInv ==
  ASSUME ExclusiveInv, NEW c \in Cpus, EndLocked(c)
  PROVE  ExclusiveInv'
  <1>1. /\ at \in [Cpus -> Points] /\ at[c] = "end_lock" /\ at' = [at EXCEPT ![c] = "out"]
        /\ has_waiter \subseteq Cpus /\ pending_cpus \in Nat /\ woken \subseteq Cpus
        /\ UNCHANGED <<running, todo>>
    BY DEF ExclusiveInv, ExclusiveTypeOK, EndLocked, Goto
  <1>2. CASE c \notin has_waiter
    <2>1. UNCHANGED <<has_waiter, pending_cpus, woken>>
      BY <1>2 DEF EndLocked
    <2>2. \A d \in Cpus : d \in running' <=> IF d = c THEN "out" \in Runs ELSE d \in running
      BY <1>1 DEF ExclusiveInv, FlagsMeanIt, Runs
    <2>3. ~Owner(c) /\ Goto(c, "out") /\ "out" \in Points
      BY <1>1 DEF Owner, Goto, Points
    <2>4. running' \subseteq Cpus
      BY <1>1 DEF ExclusiveInv, ExclusiveTypeOK
    <2> QED BY <1>1, <1>2, <2>1, <2>2, <2>3, <2>4, QuietStep DEF Runs
  <1>3. CASE c \in has_waiter
    <2>1. /\ has_waiter' = has_waiter \ {c}
          /\ pending_cpus' = pending_cpus - 1
          /\ woken' \subseteq Cpus
          /\ Unlocked
      BY <1>1, <1>3 DEF EndLocked, SignalWaiter
    <2>2. \A d \in Cpus : at'[d] = IF d = c THEN "out" ELSE at[d]
      BY <1>1
    <2>3. PICK o \in Cpus : Owner(o)
      BY <1>3 DEF ExclusiveInv, FlagsMeanIt
    <2>4. at[o] \in {"ex_wait", "exclusive"} /\ o # c
      BY <1>1, <2>1, <2>3 DEF Owner, Unlocked
    <2>5. pending_cpus = Cardinality(has_waiter) + 1
      BY <2>4 DEF ExclusiveInv, Counted
    <2>6. /\ Cardinality(has_waiter) \in Nat \ {0}
          /\ Cardinality(has_waiter') = Cardinality(has_waiter) - 1
      BY <1>1, <1>3, <2>1, WaitersFinite
    <2>7. pending_cpus' = Cardinality(has_waiter') + 1 /\ pending_cpus' \in Nat \ {0}
      BY <2>1, <2>5, <2>6
    <2>8. \A d \in Cpus : Owner(d)' <=> Owner(d)
      BY <1>1, <2>2 DEF Owner
    <2>9. ExclusiveTypeOK'
      BY <1>1, <2>1, <2>7 DEF ExclusiveInv, ExclusiveTypeOK, Points
    <2>10. OneOwner'
      BY <2>3, <2>7, <2>8 DEF OneOwner, ExclusiveInv
    <2>11. FlagsMeanIt'
      BY <1>1, <2>1, <2>2, <2>3, <2>8 DEF FlagsMeanIt, ExclusiveInv, Runs, Reporting
    <2>12. Counted'
      BY <2>1, <2>2, <2>7 DEF Counted, ExclusiveInv, Unlocked
    <2> QED BY <2>9, <2>10, <2>11, <2>12 DEF ExclusiveInv
  <1> QED BY <1>2, <1>3

\* A thread becomes the owner, or waits for its turn.
LEMMA ClaimInv ==
  ASSUME ExclusiveInv, NEW c \in Cpus, ExclusiveLocked(c) \/ ExclusiveIdleWoken(c)
  PROVE  ExclusiveInv'
  <1>1. /\ at \in [Cpus -> Points] /\ at[c] \in {"ex_lock", "ex_idle"}
        /\ woken' \subseteq Cpus /\ UNCHANGED <<running, has_waiter>> /\ Claim(c)
        /\ running \subseteq Cpus
    BY DEF ExclusiveInv, ExclusiveTypeOK, ExclusiveLocked, ExclusiveIdleWoken
  <1>2. CASE pending_cpus # 0
    <2>1. Goto(c, "ex_idle") /\ UNCHANGED <<pending_cpus, todo>>
      BY <1>1, <1>2 DEF Claim
    <2>2. \A d \in Cpus : d \in running' <=> IF d = c THEN "ex_idle" \in Runs ELSE d \in running
      BY <1>1 DEF ExclusiveInv, FlagsMeanIt, Runs
    <2>3. c \notin has_waiter
      BY <1>1 DEF ExclusiveInv, FlagsMeanIt, Runs, Reporting
    <2> QED BY <1>1, <2>1, <2>2, <2>3, QuietStep DEF Owner, Points
  <1>3. CASE pending_cpus = 0
    <2>1. at' = [at EXCEPT ![c] = "ex_scan"] /\ pending_cpus' = 1 /\ todo' = Cpus
      BY <1>1, <1>3, Zenon DEF Claim, Goto
    <2>2. \A d \in Cpus : at'[d] = IF d = c THEN "ex_scan" ELSE at[d]
      BY <1>1, <2>1
    <2>3. \A d \in Cpus : ~Owner(d)
      BY <1>3 DEF ExclusiveInv, OneOwner
    <2>4. \A d \in Cpus : Owner(d)' <=> d = c
      BY <2>2, <2>3 DEF Owner
    <2>5. ExclusiveTypeOK'
      BY <1>1, <2>1 DEF ExclusiveInv, ExclusiveTypeOK, Points
    <2>6. OneOwner'
      BY <2>1, <2>4 DEF OneOwner
    <2>7. FlagsMeanIt'
      <3>1. has_waiter = {}
        BY <2>3 DEF FlagsMeanIt, ExclusiveInv
      <3> QED BY <1>1, <2>2, <3>1 DEF FlagsMeanIt, ExclusiveInv, Runs
    <2>8. Counted'
      BY <2>1, <2>2, <2>3 DEF Counted, Owner
    <2> QED BY <2>5, <2>6, <2>7, <2>8 DEF ExclusiveInv
  <1> QED BY <1>2, <1>3

\* The owner looks at one CPU.
LEMMA ScanInv ==
  ASSUME ExclusiveInv, NEW c \in Cpus, NEW d \in Cpus, Scan(c, d)
  PROVE  ExclusiveInv'
  <1>1. /\ at[c] = "ex_scan" /\ UNCHANGED <<at, running, pending_cpus, woken>>
        /\ todo' = todo \ {d}
        /\ has_waiter' = IF d \in running THEN has_waiter \cup {d} ELSE has_waiter
    BY DEF Scan
  <1>2. \A e \in Cpus : Owner(e) => e = c
    BY <1>1 DEF ExclusiveInv, OneOwner, Owner
  <1>3. \A e \in Cpus : at[e] \notin {"ex_wait", "exclusive"}
    BY <1>1, <1>2 DEF Owner
  <1>4. ExclusiveTypeOK'
    BY <1>1 DEF ExclusiveInv, ExclusiveTypeOK
  <1>5. OneOwner'
    BY <1>1 DEF OneOwner, ExclusiveInv, Owner
  <1>6. FlagsMeanIt'
    BY <1>1 DEF FlagsMeanIt, ExclusiveInv, Reporting, Owner
  <1>7. Counted'
    <2>1. at[d] = "exec" => d \in running
      BY DEF ExclusiveInv, FlagsMeanIt, Runs
    <2> QED BY <1>1, <1>3, <2>1 DEF Counted, ExclusiveInv
  <1> QED BY <1>4, <1>5, <1>6, <1>7 DEF ExclusiveInv

\* The scan is over, or the last CPU has reported.
LEMMA EnterInv ==
  ASSUME ExclusiveInv, NEW c \in Cpus, ScanDone(c) \/ ExclusiveWoken(c)
  PROVE  ExclusiveInv'
  <1>1. /\ at \in [Cpus -> Points] /\ Owner(c) /\ has_waiter \subseteq Cpus
        /\ UNCHANGED <<running, has_waiter, todo>> /\ woken' \subseteq Cpus
    BY DEF ExclusiveInv, ExclusiveTypeOK, ScanDone, ExclusiveWoken, Owner
  <1>2. \A d \in Cpus : Owner(d) => d = c
    BY <1>1 DEF ExclusiveInv, OneOwner
  <1>3. Cardinality(has_waiter) \in Nat /\ (Cardinality(has_waiter) = 0 <=> has_waiter = {})
    BY <1>1, WaitersFinite
  <1>4. PICK p \in {"ex_wait", "exclusive"} :
          /\ at' = [at EXCEPT ![c] = p]
          /\ pending_cpus' = Cardinality(has_waiter) + 1
          /\ p = "exclusive" => has_waiter = {}
          /\ \A d \in Cpus : at[d] = "exec" => d \in has_waiter
    <2>1. CASE ScanDone(c)
      <3>1. \A d \in Cpus : at[d] = "exec" => d \in has_waiter
        BY <2>1 DEF ScanDone, ExclusiveInv, Counted
      <3> QED BY <2>1, <3>1, Zenon DEF ScanDone, Goto
    <2>2. CASE ExclusiveWoken(c)
      <3>1. /\ at[c] = "ex_wait" /\ pending_cpus' = pending_cpus
            /\ \A d \in Cpus : at[d] = "exec" => d \in has_waiter
            /\ pending_cpus = Cardinality(has_waiter) + 1
        BY <2>2 DEF ExclusiveWoken, ExclusiveInv, Counted
      <3>2. CASE pending_cpus > 1
        <4>1. at' = [at EXCEPT ![c] = "ex_wait"]
          BY <1>1, <2>2, <3>1, <3>2 DEF ExclusiveWoken
        <4> QED BY <3>1, <4>1
      <3>3. CASE ~(pending_cpus > 1)
        <4>1. at' = [at EXCEPT ![c] = "exclusive"]
          BY <2>2, <3>3 DEF ExclusiveWoken, Goto
        <4>2. Cardinality(has_waiter) = 0
          BY <1>3, <3>1, <3>3
        <4> QED BY <1>3, <3>1, <4>1, <4>2
      <3> QED BY <3>2, <3>3
    <2> QED BY <2>1, <2>2
  <1>5. \A d \in Cpus : at'[d] = IF d = c THEN p ELSE at[d]
    BY <1>1, <1>4
  <1>6. \A d \in Cpus : Owner(d)' <=> d = c
    BY <1>1, <1>2, <1>5 DEF Owner
  <1>7. pending_cpus' \in Nat \ {0}
    BY <1>3, <1>4
  <1>8. ExclusiveTypeOK'
    BY <1>1, <1>4, <1>7 DEF ExclusiveInv, ExclusiveTypeOK, Points
  <1>9. OneOwner'
    BY <1>6, <1>7 DEF OneOwner
  <1>10. FlagsMeanIt'
    BY <1>1, <1>5, <1>6 DEF FlagsMeanIt, ExclusiveInv, Runs, Reporting, Owner
  <1>11. Counted'
    BY <1>1, <1>2, <1>4, <1>5 DEF Counted, Owner
  <1> QED BY <1>8, <1>9, <1>10, <1>11 DEF ExclusiveInv

\* end_exclusive.
LEMMA EndExclusiveInv ==
  ASSUME ExclusiveInv, NEW c \in Cpus, EndExclusive(c)
  PROVE  ExclusiveInv'
  <1>1. /\ at \in [Cpus -> Points] /\ at[c] = "exclusive" /\ at' = [at EXCEPT ![c] = "out"]
        /\ pending_cpus' = 0 /\ woken' \subseteq Cpus /\ UNCHANGED <<running, has_waiter, todo>>
        /\ has_waiter = {}
    BY DEF ExclusiveInv, ExclusiveTypeOK, EndExclusive, Goto, Counted
  <1>2. \A d \in Cpus : at'[d] = IF d = c THEN "out" ELSE at[d]
    BY <1>1
  <1>3. \A d \in Cpus : ~Owner(d)'
    BY <1>1, <1>2 DEF Owner, ExclusiveInv, OneOwner
  <1>4. ExclusiveTypeOK'
    BY <1>1 DEF ExclusiveInv, ExclusiveTypeOK, Points
  <1>5. OneOwner'
    BY <1>1, <1>3 DEF OneOwner
  <1>6. FlagsMeanIt'
    BY <1>1, <1>2 DEF FlagsMeanIt, ExclusiveInv, Runs
  <1>7. Counted'
    BY <1>3 DEF Counted, Owner
  <1> QED BY <1>4, <1>5, <1>6, <1>7 DEF ExclusiveInv

\* Every step of every thread preserves the invariant.
LEMMA ExclusiveNextInv == ExclusiveInv /\ [ExclusiveNext]_exclusiveVars => ExclusiveInv'
  <1> SUFFICES ASSUME ExclusiveInv, [ExclusiveNext]_exclusiveVars
               PROVE  ExclusiveInv'
    OBVIOUS
  <1>1. CASE ExclusiveNext
    BY <1>1, QuietSteps, EndLockedInv, ClaimInv, ScanInv, EnterInv, EndExclusiveInv
       DEF ExclusiveNext, ExclusiveStep
  <1>2. CASE UNCHANGED exclusiveVars
    BY <1>2 DEF exclusiveVars, ExclusiveInv, ExclusiveTypeOK, OneOwner, FlagsMeanIt, Counted, Owner
  <1> QED BY <1>1, <1>2

\* The inductive invariant of start_exclusive, end_exclusive, cpu_exec_start and
\* cpu_exec_end.
THEOREM ExclusiveInvariant == ExclusiveSpec => []ExclusiveInv
  BY ExclusiveInitInv, ExclusiveNextInv, PTL DEF ExclusiveSpec

\* A thread in an exclusive section is alone: no other CPU executes guest code
\* and no other thread is exclusive, for any number of CPUs.
THEOREM ExclusiveExcludes == ExclusiveSpec => []ExclusiveAlone
  <1>1. ExclusiveInv => ExclusiveAlone
    BY DEF ExclusiveInv, ExclusiveAlone, OneOwner, Counted, Owner
  <1> QED BY <1>1, ExclusiveInvariant, PTL

\* pending_cpus counts the CPUs that have still to report.
THEOREM ExclusiveCounts == ExclusiveSpec => []CounterCounts
  <1>1. ExclusiveInv => CounterCounts
    BY DEF ExclusiveInv, CounterCounts, OneOwner, Counted
  <1> QED BY <1>1, ExclusiveInvariant, PTL

(***************************************************************************)
(* VcpuThreads                                                             *)
(***************************************************************************)
\* The threads call cpu_exec_start, cpu_exec_end, start_exclusive and
\* end_exclusive in the order CpuExclusive allows: every step is one of its
\* steps or leaves its state alone.
LEMMA VcpuStepExclusive == [VcpuNext]_vcpuVars => [ExclusiveNext]_exclusiveVars
  <1> SUFFICES ASSUME [VcpuNext]_vcpuVars
               PROVE  [ExclusiveNext]_exclusiveVars
    OBVIOUS
  <1> USE DEF ExclusiveNext, ExclusiveStep
  <1>1. ASSUME NEW c \in Cpus, CpuProgress(c)
        PROVE  [ExclusiveNext]_exclusiveVars
    <2>1. CASE Boot(c) \/ Top(c) \/ MmioDone(c) \/ FlushSelf(c) \/ Ran(c) \/ AtomicDone(c)
      BY <2>1, Zenon DEF Boot, Top, MmioDone, FlushSelf, Ran, AtomicDone, exclusiveVars
    <2>2. CASE Event(c) \/ Sleep(c) \/ Wake(c) \/ SafeDone(c)
      BY <2>2 DEF Event, Sleep, Wake, SafeDone, exclusiveVars
    <2>3. CASE Enter(c) \/ StartOrEnd(c) \/ Exit(c) \/ RanAtomic(c)
      BY <2>3, Zenon DEF Enter, StartOrEnd, Exit, RanAtomic
    <2>4. CASE Exclusive(c) \/ (\E d \in Cpus : ScanKick(c, d)) \/ LeaveExclusive(c)
      BY <2>4, Zenon DEF Exclusive, ScanKick, LeaveExclusive
    <2>5. CASE Work(c)
      <3>1. WantExclusive(c) \/ UNCHANGED exclusiveVars
        BY <2>5 DEF Work, RunSafe
      <3> QED BY <3>1
    <2> QED BY <1>1, <2>1, <2>2, <2>3, <2>4, <2>5 DEF CpuProgress
  <1>2. ASSUME NEW c \in Cpus, Guest(c)
        PROVE  [ExclusiveNext]_exclusiveVars
    BY <1>2 DEF Guest, Halt, ExitAtomic, Mmio, FlushOthers, exclusiveVars
  <1>3. CASE IoProgress \/ IoRequest
    BY Zenon, <1>3 DEF IoProgress, IoRequest, IoLock, IoPoll, WorkWoken, PauseWoken, Interrupt, RunOnCpu,
                PauseAll, ResumeAll, exclusiveVars
  <1>4. CASE SpuriousWake
    BY <1>4 DEF SpuriousWake, exclusiveVars
  <1>5. CASE UNCHANGED vcpuVars
    BY <1>5 DEF vcpuVars
  <1> QED BY <1>1, <1>2, <1>3, <1>4, <1>5 DEF VcpuNext

\* The threads of the CPUs and the main thread implement the exclusive sections.
THEOREM VcpuImplementsExclusive == VcpuSpec => ExclusiveSpec
  <1>1. VcpuInit => ExclusiveInit
    BY DEF VcpuInit
  <1> QED BY <1>1, VcpuStepExclusive, PTL DEF VcpuSpec, ExclusiveSpec

\* In the threads' loop too, a thread in an exclusive section is alone.
THEOREM VcpuExcludes == VcpuSpec => []ExclusiveAlone
  BY VcpuImplementsExclusive, ExclusiveExcludes, PTL

\* Points of tcg_cpu_thread_fn.
Loop == {"boot", "top", "enter", "run", "mmio", "flush", "ran_atomic", "atomic", "atomic_done",
         "event", "drowsy", "sleep", "work", "more", "safe", "safe_done"}

Items == [kind : {"async", "sync", "safe"}, from : Cpus \cup {MainThread}]

VcpuTypeOK ==
  /\ pc \in [Cpus -> Loop]
  /\ work \in [Cpus -> Seq(Items)]
  /\ exit_request \subseteq Cpus
  /\ stopped \subseteq Cpus
  /\ late \subseteq Cpus

\* Where a thread at point p of its loop can be in CpuExclusive.
Where(p) ==
  CASE p = "run" -> {"starting", "start_lock", "start_wait", "exec", "ending", "end_lock", "out"}
    [] p \in {"mmio", "flush"} -> {"exec"}
    [] p = "ran_atomic" -> {"ending", "end_lock", "out"}
    [] p \in {"atomic", "safe"} -> {"ex_lock", "ex_idle", "ex_scan", "ex_wait", "exclusive"}
    [] OTHER -> {"out"}

PlacesAgree == \A c \in Cpus : at[c] \in Where(pc[c])

\* The points at which a thread holds the BQL.
Locked == {"top", "event", "drowsy", "work", "more"}

\* The BQL has one holder, and it is the thread that is inside.
BqlExcludes ==
  /\ bql \in Cpus \cup {Free, MainThread}
  /\ \A c \in Cpus : pc[c] \in Locked <=> bql = c
  /\ io = "main" <=> bql = MainThread

\* A stopped CPU is at a point from which it does not go to cpu_exec, and when
\* pause_all_vcpus has returned every CPU is stopped.
Quiet == Locked \cup {"boot", "sleep", "safe", "safe_done"}

StoppedIsQuiet ==
  /\ \A c \in stopped : pc[c] \in Quiet
  /\ paused => stopped = Cpus

\* CPU d looks at its work queue before it executes guest code in cpu_exec: it is
\* asked to leave, or has left and not yet been back at the top of its loop.
Kicked(d) ==
  \/ d \in exit_request
  \/ pc[d] \in {"ran_atomic", "atomic", "atomic_done", "event", "drowsy", "sleep", "work", "more",
                "safe", "safe_done"}
  \/ pc[d] = "run" /\ at[d] \in {"ending", "end_lock", "out"}

\* A queued flush has kicked its CPU unless the CPU that queued it is about to.
FlushKicks ==
  /\ \A c, d \in Cpus : \A i \in 1..Len(work[d]) :
        work[d][i] = [kind |-> "async", from |-> c] => Kicked(d) \/ pc[c] = "flush"
  /\ \A d \in late : Kicked(d)

LoopInv == VcpuTypeOK /\ PlacesAgree /\ BqlExcludes /\ StoppedIsQuiet /\ FlushKicks

VcpuInv == ExclusiveInv /\ LoopInv

\* The invariant holds when the threads are created.
LEMMA LoopInitInv == VcpuInit => LoopInv
  BY NamesAssumption DEF VcpuInit, ExclusiveInit, LoopInv, VcpuTypeOK, PlacesAgree, BqlExcludes, StoppedIsQuiet,
       FlushKicks, Loop, Where, Locked, Quiet, Free, MainThread

\* The BQL's way in a step in which c goes to p: no other thread gets or loses it.
BqlStep(c, p) ==
  /\ bql' \in Cpus \cup {Free, MainThread}
  /\ p \in Locked <=> bql' = c
  /\ \A t \in (Cpus \ {c}) \cup {MainThread} : bql' = t <=> bql = t

\* A thread takes the BQL where it is free, releases it where it has it, or does neither.
LEMMA BqlSteps ==
  ASSUME VcpuInv, NEW c \in Cpus, NEW p \in Loop,
         \/ TakeBql(c) /\ p \in Locked
         \/ pc[c] \in Locked /\ bql' = Free /\ p \notin Locked
         \/ UNCHANGED bql /\ (pc[c] \in Locked <=> p \in Locked)
  PROVE  BqlStep(c, p)
  <1>1. /\ Free # MainThread /\ \A t \in Cpus : t # Free /\ t # MainThread
        /\ bql \in Cpus \cup {Free, MainThread}
        /\ pc[c] \in Locked <=> bql = c
    BY NamesAssumption DEF VcpuInv, LoopInv, BqlExcludes, Free, MainThread
  <1> HIDE DEF Free, MainThread, Locked
  <1> QED BY <1>1 DEF TakeBql, BqlStep

\* A step of one thread that queues nothing, keeps the BQL with one holder, and
\* does not go to cpu_exec while it is stopped or without looking at a kick.
LEMMA LocalStep ==
  ASSUME VcpuInv, NEW c \in Cpus, NEW p \in Loop, GotoPc(c, p),
         \A d \in Cpus \ {c} : at'[d] = at[d],
         at'[c] \in Where(p),
         UNCHANGED <<work, late, io, paused>>,
         exit_request' \subseteq Cpus,
         \A d \in Cpus \ {c} : d \in exit_request => d \in exit_request',
         pc[c] # "flush",
         Kicked(c) => Kicked(c)',
         BqlStep(c, p),
         stopped' \subseteq Cpus, stopped \subseteq stopped',
         \A d \in Cpus \ {c} : d \in stopped' => d \in stopped,
         c \in stopped' => p \in Quiet
  PROVE  LoopInv'
  <1>1. /\ pc \in [Cpus -> Loop] /\ pc' = [pc EXCEPT ![c] = p]
        /\ VcpuTypeOK'
    BY Zenon DEF VcpuInv, LoopInv, VcpuTypeOK, GotoPc
  <1>2. \A d \in Cpus : pc'[d] = IF d = c THEN p ELSE pc[d]
    BY <1>1, Zenon
  <1>3. PlacesAgree'
    <2>1. \A d \in Cpus \ {c} : at[d] \in Where(pc[d])
      BY Zenon DEF VcpuInv, LoopInv, PlacesAgree
    <2>2. \A d \in Cpus : at'[d] \in Where(pc'[d])
      BY <1>2, <2>1, Zenon
    <2> QED BY <2>2 DEF PlacesAgree, Where
  <1>4. BqlExcludes'
    BY <1>2, Zenon DEF VcpuInv, LoopInv, BqlExcludes, BqlStep
  <1>5. StoppedIsQuiet'
    BY <1>2, Zenon DEF VcpuInv, LoopInv, StoppedIsQuiet, VcpuTypeOK
  <1>6. FlushKicks'
    <2>1. \A d \in Cpus : Kicked(d) => Kicked(d)'
      BY <1>2 DEF Kicked
    <2>2. \A d \in Cpus : pc[d] = "flush" => pc'[d] = "flush"
      BY <1>2
    <2> QED BY <2>1, <2>2 DEF VcpuInv, LoopInv, FlushKicks, VcpuTypeOK
  <1> QED BY <1>1, <1>3, <1>4, <1>5, <1>6, Zenon DEF LoopInv

\* A step of another thread or of the main thread that only adds requests to
\* leave, and may queue work other than a flush.
LEMMA RequestStep ==
  ASSUME VcpuInv, UNCHANGED <<at, pc, late>>,
         exit_request' \subseteq Cpus, exit_request \subseteq exit_request',
         work' = work \/ \E c \in Cpus, item \in Items :
                            item.kind # "async" /\ Append1(c, item),
         bql \in {Free, MainThread} => bql' \in {Free, MainThread},
         bql \notin {Free, MainThread} => bql' = bql,
         io' = "main" <=> bql' = MainThread,
         stopped' \subseteq stopped,
         paused' => stopped' = Cpus
  PROVE  LoopInv'
  <1>1. /\ work \in [Cpus -> Seq(Items)] /\ late \subseteq Cpus
        /\ stopped \subseteq Cpus /\ pc \in [Cpus -> Loop]
    BY DEF VcpuInv, LoopInv, VcpuTypeOK
  <1>2. /\ work' \in [Cpus -> Seq(Items)]
        /\ \A d \in Cpus : \A i \in 1..Len(work'[d]) :
              work'[d][i].kind # "async" \/ (i \in 1..Len(work[d]) /\ work'[d][i] = work[d][i])
    <2>1. CASE work' = work
      BY <1>1, <2>1
    <2>2. CASE \E c \in Cpus, item \in Items : item.kind # "async" /\ Append1(c, item)
      <3>1. PICK c \in Cpus, item \in Items : item.kind # "async" /\ Append1(c, item)
        BY <2>2
      <3>2. work' = [work EXCEPT ![c] = Append(work[c], item)]
        BY <3>1 DEF Append1
      <3>3. work[c] \in Seq(Items) /\ Append(work[c], item) \in Seq(Items)
        BY <1>1
      <3>4. work' \in [Cpus -> Seq(Items)]
        BY <1>1, <3>2, <3>3
      <3>5. \A d \in Cpus : work'[d] = IF d = c THEN Append(work[c], item) ELSE work[d]
        BY <1>1, <3>2
      <3>6. \A i \in 1..Len(Append(work[c], item)) :
               Append(work[c], item)[i] = item \/ (i \in 1..Len(work[c])
                                                   /\ Append(work[c], item)[i] = work[c][i])
        BY <3>3
      <3> QED BY <3>1, <3>4, <3>5, <3>6, Zenon
    <2> QED BY <2>1, <2>2
  <1>3. VcpuTypeOK'
    BY <1>1, <1>2 DEF VcpuTypeOK
  <1>4. PlacesAgree'
    BY DEF VcpuInv, LoopInv, PlacesAgree, Where
  <1>5. BqlExcludes'
    BY NamesAssumption DEF VcpuInv, LoopInv, BqlExcludes
  <1>6. StoppedIsQuiet'
    BY DEF VcpuInv, LoopInv, StoppedIsQuiet
  <1>7. FlushKicks'
    <2>1. \A d \in Cpus : Kicked(d) => Kicked(d)'
      BY DEF Kicked
    <2>2. \A c, d \in Cpus : \A i \in 1..Len(work'[d]) :
             work'[d][i] = [kind |-> "async", from |-> c] => Kicked(d) \/ pc[c] = "flush"
      BY <1>2 DEF VcpuInv, LoopInv, FlushKicks
    <2>3. \A d \in late' : Kicked(d)'
      BY <1>1, <2>1 DEF VcpuInv, LoopInv, FlushKicks
    <2>4. \A c, d \in Cpus : \A i \in 1..Len(work'[d]) :
             work'[d][i] = [kind |-> "async", from |-> c] => Kicked(d)' \/ pc'[c] = "flush"
      BY <2>1, <2>2
    <2> QED BY <2>3, <2>4 DEF FlushKicks
  <1> QED BY <1>3, <1>4, <1>5, <1>6, <1>7 DEF LoopInv

\* What the invariant says of a thread that takes a step.
LEMMA ThreadFacts ==
  ASSUME VcpuInv, NEW c \in Cpus
  PROVE  /\ at \in [Cpus -> Points] /\ at[c] \in Where(pc[c]) /\ pc \in [Cpus -> Loop]
         /\ GotoPc(c, pc[c]) <=> pc' = pc
         /\ exit_request \subseteq Cpus /\ stopped \subseteq Cpus
         /\ c \in stopped => pc[c] \in Quiet
  BY DEF VcpuInv, ExclusiveInv, ExclusiveTypeOK, LoopInv, VcpuTypeOK, PlacesAgree, StoppedIsQuiet, GotoPc

\* The same, for steps that leave stopped alone and take or drop at most c's
\* request to leave.
LEMMA PlainStep ==
  ASSUME VcpuInv, NEW c \in Cpus, NEW p \in Loop, GotoPc(c, p),
         \A d \in Cpus \ {c} : at'[d] = at[d],
         at'[c] \in Where(p),
         exit_request' \in {exit_request, exit_request \cup {c}, exit_request \ {c}},
         UNCHANGED <<work, late, io, paused, stopped>>,
         pc[c] # "flush",
         Kicked(c) => Kicked(c)',
         \/ TakeBql(c) /\ p \in Locked
         \/ pc[c] \in Locked /\ bql' = Free /\ p \notin Locked
         \/ UNCHANGED bql /\ (pc[c] \in Locked <=> p \in Locked),
         pc[c] \in Quiet /\ c \in stopped => p \in Quiet
  PROVE  LoopInv'
  <1>1. BqlStep(c, p)
    BY BqlSteps, Zenon
  <1>2. exit_request \subseteq Cpus /\ stopped \subseteq Cpus /\ (c \in stopped => pc[c] \in Quiet)
    BY ThreadFacts
  <1> QED BY <1>1, <1>2, LocalStep, Zenon

\* The start of the thread, the top of its loop and the way into cpu_exec.
LEMMA EnterSteps ==
  ASSUME VcpuInv, NEW c \in Cpus, Boot(c) \/ Top(c) \/ Enter(c)
  PROVE  LoopInv'
  <1>1. /\ at \in [Cpus -> Points] /\ at[c] \in Where(pc[c]) /\ pc \in [Cpus -> Loop]
        /\ GotoPc(c, pc[c]) <=> pc' = pc
    BY ThreadFacts
  <1> USE DEF exclusiveVars, ioVars
  <1>2. CASE Boot(c)
    <2>1. Kicked(c) => Kicked(c)'
      BY <1>1, <1>2 DEF Boot, Kicked, GotoPc, Loop
    <2> QED BY <1>1, <1>2, <2>1, PlainStep DEF Boot, Where, Locked, Quiet, Loop
  <1>3. CASE Top(c)
    <2>1. CASE cpu_can_run(c)
      <3>1. pc[c] = "top" /\ GotoPc(c, "enter") /\ UNCHANGED <<at, work, late, io, paused, stopped>>
        BY <1>3, <2>1 DEF Top
      <3>2. Kicked(c) => Kicked(c)'
        BY <1>1, <1>3, <2>1, <3>1 DEF Top, Kicked, GotoPc, Loop
      <3> QED BY <1>1, <1>3, <2>1, <3>1, <3>2, PlainStep DEF Top, cpu_can_run, Where, Locked, Quiet, Loop
    <2>2. CASE ~cpu_can_run(c)
      <3>1. pc[c] = "top" /\ GotoPc(c, "event") /\ UNCHANGED <<at, work, late, io, paused, stopped>>
        BY <1>3, <2>2 DEF Top
      <3>2. Kicked(c) => Kicked(c)'
        BY <1>1, <1>3, <2>2, <3>1 DEF Top, Kicked, GotoPc, Loop
      <3> QED BY <1>1, <1>3, <2>2, <3>1, <3>2, PlainStep DEF Top, cpu_can_run, Where, Locked, Quiet, Loop
    <2> QED BY <2>1, <2>2
  <1>4. CASE Enter(c)
    <2>1. Kicked(c) => Kicked(c)'
      BY <1>1, <1>4 DEF Enter, StartRunning, Goto, Kicked, GotoPc, Loop
    <2> QED BY <1>1, <1>4, <2>1, PlainStep DEF Enter, StartRunning, Goto, Where, Locked, Quiet, Loop
  <1> QED BY <1>2, <1>3, <1>4

\* What the guest does in cpu_exec, and the way out of it.
LEMMA GuestSteps ==
  ASSUME VcpuInv, NEW c \in Cpus, Exit(c) \/ Halt(c) \/ ExitAtomic(c) \/ Mmio(c) \/ MmioDone(c)
  PROVE  LoopInv'
  <1>1. /\ at \in [Cpus -> Points] /\ at[c] \in Where(pc[c]) /\ pc \in [Cpus -> Loop]
        /\ GotoPc(c, pc[c]) <=> pc' = pc
    BY ThreadFacts
  <1> USE DEF exclusiveVars, ioVars
  <1>2. CASE Exit(c)
    <2>1. Kicked(c) => Kicked(c)'
      BY <1>1, <1>2 DEF Exit, InExec, EndRunning, Goto, Kicked, GotoPc, Loop
    <2> QED BY <1>1, <1>2, <2>1, PlainStep DEF Exit, InExec, EndRunning, Goto, Where, Locked, Quiet, Loop
  <1>3. CASE Halt(c)
    <2>1. Kicked(c) => Kicked(c)'
      BY <1>1, <1>3 DEF Halt, InGuest, InExec, Kicked, GotoPc, Loop
    <2> QED BY <1>1, <1>3, <2>1, PlainStep DEF Halt, InGuest, InExec, Where, Locked, Quiet, Loop
  <1>4. CASE ExitAtomic(c)
    <2>1. Kicked(c) => Kicked(c)'
      BY <1>1, <1>4 DEF ExitAtomic, InGuest, InExec, EndRunning, Goto, Kicked, GotoPc, Loop
    <2> QED BY <1>1, <1>4, <2>1, PlainStep DEF ExitAtomic, InGuest, InExec, EndRunning, Goto, Where, Locked, Quiet, Loop
  <1>5. CASE Mmio(c)
    <2>1. Kicked(c) => Kicked(c)'
      BY <1>1, <1>5 DEF Mmio, InGuest, InExec, Kicked, GotoPc, Loop
    <2> QED BY <1>1, <1>5, <2>1, PlainStep DEF Mmio, InGuest, InExec, Where, Locked, Quiet, Loop
  <1>6. CASE MmioDone(c)
    <2>1. Kicked(c) => Kicked(c)'
      BY <1>1, <1>6 DEF MmioDone, Kicked, GotoPc, Loop
    <2> QED BY <1>1, <1>6, <2>1, PlainStep DEF MmioDone, Where, Locked, Quiet, Loop
  <1> QED BY <1>2, <1>3, <1>4, <1>5, <1>6

\* Back from cpu_exec or from an atomic step.
LEMMA RanSteps ==
  ASSUME VcpuInv, NEW c \in Cpus, Ran(c) \/ RanAtomic(c) \/ AtomicDone(c)
  PROVE  LoopInv'
  <1>1. /\ at \in [Cpus -> Points] /\ at[c] \in Where(pc[c]) /\ pc \in [Cpus -> Loop]
        /\ GotoPc(c, pc[c]) <=> pc' = pc
    BY ThreadFacts
  <1> USE DEF exclusiveVars, ioVars
  <1>2. CASE Ran(c)
    <2>1. Kicked(c) => Kicked(c)'
      BY <1>1, <1>2 DEF Ran, Kicked, GotoPc, Loop
    <2> QED BY <1>1, <1>2, <2>1, PlainStep DEF Ran, Where, Locked, Quiet, Loop
  <1>3. CASE RanAtomic(c)
    <2>1. Kicked(c) => Kicked(c)'
      BY <1>1, <1>3 DEF RanAtomic, WantExclusive, Goto, Kicked, GotoPc, Loop
    <2> QED BY <1>1, <1>3, <2>1, PlainStep DEF RanAtomic, WantExclusive, Goto, Where, Locked, Quiet, Loop
  <1>4. CASE AtomicDone(c)
    <2>1. Kicked(c) => Kicked(c)'
      BY <1>1, <1>4 DEF AtomicDone, Kicked, GotoPc, Loop
    <2> QED BY <1>1, <1>4, <2>1, PlainStep DEF AtomicDone, Where, Locked, Quiet, Loop
  <1> QED BY <1>2, <1>3, <1>4

\* qemu_wait_io_event up to the work queue, and back from safe work.
LEMMA EventSteps ==
  ASSUME VcpuInv, NEW c \in Cpus, Sleep(c) \/ Wake(c) \/ SafeDone(c)
  PROVE  LoopInv'
  <1>1. /\ at \in [Cpus -> Points] /\ at[c] \in Where(pc[c]) /\ pc \in [Cpus -> Loop]
        /\ GotoPc(c, pc[c]) <=> pc' = pc
    BY ThreadFacts
  <1> USE DEF exclusiveVars, ioVars
  <1>2. CASE Sleep(c)
    <2>1. Kicked(c) => Kicked(c)'
      BY <1>1, <1>2 DEF Sleep, Kicked, GotoPc, Loop
    <2> QED BY <1>1, <1>2, <2>1, PlainStep DEF Sleep, Where, Locked, Quiet, Loop
  <1>3. CASE Wake(c)
    <2>1. Kicked(c) => Kicked(c)'
      BY <1>1, <1>3 DEF Wake, Kicked, GotoPc, Loop
    <2> QED BY <1>1, <1>3, <2>1, PlainStep DEF Wake, Where, Locked, Quiet, Loop
  <1>4. CASE SafeDone(c)
    <2>1. Kicked(c) => Kicked(c)'
      BY <1>1, <1>4 DEF SafeDone, Kicked, GotoPc, Loop
    <2> QED BY <1>1, <1>4, <2>1, PlainStep DEF SafeDone, Where, Locked, Quiet, Loop
  <1> QED BY <1>2, <1>3, <1>4

\* cpu_exec_start and cpu_exec_end.
LEMMA StartOrEndStep ==
  ASSUME VcpuInv, NEW c \in Cpus, StartOrEnd(c)
  PROVE  LoopInv'
  <1>1. /\ at \in [Cpus -> Points] /\ at[c] \in Where(pc[c]) /\ pc \in [Cpus -> Loop]
        /\ GotoPc(c, pc[c]) <=> pc' = pc
    BY ThreadFacts
  <1>2. /\ UNCHANGED <<cpuVars, bql, ioVars, late>>
        /\ \A d \in Cpus \ {c} : at'[d] = at[d]
        /\ \/ at[c] \in {"starting", "start_lock", "start_wait"}
              /\ at'[c] \in {"exec", "start_lock", "start_wait"}
           \/ at[c] \in {"ending", "end_lock"} /\ at'[c] \in {"end_lock", "out"}
    BY <1>1 DEF StartOrEnd, StartCheck, StartLocked, StartWoken, EndCheck, EndLocked, Goto
  <1>3. pc[c] # "flush" /\ at'[c] \in Where(pc[c])
    BY <1>1, <1>2 DEF Where, Loop
  <1>4. Kicked(c) => Kicked(c)'
    BY <1>1, <1>2, <1>3 DEF Kicked, cpuVars, Where
  <1> QED BY <1>1, <1>2, <1>3, <1>4, PlainStep DEF cpuVars, ioVars

\* start_exclusive.
LEMMA ExclusiveSteps ==
  ASSUME VcpuInv, NEW c \in Cpus, Exclusive(c)
  PROVE  LoopInv'
  <1>1. /\ at \in [Cpus -> Points] /\ at[c] \in Where(pc[c]) /\ pc \in [Cpus -> Loop]
        /\ GotoPc(c, pc[c]) <=> pc' = pc
    BY ThreadFacts
  <1>2. /\ UNCHANGED <<cpuVars, bql, ioVars, late>>
        /\ \A d \in Cpus \ {c} : at'[d] = at[d]
        /\ at[c] \in {"ex_lock", "ex_idle", "ex_scan", "ex_wait"}
        /\ at'[c] \in {"ex_idle", "ex_scan", "ex_wait", "exclusive"}
    BY <1>1 DEF Exclusive, ExclusiveLocked, ExclusiveIdleWoken, Claim, ScanDone, ExclusiveWoken, Goto
  <1>3. pc[c] # "flush" /\ at'[c] \in Where(pc[c])
    BY <1>1, <1>2 DEF Where, Loop
  <1>4. Kicked(c) => Kicked(c)'
    BY <1>1, <1>2, <1>3 DEF Kicked, cpuVars, Where
  <1> QED BY <1>1, <1>2, <1>3, <1>4, PlainStep DEF cpuVars, ioVars

\* qemu_wait_io_event: a CPU asked to stop stops here.
LEMMA EventStep ==
  ASSUME VcpuInv, NEW c \in Cpus, Event(c)
  PROVE  LoopInv'
  <1>1. /\ at \in [Cpus -> Points] /\ at[c] \in Where(pc[c]) /\ pc \in [Cpus -> Loop]
        /\ stopped \subseteq Cpus /\ exit_request \subseteq Cpus
    BY ThreadFacts
  <1>2. PICK p \in {"drowsy", "work"} : GotoPc(c, p)
    BY DEF Event
  <1>3. /\ pc[c] = "event"
        /\ UNCHANGED <<at, work, late, io, paused, exit_request, bql>>
        /\ stopped' \in {stopped, stopped \cup {c}}
    BY DEF Event, exclusiveVars
  <1>4. Kicked(c)'
    BY <1>1, <1>2 DEF Kicked, GotoPc
  <1>5. p \in Loop /\ p \in Quiet /\ p \in Locked /\ pc[c] \in Locked /\ at'[c] \in Where(p)
    BY <1>1, <1>2, <1>3 DEF Loop, Quiet, Locked, Where
  <1>6. BqlStep(c, p)
    BY <1>3, <1>5, BqlSteps
  <1> QED BY <1>1, <1>2, <1>3, <1>4, <1>5, <1>6, LocalStep

\* tlb_flush_by_mmuidx_all_cpus_synced queues the flush on the other CPUs.
LEMMA FlushOthersStep ==
  ASSUME VcpuInv, NEW c \in Cpus, FlushOthers(c)
  PROVE  LoopInv'
  <1>1. /\ at \in [Cpus -> Points] /\ at[c] = "exec" /\ pc \in [Cpus -> Loop] /\ pc[c] = "run"
        /\ work \in [Cpus -> Seq(Items)] /\ late \subseteq Cpus /\ c \notin exit_request
    BY ThreadFacts DEF FlushOthers, InGuest, InExec, VcpuInv, LoopInv, VcpuTypeOK
  <1> DEFINE item == [kind |-> "async", from |-> c]
  <1>2. /\ pc' = [pc EXCEPT ![c] = "flush"]
        /\ work' = [d \in Cpus |-> IF d = c THEN work[d] ELSE Append(work[d], item)]
        /\ UNCHANGED <<at, exit_request, bql, io, paused, stopped, late>>
    BY DEF FlushOthers, GotoPc, exclusiveVars, ioVars
  <1>3. \A d \in Cpus : pc'[d] = IF d = c THEN "flush" ELSE pc[d]
    BY <1>1, <1>2
  <1>4. VcpuTypeOK'
    <2>1. item \in Items
      BY DEF Items
    <2>2. \A d \in Cpus : Append(work[d], item) \in Seq(Items)
      BY <1>1, <2>1
    <2>3. pc' \in [Cpus -> Loop]
      BY <1>1, <1>2 DEF Loop
    <2> QED BY <1>1, <1>2, <2>2, <2>3 DEF VcpuTypeOK, VcpuInv, LoopInv
  <1>5. PlacesAgree'
    BY <1>1, <1>2, <1>3 DEF PlacesAgree, VcpuInv, LoopInv, Where
  <1>6. BqlExcludes'
    BY <1>1, <1>2, <1>3 DEF BqlExcludes, VcpuInv, LoopInv, Locked
  <1>7. StoppedIsQuiet'
    BY <1>1, <1>2, <1>3 DEF StoppedIsQuiet, VcpuTypeOK, VcpuInv, LoopInv, Quiet, Locked
  <1>8. FlushKicks'
    <2>1. ~Kicked(c)
      BY <1>1 DEF Kicked
    <2>2. \A d \in Cpus : Kicked(d) => Kicked(d)'
      BY <1>2, <1>3, <2>1 DEF Kicked
    <2>3. \A d \in Cpus : \A i \in 1..Len(work'[d]) :
             work'[d][i] = item \/ (i \in 1..Len(work[d]) /\ work'[d][i] = work[d][i])
      <3>1. ASSUME NEW d \in Cpus, NEW i \in 1..Len(Append(work[d], item))
            PROVE  \/ Append(work[d], item)[i] = item
                   \/ i \in 1..Len(work[d]) /\ Append(work[d], item)[i] = work[d][i]
        BY <1>1
      <3> QED BY <1>2, <3>1
    <2>4. ASSUME NEW e \in Cpus, NEW d \in Cpus, NEW i \in 1..Len(work'[d]),
                 work'[d][i] = [kind |-> "async", from |-> e]
          PROVE  Kicked(d)' \/ pc'[e] = "flush"
      <3>1. CASE work'[d][i] = item
        BY <1>3, <2>4, <3>1
      <3>2. CASE i \in 1..Len(work[d]) /\ work'[d][i] = work[d][i]
        BY <1>3, <2>2, <2>4, <3>2 DEF FlushKicks, VcpuInv, LoopInv
      <3> QED BY <2>3, <3>1, <3>2
    <2>5. \A d \in late' : Kicked(d)'
      BY <1>1, <1>2, <2>2 DEF FlushKicks, VcpuInv, LoopInv
    <2> QED BY <2>4, <2>5 DEF FlushKicks
  <1> QED BY <1>4, <1>5, <1>6, <1>7, <1>8 DEF LoopInv

\* ...and then kicks every CPU, whatever is in its queue.
LEMMA FlushSelfStep ==
  ASSUME VcpuInv, NEW c \in Cpus, FlushSelf(c)
  PROVE  LoopInv'
  <1>1. /\ at \in [Cpus -> Points] /\ at[c] \in Where(pc[c]) /\ pc \in [Cpus -> Loop]
        /\ work \in [Cpus -> Seq(Items)] /\ late \subseteq Cpus /\ exit_request \subseteq Cpus
    BY ThreadFacts DEF VcpuInv, LoopInv, VcpuTypeOK
  <1> DEFINE item == [kind |-> "safe", from |-> c]
  <1>2. /\ pc[c] = "flush" /\ pc' = [pc EXCEPT ![c] = "run"]
        /\ work' = [work EXCEPT ![c] = Append(work[c], item)]
        /\ exit_request' = Cpus
        /\ UNCHANGED <<at, bql, io, paused, stopped, late>>
    BY <1>1 DEF FlushSelf, GotoPc, Append1, qemu_cpu_kick, exclusiveVars, ioVars
  <1>3. \A d \in Cpus : pc'[d] = IF d = c THEN "run" ELSE pc[d]
    BY <1>1, <1>2
  <1>4. VcpuTypeOK'
    <2>1. item \in Items
      BY DEF Items
    <2>2. Append(work[c], item) \in Seq(Items)
      BY <1>1, <2>1
    <2>3. pc' \in [Cpus -> Loop]
      BY <1>1, <1>2 DEF Loop
    <2>4. work' \in [Cpus -> Seq(Items)]
      BY <1>1, <1>2, <2>2
    <2> QED BY <1>1, <1>2, <2>3, <2>4 DEF VcpuTypeOK, VcpuInv, LoopInv
  <1>5. PlacesAgree'
    BY <1>1, <1>2, <1>3 DEF PlacesAgree, VcpuInv, LoopInv, Where
  <1>6. BqlExcludes'
    BY <1>1, <1>2, <1>3 DEF BqlExcludes, VcpuInv, LoopInv, Locked
  <1>7. StoppedIsQuiet'
    BY <1>1, <1>2, <1>3 DEF StoppedIsQuiet, VcpuTypeOK, VcpuInv, LoopInv, Quiet, Locked
  <1>8. \A d \in Cpus : Kicked(d)'
    BY <1>2 DEF Kicked
  <1>9. FlushKicks'
    BY <1>1, <1>2, <1>8 DEF FlushKicks
  <1> QED BY <1>4, <1>5, <1>6, <1>7, <1>9 DEF LoopInv

\* end_exclusive: when a flush is over, the CPUs that still have it queued are kicked.
LEMMA LeaveStep ==
  ASSUME VcpuInv, NEW c \in Cpus, LeaveExclusive(c)
  PROVE  LoopInv'
  <1>1. /\ at \in [Cpus -> Points] /\ at[c] \in Where(pc[c]) /\ pc \in [Cpus -> Loop]
        /\ work \in [Cpus -> Seq(Items)] /\ late \subseteq Cpus
    BY ThreadFacts DEF VcpuInv, LoopInv, VcpuTypeOK
  <1>2. /\ at[c] = "exclusive" /\ at' = [at EXCEPT ![c] = "out"]
        /\ UNCHANGED <<work, exit_request, bql, io, paused, stopped>>
    BY DEF LeaveExclusive, EndExclusive, Goto, ioVars
  <1>3. pc[c] \in {"atomic", "safe"}
    BY <1>1, <1>2 DEF Where, Loop
  <1>4. PICK p \in {"atomic_done", "safe_done"} :
           pc' = [pc EXCEPT ![c] = p] /\ (p = "safe_done" <=> pc[c] = "safe")
    BY <1>3, Zenon DEF LeaveExclusive, GotoPc
  <1>5. \A d \in Cpus : /\ pc'[d] = IF d = c THEN p ELSE pc[d]
                        /\ at'[d] = IF d = c THEN "out" ELSE at[d]
    BY <1>1, <1>2, <1>4
  <1>6. \A d \in late' : d \in Cpus /\ Kicked(d)
    <2>1. ASSUME NEW d \in late'
          PROVE  d \in Cpus /\ Kicked(d)
      <3>1. CASE d \in late
        BY <1>1, <3>1 DEF FlushKicks, VcpuInv, LoopInv
      <3>2. CASE d \notin late
        <4>1. d \in Cpus /\ \E i \in DOMAIN work[d] : work[d][i] = [kind |-> "async", from |-> c]
          BY <2>1, <3>2 DEF LeaveExclusive
        <4>2. work[d] \in Seq(Items)
          BY <1>1, <4>1
        <4>3. DOMAIN work[d] = 1..Len(work[d])
          BY <4>2
        <4> QED BY <1>3, <4>1, <4>3 DEF FlushKicks, VcpuInv, LoopInv
      <3> QED BY <3>1, <3>2
    <2> QED BY <2>1
  <1>7. \A d \in Cpus : Kicked(d) => Kicked(d)'
    BY <1>2, <1>5 DEF Kicked
  <1>8. VcpuTypeOK'
    <2>1. pc' \in [Cpus -> Loop]
      BY <1>1, <1>4 DEF Loop
    <2> QED BY <1>2, <1>6, <2>1 DEF VcpuTypeOK, VcpuInv, LoopInv
  <1>9. PlacesAgree'
    BY <1>1, <1>5 DEF PlacesAgree, VcpuInv, LoopInv, Where
  <1>10. BqlExcludes'
    BY <1>2, <1>3, <1>5 DEF BqlExcludes, VcpuInv, LoopInv, Locked
  <1>11. StoppedIsQuiet'
    BY <1>2, <1>3, <1>4, <1>5 DEF StoppedIsQuiet, VcpuTypeOK, VcpuInv, LoopInv, Quiet, Locked
  <1>12. FlushKicks'
    <2>1. \A d \in Cpus : pc[d] = "flush" => pc'[d] = "flush"
      BY <1>3, <1>5, Zenon
    <2> QED BY <1>2, <1>6, <1>7, <2>1, Zenon DEF FlushKicks, VcpuInv, LoopInv
  <1> QED BY <1>8, <1>9, <1>10, <1>11, <1>12 DEF LoopInv

\* process_queued_cpu_work: a thread goes back to the top of its loop only when
\* its queue is empty.
LEMMA WorkStep ==
  ASSUME VcpuInv, NEW c \in Cpus, Work(c)
  PROVE  LoopInv'
  <1>1. /\ at \in [Cpus -> Points] /\ at[c] \in Where(pc[c]) /\ pc \in [Cpus -> Loop]
        /\ work \in [Cpus -> Seq(Items)] /\ late \subseteq Cpus
        /\ pc[c] \in {"work", "more"} /\ UNCHANGED <<exit_request, io, paused, stopped>>
    BY ThreadFacts DEF VcpuInv, LoopInv, VcpuTypeOK, Work
  <1>2. CASE work[c] = <<>>
    <2>1. /\ pc' = [pc EXCEPT ![c] = "top"] /\ UNCHANGED <<at, work, bql>>
          /\ late' = late \ {c}
      BY <1>2 DEF Work, GotoPc, exclusiveVars
    <2>2. \A d \in Cpus : pc'[d] = IF d = c THEN "top" ELSE pc[d]
      BY <1>1, <2>1
    <2>3. VcpuTypeOK'
      BY <1>1, <2>1 DEF VcpuTypeOK, VcpuInv, LoopInv, Loop
    <2>4. PlacesAgree'
      BY <1>1, <2>1, <2>2 DEF PlacesAgree, VcpuInv, LoopInv, Where
    <2>5. BqlExcludes'
      BY <1>1, <2>1, <2>2 DEF BqlExcludes, VcpuInv, LoopInv, Locked
    <2>6. StoppedIsQuiet'
      BY <1>1, <2>2 DEF StoppedIsQuiet, VcpuTypeOK, VcpuInv, LoopInv, Quiet, Locked
    <2>7. FlushKicks'
      <3>1. \A d \in Cpus \ {c} : Kicked(d) => Kicked(d)'
        BY <1>1, <2>1, <2>2 DEF Kicked
      <3>2. \A d \in Cpus : pc[d] = "flush" => pc'[d] = "flush"
        BY <1>1, <2>2
      <3>3. Len(work[c]) = 0
        BY <1>2
      <3> QED BY <1>1, <2>1, <3>1, <3>2, <3>3 DEF FlushKicks, VcpuInv, LoopInv
    <2> QED BY <2>3, <2>4, <2>5, <2>6, <2>7 DEF LoopInv
  <1>3. CASE work[c] # <<>>
    <2>1. PICK p \in {"safe", "more"} :
            /\ pc' = [pc EXCEPT ![c] = p] /\ UNCHANGED late
            /\ \/ p = "more" /\ UNCHANGED <<at, bql>>
               \/ p = "safe" /\ bql' = Free /\ at' = [at EXCEPT ![c] = "ex_lock"]
      BY <1>3 DEF Work, RunSafe, WantExclusive, Goto, GotoPc, exclusiveVars
    <2>2. work' = [work EXCEPT ![c] = Tail(work[c])]
      BY <1>3 DEF Work
    <2>3. \A d \in Cpus : pc'[d] = IF d = c THEN p ELSE pc[d]
      BY <1>1, <2>1
    <2>4. \A d \in Cpus \ {c} : at'[d] = at[d] /\ work'[d] = work[d]
      BY <1>1, <2>1, <2>2
    <2>5. VcpuTypeOK'
      <3>1. work[c] \in Seq(Items) /\ Tail(work[c]) \in Seq(Items)
        BY <1>1, <1>3
      <3>2. work' \in [Cpus -> Seq(Items)]
        BY <1>1, <2>2, <3>1
      <3>3. pc' \in [Cpus -> Loop]
        BY <1>1, <2>1 DEF Loop
      <3> QED BY <1>1, <2>1, <3>2, <3>3 DEF VcpuTypeOK, VcpuInv, LoopInv
    <2>6. PlacesAgree'
      <3>1. at'[c] \in Where(p)
        BY <1>1, <2>1 DEF Where
      <3> QED BY <2>3, <2>4, <3>1 DEF PlacesAgree, VcpuInv, LoopInv, Where
    <2>7. BqlExcludes'
      <3>1. BqlStep(c, p)
        BY <1>1, <2>1, BqlSteps DEF Locked, Loop
      <3> QED BY <1>1, <2>3, <3>1, Zenon DEF BqlExcludes, BqlStep, VcpuInv, LoopInv
    <2>8. StoppedIsQuiet'
      BY <1>1, <2>1, <2>3 DEF StoppedIsQuiet, VcpuInv, LoopInv, VcpuTypeOK, Quiet, Locked
    <2>9. FlushKicks'
      <3>1. Kicked(c)'
        BY <2>1, <2>3 DEF Kicked
      <3>2. \A d \in Cpus \ {c} : Kicked(d) => Kicked(d)'
        BY <1>1, <2>3, <2>4 DEF Kicked
      <3>3. \A d \in Cpus : pc[d] = "flush" => pc'[d] = "flush"
        BY <1>1, <2>3
      <3> QED BY <1>1, <2>1, <2>4, <3>1, <3>2, <3>3, Zenon DEF FlushKicks, VcpuInv, LoopInv
    <2> QED BY <2>5, <2>6, <2>7, <2>8, <2>9 DEF LoopInv
  <1> QED BY <1>2, <1>3

\* The scan of start_exclusive, and waits that return without a signal.
LEMMA RequestSteps ==
  ASSUME VcpuInv, SpuriousWake \/ \E c, d \in Cpus : ScanKick(c, d)
  PROVE  LoopInv'
  <1>1. /\ exit_request \subseteq Cpus /\ (io = "main" <=> bql = MainThread)
        /\ paused => stopped = Cpus
    BY DEF VcpuInv, LoopInv, VcpuTypeOK, BqlExcludes, StoppedIsQuiet
  <1>2. UNCHANGED <<at, pc, work, late, bql, stopped, paused, io>>
    BY Zenon DEF SpuriousWake, Spurious, ScanKick, Scan, exclusiveVars, cpuVars, ioVars
  <1>3. exit_request \subseteq exit_request' /\ exit_request' \subseteq Cpus
    BY <1>1 DEF SpuriousWake, ScanKick, qemu_cpu_kick, cpuVars
  <1> QED BY <1>1, <1>2, <1>3, RequestStep

\* The main thread: its loop, cpu_interrupt, run_on_cpu, pause_all_vcpus and
\* resume_all_vcpus.
LEMMA MainSteps ==
  ASSUME VcpuInv, IoProgress \/ IoRequest
  PROVE  LoopInv'
  <1>1. /\ exit_request \subseteq Cpus /\ stopped \subseteq Cpus
        /\ (io = "main" <=> bql = MainThread)
        /\ paused => stopped = Cpus
    BY DEF VcpuInv, LoopInv, VcpuTypeOK, BqlExcludes, StoppedIsQuiet
  <1>2. Free # MainThread
    BY DEF Free, MainThread
  <1> USE DEF exclusiveVars, cpuVars, ioVars
  <1>3. CASE IoLock
    BY <1>1, <1>2, <1>3, RequestStep DEF IoLock, TakeBql
  <1>4. CASE IoPoll
    BY <1>1, <1>2, <1>4, RequestStep DEF IoPoll
  <1>5. CASE WorkWoken
    BY <1>1, <1>2, <1>5, RequestStep DEF WorkWoken
  <1>6. CASE PauseWoken
    BY <1>1, <1>2, <1>6, RequestStep DEF PauseWoken, qemu_cpu_kick
  <1>7. ASSUME NEW c \in Cpus, Interrupt(c)
        PROVE  LoopInv'
    BY <1>1, <1>2, <1>7, RequestStep DEF Interrupt, qemu_cpu_kick
  <1>8. ASSUME NEW c \in Cpus, RunOnCpu(c)
        PROVE  LoopInv'
    <2>1. PICK item \in Items : item.kind # "async" /\ Append1(c, item)
      BY <1>8 DEF RunOnCpu, Items
    <2>2. /\ UNCHANGED <<at, pc, late, stopped, paused>>
          /\ exit_request \subseteq exit_request' /\ exit_request' \subseteq Cpus
          /\ bql = MainThread /\ bql' = Free /\ io' = "work_wait"
      BY <1>1, <1>8 DEF RunOnCpu, qemu_cpu_kick
    <2> QED BY <1>1, <1>2, <2>1, <2>2, RequestStep
  <1>9. CASE PauseAll
    BY <1>1, <1>2, <1>9, RequestStep DEF PauseAll, qemu_cpu_kick
  <1>10. CASE ResumeAll
    BY <1>1, <1>2, <1>10, RequestStep DEF ResumeAll, qemu_cpu_kick
  <1> QED BY <1>3, <1>4, <1>5, <1>6, <1>7, <1>8, <1>9, <1>10 DEF IoProgress, IoRequest

\* Every step of every thread preserves the invariant.
LEMMA VcpuNextInv == VcpuInv /\ [VcpuNext]_vcpuVars => VcpuInv'
  <1> SUFFICES ASSUME VcpuInv, [VcpuNext]_vcpuVars
               PROVE  VcpuInv'
    OBVIOUS
  <1>1. SUFFICES LoopInv'
    BY VcpuStepExclusive, ExclusiveNextInv DEF VcpuInv
  <1>2. ASSUME NEW c \in Cpus, CpuProgress(c) \/ Guest(c)
        PROVE  LoopInv'
    <2>1. CASE Boot(c) \/ Top(c) \/ Enter(c) \/ StartOrEnd(c)
      BY <2>1, EnterSteps, StartOrEndStep
    <2>2. CASE Exit(c) \/ Halt(c) \/ ExitAtomic(c) \/ Mmio(c) \/ MmioDone(c)
      BY <2>2, GuestSteps
    <2>3. CASE FlushOthers(c) \/ FlushSelf(c)
      BY <2>3, FlushOthersStep, FlushSelfStep
    <2>4. CASE Ran(c) \/ RanAtomic(c) \/ AtomicDone(c)
      BY <2>4, RanSteps
    <2>5. CASE Exclusive(c) \/ (\E d \in Cpus : ScanKick(c, d)) \/ LeaveExclusive(c)
      BY <2>5, ExclusiveSteps, RequestSteps, LeaveStep
    <2>6. CASE Event(c) \/ Sleep(c) \/ Wake(c) \/ Work(c) \/ SafeDone(c)
      BY <2>6, EventStep, EventSteps, WorkStep
    <2> QED BY <1>2, <2>1, <2>2, <2>3, <2>4, <2>5, <2>6 DEF CpuProgress, Guest
  <1>3. CASE UNCHANGED vcpuVars
    <2>1. UNCHANGED <<at, pc, work, late, bql, stopped, paused, io, exit_request>>
      BY <1>3 DEF vcpuVars, cpuVars, ioVars, exclusiveVars
    <2>2. \A c \in Cpus : Kicked(c) => Kicked(c)'
      BY <2>1 DEF Kicked
    <2>3. FlushKicks'
      BY <2>1, <2>2 DEF VcpuInv, LoopInv, FlushKicks, VcpuTypeOK
    <2>4. VcpuTypeOK' /\ PlacesAgree'
      BY <2>1 DEF VcpuInv, LoopInv, VcpuTypeOK, PlacesAgree, Where
    <2>5. BqlExcludes' /\ StoppedIsQuiet'
      BY <2>1 DEF VcpuInv, LoopInv, BqlExcludes, StoppedIsQuiet
    <2> QED BY <2>3, <2>4, <2>5 DEF LoopInv
  <1>4. CASE IoProgress \/ IoRequest
    BY <1>4, MainSteps
  <1>5. CASE SpuriousWake
    BY <1>5, RequestSteps
  <1> QED BY <1>2, <1>3, <1>4, <1>5 DEF VcpuNext

\* The inductive invariant of the threads of the CPUs and the main thread.
THEOREM VcpuInvariant == VcpuSpec => []VcpuInv
  <1>1. VcpuInit => VcpuInv
    BY ExclusiveInitInv, LoopInitInv DEF VcpuInit, VcpuInv
  <1> QED BY <1>1, VcpuNextInv, PTL DEF VcpuSpec

\* Code between qemu_mutex_lock_iothread and its unlock, of the CPUs' threads and of
\* the main thread, is never entered by two threads at once.
THEOREM VcpuLocks == VcpuSpec => []BqlExcludes
  <1>1. VcpuInv => BqlExcludes
    BY DEF VcpuInv, LoopInv
  <1> QED BY <1>1, VcpuInvariant, PTL

\* Between the return of pause_all_vcpus and resume_all_vcpus no CPU executes guest
\* code, whichever threads were inside exclusive sections or safe work before.
THEOREM VcpuPausedIsQuiet == VcpuSpec => []PausedIsQuiet
  <1>1. VcpuInv => PausedIsQuiet
    <2> SUFFICES ASSUME VcpuInv, paused, NEW c \in Cpus
                 PROVE  at[c] # "exec" /\ ~InAtomicStep(c)
      BY DEF PausedIsQuiet
    <2>1. pc[c] \in Quiet /\ at[c] \in Where(pc[c])
      BY DEF VcpuInv, LoopInv, StoppedIsQuiet, PlacesAgree
    <2> QED BY <2>1 DEF Quiet, Locked, Where, InAtomicStep
  <1> QED BY <1>1, VcpuInvariant, PTL

\* A CPU that had a synchronised TLB flush queued when that flush was over executes
\* no guest code in cpu_exec before its queue is empty.
THEOREM VcpuFlushed == VcpuSpec => []FlushedBeforeGuest
  <1>1. VcpuInv => FlushedBeforeGuest
    BY DEF VcpuInv, LoopInv, FlushKicks, Kicked, FlushedBeforeGuest, InGuest, InExec
  <1> QED BY <1>1, VcpuInvariant, PTL
=============================================================================
