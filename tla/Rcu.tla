--------------------------------- MODULE Rcu ---------------------------------
(***************************************************************************)
(* Read-copy-update (include/qemu/rcu.h, util/rcu.c): readers, and         *)
(* synchronize_rcu on a host with 64-bit longs.                            *)
(*                                                                         *)
(* Readers take no lock; a step is one access to what the two sides share. *)
(* The barriers make these accesses sequentially consistent.  Callers of   *)
(* synchronize_rcu exclude one another by rcu_sync_lock, so there is one.  *)
(* The local variable of rcu_read_lock that holds the grace period is      *)
(* `unsigned' while rcu_gp_ctr is `unsigned long': it is truncated.        *)
(***************************************************************************)
EXTENDS Naturals, QemuEvent

CONSTANTS
  Readers,     \* threads
  UintRange,   \* 2^32 in the code: the range of `unsigned'
  MaxGp,       \* bound: the grace periods
  MaxDepth     \* bound: the nesting of read-side critical sections

ASSUME RcuAssumption ==
  /\ UintRange \in Nat /\ UintRange > 0 /\ UintRange % 2 = 0
  /\ MaxGp \in Nat /\ MaxDepth \in Nat

VARIABLES
  rat,         \* where each reader is
  depth,
  seen,        \* the grace period rcu_read_lock has read and not yet written
  ctr,         \* rcu_reader.ctr
  waiting,     \* the readers with rcu_reader.waiting
  registry, qsreaders,
  rcu_gp_ctr,
  rcu_gp_event,
  uat,         \* where synchronize_rcu is
  left,        \* readers its loop has still to look at
  old          \* history: readers inside since before the grace period

readerVars == <<rat, depth, seen, ctr>>
updaterVars == <<uat, left, qsreaders, rcu_gp_ctr, old>>
rcuVars == <<readerVars, updaterVars, waiting, registry, rcu_gp_event>>

ReaderPoints == {"out", "locking", "in", "unlocked", "report", "wake"} \cup SetPoints
UpdaterPoints == {"idle", "mark", "scan", "asleep"} \cup ResetPoints \cup WaitPoints

RcuInit ==
  /\ rat = [r \in Readers |-> "out"]
  /\ depth = [r \in Readers |-> 0]
  /\ seen = [r \in Readers |-> 0]
  /\ ctr = [r \in Readers |-> 0]
  /\ waiting = {}
  /\ registry = {} /\ qsreaders = {}
  /\ rcu_gp_ctr = 1          \* RCU_GP_LOCKED
  /\ rcu_gp_event = "set"
  /\ uat = "idle" /\ left = {}
  /\ old = {}

ReaderTo(r, p) == rat' = [rat EXCEPT ![r] = p]

\* rcu_registry_lock is free: synchronize_rcu is not running or waits.
RegistryUnlocked == uat \in {"idle", "asleep"} \cup WaitPoints

(***************************************************************************)
(* Readers                                                                 *)
(***************************************************************************)
Registered(r) == r \in registry \cup qsreaders

rcu_register_thread(r) ==
  /\ ~Registered(r) /\ RegistryUnlocked
  /\ registry' = registry \cup {r}
  /\ UNCHANGED <<readerVars, updaterVars, waiting, rcu_gp_event>>

rcu_unregister_thread(r) ==
  /\ rat[r] = "out" /\ Registered(r) /\ RegistryUnlocked
  /\ registry' = registry \ {r} /\ qsreaders' = qsreaders \ {r}
  /\ UNCHANGED <<readerVars, waiting, rcu_gp_event, uat, left, rcu_gp_ctr, old>>

\* rcu_read_lock: the grace period is read...
LockRead(r) ==
  /\ rat[r] = "out" /\ Registered(r)
  /\ depth' = [depth EXCEPT ![r] = 1]
  /\ seen' = [seen EXCEPT ![r] = rcu_gp_ctr % UintRange]
  /\ ReaderTo(r, "locking")
  /\ UNCHANGED <<ctr, updaterVars, waiting, registry, rcu_gp_event>>

\* ...and written.
LockWrite(r) ==
  /\ rat[r] = "locking"
  /\ ctr' = [ctr EXCEPT ![r] = seen[r]]
  /\ seen' = [seen EXCEPT ![r] = 0]
  /\ ReaderTo(r, "in")
  /\ UNCHANGED <<depth, updaterVars, waiting, registry, rcu_gp_event>>

LockNested(r) ==
  /\ rat[r] = "in" /\ depth[r] < MaxDepth
  /\ depth' = [depth EXCEPT ![r] = @ + 1]
  /\ UNCHANGED <<rat, seen, ctr, updaterVars, waiting, registry, rcu_gp_event>>

UnlockNested(r) ==
  /\ rat[r] = "in" /\ depth[r] > 1
  /\ depth' = [depth EXCEPT ![r] = @ - 1]
  /\ UNCHANGED <<rat, seen, ctr, updaterVars, waiting, registry, rcu_gp_event>>

\* The outermost rcu_read_unlock.
Unlock(r) ==
  /\ rat[r] = "in" /\ depth[r] = 1
  /\ depth' = [depth EXCEPT ![r] = 0]
  /\ ctr' = [ctr EXCEPT ![r] = 0]
  /\ ReaderTo(r, "unlocked")
  /\ old' = old \ {r}
  /\ UNCHANGED <<seen, uat, left, qsreaders, rcu_gp_ctr, waiting, registry, rcu_gp_event>>

\* It looks whether synchronize_rcu waits for it...
Report(r) ==
  /\ rat[r] = "unlocked"
  /\ ReaderTo(r, IF r \in waiting THEN "report" ELSE "out")
  /\ UNCHANGED <<depth, seen, ctr, updaterVars, waiting, registry, rcu_gp_event>>

\* ...and if so clears the flag and sets the event.
ClearWaiting(r) ==
  /\ rat[r] = "report"
  /\ ReaderTo(r, "set_read")
  /\ waiting' = waiting \ {r}
  /\ UNCHANGED <<depth, seen, ctr, updaterVars, registry, rcu_gp_event>>

SetEvent(r) ==
  /\ rat[r] \in SetPoints
  /\ LET s == SetStep(rat[r], rcu_gp_event, "wake", "out")
     IN ReaderTo(r, s.to) /\ rcu_gp_event' = s.value
  /\ UNCHANGED <<depth, seen, ctr, updaterVars, waiting, registry>>

\* qemu_futex_wake
FutexWake(r) ==
  /\ rat[r] = "wake"
  /\ uat' = IF uat = "asleep" THEN "reset_read" ELSE uat
  /\ ReaderTo(r, "out")
  /\ UNCHANGED <<depth, seen, ctr, left, qsreaders, rcu_gp_ctr, old, waiting, registry, rcu_gp_event>>

(***************************************************************************)
(* synchronize_rcu                                                         *)
(***************************************************************************)
\* With an empty registry it returns at once.
Synchronize ==
  /\ uat = "idle" /\ rcu_gp_ctr < MaxGp
  /\ registry # {}
  /\ rcu_gp_ctr' = rcu_gp_ctr + 2
  /\ old' = {r \in Readers : rat[r] = "in"}
  /\ uat' = "reset_read"
  /\ UNCHANGED <<readerVars, left, qsreaders, waiting, registry, rcu_gp_event>>

\* qemu_event_reset, at the start of every round of wait_for_readers.
ResetEvent ==
  /\ uat \in ResetPoints
  /\ LET s == ResetStep(uat, rcu_gp_event, "mark")
     IN /\ uat' = s.to /\ rcu_gp_event' = s.value
        /\ left' = IF s.to = "mark" THEN registry ELSE left
  /\ UNCHANGED <<readerVars, qsreaders, rcu_gp_ctr, old, waiting, registry>>

\* Faulty form: nobody is told to report.
Mark_none(r) ==
  /\ uat = "mark" /\ r \in left
  /\ left' = left \ {r}
  /\ UNCHANGED <<readerVars, uat, qsreaders, rcu_gp_ctr, old, waiting, registry, rcu_gp_event>>

Mark(r) ==
  /\ uat = "mark" /\ r \in left
  /\ waiting' = waiting \cup {r}
  /\ left' = left \ {r}
  /\ UNCHANGED <<readerVars, uat, qsreaders, rcu_gp_ctr, old, registry, rcu_gp_event>>

Marked ==
  /\ uat = "mark" /\ left = {}
  /\ uat' = "scan" /\ left' = registry
  /\ UNCHANGED <<readerVars, qsreaders, rcu_gp_ctr, old, waiting, registry, rcu_gp_event>>

\* Faulty form: a reader of a past grace period counts as quiescent.
rcu_gp_ongoing_stale(r) == ctr[r] = rcu_gp_ctr

rcu_gp_ongoing(r) == ctr[r] # 0 /\ ctr[r] # rcu_gp_ctr

\* Look at one reader.
ScanReader(r) ==
  /\ uat = "scan" /\ r \in left
  /\ left' = left \ {r}
  /\ IF rcu_gp_ongoing(r)
     THEN UNCHANGED <<registry, qsreaders, waiting>>
     ELSE /\ registry' = registry \ {r}
          /\ qsreaders' = qsreaders \cup {r}
          /\ waiting' = waiting \ {r}
  /\ UNCHANGED <<readerVars, uat, rcu_gp_ctr, old, rcu_gp_event>>

\* All are quiescent: the list is swapped back.
Finish ==
  /\ uat = "scan" /\ left = {} /\ registry = {}
  /\ registry' = qsreaders /\ qsreaders' = {}
  /\ uat' = "idle"
  /\ UNCHANGED <<readerVars, left, rcu_gp_ctr, old, waiting, rcu_gp_event>>

StartWait ==
  /\ uat = "scan" /\ left = {} /\ registry # {}
  /\ uat' = "wait_read"
  /\ UNCHANGED <<readerVars, left, qsreaders, rcu_gp_ctr, old, waiting, registry, rcu_gp_event>>

\* qemu_event_wait, without rcu_registry_lock.
WaitEvent ==
  /\ uat \in WaitPoints
  /\ LET s == WaitStep(uat, rcu_gp_event, "reset_read")
     IN uat' = s.to /\ rcu_gp_event' = s.value
  /\ UNCHANGED <<readerVars, left, qsreaders, rcu_gp_ctr, old, waiting, registry>>

\* A futex wait may end without a wake.
FutexSpurious ==
  /\ uat = "asleep"
  /\ uat' = "reset_read"
  /\ UNCHANGED <<readerVars, left, qsreaders, rcu_gp_ctr, old, waiting, registry, rcu_gp_event>>

(***************************************************************************)
(* The specification                                                       *)
(***************************************************************************)
ReaderProgress(r) == LockWrite(r) \/ Report(r) \/ ClearWaiting(r) \/ SetEvent(r) \/ FutexWake(r)

ReaderStep(r) ==
  \/ rcu_register_thread(r) \/ rcu_unregister_thread(r)
  \/ LockRead(r) \/ LockNested(r) \/ UnlockNested(r) \/ Unlock(r)
  \/ ReaderProgress(r)

UpdaterProgress ==
  \/ ResetEvent \/ (\E r \in Readers : Mark(r) \/ ScanReader(r)) \/ Marked
  \/ Finish \/ StartWait \/ WaitEvent

RcuNext == (\E r \in Readers : ReaderStep(r)) \/ Synchronize \/ UpdaterProgress \/ FutexSpurious

\* Every thread goes on, and every read-side critical section ends.
RcuFairness ==
  /\ \A r \in Readers : WF_rcuVars(ReaderProgress(r) \/ UnlockNested(r)) /\ SF_rcuVars(Unlock(r))
  /\ WF_rcuVars(UpdaterProgress)

RcuSpec == RcuInit /\ [][RcuNext]_rcuVars /\ RcuFairness

(***************************************************************************)
(* Properties.                                                             *)
(***************************************************************************)
RcuTypeOK ==
  /\ rat \in [Readers -> ReaderPoints]
  /\ depth \in [Readers -> Nat]
  /\ seen \in [Readers -> Nat] /\ ctr \in [Readers -> Nat]
  /\ waiting \subseteq Readers
  /\ registry \subseteq Readers /\ qsreaders \subseteq Readers
  /\ rcu_gp_ctr \in Nat
  /\ rcu_gp_event \in EventValues
  /\ uat \in UpdaterPoints /\ left \subseteq Readers /\ old \subseteq Readers

\* synchronize_rcu does not return while a reader is still in a critical section
\* it was in when the grace period began, even once the counter of grace periods
\* no longer fits the `unsigned' that rcu_read_lock reads it into.
GracePeriod == uat = "idle" => old = {}

\* synchronize_rcu returns though readers come back again and again: a critical
\* section entered later is not waited for, and the last report is not missed.
\* The counter must still fit an `unsigned'.
SyncReturns == uat # "idle" /\ rcu_gp_ctr < UintRange ~> uat = "idle"
=============================================================================
