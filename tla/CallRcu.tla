------------------------------- MODULE CallRcu -------------------------------
(***************************************************************************)
(* Callbacks after a grace period (util/rcu.c): call_rcu1, drain_call_rcu, *)
(* the wait-free queue with its dummy node, and the thread that waits for  *)
(* a grace period and runs what was queued before it.                      *)
(*                                                                         *)
(* A step is one access to what the threads share.  A node is the caller   *)
(* and the number of its call; its memory is the caller's again once its   *)
(* callback has run.  That synchronize_rcu waits for the readers and       *)
(* returns is shown in Rcu; here it is its begin and its end.  The event   *)
(* of drain_call_rcu is set once and waited for once: it is whether the    *)
(* callback has run.                                                       *)
(***************************************************************************)
EXTENDS Integers, FiniteSets, QemuEvent

CONSTANTS
  Callers,             \* threads
  BqlCallers,          \* those that use the BQL
  MaxCalls,            \* bound: callbacks they queue
  RCU_CALL_MIN_SIZE,   \* 30 in the code
  MaxTries,            \* 5 in the code
  Dummy, NULL

Nodes == Callers \X (1 .. MaxCalls)

ASSUME CallRcuAssumption ==
  /\ IsFiniteSet(Callers) /\ BqlCallers \subseteq Callers
  /\ {MaxCalls, RCU_CALL_MIN_SIZE, MaxTries} \subseteq Nat
  /\ Dummy # NULL /\ Dummy \notin Nodes /\ NULL \notin Nodes

VARIABLES
  cat,             \* where each caller is
  issued,          \* calls of call_rcu1 so far; the last one is the one under way
  old_tail,        \* of its enqueue
  draining,        \* "no", or whether drain_call_rcu found the BQL locked
  next, tail,      \* tail: the node whose next field is pointed to
  head,
  rcu_call_count,
  ready_event,     \* rcu_call_ready_event
  bql,             \* who holds the BQL
  gat,             \* where call_rcu_thread is
  phase,           \* which of its waits, and calls of try_dequeue, it is in
  n, tries, node, dummy_tail,
  ran,             \* history: callbacks run, per caller
  covered          \* history: `issued' when the last grace period began

callerVars == <<cat, issued, old_tail, draining>>
threadLocals == <<phase, n, tries, node, dummy_tail>>
callVars == <<callerVars, next, tail, head, rcu_call_count, ready_event, bql, gat, threadLocals,
              ran, covered>>

Nobody == "nobody"
RcuThread == "call_rcu"

CallRcuInit ==
  /\ cat = [c \in Callers |-> "idle"]
  /\ issued = [c \in Callers |-> 0]
  /\ old_tail = [c \in Callers |-> NULL]
  /\ draining = [c \in Callers |-> "no"]
  /\ next = [x \in Nodes \cup {Dummy} |-> NULL]
  /\ tail = Dummy /\ head = Dummy
  /\ rcu_call_count = 0
  /\ ready_event = "free"
  /\ bql = Nobody
  /\ gat = "count" /\ phase = "idle" /\ n = 0 /\ tries = 0 /\ node = NULL /\ dummy_tail = NULL
  /\ ran = [c \in Callers |-> 0]
  /\ covered = [c \in Callers |-> 0]

(***************************************************************************)
(* Callers: call_rcu1 and drain_call_rcu                                   *)
(***************************************************************************)
CallerTo(c, p) == cat' = [cat EXCEPT ![c] = p]
Current(c) == <<c, issued[c]>>
Issued == {x \in Nodes : x[2] <= issued[x[1]]}

TakesBql(c) ==
  /\ cat[c] = "idle" /\ bql = Nobody
  /\ bql' = c
  /\ UNCHANGED <<callerVars, next, tail, head, rcu_call_count, ready_event, gat, threadLocals, ran, covered>>

ReleasesBql(c) ==
  /\ cat[c] = "idle" /\ bql = c
  /\ bql' = Nobody
  /\ UNCHANGED <<callerVars, next, tail, head, rcu_call_count, ready_event, gat, threadLocals, ran, covered>>

call_rcu1(c) ==
  /\ cat[c] = "idle" /\ Cardinality(Issued) < MaxCalls
  /\ issued' = [issued EXCEPT ![c] = @ + 1]
  /\ CallerTo(c, "xchg")
  /\ UNCHANGED <<old_tail, draining, next, tail, head, rcu_call_count, ready_event, bql, gat,
                 threadLocals, ran, covered>>

\* drain_call_rcu gives the BQL away before it waits.
drain_call_rcu(c) ==
  /\ cat[c] = "idle" /\ Cardinality(Issued) < MaxCalls
  /\ issued' = [issued EXCEPT ![c] = @ + 1]
  /\ draining' = [draining EXCEPT ![c] = IF bql = c THEN "locked" ELSE "unlocked"]
  /\ bql' = IF bql = c THEN Nobody ELSE bql
  /\ CallerTo(c, "xchg")
  /\ UNCHANGED <<old_tail, next, tail, head, rcu_call_count, ready_event, gat, threadLocals, ran, covered>>

\* enqueue: the tail is moved to the new node...
EnqueueTail(c) ==
  /\ cat[c] = "xchg"
  /\ old_tail' = [old_tail EXCEPT ![c] = tail]
  /\ tail' = Current(c)
  /\ CallerTo(c, "link")
  /\ UNCHANGED <<issued, draining, next, head, rcu_call_count, ready_event, bql, gat, threadLocals,
                 ran, covered>>

\* ...and the node before it is linked to it.
EnqueueLink(c) ==
  /\ cat[c] = "link"
  /\ next' = [next EXCEPT ![old_tail[c]] = Current(c)]
  /\ old_tail' = [old_tail EXCEPT ![c] = NULL]
  /\ CallerTo(c, "inc")
  /\ UNCHANGED <<issued, draining, tail, head, rcu_call_count, ready_event, bql, gat, threadLocals,
                 ran, covered>>

CountUp(c) ==
  /\ cat[c] = "inc"
  /\ rcu_call_count' = rcu_call_count + 1
  /\ CallerTo(c, "set_read")
  /\ UNCHANGED <<issued, old_tail, draining, next, tail, head, ready_event, bql, gat, threadLocals,
                 ran, covered>>

SetReady(c) ==
  /\ cat[c] \in SetPoints
  /\ LET s == SetStep(cat[c], ready_event, "wake", IF draining[c] = "no" THEN "idle" ELSE "drain")
     IN CallerTo(c, s.to) /\ ready_event' = s.value
  /\ UNCHANGED <<issued, old_tail, draining, next, tail, head, rcu_call_count, bql, gat, threadLocals,
                 ran, covered>>

\* Where call_rcu_thread goes after its qemu_event_wait: to the count, or to its
\* third try_dequeue.
AfterWait == IF phase = "idle" THEN gat' = "count" /\ UNCHANGED phase
             ELSE gat' = "test" /\ phase' = "third"

WakeThread(c) ==
  /\ cat[c] = "wake"
  /\ CallerTo(c, IF draining[c] = "no" THEN "idle" ELSE "drain")
  /\ IF gat = "asleep" THEN AfterWait ELSE UNCHANGED <<gat, phase>>
  /\ UNCHANGED <<issued, old_tail, draining, next, tail, head, rcu_call_count, ready_event, bql,
                 n, tries, node, dummy_tail, ran, covered>>

\* qemu_event_wait(&drain_complete_event), and the BQL again
Drained(c) ==
  /\ cat[c] = "drain" /\ ran[c] = issued[c]
  /\ draining[c] = "locked" => bql = Nobody
  /\ bql' = IF draining[c] = "locked" THEN c ELSE bql
  /\ draining' = [draining EXCEPT ![c] = "no"]
  /\ CallerTo(c, "idle")
  /\ UNCHANGED <<issued, old_tail, next, tail, head, rcu_call_count, ready_event, gat, threadLocals,
                 ran, covered>>

(***************************************************************************)
(* call_rcu_thread: wait for callbacks                                     *)
(***************************************************************************)
\* The loop condition: some callbacks, and enough of them or waited long enough.
Count ==
  /\ gat = "count"
  /\ n' = rcu_call_count
  /\ IF n' # 0 /\ n' < RCU_CALL_MIN_SIZE /\ tries < MaxTries
     THEN tries' = tries + 1 /\ UNCHANGED gat
     ELSE gat' = (IF n' = 0 THEN "reset_read" ELSE "take") /\ UNCHANGED tries
  /\ UNCHANGED <<callerVars, next, tail, head, rcu_call_count, ready_event, bql, phase, node,
                 dummy_tail, ran, covered>>

\* qemu_event_reset; behind it the count, or the queue, is looked at again.
ResetReady ==
  /\ gat \in ResetPoints
  /\ LET s == ResetStep(gat, ready_event, IF phase = "idle" THEN "recount" ELSE "test")
     IN gat' = s.to /\ ready_event' = s.value
  /\ UNCHANGED <<callerVars, next, tail, head, rcu_call_count, bql, threadLocals, ran, covered>>

\* Faulty form: the count is not read again behind the reset.
Recount_skipped ==
  /\ gat = "recount"
  /\ gat' = "wait_read"
  /\ UNCHANGED <<callerVars, next, tail, head, rcu_call_count, ready_event, bql, threadLocals, ran, covered>>

Recount ==
  /\ gat = "recount"
  /\ gat' = IF rcu_call_count = 0 THEN "wait_read" ELSE "count"
  /\ UNCHANGED <<callerVars, next, tail, head, rcu_call_count, ready_event, bql, threadLocals, ran, covered>>

WaitReady ==
  /\ gat \in WaitPoints
  /\ LET to == IF phase = "idle" THEN "count" ELSE "test"
         s == WaitStep(gat, ready_event, to)
     IN /\ gat' = s.to /\ ready_event' = s.value
        /\ phase' = IF s.to = "test" THEN "third" ELSE phase
  /\ UNCHANGED <<callerVars, next, tail, head, rcu_call_count, bql, n, tries, node, dummy_tail, ran, covered>>

SpuriousReady ==
  /\ gat = "asleep" /\ AfterWait
  /\ UNCHANGED <<callerVars, next, tail, head, rcu_call_count, ready_event, bql, n, tries, node,
                 dummy_tail, ran, covered>>

Take ==
  /\ gat = "take"
  /\ rcu_call_count' = rcu_call_count - n
  /\ tries' = 0
  /\ gat' = "sync"
  /\ UNCHANGED <<callerVars, next, tail, head, ready_event, bql, phase, n, node, dummy_tail, ran, covered>>

\* synchronize_rcu begins...
SyncBegin ==
  /\ gat = "sync"
  /\ covered' = issued
  /\ gat' = "synced"
  /\ UNCHANGED <<callerVars, next, tail, head, rcu_call_count, ready_event, bql, threadLocals, ran>>

\* Faulty form: what was queued meanwhile is run along.
SyncEnd_greedy ==
  /\ gat = "synced" /\ bql = Nobody
  /\ n' = n + rcu_call_count /\ rcu_call_count' = 0
  /\ bql' = RcuThread
  /\ gat' = "test" /\ phase' = "first"
  /\ UNCHANGED <<callerVars, next, tail, head, ready_event, tries, node, dummy_tail, ran, covered>>

\* ...and ends, and the BQL is taken.
SyncEnd ==
  /\ gat = "synced" /\ bql = Nobody
  /\ bql' = RcuThread
  /\ gat' = "test" /\ phase' = "first"
  /\ UNCHANGED <<callerVars, next, tail, head, rcu_call_count, ready_event, n, tries, node, dummy_tail,
                 ran, covered>>

(***************************************************************************)
(* try_dequeue, which ends at "found" or at "none"                         *)
(***************************************************************************)
TestEmpty ==
  /\ gat = "test"
  /\ gat' = IF head = Dummy /\ tail = Dummy THEN "aborted" ELSE "next"
  /\ UNCHANGED <<callerVars, next, tail, head, rcu_call_count, ready_event, bql, threadLocals, ran, covered>>

\* The node at the head leaves once it is linked to another one.
TakeHead ==
  /\ gat = "next"
  /\ IF next[head] = NULL
     THEN gat' = "none" /\ UNCHANGED <<head, node, next>>
     ELSE /\ head' = next[head]
          /\ node' = head
          /\ gat' = IF head = Dummy THEN "dummy_xchg" ELSE "found"
          /\ next' = IF head = Dummy THEN [next EXCEPT ![Dummy] = NULL] ELSE next
  /\ UNCHANGED <<callerVars, tail, rcu_call_count, ready_event, bql, phase, n, tries, dummy_tail, ran, covered>>

\* The dummy node is queued again.
DummyTail ==
  /\ gat = "dummy_xchg"
  /\ dummy_tail' = tail /\ tail' = Dummy
  /\ gat' = "dummy_link"
  /\ UNCHANGED <<callerVars, next, head, rcu_call_count, ready_event, bql, phase, n, tries, node, ran, covered>>

DummyLink ==
  /\ gat = "dummy_link"
  /\ next' = [next EXCEPT ![dummy_tail] = Dummy]
  /\ dummy_tail' = NULL
  /\ gat' = "test"
  /\ UNCHANGED <<callerVars, tail, head, rcu_call_count, ready_event, bql, phase, n, tries, node, ran, covered>>

(***************************************************************************)
(* call_rcu_thread: run callbacks                                          *)
(***************************************************************************)
\* The first failure gives the BQL away, resets the event and tries again; the
\* second waits; the third takes the BQL, gives it away and resets again.
NoneYet ==
  /\ gat = "none"
  /\ CASE phase = "first"  -> gat' = "reset_read" /\ phase' = "second" /\ bql' = Nobody
       [] phase = "second" -> gat' = "wait_read" /\ UNCHANGED <<phase, bql>>
       [] phase = "third"  -> bql = Nobody /\ gat' = "reset_read" /\ phase' = "second" /\ UNCHANGED bql
  /\ UNCHANGED <<callerVars, next, tail, head, rcu_call_count, ready_event, n, tries, node, dummy_tail,
                 ran, covered>>

Found ==
  /\ gat = "found"
  /\ bql = IF phase = "first" THEN RcuThread ELSE Nobody
  /\ bql' = RcuThread
  /\ gat' = "run"
  /\ UNCHANGED <<callerVars, next, tail, head, rcu_call_count, ready_event, threadLocals, ran, covered>>

\* node->func(node).  After the last one the BQL is released.
RunCallback ==
  /\ gat = "run"
  /\ ran' = [ran EXCEPT ![node[1]] = @ + 1]
  /\ node' = NULL
  /\ n' = n - 1
  /\ IF n' = 0 THEN bql' = Nobody /\ gat' = "count" /\ phase' = "idle"
     ELSE gat' = "test" /\ phase' = "first" /\ UNCHANGED bql
  /\ UNCHANGED <<callerVars, next, tail, head, rcu_call_count, ready_event, tries, dummy_tail, covered>>

(***************************************************************************)
(* The specification                                                       *)
(***************************************************************************)
CallerProgress(c) ==
  \/ EnqueueTail(c) \/ EnqueueLink(c) \/ CountUp(c) \/ SetReady(c) \/ WakeThread(c) \/ Drained(c)
  \/ ReleasesBql(c)

CallerRequest(c) == (c \in BqlCallers /\ TakesBql(c)) \/ call_rcu1(c) \/ drain_call_rcu(c)

RcuThreadProgress ==
  \/ Count \/ ResetReady \/ Recount \/ WaitReady \/ Take \/ SyncBegin \/ SyncEnd
  \/ TestEmpty \/ TakeHead \/ DummyTail \/ DummyLink \/ NoneYet \/ Found \/ RunCallback

CallRcuNext ==
  \/ \E c \in Callers : CallerProgress(c) \/ CallerRequest(c)
  \/ RcuThreadProgress \/ SpuriousReady

\* Every thread goes on, gets the BQL if it is free again and again, and lets go
\* of it.
CallRcuFairness ==
  /\ \A c \in Callers : SF_callVars(CallerProgress(c))
  /\ SF_callVars(RcuThreadProgress)

CallRcuSpec == CallRcuInit /\ [][CallRcuNext]_callVars /\ CallRcuFairness

(***************************************************************************)
(* Properties.                                                             *)
(***************************************************************************)
Freed(x) == x # Dummy /\ x[2] <= ran[x[1]]

\* A callback runs only after a grace period that began when call_rcu1 had been
\* called for it, though the number of callbacks is read before and the queue
\* after the grace period, and a thread may be between the two in its enqueue;
\* once, and in the order of its thread's calls, on which drain_call_rcu relies.
\* The thread never meets an empty queue, and nobody links to a node whose
\* callback has run.
CallbackAfterGrace ==
  /\ gat # "aborted"
  /\ gat = "run" => node[2] = ran[node[1]] + 1 /\ node[2] <= covered[node[1]]
  /\ \A c \in Callers : cat[c] = "link" => ~Freed(old_tail[c])
  /\ gat = "dummy_link" => ~Freed(dummy_tail)

\* Every callback is run, however calls, the two uses of the event and the BQL
\* interleave, and drain_call_rcu returns also if it was called with the BQL: after
\* the last call the queue is worked off and nobody waits.
CallbacksRun == <>[](\A c \in Callers : ran[c] = issued[c] /\ cat[c] # "drain")
=============================================================================
