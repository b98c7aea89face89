---------------------------- MODULE CallRcuProofs ----------------------------
(***************************************************************************)
(* Proofs about the callbacks that run after a grace period, for any threads*)
(* and any number of calls (CallRcu).                                      *)
(***************************************************************************)
EXTENDS CallRcu, FiniteSetTheorems, TLAPS

CallerPoints == {"idle", "xchg", "link", "inc", "wake", "drain"} \cup SetPoints
BatchPoints == {"test", "next", "none", "dummy_xchg", "dummy_link", "found", "run"}
EventPoints == ResetPoints \cup WaitPoints \cup {"asleep"}

\* The calls of c whose nodes are in the queue, or were
Queued(c) == IF cat[c] = "xchg" THEN issued[c] - 1 ELSE issued[c]

\* The nodes whose callbacks have still to run, and the callers that have queued one
\* and not counted it
Awaiting == {x \in Nodes : ran[x[1]] < x[2] /\ x[2] <= Queued(x[1])}
Uncounted == {c \in Callers : cat[c] \in {"link", "inc"}}

\* A node has left the queue and its callback has not run.
Out == gat \in {"found", "run"}
\* Callbacks have been taken off the count.
HasBatch == gat \in {"sync", "synced"} \/ phase # "idle"

CallTypeOK ==
  /\ cat \in [Callers -> CallerPoints]
  /\ issued \in [Callers -> 0 .. MaxCalls]
  /\ \A c \in Callers : cat[c] \in {"xchg", "link"} => issued[c] # 0
  /\ DOMAIN old_tail = Callers
  /\ ran \in [Callers -> Nat] /\ covered \in [Callers -> Nat]
  /\ \A c \in Callers : ran[c] <= Queued(c)
  /\ next \in [Nodes \cup {Dummy} -> Nodes \cup {Dummy, NULL}]
  /\ \A x \in Nodes : x[2] > Queued(x[1]) => next[x] = NULL
  /\ rcu_call_count \in Nat /\ n \in Nat
  /\ phase \in {"idle", "first", "second", "third"}
  /\ gat \in EventPoints \cup (IF phase = "idle" THEN {"count", "recount", "take", "sync", "synced"}
                               ELSE BatchPoints)

\* The count, what was taken off it and what will be added to it make up the nodes
\* that wait.
Counts ==
  /\ Cardinality(Awaiting) = rcu_call_count + (IF HasBatch THEN n ELSE 0) + Cardinality(Uncounted)
  /\ gat = "take" => n \in 1 .. rcu_call_count
  /\ HasBatch => n # 0

\* The queue is q[lo] .. q[hi], where a link may still be missing whose thread is
\* about to make it.
Missing(nx, q, lo, hi, x, y) ==
  \E i \in lo .. hi - 1 : x = q[i] /\ y = q[i + 1] /\ nx[q[i]] = NULL
Linked(q, lo, hi) ==
  /\ q \in [Nat -> Nodes \cup {Dummy}] /\ lo \in Nat /\ hi \in Nat /\ lo <= hi
  /\ head = q[lo] /\ tail = q[hi]
  /\ \A i, j \in lo .. hi : q[i] = q[j] => i = j
  /\ next[q[hi]] = NULL
  /\ \A i \in lo .. hi - 1 : next[q[i]] \in {NULL, q[i + 1]}
  /\ \A c \in Callers : cat[c] = "link" => Missing(next, q, lo, hi, old_tail[c], Current(c))
  /\ gat = "dummy_link" => Missing(next, q, lo, hi, dummy_tail, Dummy)
  /\ gat = "dummy_xchg" => next[Dummy] = NULL /\ \A i \in lo .. hi : q[i] # Dummy

\* It holds the nodes that wait, those of a thread in the order of its calls.
Holds(q, lo, hi) ==
  /\ \A x \in Nodes : x \in Awaiting <=> (\E i \in lo .. hi : q[i] = x) \/ (Out /\ x = node)
  /\ \A i, j \in lo .. hi :
       i < j /\ q[i] \in Nodes /\ q[j] \in Nodes /\ q[i][1] = q[j][1] => q[i][2] < q[j][2]
  /\ Out => /\ node \in Nodes /\ node[2] = ran[node[1]] + 1
            /\ \A i \in lo .. hi : q[i] # node

\* From the grace period on at least n of them, before all others, had been called for
\* when it began.
Batch(q, lo, hi, B) ==
  gat = "synced" \/ phase # "idle" =>
    /\ B \subseteq Awaiting /\ Cardinality(B) >= n
    /\ \A x \in B : x[2] <= covered[x[1]]
    /\ \A i, j \in lo .. hi : i < j /\ q[j] \in B /\ q[i] \in Nodes => q[i] \in B
    /\ Out => node \in B

CallInv ==
  /\ CallTypeOK /\ Counts
  /\ \E q, lo, hi, B : Linked(q, lo, hi) /\ Holds(q, lo, hi) /\ Batch(q, lo, hi, B)

\* The sets of the invariant are finite.
LEMMA AllFinite ==
  /\ IsFiniteSet(Nodes)
  /\ IsFiniteSet(Awaiting) /\ Cardinality(Awaiting) \in Nat
  /\ IsFiniteSet(Uncounted) /\ Cardinality(Uncounted) \in Nat
  <1>1. IsFiniteSet(Nodes)
    <2>1. IsFiniteSet(Callers) /\ 1 \in Int /\ MaxCalls \in Int
      BY CallRcuAssumption
    <2>2. IsFiniteSet(1 .. MaxCalls)
      BY <2>1, FS_Interval
    <2> QED
      BY <2>1, <2>2, FS_Product DEF Nodes
  <1>2. Awaiting \subseteq Nodes /\ Uncounted \subseteq Callers
    BY DEF Awaiting, Uncounted
  <1>3. IsFiniteSet(Awaiting) /\ IsFiniteSet(Uncounted)
    BY <1>1, <1>2, CallRcuAssumption, FS_Subset
  <1> QED
    BY <1>1, <1>3, FS_CardinalityType

\* A node is a caller and the number of a call; the calls queued are a number, and
\* those that wait are among them.
LEMMA NodeParts ==
  /\ \A y \in Nodes : y[1] \in Callers /\ y[2] \in Nat /\ y = <<y[1], y[2]>> /\ y # Dummy
  /\ CallTypeOK => \A c \in Callers : Queued(c) \in Int
  /\ CallTypeOK => \A y \in Awaiting : ~(y[2] > Queued(y[1]))
  <1>1. \A y \in Nodes : y[1] \in Callers /\ y[2] \in Nat /\ y = <<y[1], y[2]>>
    BY DEF Nodes
  <1>2. \A y \in Nodes : y # Dummy
    BY CallRcuAssumption
  <1>3. CallTypeOK => \A c \in Callers : Queued(c) \in Int
    BY DEF CallTypeOK, Queued
  <1>4. CallTypeOK => \A y \in Awaiting : ~(y[2] > Queued(y[1]))
    BY <1>1, <1>3 DEF Awaiting
  <1> QED
    BY <1>1, <1>2, <1>3, <1>4

\* The places of the queue
LEMMA Places ==
  ASSUME NEW q, NEW lo, NEW hi, Linked(q, lo, hi)
  PROVE  /\ lo \in Nat /\ hi \in Nat /\ lo <= hi /\ lo \in lo .. hi /\ hi \in lo .. hi
         /\ \A i \in lo .. hi : i \in Nat /\ q[i] \in Nodes \cup {Dummy}
         /\ \A i, j \in lo .. hi : q[i] = q[j] => i = j
         /\ \A i \in lo .. hi - 1 : i \in lo .. hi /\ i + 1 \in lo .. hi /\ i # hi
  <1>1. /\ q \in [Nat -> Nodes \cup {Dummy}] /\ lo \in Nat /\ hi \in Nat /\ lo <= hi
        /\ \A i, j \in lo .. hi : q[i] = q[j] => i = j
    BY DEF Linked
  <1>2. \A i \in lo .. hi : i \in Nat
    BY <1>1
  <1>3. \A i \in lo .. hi - 1 : i \in lo .. hi /\ i + 1 \in lo .. hi /\ i # hi
    BY <1>1
  <1> QED
    BY <1>1, <1>2, <1>3

\* What the invariant says of the property
LEMMA CallMeans == CallInv => CallbackAfterGrace
  <1> SUFFICES ASSUME CallInv PROVE CallbackAfterGrace
    OBVIOUS
  <1>1. PICK q, lo, hi, B : Linked(q, lo, hi) /\ Holds(q, lo, hi) /\ Batch(q, lo, hi, B)
    BY DEF CallInv
  <1>2. gat # "aborted"
    BY DEF CallInv, CallTypeOK, EventPoints, BatchPoints, ResetPoints, WaitPoints
  <1>3. ASSUME gat = "run" PROVE node[2] = ran[node[1]] + 1 /\ node[2] <= covered[node[1]]
    <2>1. Out /\ phase # "idle"
      BY <1>3 DEF Out, CallInv, CallTypeOK, EventPoints, ResetPoints, WaitPoints
    <2> QED
      BY <1>1, <2>1 DEF Holds, Batch
  <1>4. ASSUME NEW x, NEW y, Missing(next, q, lo, hi, x, y) PROVE ~Freed(x)
    <2>1. PICK i \in lo .. hi - 1 : x = q[i]
      BY <1>4 DEF Missing
    <2>2. i \in lo .. hi /\ x \in Nodes \cup {Dummy}
      BY <1>1, <2>1 DEF Linked
    <2>3. x \in Nodes => x \in Awaiting
      BY <1>1, <2>1, <2>2 DEF Holds
    <2>4. x \in Nodes => x[1] \in Callers /\ x[2] \in Nat
      BY DEF Nodes
    <2>5. x \in Nodes => ~(x[2] <= ran[x[1]])
      BY <2>3, <2>4 DEF Awaiting, CallInv, CallTypeOK
    <2> QED
      BY <2>2, <2>5 DEF Freed
  <1>5. ASSUME NEW c \in Callers, cat[c] = "link" PROVE ~Freed(old_tail[c])
    BY <1>1, <1>4, <1>5 DEF Linked
  <1>6. gat = "dummy_link" => ~Freed(dummy_tail)
    BY <1>1, <1>4 DEF Linked
  <1> QED
    BY <1>2, <1>3, <1>5, <1>6 DEF CallbackAfterGrace

\* The nodes that wait depend on nothing but what is queued and what has run.
LEMMA SameAwaiting ==
  ASSUME CallInv, ran' = ran, \A c \in Callers : Queued(c)' = Queued(c)
  PROVE  Awaiting' = Awaiting
  <1>1. \A x \in Nodes : x[1] \in Callers
    BY DEF Nodes
  <1> QED
    BY <1>1 DEF Awaiting

\* A step that leaves the queue alone
LEMMA KeepsQueue ==
  ASSUME CallInv, CallTypeOK', Counts',
         UNCHANGED <<next, tail, head, node, dummy_tail, ran>>,
         \A c \in Callers : Queued(c)' = Queued(c),
         \A c \in Callers : cat'[c] = "link" =>
           cat[c] = "link" /\ Current(c)' = Current(c) /\ old_tail'[c] = old_tail[c],
         gat' \in {"dummy_link", "dummy_xchg"} => gat' = gat,
         Out' <=> Out,
         gat' = "synced" \/ phase' # "idle" =>
           (gat = "synced" \/ phase # "idle") /\ covered' = covered /\ n' = n
  PROVE  CallInv'
  <1>1. PICK q, lo, hi, B : Linked(q, lo, hi) /\ Holds(q, lo, hi) /\ Batch(q, lo, hi, B)
    BY DEF CallInv
  <1>2. Awaiting' = Awaiting
    BY SameAwaiting
  <1>3. \A x, y : Missing(next', q, lo, hi, x, y) <=> Missing(next, q, lo, hi, x, y)
    BY DEF Missing
  <1>4. Linked(q, lo, hi)'
    BY <1>1, <1>3 DEF Linked
  <1>5. Holds(q, lo, hi)'
    BY <1>1, <1>2 DEF Holds
  <1>6. Batch(q, lo, hi, B)'
    BY <1>1, <1>2 DEF Batch
  <1> QED
    BY <1>4, <1>5, <1>6 DEF CallInv

\* A caller outside of its enqueue moves on; it may wake the thread.
LEMMA CallerMoves ==
  ASSUME CallInv, NEW c \in Callers, NEW p \in CallerPoints,
         cat' = [cat EXCEPT ![c] = p], cat[c] \notin {"xchg", "link", "inc"},
         p \notin {"xchg", "link", "inc"},
         UNCHANGED <<issued, old_tail, next, tail, head, rcu_call_count, n, node, dummy_tail,
                     ran, covered>>,
         UNCHANGED <<gat, phase>> \/ (gat = "asleep" /\ AfterWait)
  PROVE  CallInv'
  <1>1. CallTypeOK /\ Counts
    BY DEF CallInv
  <1>2. cat' \in [Callers -> CallerPoints] /\ \A d \in Callers : d # c => cat'[d] = cat[d]
    BY <1>1 DEF CallTypeOK
  <1>3. cat'[c] = p
    BY <1>1 DEF CallTypeOK
  <1>4. \A d \in Callers : Queued(d)' = Queued(d)
    BY <1>2, <1>3 DEF Queued
  <1>5. Uncounted' = Uncounted
    BY <1>2, <1>3 DEF Uncounted
  <1>6. /\ gat' \in {"dummy_link", "dummy_xchg"} => gat' = gat
        /\ Out' <=> Out
        /\ HasBatch' <=> HasBatch
        /\ gat' = "take" <=> gat = "take"
        /\ gat' = "synced" \/ phase' # "idle" => gat = "synced" \/ phase # "idle"
        /\ phase' \in {"idle", "first", "second", "third"}
        /\ gat' \in EventPoints \cup (IF phase' = "idle" THEN {"count", "recount", "take", "sync", "synced"}
                                     ELSE BatchPoints)
    <2>1. CASE UNCHANGED <<gat, phase>>
      BY <1>1, <2>1 DEF CallTypeOK, Out, HasBatch
    <2>2. CASE gat = "asleep" /\ phase = "idle" /\ gat' = "count" /\ phase' = phase
      BY <2>2 DEF Out, HasBatch
    <2>3. CASE gat = "asleep" /\ phase # "idle" /\ gat' = "test" /\ phase' = "third"
      BY <2>3 DEF Out, HasBatch, BatchPoints
    <2> QED
      BY <2>1, <2>2, <2>3 DEF AfterWait
  <1>7. CallTypeOK'
    <2>1. \A x \in Nodes : x[1] \in Callers
      BY DEF Nodes
    <2>2. \A x \in Nodes : x[2] > Queued(x[1])' => next'[x] = NULL
      BY <1>1, <1>4, <2>1 DEF CallTypeOK
    <2>3. \A d \in Callers : cat'[d] \in {"xchg", "link"} => issued'[d] # 0
      BY <1>1, <1>2, <1>3 DEF CallTypeOK
    <2> QED
      BY <1>1, <1>2, <1>4, <1>6, <2>2, <2>3 DEF CallTypeOK
  <1>8. Awaiting' = Awaiting
    BY <1>4, SameAwaiting
  <1>9. Counts'
    BY <1>1, <1>5, <1>6, <1>8 DEF Counts
  <1>10. \A d \in Callers : cat'[d] = "link" =>
           cat[d] = "link" /\ Current(d)' = Current(d) /\ old_tail'[d] = old_tail[d]
    BY <1>2, <1>3 DEF Current
  <1> QED
    BY <1>4, <1>6, <1>7, <1>9, <1>10, KeepsQueue

\* The thread moves on and leaves the queue alone.
LEMMA ThreadMoves ==
  ASSUME CallInv,
         UNCHANGED <<callerVars, next, tail, head, node, dummy_tail, ran>>,
         covered' \in [Callers -> Nat], n' \in Nat, rcu_call_count' \in Nat,
         phase' \in {"idle", "first", "second", "third"},
         gat' \in EventPoints \cup (IF phase' = "idle" THEN {"count", "recount", "take", "sync", "synced"}
                                    ELSE BatchPoints),
         gat' \notin {"dummy_link", "dummy_xchg"}, Out' <=> Out,
         rcu_call_count' + (IF HasBatch' THEN n' ELSE 0) = rcu_call_count + (IF HasBatch THEN n ELSE 0),
         gat' = "take" => n' \in 1 .. rcu_call_count',
         HasBatch' => n' # 0
  PROVE  /\ CallTypeOK' /\ Counts' /\ Awaiting' = Awaiting
         /\ (gat' = "synced" \/ phase' # "idle" =>
               (gat = "synced" \/ phase # "idle") /\ covered' = covered /\ n' = n) => CallInv'
  <1>1. CallTypeOK /\ Counts
    BY DEF CallInv
  <1>2. cat' = cat /\ issued' = issued /\ old_tail' = old_tail
    BY DEF callerVars
  <1>3. (\A d \in Callers : Queued(d)' = Queued(d)) /\ Uncounted' = Uncounted
    BY <1>2 DEF Queued, Uncounted
  <1>4. CallTypeOK'
    <2>1. \A x \in Nodes : x[1] \in Callers
      BY DEF Nodes
    <2>2. \A x \in Nodes : x[2] > Queued(x[1])' => next'[x] = NULL
      BY <1>1, <1>3, <2>1 DEF CallTypeOK
    <2> QED
      BY <1>1, <1>2, <1>3, <2>2 DEF CallTypeOK
  <1>5. Awaiting' = Awaiting
    BY <1>3, SameAwaiting
  <1>6. Counts'
    <2> DEFINE before == IF HasBatch THEN n ELSE 0
               after == IF HasBatch' THEN n' ELSE 0
    <2>1. before \in Nat /\ after \in Nat
      BY <1>1 DEF CallTypeOK
    <2>2. Cardinality(Uncounted) \in Nat /\ rcu_call_count \in Nat
      BY <1>1, AllFinite DEF CallTypeOK
    <2>3. Cardinality(Awaiting) = rcu_call_count + before + Cardinality(Uncounted)
      BY <1>1 DEF Counts
    <2>4. rcu_call_count' + after = rcu_call_count + before
      OBVIOUS
    <2>5. Cardinality(Awaiting') = rcu_call_count' + after + Cardinality(Uncounted')
      <3> HIDE DEF before, after
      <3> QED
        BY <1>3, <1>5, <2>1, <2>2, <2>3, <2>4, Zenon
    <2> QED
      BY <2>5 DEF Counts
  <1>7. \A d \in Callers : cat'[d] = "link" =>
           cat[d] = "link" /\ Current(d)' = Current(d) /\ old_tail'[d] = old_tail[d]
    BY <1>2 DEF Current
  <1> QED
    BY <1>3, <1>4, <1>5, <1>6, <1>7, KeepsQueue

\* The BQL, rcu_call_ready_event and the end of drain_call_rcu
LEMMA CallerQuietInv ==
  ASSUME CallInv, NEW c \in Callers,
         TakesBql(c) \/ ReleasesBql(c) \/ SetReady(c) \/ WakeThread(c) \/ Drained(c)
  PROVE  CallInv'
  <1>1. cat \in [Callers -> CallerPoints]
    BY DEF CallInv, CallTypeOK
  <1>2. CASE TakesBql(c) \/ ReleasesBql(c)
    <2>1. cat[c] = "idle" /\ UNCHANGED <<callerVars, next, tail, head, rcu_call_count, gat, threadLocals,
                                         ran, covered>>
      BY <1>2 DEF TakesBql, ReleasesBql
    <2>2. cat' = [cat EXCEPT ![c] = "idle"] /\ "idle" \in CallerPoints
      BY <1>1, <2>1 DEF callerVars, CallerPoints
    <2> QED
      BY <2>1, <2>2, CallerMoves, Zenon DEF callerVars, threadLocals
  <1>3. CASE SetReady(c)
    <2> DEFINE s == SetStep(cat[c], ready_event, "wake", IF draining[c] = "no" THEN "idle" ELSE "drain")
    <2>1. s.to \in {"idle", "drain", "wake", "set_xchg"}
      BY DEF SetStep, EventStep
    <2>2. /\ cat' = [cat EXCEPT ![c] = s.to] /\ cat[c] \in SetPoints
          /\ UNCHANGED <<issued, old_tail, next, tail, head, rcu_call_count, gat, threadLocals, ran, covered>>
      BY <1>3 DEF SetReady, CallerTo
    <2> HIDE DEF s
    <2>3. s.to \in CallerPoints /\ {s.to, cat[c]} \cap {"xchg", "link", "inc"} = {}
      BY <2>1, <2>2 DEF CallerPoints, SetPoints
    <2> QED
      BY <2>2, <2>3, CallerMoves, Zenon DEF threadLocals
  <1>4. CASE WakeThread(c)
    <2> DEFINE to == IF draining[c] = "no" THEN "idle" ELSE "drain"
    <2>1. to \in CallerPoints /\ to \notin {"xchg", "link", "inc"}
      BY DEF CallerPoints
    <2>2. /\ cat' = [cat EXCEPT ![c] = to] /\ cat[c] = "wake"
          /\ UNCHANGED <<gat, phase>> \/ (gat = "asleep" /\ AfterWait)
          /\ UNCHANGED <<issued, old_tail, next, tail, head, rcu_call_count, n, node, dummy_tail,
                         ran, covered>>
      BY <1>4 DEF WakeThread, CallerTo
    <2> HIDE DEF to
    <2> QED
      BY <2>1, <2>2, CallerMoves, Zenon
  <1>5. CASE Drained(c)
    <2>1. /\ cat' = [cat EXCEPT ![c] = "idle"] /\ cat[c] = "drain"
          /\ UNCHANGED <<issued, old_tail, next, tail, head, rcu_call_count, gat, threadLocals, ran, covered>>
      BY <1>5 DEF Drained, CallerTo
    <2>2. "idle" \in CallerPoints
      BY DEF CallerPoints
    <2> QED
      BY <2>1, <2>2, CallerMoves, Zenon DEF threadLocals
  <1> QED
    BY <1>2, <1>3, <1>4, <1>5

\* The bound on all calls bounds those of a thread.
LEMMA IssuedBound ==
  ASSUME CallTypeOK, NEW c \in Callers, Cardinality(Issued) < MaxCalls
  PROVE  issued[c] < MaxCalls
  <1>1. issued[c] \in 0 .. MaxCalls /\ MaxCalls \in Nat
    BY CallRcuAssumption DEF CallTypeOK
  <1> SUFFICES ASSUME issued[c] = MaxCalls PROVE FALSE
    BY <1>1
  <1> DEFINE f == [k \in 1 .. MaxCalls |-> <<c, k>>]
  <1>2. Issued \subseteq Nodes /\ IsFiniteSet(Issued)
    BY AllFinite, FS_Subset DEF Issued
  <1>3. \A k \in 1 .. MaxCalls : <<c, k>> \in Issued
    BY <1>1 DEF Issued, Nodes
  <1>4. f \in Injection(1 .. MaxCalls, Issued)
    BY <1>3 DEF Injection, IsInjective
  <1>5. Cardinality(1 .. MaxCalls) <= Cardinality(Issued)
    BY <1>2, <1>4, FS_Injection
  <1>6. Cardinality(1 .. MaxCalls) = MaxCalls
    BY <1>1, FS_Interval
  <1>7. Cardinality(Issued) \in Nat
    BY <1>2, FS_CardinalityType
  <1> QED
    BY <1>1, <1>5, <1>6, <1>7

\* call_rcu1, also in drain_call_rcu, begins: its node is not in the queue yet.
LEMMA CallBeginsInv ==
  ASSUME CallInv, NEW c \in Callers, call_rcu1(c) \/ drain_call_rcu(c)
  PROVE  CallInv'
  <1>1. CallTypeOK /\ Counts
    BY DEF CallInv
  <1>2. /\ cat[c] = "idle" /\ Cardinality(Issued) < MaxCalls
        /\ cat' = [cat EXCEPT ![c] = "xchg"]
        /\ issued' = [issued EXCEPT ![c] = issued[c] + 1]
        /\ UNCHANGED <<old_tail, next, tail, head, rcu_call_count, gat, threadLocals, ran, covered>>
    BY DEF call_rcu1, drain_call_rcu, CallerTo
  <1>3. issued[c] \in 0 .. MaxCalls /\ issued[c] + 1 \in 0 .. MaxCalls /\ issued[c] + 1 # 0
    BY <1>1, <1>2, IssuedBound, CallRcuAssumption DEF CallTypeOK
  <1>4. /\ cat' \in [Callers -> CallerPoints] /\ issued' \in [Callers -> 0 .. MaxCalls]
        /\ cat'[c] = "xchg" /\ issued'[c] = issued[c] + 1
        /\ \A d \in Callers : d # c => cat'[d] = cat[d] /\ issued'[d] = issued[d]
    BY <1>1, <1>2, <1>3 DEF CallTypeOK, CallerPoints
  <1>5. \A d \in Callers : Queued(d)' = Queued(d)
    BY <1>2, <1>3, <1>4 DEF Queued
  <1>6. Uncounted' = Uncounted
    BY <1>2, <1>4 DEF Uncounted
  <1>7. CallTypeOK'
    <2>1. \A x \in Nodes : x[1] \in Callers
      BY DEF Nodes
    <2>2. \A x \in Nodes : x[2] > Queued(x[1])' => next'[x] = NULL
      BY <1>1, <1>2, <1>5, <2>1 DEF CallTypeOK
    <2>3. \A d \in Callers : cat'[d] \in {"xchg", "link"} => issued'[d] # 0
      BY <1>1, <1>3, <1>4 DEF CallTypeOK
    <2> QED
      BY <1>1, <1>2, <1>4, <1>5, <2>2, <2>3 DEF CallTypeOK, threadLocals
  <1>8. Counts'
    BY <1>1, <1>2, <1>5, <1>6, SameAwaiting DEF Counts, HasBatch, threadLocals
  <1>9. \A d \in Callers : cat'[d] = "link" =>
          cat[d] = "link" /\ Current(d)' = Current(d) /\ old_tail'[d] = old_tail[d]
    BY <1>2, <1>4 DEF Current
  <1> QED
    BY <1>2, <1>5, <1>7, <1>8, <1>9, KeepsQueue DEF Out, threadLocals

\* The count goes up, of a node that is in the queue.
LEMMA CountUpInv ==
  ASSUME CallInv, NEW c \in Callers, CountUp(c)
  PROVE  CallInv'
  <1>1. CallTypeOK /\ Counts
    BY DEF CallInv
  <1>2. /\ cat[c] = "inc" /\ rcu_call_count' = rcu_call_count + 1
        /\ cat' = [cat EXCEPT ![c] = "set_read"]
        /\ UNCHANGED <<issued, old_tail, next, tail, head, gat, threadLocals, ran, covered>>
    BY DEF CountUp, CallerTo
  <1>3. /\ cat' \in [Callers -> CallerPoints] /\ cat'[c] = "set_read"
        /\ \A d \in Callers : d # c => cat'[d] = cat[d]
    BY <1>1, <1>2 DEF CallTypeOK, CallerPoints, SetPoints
  <1>4. \A d \in Callers : Queued(d)' = Queued(d)
    BY <1>2, <1>3 DEF Queued
  <1>5. Uncounted' = Uncounted \ {c} /\ c \in Uncounted
    BY <1>2, <1>3 DEF Uncounted
  <1>6. CallTypeOK'
    <2>1. \A x \in Nodes : x[1] \in Callers
      BY DEF Nodes
    <2>2. \A x \in Nodes : x[2] > Queued(x[1])' => next'[x] = NULL
      BY <1>1, <1>2, <1>4, <2>1 DEF CallTypeOK
    <2>3. \A d \in Callers : cat'[d] \in {"xchg", "link"} => issued'[d] # 0
      BY <1>1, <1>2, <1>3 DEF CallTypeOK
    <2>4. rcu_call_count' \in Nat
      BY <1>1, <1>2 DEF CallTypeOK
    <2> QED
      BY <1>1, <1>2, <1>3, <1>4, <2>2, <2>3, <2>4 DEF CallTypeOK, threadLocals
  <1>7. Counts'
    <2> DEFINE taken == IF HasBatch THEN n ELSE 0
    <2>1. taken \in Nat /\ rcu_call_count \in Nat
      BY <1>1 DEF CallTypeOK
    <2>2. Cardinality(Uncounted') = Cardinality(Uncounted) - 1 /\ Cardinality(Uncounted) \in Nat
      BY <1>5, AllFinite, FS_RemoveElement, Zenon
    <2>3. Awaiting' = Awaiting
      BY <1>2, <1>4, SameAwaiting
    <2>4. Cardinality(Awaiting) = rcu_call_count + taken + Cardinality(Uncounted)
      BY <1>1 DEF Counts
    <2>5. (HasBatch' <=> HasBatch) /\ n' = n /\ gat' = gat
      BY <1>2 DEF HasBatch, threadLocals
    <2>6. Cardinality(Awaiting') = rcu_call_count' + taken + Cardinality(Uncounted')
      <3> HIDE DEF taken
      <3> QED
        BY <1>2, <2>1, <2>2, <2>3, <2>4
    <2>7. gat' = "take" => n' \in 1 .. rcu_call_count'
      BY <1>1, <1>2, <2>1, <2>5 DEF Counts
    <2>8. HasBatch' => n' # 0
      BY <1>1, <2>5 DEF Counts
    <2> QED
      BY <2>5, <2>6, <2>7, <2>8 DEF Counts
  <1>8. \A d \in Callers : cat'[d] = "link" =>
          cat[d] = "link" /\ Current(d)' = Current(d) /\ old_tail'[d] = old_tail[d]
    BY <1>2, <1>3 DEF Current
  <1> QED
    BY <1>2, <1>4, <1>6, <1>7, <1>8, KeepsQueue DEF Out, threadLocals

\* The loop of call_rcu_thread around try_dequeue and its callbacks
LEMMA ThreadQuietInv ==
  ASSUME CallInv,
         Count \/ ResetReady \/ Recount \/ WaitReady \/ SpuriousReady \/ Take \/ SyncEnd \/ NoneYet \/ Found
  PROVE  CallInv'
  <1>1. CallTypeOK /\ Counts
    BY DEF CallInv
  <1>2. /\ covered \in [Callers -> Nat] /\ n \in Nat /\ rcu_call_count \in Nat
        /\ phase \in {"idle", "first", "second", "third"}
        /\ gat \in {"count", "recount", "take", "sync", "synced"} => phase = "idle"
        /\ gat \in BatchPoints => phase # "idle"
        /\ gat = "take" => n \in 1 .. rcu_call_count
        /\ HasBatch => n # 0
    BY <1>1 DEF CallTypeOK, Counts, BatchPoints, EventPoints, ResetPoints, WaitPoints
  <1> DEFINE Quiet == UNCHANGED <<callerVars, next, tail, head, node, dummy_tail, ran, covered>>
  <1>3. CASE Count
    <2>1. /\ gat = "count" /\ n' = rcu_call_count /\ UNCHANGED <<rcu_call_count, phase>> /\ Quiet
          /\ gat' \in {"count", "reset_read", "take"} /\ (gat' = "take" => n' # 0)
      BY <1>3 DEF Count
    <2>2. ~HasBatch /\ ~HasBatch' /\ ~Out /\ ~Out' /\ phase' = "idle"
      BY <1>2, <2>1 DEF HasBatch, Out
    <2>3. gat' \in EventPoints \cup {"count", "recount", "take", "sync", "synced"}
      BY <2>1 DEF EventPoints, ResetPoints
    <2> QED
      BY <1>2, <2>1, <2>2, <2>3, ThreadMoves
  <1>4. ASSUME Quiet, UNCHANGED <<n, rcu_call_count>>, gat \in EventPoints \cup {"recount", "count", "none"},
               phase' \in {"idle", "first", "second", "third"}, phase' = "idle" <=> phase = "idle",
               gat' \in EventPoints \cup (IF phase = "idle" THEN {"recount", "count"} ELSE {"test"})
        PROVE  CallInv'
    <2>1. /\ gat' \in EventPoints \cup (IF phase' = "idle" THEN {"count", "recount", "take", "sync", "synced"}
                                        ELSE BatchPoints)
          /\ gat' \notin {"dummy_link", "dummy_xchg", "take", "sync", "synced", "found", "run"}
          /\ gat \notin {"sync", "synced", "found", "run"}
      BY <1>4 DEF BatchPoints, EventPoints, ResetPoints, WaitPoints
    <2>2. (Out' <=> Out) /\ (HasBatch' <=> HasBatch)
      BY <1>4, <2>1 DEF Out, HasBatch
    <2> QED
      BY <1>2, <1>4, <2>1, <2>2, ThreadMoves
  <1>5. CASE ResetReady
    <2> DEFINE s == ResetStep(gat, ready_event, IF phase = "idle" THEN "recount" ELSE "test")
    <2>1. s.to \in {"reset_or"} \cup (IF phase = "idle" THEN {"recount", "count"} ELSE {"test"})
      BY DEF ResetStep, EventStep
    <2>2. gat \in ResetPoints /\ gat' = s.to /\ UNCHANGED <<n, rcu_call_count, phase>> /\ Quiet
      BY <1>5 DEF ResetReady, threadLocals
    <2> HIDE DEF s
    <2>3. /\ gat' \in EventPoints \cup (IF phase = "idle" THEN {"recount", "count"} ELSE {"test"})
          /\ gat \in EventPoints
      BY <2>1, <2>2 DEF EventPoints, ResetPoints
    <2> QED
      BY <1>2, <1>4, <2>2, <2>3
  <1>6. CASE Recount
    <2>1. /\ gat = "recount" /\ gat' \in {"wait_read", "count"}
          /\ UNCHANGED <<n, rcu_call_count, phase>> /\ Quiet
      BY <1>6 DEF Recount, threadLocals
    <2>2. gat' \in EventPoints \cup {"recount", "count"} /\ phase = "idle"
      BY <1>2, <2>1 DEF EventPoints, WaitPoints
    <2> QED
      BY <1>2, <1>4, <2>1, <2>2
  <1>7. CASE WaitReady
    <2> DEFINE to == IF phase = "idle" THEN "count" ELSE "test"
               s == WaitStep(gat, ready_event, to)
    <2>1. gat \in WaitPoints /\ gat' = s.to /\ UNCHANGED <<n, rcu_call_count>> /\ Quiet
      BY <1>7 DEF WaitReady
    <2>2. phase' = IF s.to = "test" THEN "third" ELSE phase
      BY <1>7 DEF WaitReady
    <2>3. s.to \in {to, "wait_cas", "wait_futex", "asleep"}
      BY <2>1 DEF WaitStep, EventStep, WaitPoints
    <2> HIDE DEF s
    <2>4. /\ phase' \in {"idle", "first", "second", "third"}
          /\ phase' = "idle" <=> phase = "idle"
      BY <1>2, <2>2, <2>3
    <2>5. /\ gat' \in EventPoints \cup (IF phase = "idle" THEN {"recount", "count"} ELSE {"test"})
          /\ gat \in EventPoints
      BY <2>1, <2>3 DEF EventPoints, WaitPoints
    <2> QED
      BY <1>4, <2>1, <2>4, <2>5
  <1>8. CASE SpuriousReady
    <2>1. /\ gat = "asleep" /\ UNCHANGED <<n, rcu_call_count>> /\ Quiet
          /\ IF phase = "idle" THEN gat' = "count" /\ phase' = phase ELSE gat' = "test" /\ phase' = "third"
      BY <1>8 DEF SpuriousReady, AfterWait
    <2>2. gat \in EventPoints
      BY <2>1 DEF EventPoints
    <2> QED
      BY <1>2, <1>4, <2>1, <2>2
  <1>9. CASE Take
    <2>1. /\ gat = "take" /\ rcu_call_count' = rcu_call_count - n /\ gat' = "sync"
          /\ UNCHANGED <<n, phase>> /\ Quiet
      BY <1>9 DEF Take
    <2>2. ~HasBatch /\ HasBatch' /\ ~Out /\ ~Out' /\ phase' = "idle"
      BY <1>2, <2>1 DEF HasBatch, Out
    <2>3. rcu_call_count' \in Nat /\ rcu_call_count' + n = rcu_call_count + 0 /\ n # 0
      BY <1>2, <2>1
    <2> QED
      BY <1>2, <2>1, <2>2, <2>3, ThreadMoves
  <1>10. CASE SyncEnd
    <2>1. /\ gat = "synced" /\ gat' = "test" /\ phase' = "first"
          /\ UNCHANGED <<n, rcu_call_count>> /\ Quiet
      BY <1>10 DEF SyncEnd
    <2>2. HasBatch /\ HasBatch' /\ ~Out /\ ~Out' /\ "test" \in BatchPoints
      BY <2>1 DEF HasBatch, Out, BatchPoints
    <2> QED
      BY <1>2, <2>1, <2>2, ThreadMoves
  <1>11. CASE NoneYet
    <2>1. gat = "none" /\ UNCHANGED <<n, rcu_call_count>> /\ Quiet
      BY <1>11 DEF NoneYet
    <2>2. phase \in {"first", "second", "third"}
      BY <1>2, <2>1 DEF BatchPoints
    <2>3. phase' = "second" /\ gat' \in {"reset_read", "wait_read"}
      BY <1>11, <2>2, Zenon DEF NoneYet
    <2>4. gat' \in EventPoints
      BY <2>3 DEF EventPoints, ResetPoints, WaitPoints
    <2> QED
      BY <1>4, <2>1, <2>2, <2>3, <2>4
  <1>12. CASE Found
    <2>1. gat = "found" /\ gat' = "run" /\ UNCHANGED <<n, rcu_call_count, phase>> /\ Quiet
      BY <1>12 DEF Found, threadLocals
    <2>2. phase # "idle" /\ HasBatch /\ HasBatch' /\ Out /\ Out' /\ "run" \in BatchPoints
      BY <1>2, <2>1 DEF HasBatch, Out, BatchPoints
    <2> QED
      BY <1>2, <2>1, <2>2, ThreadMoves
  <1> QED
    BY <1>3, <1>5, <1>6, <1>7, <1>8, <1>9, <1>10, <1>11, <1>12

\* The grace period begins: all that wait have been called for.
LEMMA SyncBeginInv ==
  ASSUME CallInv, SyncBegin
  PROVE  CallInv'
  <1>1. CallTypeOK /\ Counts
    BY DEF CallInv
  <1>2. /\ gat = "sync" /\ covered' = issued /\ gat' = "synced"
        /\ UNCHANGED <<callerVars, next, tail, head, rcu_call_count, threadLocals, ran>>
    BY DEF SyncBegin
  <1>3. /\ phase = "idle" /\ n \in Nat \ {0} /\ rcu_call_count \in Nat
        /\ issued \in [Callers -> Nat] /\ HasBatch /\ HasBatch' /\ ~Out /\ ~Out'
    BY <1>1, <1>2 DEF CallTypeOK, Counts, HasBatch, Out, BatchPoints, EventPoints, ResetPoints,
                      WaitPoints, threadLocals
  <1>4. CallTypeOK' /\ Counts' /\ Awaiting' = Awaiting
    BY <1>2, <1>3, ThreadMoves DEF threadLocals
  <1>5. PICK q, lo, hi, B : Linked(q, lo, hi) /\ Holds(q, lo, hi) /\ Batch(q, lo, hi, B)
    BY DEF CallInv
  <1>6. Linked(q, lo, hi)'
    <2>1. \A x, y : Missing(next', q, lo, hi, x, y) <=> Missing(next, q, lo, hi, x, y)
      BY <1>2 DEF Missing
    <2>2. cat' = cat /\ issued' = issued /\ old_tail' = old_tail
      BY <1>2 DEF callerVars
    <2> QED
      BY <1>2, <1>5, <2>1, <2>2 DEF Linked, Current
  <1>7. Holds(q, lo, hi)'
    BY <1>3, <1>4, <1>5 DEF Holds
  <1>8. Batch(q, lo, hi, Awaiting)'
    <2>1. Cardinality(Awaiting) >= n
      <3>1. Cardinality(Uncounted) \in Nat
        BY AllFinite
      <3> QED
        BY <1>1, <1>3, <3>1 DEF Counts
    <2>2. \A x \in Awaiting : x[2] <= issued[x[1]]
      <3>1. \A x \in Nodes : x[1] \in Callers /\ x[2] \in Nat
        BY DEF Nodes
      <3> QED
        BY <1>3, <3>1 DEF Awaiting, Queued
    <2>3. \A i \in lo .. hi : q[i] \in Nodes => q[i] \in Awaiting
      BY <1>5 DEF Holds
    <2>4. n' = n /\ phase' = phase
      BY <1>2 DEF threadLocals
    <2> QED
      BY <1>2, <1>3, <1>4, <2>1, <2>2, <2>3, <2>4 DEF Batch
  <1> QED
    BY <1>4, <1>6, <1>7, <1>8 DEF CallInv

\* try_dequeue finds the queue other than empty: of the nodes of the batch there is
\* one left.
LEMMA TestEmptyInv ==
  ASSUME CallInv, TestEmpty
  PROVE  CallInv'
  <1>1. CallTypeOK /\ Counts
    BY DEF CallInv
  <1>2. /\ gat = "test"
        /\ UNCHANGED <<callerVars, next, tail, head, rcu_call_count, threadLocals, ran, covered>>
        /\ gat' = IF head = Dummy /\ tail = Dummy THEN "aborted" ELSE "next"
    BY DEF TestEmpty
  <1>3. /\ phase # "idle" /\ n \in Nat \ {0} /\ rcu_call_count \in Nat
        /\ phase \in {"first", "second", "third"}
        /\ covered \in [Callers -> Nat] /\ HasBatch /\ ~Out
    BY <1>1, <1>2 DEF CallTypeOK, Counts, HasBatch, Out, BatchPoints, EventPoints, ResetPoints, WaitPoints
  <1>4. ~(head = Dummy /\ tail = Dummy)
    <2> SUFFICES ASSUME head = Dummy, tail = Dummy PROVE FALSE
      OBVIOUS
    <2>1. PICK q, lo, hi, B : Linked(q, lo, hi) /\ Holds(q, lo, hi) /\ Batch(q, lo, hi, B)
      BY DEF CallInv
    <2>2. lo \in Nat /\ hi \in Nat /\ lo <= hi /\ q[lo] = Dummy /\ q[hi] = Dummy
      BY <2>1 DEF Linked
    <2>3. lo = hi
      BY <2>1, <2>2, Places
    <2>4. \A i \in lo .. hi : q[i] = Dummy
      BY <2>2, <2>3
    <2>5. Awaiting = {}
      BY <1>3, <2>1, <2>4, CallRcuAssumption DEF Holds, Awaiting
    <2>6. Cardinality(Awaiting) = 0
      BY <2>5, FS_EmptySet
    <2>7. Cardinality(Uncounted) \in Nat
      BY AllFinite
    <2> QED
      BY <1>1, <1>3, <2>6, <2>7 DEF Counts
  <1>5. gat' = "next" /\ phase' = phase /\ n' = n /\ HasBatch' /\ ~Out' /\ "next" \in BatchPoints
    BY <1>2, <1>3, <1>4 DEF HasBatch, Out, BatchPoints, threadLocals
  <1> QED
    BY <1>2, <1>3, <1>5, ThreadMoves DEF threadLocals

\* A window of the queue grows at its end by a node it does not hold.
LEMMA Grown ==
  ASSUME NEW q, NEW lo, NEW hi, NEW x \in Nodes \cup {Dummy}, Linked(q, lo, hi),
         \A i \in lo .. hi : q[i] # x
  PROVE  \E r : /\ r \in [Nat -> Nodes \cup {Dummy}] /\ r[hi + 1] = x
                /\ \A i \in lo .. hi : r[i] = q[i]
                /\ \A i, j \in lo .. hi + 1 : r[i] = r[j] => i = j
                /\ lo \in Nat /\ hi \in Nat /\ hi + 1 \in Nat /\ lo <= hi + 1 /\ (hi + 1) - 1 = hi
                /\ lo .. hi + 1 = (lo .. hi) \cup {hi + 1} /\ lo <= hi
  <1>1. q \in [Nat -> Nodes \cup {Dummy}] /\ lo \in Nat /\ hi \in Nat /\ lo <= hi
    BY DEF Linked
  <1>2. /\ lo \in Nat /\ hi \in Nat /\ hi + 1 \in Nat /\ lo <= hi + 1 /\ (hi + 1) - 1 = hi
        /\ lo .. hi + 1 = (lo .. hi) \cup {hi + 1} /\ lo <= hi
        /\ \A i \in lo .. hi : i \in Nat /\ i # hi + 1
    BY <1>1
  <1> DEFINE r == [q EXCEPT ![hi + 1] = x]
  <1>3. r \in [Nat -> Nodes \cup {Dummy}] /\ r[hi + 1] = x /\ \A i \in lo .. hi : r[i] = q[i]
    BY <1>1, <1>2
  <1> HIDE DEF r
  <1>4. \A i, j \in lo .. hi + 1 : r[i] = r[j] => i = j
    <2> SUFFICES ASSUME NEW i \in lo .. hi + 1, NEW j \in lo .. hi + 1, r[i] = r[j] PROVE i = j
      OBVIOUS
    <2>1. (i \in lo .. hi \/ i = hi + 1) /\ (j \in lo .. hi \/ j = hi + 1)
      BY <1>2
    <2>2. CASE i \in lo .. hi /\ j \in lo .. hi
      BY <1>3, <2>2, Places
    <2>3. CASE i = hi + 1 \/ j = hi + 1
      BY <1>3, <2>1, <2>3
    <2> QED
      BY <2>1, <2>2, <2>3
  <1> QED
    BY <1>2, <1>3, <1>4

\* enqueue's exchange of the tail keeps the links of the queue and leaves one to make.
LEMMA GrownLinks ==
  ASSUME NEW q, NEW lo, NEW hi, NEW r, Linked(q, lo, hi), \A i \in lo .. hi : r[i] = q[i]
  PROVE  \A i \in lo .. (hi + 1) - 1 : next[r[i]] \in {NULL, r[i + 1]}
  <1>1. lo \in Nat /\ hi \in Nat /\ lo <= hi /\ hi \in lo .. hi
    BY Places
  <1> SUFFICES ASSUME NEW i \in lo .. (hi + 1) - 1 PROVE next[r[i]] \in {NULL, r[i + 1]}
    OBVIOUS
  <1>2. CASE i = hi
    BY <1>1, <1>2 DEF Linked
  <1>3. CASE i # hi
    <2>1. i \in lo .. hi - 1 /\ i \in lo .. hi /\ i + 1 \in lo .. hi
      BY <1>1, <1>3
    <2> QED
      BY <2>1 DEF Linked
  <1> QED
    BY <1>2, <1>3

\* What was missing still is when the queue grows.
LEMMA StillMissing ==
  ASSUME NEW nx, NEW q, NEW r, NEW lo \in Nat, NEW hi \in Nat, \A i \in lo .. hi : r[i] = q[i],
         NEW y, NEW z, Missing(nx, q, lo, hi, y, z)
  PROVE  Missing(nx, r, lo, hi + 1, y, z)
  <1>1. PICK i \in lo .. hi - 1 : y = q[i] /\ z = q[i + 1] /\ nx[q[i]] = NULL
    BY DEF Missing
  <1>2. i \in lo .. (hi + 1) - 1 /\ i \in lo .. hi /\ i + 1 \in lo .. hi
    OBVIOUS
  <1> QED
    BY <1>1, <1>2 DEF Missing

\* enqueue moves the tail to the node, which is then in the queue without being linked.
LEMMA EnqueueTailInv ==
  ASSUME CallInv, NEW c \in Callers, EnqueueTail(c)
  PROVE  CallInv'
  <1>0. PICK x : x = Current(c)
    OBVIOUS
  <1>1. CallTypeOK /\ Counts
    BY DEF CallInv
  <1>2. /\ cat[c] = "xchg" /\ old_tail' = [old_tail EXCEPT ![c] = tail] /\ tail' = x
        /\ cat' = [cat EXCEPT ![c] = "link"]
        /\ UNCHANGED <<issued, next, head, rcu_call_count, gat, threadLocals, ran, covered>>
    BY <1>0 DEF EnqueueTail, CallerTo
  <1>3. /\ cat' \in [Callers -> CallerPoints] /\ cat'[c] = "link"
        /\ \A d \in Callers : d # c => cat'[d] = cat[d]
    BY <1>1, <1>2 DEF CallTypeOK, CallerPoints
  <1>4. /\ issued[c] \in 1 .. MaxCalls /\ Queued(c) = issued[c] - 1 /\ Queued(c)' = issued[c]
        /\ ran[c] \in Nat /\ ran[c] < issued[c]
        /\ \A d \in Callers : d # c => Queued(d)' = Queued(d)
    <2>1. issued[c] \in 0 .. MaxCalls /\ issued[c] # 0 /\ ran[c] \in Nat /\ ran[c] <= Queued(c)
      BY <1>1, <1>2 DEF CallTypeOK
    <2>2. Queued(c) = issued[c] - 1
      BY <1>2 DEF Queued
    <2>3. Queued(c)' = issued[c] /\ \A d \in Callers : d # c => Queued(d)' = Queued(d)
      BY <1>2, <1>3 DEF Queued
    <2>4. MaxCalls \in Nat
      BY CallRcuAssumption
    <2>5. issued[c] \in 1 .. MaxCalls /\ ran[c] < issued[c]
      BY <2>1, <2>2, <2>4
    <2> QED
      BY <2>1, <2>2, <2>3, <2>5
  <1>5. x \in Nodes /\ x[1] = c /\ x[2] = issued[c] /\ x \notin Awaiting /\ x # Dummy
    BY <1>0, <1>4, CallRcuAssumption DEF Current, Nodes, Awaiting
  <1>6. next[x] = NULL
    BY <1>1, <1>4, <1>5 DEF CallTypeOK
  <1>7. \A y \in Nodes : y[1] \in Callers /\ y[2] \in Nat /\ y = <<y[1], y[2]>>
    BY NodeParts
  <1>8. Awaiting' = Awaiting \cup {x}
    <2>1. ASSUME NEW y \in Nodes PROVE y \in Awaiting' <=> y \in Awaiting \/ y = x
      <3>1. CASE y[1] # c
        BY <1>2, <1>4, <1>5, <1>7, <3>1 DEF Awaiting
      <3>2. CASE y[1] = c
        <4>1. y[2] = issued[c] <=> y = x
          BY <1>5, <1>7, <3>2 DEF Current
        <4>2. y \in Awaiting <=> ran[c] < y[2] /\ y[2] <= issued[c] - 1
          BY <1>4, <3>2 DEF Awaiting
        <4>3. y \in Awaiting' <=> ran[c] < y[2] /\ y[2] <= issued[c]
          BY <1>2, <1>4, <3>2 DEF Awaiting
        <4> QED
          BY <1>4, <1>7, <4>1, <4>2, <4>3
      <3> QED
        BY <3>1, <3>2
    <2>2. Awaiting' \subseteq Nodes /\ Awaiting \subseteq Nodes
      BY DEF Awaiting
    <2> QED
      BY <1>5, <2>1, <2>2
  <1>9. CallTypeOK'
    <2>1. \A y \in Nodes : y[2] > Queued(y[1])' => next'[y] = NULL
      <3> SUFFICES ASSUME NEW y \in Nodes, y[2] > Queued(y[1])' PROVE next'[y] = NULL
        BY Zenon
      <3>1. y[2] > Queued(y[1])
        BY <1>4, <1>7
      <3> QED
        BY <1>1, <1>2, <3>1 DEF CallTypeOK
    <2>2. \A d \in Callers : cat'[d] \in {"xchg", "link"} => issued'[d] # 0
      BY <1>1, <1>2, <1>3, <1>4 DEF CallTypeOK
    <2>3. \A d \in Callers : ran'[d] <= Queued(d)'
      BY <1>1, <1>2, <1>4 DEF CallTypeOK
    <2> QED
      BY <1>1, <1>2, <1>3, <2>1, <2>2, <2>3 DEF CallTypeOK, threadLocals
  <1>10. Counts'
    <2> DEFINE taken == IF HasBatch THEN n ELSE 0
    <2>1. taken \in Nat /\ rcu_call_count \in Nat
      BY <1>1 DEF CallTypeOK
    <2>2. Uncounted' = Uncounted \cup {c} /\ c \notin Uncounted
      BY <1>2, <1>3 DEF Uncounted
    <2>3. /\ Cardinality(Uncounted') = Cardinality(Uncounted) + 1 /\ Cardinality(Uncounted) \in Nat
          /\ Cardinality(Awaiting') = Cardinality(Awaiting) + 1
      BY <1>5, <1>8, <2>2, AllFinite, FS_AddElement, Zenon
    <2>4. Cardinality(Awaiting) = rcu_call_count + taken + Cardinality(Uncounted)
      BY <1>1 DEF Counts
    <2>5. (HasBatch' <=> HasBatch) /\ n' = n /\ gat' = gat /\ rcu_call_count' = rcu_call_count
      BY <1>2 DEF HasBatch, threadLocals
    <2>6. Cardinality(Awaiting') = rcu_call_count' + taken + Cardinality(Uncounted')
      <3> HIDE DEF taken
      <3> QED
        BY <2>1, <2>3, <2>4, <2>5
    <2> QED
      BY <1>1, <2>5, <2>6 DEF Counts
  <1>11. PICK q, lo, hi, B : Linked(q, lo, hi) /\ Holds(q, lo, hi) /\ Batch(q, lo, hi, B)
    BY DEF CallInv
  <1>12. PICK r :
         /\ r \in [Nat -> Nodes \cup {Dummy}] /\ r[hi + 1] = x
         /\ \A i \in lo .. hi : r[i] = q[i]
         /\ \A i, j \in lo .. hi + 1 : r[i] = r[j] => i = j
         /\ lo \in Nat /\ hi \in Nat /\ hi + 1 \in Nat /\ lo <= hi + 1 /\ (hi + 1) - 1 = hi
         /\ lo .. hi + 1 = (lo .. hi) \cup {hi + 1} /\ lo <= hi
    <2>1. x \in Nodes \cup {Dummy}
      BY <1>5
    <2>2. \A i \in lo .. hi : q[i] # x
      BY <1>5, <1>11 DEF Holds
    <2> QED
      BY <1>11, <2>1, <2>2, Grown, Zenon
  <1>13. /\ \A i \in lo .. hi : q[i] # x /\ (q[i] \in Nodes => q[i] \in Awaiting)
         /\ Out => node \in Awaiting
    BY <1>5, <1>11 DEF Holds
  <1>14. Linked(r, lo, hi + 1)'
    <2>1. \A y, z : Missing(next, q, lo, hi, y, z) => Missing(next', r, lo, hi + 1, y, z)
      BY <1>2, <1>12, StillMissing
    <2>2. Missing(next', r, lo, hi + 1, tail, x)
      <3>1. tail = q[hi] /\ next[q[hi]] = NULL /\ hi \in lo .. hi
        BY <1>11, Places, Zenon DEF Linked
      <3>2. tail = r[hi] /\ x = r[hi + 1] /\ next'[r[hi]] = NULL /\ hi \in lo .. (hi + 1) - 1
        BY <1>2, <1>12, <3>1
      <3> QED
        BY <3>2 DEF Missing
    <2>3. \A d \in Callers : cat'[d] = "link" => Missing(next', r, lo, hi + 1, old_tail'[d], Current(d)')
      <3>1. Current(c)' = x /\ \A d \in Callers : Current(d)' = Current(d)
        BY <1>0, <1>2 DEF Current
      <3>2. \A d \in Callers : cat[d] = "link" => Missing(next, q, lo, hi, old_tail[d], Current(d))
        BY <1>11, Zenon DEF Linked
      <3>3. old_tail'[c] = tail /\ \A d \in Callers : d # c => old_tail'[d] = old_tail[d]
        BY <1>1, <1>2 DEF CallTypeOK
      <3> QED
        BY <1>3, <2>1, <2>2, <3>1, <3>2, <3>3
    <2>4. gat' = "dummy_link" => Missing(next', r, lo, hi + 1, dummy_tail', Dummy)
      BY <1>2, <1>11, <2>1, Zenon DEF Linked, threadLocals
    <2>5. \A i, j \in lo .. hi + 1 : r[i] = r[j] => i = j
      BY <1>12
    <2>6. \A i \in lo .. (hi + 1) - 1 : next'[r[i]] \in {NULL, r[i + 1]}
      BY <1>2, <1>11, <1>12, GrownLinks
    <2>7. /\ head' = r[lo] /\ tail' = r[hi + 1] /\ next'[r[hi + 1]] = NULL
          /\ gat' = "dummy_xchg" => next'[Dummy] = NULL /\ \A i \in lo .. hi + 1 : r[i] # Dummy
      BY <1>2, <1>5, <1>6, <1>11, <1>12, Places, Zenon DEF Linked
    <2> QED
      BY <1>12, <2>3, <2>4, <2>5, <2>6, <2>7 DEF Linked
  <1>15. Holds(r, lo, hi + 1)'
    <2>1. \A y \in Nodes : y \in Awaiting' <=> (\E i \in lo .. hi + 1 : r[i] = y) \/ (Out' /\ y = node')
      BY <1>2, <1>8, <1>11, <1>12 DEF Holds, Out, threadLocals
    <2>2. ASSUME NEW i \in lo .. hi, q[i] \in Nodes, q[i][1] = c PROVE q[i][2] < issued[c]
      <3>1. q[i] \in Awaiting
        BY <1>13, <2>2
      <3>2. q[i][2] <= issued[c] - 1 /\ q[i][2] \in Nat
        BY <1>4, <1>7, <2>2, <3>1 DEF Awaiting
      <3>3. issued[c] \in Nat
        BY <1>4
      <3> QED
        BY <3>2, <3>3
    <2>3. \A i, j \in lo .. hi + 1 :
            i < j /\ r[i] \in Nodes /\ r[j] \in Nodes /\ r[i][1] = r[j][1] => r[i][2] < r[j][2]
      <3> SUFFICES ASSUME NEW i \in lo .. hi + 1, NEW j \in lo .. hi + 1, i < j, r[i] \in Nodes,
                          r[j] \in Nodes, r[i][1] = r[j][1]
                   PROVE  r[i][2] < r[j][2]
        OBVIOUS
      <3>1. i \in lo .. hi /\ r[i] = q[i]
        BY <1>12
      <3>2. CASE j \in lo .. hi
        BY <1>11, <1>12, <3>1, <3>2 DEF Holds
      <3>3. CASE j = hi + 1
        BY <1>5, <1>12, <2>2, <3>1, <3>3
      <3> QED
        BY <1>12, <3>2, <3>3
    <2>4. Out' => /\ node' \in Nodes /\ node'[2] = ran'[node'[1]] + 1
                  /\ \A i \in lo .. hi + 1 : r[i] # node'
      <3>1. (Out' <=> Out) /\ node' = node
        BY <1>2 DEF Out, threadLocals
      <3>2. Out => node # x
        BY <1>5, <1>13
      <3> QED
        BY <1>2, <1>11, <1>12, <3>1, <3>2 DEF Holds
    <2> QED
      BY <2>1, <2>3, <2>4 DEF Holds
  <1>16. Batch(r, lo, hi + 1, B)'
    <2> SUFFICES ASSUME gat' = "synced" \/ phase' # "idle"
                 PROVE  /\ B \subseteq Awaiting' /\ Cardinality(B) >= n'
                        /\ \A y \in B : y[2] <= covered'[y[1]]
                        /\ \A i, j \in lo .. hi + 1 : i < j /\ r[j] \in B /\ r[i] \in Nodes => r[i] \in B
                        /\ Out' => node' \in B
      BY DEF Batch
    <2>1. /\ B \subseteq Awaiting /\ Cardinality(B) >= n
          /\ \A y \in B : y[2] <= covered[y[1]]
          /\ \A i, j \in lo .. hi : i < j /\ q[j] \in B /\ q[i] \in Nodes => q[i] \in B
          /\ Out => node \in B
      BY <1>2, <1>11 DEF Batch, threadLocals
    <2>2. x \notin B
      BY <1>5, <2>1
    <2>3. \A i, j \in lo .. hi + 1 : i < j /\ r[j] \in B /\ r[i] \in Nodes => r[i] \in B
      <3> SUFFICES ASSUME NEW i \in lo .. hi + 1, NEW j \in lo .. hi + 1, i < j, r[j] \in B, r[i] \in Nodes
                   PROVE  r[i] \in B
        OBVIOUS
      <3>1. j \in lo .. hi /\ i \in lo .. hi
        BY <1>12, <2>2
      <3> QED
        BY <1>12, <2>1, <3>1
    <2> QED
      BY <1>2, <1>8, <2>1, <2>3 DEF Out, threadLocals
  <1> QED
    BY <1>9, <1>10, <1>14, <1>15, <1>16 DEF CallInv

\* A thread makes the link that was missing between two nodes of the queue.
LEMMA MakesLink ==
  ASSUME CallInv, NEW q, NEW lo, NEW hi, NEW B,
         Linked(q, lo, hi), Holds(q, lo, hi), Batch(q, lo, hi, B),
         NEW k \in lo .. hi - 1, next[q[k]] = NULL, next' = [next EXCEPT ![q[k]] = q[k + 1]],
         UNCHANGED <<issued, tail, head, rcu_call_count, phase, n, node, ran, covered>>,
         cat' \in [Callers -> CallerPoints], Uncounted' = Uncounted, DOMAIN old_tail' = Callers,
         \A d \in Callers : cat'[d] = "xchg" <=> cat[d] = "xchg",
         \A d \in Callers : cat'[d] = "link" =>
           cat[d] = "link" /\ old_tail'[d] = old_tail[d] /\ Current(d) # q[k + 1],
         gat' = gat \/ (gat = "dummy_link" /\ gat' = "test"),
         gat' = "dummy_link" => dummy_tail' = dummy_tail /\ q[k + 1] # Dummy
  PROVE  CallInv'
  <1>1. CallTypeOK /\ Counts
    BY Zenon DEF CallInv
  <1>2. \A d \in Callers : Queued(d)' = Queued(d)
    BY DEF Queued
  <1>3. /\ lo \in Nat /\ hi \in Nat /\ k \in lo .. hi /\ k + 1 \in lo .. hi /\ k # hi
        /\ \A i \in lo .. hi : q[i] \in Nodes \cup {Dummy}
        /\ \A i, j \in lo .. hi : q[i] = q[j] => i = j
        /\ \A i \in lo .. hi - 1 : i \in lo .. hi /\ i + 1 \in lo .. hi /\ i # hi
    <2>1. lo \in Nat /\ hi \in Nat /\ \A i \in lo .. hi : q[i] \in Nodes \cup {Dummy}
      BY Places, Zenon
    <2>2. \A i, j \in lo .. hi : q[i] = q[j] => i = j
      BY Places
    <2>3. \A i \in lo .. hi - 1 : i \in lo .. hi /\ i + 1 \in lo .. hi /\ i # hi
      BY Places
    <2> QED
      BY <2>1, <2>2, <2>3
  <1>4. /\ next' \in [Nodes \cup {Dummy} -> Nodes \cup {Dummy, NULL}]
        /\ next'[q[k]] = q[k + 1]
        /\ \A y \in Nodes \cup {Dummy} : y # q[k] => next'[y] = next[y]
        /\ \A i \in lo .. hi : i # k => next'[q[i]] = next[q[i]]
    BY <1>1, <1>3, Zenon DEF CallTypeOK
  <1>5. Awaiting' = Awaiting
    BY <1>2, SameAwaiting, Zenon
  <1>6. CallTypeOK'
    <2>1. \A y \in Nodes : y[1] \in Callers /\ y[2] \in Nat
      BY NodeParts
    <2>2. q[k] \in Nodes => ~(q[k][2] > Queued(q[k][1]))
      <3>1. q[k] \in Nodes => q[k] \in Awaiting
        BY <1>3, Zenon DEF Holds
      <3> QED
        BY <1>1, <3>1, NodeParts
    <2>3. \A y \in Nodes : y[2] > Queued(y[1])' => next'[y] = NULL
      <3> SUFFICES ASSUME NEW y \in Nodes, y[2] > Queued(y[1])' PROVE next'[y] = NULL
        BY Zenon
      <3>1. y[2] > Queued(y[1])
        BY <1>2, <2>1
      <3>2. next[y] = NULL
        BY <1>1, <3>1, Zenon DEF CallTypeOK
      <3> QED
        BY <1>4, <2>2, <3>1, <3>2, Zenon
    <2>4. \A d \in Callers : cat'[d] \in {"xchg", "link"} => issued'[d] # 0
      BY <1>1, Zenon DEF CallTypeOK
    <2>5. /\ gat' \in EventPoints \cup (IF phase' = "idle" THEN {"count", "recount", "take", "sync", "synced"}
                                        ELSE BatchPoints)
      BY <1>1, Zenon DEF CallTypeOK, BatchPoints, EventPoints, ResetPoints, WaitPoints
    <2>6. \A d \in Callers : ran'[d] <= Queued(d)'
      BY <1>1, <1>2, Zenon DEF CallTypeOK
    <2> QED
      BY <1>1, <1>4, <2>3, <2>4, <2>5, <2>6, Zenon DEF CallTypeOK
  <1>7. /\ HasBatch' <=> HasBatch
        /\ Out' <=> Out
        /\ gat' \in {"take", "synced", "dummy_xchg"} => gat' = gat
    BY DEF HasBatch, Out
  <1>8. Counts'
    BY <1>1, <1>5, <1>7, Zenon DEF Counts
  <1>9. Linked(q, lo, hi)'
    <2>1. ASSUME NEW y, NEW z, z # q[k + 1], Missing(next, q, lo, hi, y, z)
          PROVE  Missing(next', q, lo, hi, y, z)
      <3>1. PICK i \in lo .. hi - 1 : y = q[i] /\ z = q[i + 1] /\ next[q[i]] = NULL
        BY <2>1, Zenon DEF Missing
      <3>2. i # k /\ i \in lo .. hi
        BY <1>3, <2>1, <3>1, Zenon
      <3> QED
        BY <1>4, <3>1, <3>2, Zenon DEF Missing
    <2>2. \A d \in Callers : cat'[d] = "link" => Missing(next', q, lo, hi, old_tail'[d], Current(d)')
      BY <2>1, Zenon DEF Linked, Current
    <2>3. gat' = "dummy_link" => Missing(next', q, lo, hi, dummy_tail', Dummy)
      BY <2>1, Zenon DEF Linked
    <2>4. gat' = "dummy_xchg" => next'[Dummy] = NULL /\ \A i \in lo .. hi : q[i] # Dummy
      BY <1>3, <1>4, <1>7, Zenon DEF Linked
    <2>5. /\ next'[q[hi]] = NULL
          /\ \A i \in lo .. hi - 1 : next'[q[i]] \in {NULL, q[i + 1]}
      <3>1. hi \in lo .. hi
        BY Places, Zenon
      <3> QED
        BY <1>3, <1>4, <3>1, Zenon DEF Linked
    <2>6. head' = q[lo] /\ tail' = q[hi]
      BY Zenon DEF Linked
    <2> QED
      BY <2>2, <2>3, <2>4, <2>5, <2>6, Zenon DEF Linked
  <1>10. Holds(q, lo, hi)'
    BY <1>5, <1>7, Zenon DEF Holds
  <1>11. Batch(q, lo, hi, B)'
    BY <1>5, <1>7, Zenon DEF Batch
  <1> QED
    BY <1>6, <1>8, <1>9, <1>10, <1>11, Zenon DEF CallInv

\* The node of a call under way is no dummy.
LEMMA CurrentNode ==
  ASSUME CallTypeOK, NEW c \in Callers, cat[c] = "link"
  PROVE  Current(c) \in Nodes /\ Current(c) # Dummy
  <1>1. issued[c] \in 0 .. MaxCalls /\ MaxCalls \in Nat /\ issued[c] # 0
    BY CallRcuAssumption DEF CallTypeOK
  <1> QED
    BY <1>1, CallRcuAssumption DEF Current, Nodes

\* enqueue links the node.
LEMMA EnqueueLinkInv ==
  ASSUME CallInv, NEW c \in Callers, EnqueueLink(c)
  PROVE  CallInv'
  <1>1. CallTypeOK
    BY DEF CallInv
  <1>2. /\ cat[c] = "link" /\ next' = [next EXCEPT ![old_tail[c]] = Current(c)]
        /\ old_tail' = [old_tail EXCEPT ![c] = NULL] /\ cat' = [cat EXCEPT ![c] = "inc"]
        /\ UNCHANGED <<issued, tail, head, rcu_call_count, gat, threadLocals, ran, covered>>
    BY DEF EnqueueLink, CallerTo
  <1>3. /\ cat' \in [Callers -> CallerPoints] /\ cat'[c] = "inc"
        /\ \A d \in Callers : d # c => cat'[d] = cat[d]
    BY <1>1, <1>2 DEF CallTypeOK, CallerPoints
  <1>4. Uncounted' = Uncounted
    BY <1>2, <1>3 DEF Uncounted
  <1>5. PICK q, lo, hi, B : Linked(q, lo, hi) /\ Holds(q, lo, hi) /\ Batch(q, lo, hi, B)
    BY DEF CallInv
  <1>6. PICK k \in lo .. hi - 1 : old_tail[c] = q[k] /\ Current(c) = q[k + 1] /\ next[q[k]] = NULL
    BY <1>2, <1>5 DEF Linked, Missing
  <1>7. ASSUME NEW d \in Callers, cat'[d] = "link"
        PROVE  cat[d] = "link" /\ old_tail'[d] = old_tail[d] /\ Current(d) # q[k + 1]
    <2>1. d # c /\ cat[d] = "link"
      BY <1>3, <1>7
    <2>2. Current(d) # Current(c)
      BY <2>1 DEF Current
    <2> QED
      BY <1>1, <1>2, <1>6, <2>1, <2>2, Zenon DEF CallTypeOK
  <1>8. q[k + 1] # Dummy
    BY <1>1, <1>2, <1>6, CurrentNode
  <1>9. \A d \in Callers : cat'[d] = "xchg" <=> cat[d] = "xchg"
    BY <1>2, <1>3
  <1>10. DOMAIN old_tail' = Callers
    BY <1>1, <1>2 DEF CallTypeOK
  <1>11. next' = [next EXCEPT ![q[k]] = q[k + 1]]
    BY <1>2, <1>6
  <1>12. UNCHANGED <<issued, tail, head, rcu_call_count, gat, phase, n, node, dummy_tail, ran, covered>>
    BY <1>2 DEF threadLocals
  <1> QED
    BY <1>3, <1>4, <1>5, <1>6, <1>7, <1>8, <1>9, <1>10, <1>11, <1>12, MakesLink, Zenon

\* So does the thread with the dummy node.
LEMMA DummyLinkInv ==
  ASSUME CallInv, DummyLink
  PROVE  CallInv'
  <1>1. CallTypeOK
    BY DEF CallInv
  <1>2. /\ gat = "dummy_link" /\ next' = [next EXCEPT ![dummy_tail] = Dummy] /\ gat' = "test"
        /\ UNCHANGED <<callerVars, tail, head, rcu_call_count, phase, n, node, ran, covered>>
    BY DEF DummyLink
  <1>3. cat' = cat /\ old_tail' = old_tail /\ issued' = issued /\ Uncounted' = Uncounted
    BY <1>2 DEF callerVars, Uncounted
  <1>4. PICK q, lo, hi, B : Linked(q, lo, hi) /\ Holds(q, lo, hi) /\ Batch(q, lo, hi, B)
    BY DEF CallInv
  <1>5. PICK k \in lo .. hi - 1 : dummy_tail = q[k] /\ Dummy = q[k + 1] /\ next[q[k]] = NULL
    BY <1>2, <1>4, Zenon DEF Linked, Missing
  <1>6. \A d \in Callers : cat'[d] = "link" =>
          cat[d] = "link" /\ old_tail'[d] = old_tail[d] /\ Current(d) # q[k + 1]
    BY <1>1, <1>3, <1>5, CurrentNode
  <1>7. cat \in [Callers -> CallerPoints] /\ DOMAIN old_tail = Callers
    BY <1>1 DEF CallTypeOK
  <1>8. next' = [next EXCEPT ![q[k]] = q[k + 1]]
    BY <1>2, <1>5
  <1>9. /\ \A d \in Callers : cat'[d] = "xchg" <=> cat[d] = "xchg"
        /\ cat' \in [Callers -> CallerPoints] /\ DOMAIN old_tail' = Callers
    BY <1>3, <1>7
  <1>10. /\ UNCHANGED <<issued, tail, head, rcu_call_count, phase, n, node, ran, covered>>
         /\ gat = "dummy_link" /\ gat' = "test" /\ gat' # "dummy_link"
         /\ Uncounted' = Uncounted
    BY <1>2, <1>3
  <1> QED
    BY <1>4, <1>5, <1>6, <1>8, <1>9, <1>10, MakesLink, Zenon

\* The dummy node is at the end of the queue again, not linked yet.
LEMMA DummyTailInv ==
  ASSUME CallInv, DummyTail
  PROVE  CallInv'
  <1>1. CallTypeOK /\ Counts
    BY DEF CallInv
  <1>2. /\ gat = "dummy_xchg" /\ gat' = "dummy_link" /\ dummy_tail' = tail /\ tail' = Dummy
        /\ UNCHANGED <<callerVars, next, head, rcu_call_count, phase, n, node, ran, covered>>
    BY DEF DummyTail
  <1>3. /\ cat' = cat /\ issued' = issued /\ old_tail' = old_tail
        /\ Uncounted' = Uncounted /\ \A d \in Callers : Queued(d)' = Queued(d) /\ Current(d)' = Current(d)
    BY <1>2 DEF callerVars, Uncounted, Queued, Current
  <1>4. Awaiting' = Awaiting
    BY <1>2, <1>3, SameAwaiting
  <1>5. ~Out /\ ~Out' /\ (HasBatch' <=> HasBatch) /\ phase # "idle"
    BY <1>1, <1>2 DEF Out, HasBatch, CallTypeOK, EventPoints, ResetPoints, WaitPoints
  <1>6. CallTypeOK'
    <2>1. \A y \in Nodes : y[1] \in Callers
      BY DEF Nodes
    <2>2. \A y \in Nodes : y[2] > Queued(y[1])' => next'[y] = NULL
      BY <1>1, <1>2, <1>3, <2>1 DEF CallTypeOK
    <2> QED
      BY <1>1, <1>2, <1>3, <1>5, <2>2 DEF CallTypeOK, BatchPoints
  <1>7. Counts'
    BY <1>1, <1>2, <1>3, <1>4, <1>5 DEF Counts
  <1>8. PICK q, lo, hi, B : Linked(q, lo, hi) /\ Holds(q, lo, hi) /\ Batch(q, lo, hi, B)
    BY DEF CallInv
  <1>9. PICK r :
        /\ r \in [Nat -> Nodes \cup {Dummy}] /\ r[hi + 1] = Dummy
        /\ \A i \in lo .. hi : r[i] = q[i]
        /\ \A i, j \in lo .. hi + 1 : r[i] = r[j] => i = j
        /\ lo \in Nat /\ hi \in Nat /\ hi + 1 \in Nat /\ lo <= hi + 1 /\ (hi + 1) - 1 = hi
        /\ lo .. hi + 1 = (lo .. hi) \cup {hi + 1} /\ lo <= hi
    <2>1. Dummy \in Nodes \cup {Dummy}
      OBVIOUS
    <2>2. \A i \in lo .. hi : q[i] # Dummy
      BY <1>2, <1>8, Zenon DEF Linked
    <2> QED
      BY <1>8, <2>1, <2>2, Grown, Zenon
  <1>10. Linked(r, lo, hi + 1)'
    <2>1. \A y, z : Missing(next, q, lo, hi, y, z) => Missing(next', r, lo, hi + 1, y, z)
      BY <1>2, <1>8, <1>9, StillMissing
    <2>2. Missing(next', r, lo, hi + 1, tail, Dummy)
      <3>1. tail = q[hi] /\ next[q[hi]] = NULL /\ hi \in lo .. hi
        BY <1>8, Places, Zenon DEF Linked
      <3>2. tail = r[hi] /\ Dummy = r[hi + 1] /\ next'[r[hi]] = NULL /\ hi \in lo .. (hi + 1) - 1
        BY <1>2, <1>9, <3>1
      <3> QED
        BY <3>2 DEF Missing
    <2>3. next[Dummy] = NULL /\ \A i \in lo .. hi : q[i] # Dummy
      BY <1>2, <1>8, Zenon DEF Linked
    <2>4. \A d \in Callers : cat'[d] = "link" => Missing(next', r, lo, hi + 1, old_tail'[d], Current(d)')
      BY <1>3, <1>8, <2>1, Zenon DEF Linked
    <2>5. \A i, j \in lo .. hi + 1 : r[i] = r[j] => i = j
      BY <1>9
    <2>6. \A i \in lo .. (hi + 1) - 1 : next'[r[i]] \in {NULL, r[i + 1]}
      BY <1>2, <1>8, <1>9, GrownLinks, Zenon
    <2>7. head' = r[lo] /\ tail' = r[hi + 1] /\ next'[r[hi + 1]] = NULL
      BY <1>2, <1>8, <1>9, <2>3, Places, Zenon DEF Linked
    <2> QED
      BY <1>2, <1>9, <2>2, <2>4, <2>5, <2>6, <2>7, Zenon DEF Linked
  <1>11. Holds(r, lo, hi + 1)'
    <2>1. \A y \in Nodes : y # Dummy
      BY CallRcuAssumption
    <2>2. \A y \in Nodes : y \in Awaiting' <=> \E i \in lo .. hi + 1 : r[i] = y
      BY <1>4, <1>5, <1>8, <1>9, <2>1, Zenon DEF Holds
    <2>3. \A i, j \in lo .. hi + 1 :
            i < j /\ r[i] \in Nodes /\ r[j] \in Nodes /\ r[i][1] = r[j][1] => r[i][2] < r[j][2]
      BY <1>8, <1>9, <2>1 DEF Holds
    <2> QED
      BY <1>5, <2>2, <2>3, Zenon DEF Holds
  <1>12. Batch(r, lo, hi + 1, B)'
    <2>1. /\ B \subseteq Awaiting /\ Cardinality(B) >= n
          /\ \A y \in B : y[2] <= covered[y[1]]
          /\ \A i, j \in lo .. hi : i < j /\ q[j] \in B /\ q[i] \in Nodes => q[i] \in B
      BY <1>5, <1>8 DEF Batch
    <2>2. Dummy \notin B
      BY <2>1, CallRcuAssumption DEF Awaiting
    <2>3. \A i, j \in lo .. hi + 1 : i < j /\ r[j] \in B /\ r[i] \in Nodes => r[i] \in B
      <3> SUFFICES ASSUME NEW i \in lo .. hi + 1, NEW j \in lo .. hi + 1, i < j, r[j] \in B, r[i] \in Nodes
                   PROVE  r[i] \in B
        OBVIOUS
      <3>1. j \in lo .. hi /\ i \in lo .. hi
        BY <1>9, <2>2
      <3> QED
        BY <1>9, <2>1, <3>1
    <2> QED
      BY <1>2, <1>4, <1>5, <2>1, <2>3 DEF Batch
  <1> QED
    BY <1>6, <1>7, <1>10, <1>11, <1>12 DEF CallInv

\* try_dequeue takes a node off the head, and not before it is linked to another one:
\* the dummy node, or the next one of its thread and of the batch.
LEMMA TakeHeadInv ==
  ASSUME CallInv, TakeHead
  PROVE  CallInv'
  <1>1. CallTypeOK /\ Counts
    BY DEF CallInv
  <1>2. /\ gat = "next"
        /\ UNCHANGED <<callerVars, tail, rcu_call_count, phase, n, dummy_tail, ran, covered>>
    BY Zenon DEF TakeHead
  <1>3. phase # "idle" /\ phase' = phase /\ ~Out /\ HasBatch /\ HasBatch' /\ n # 0 /\ n \in Nat
    BY <1>1, <1>2 DEF Out, HasBatch, CallTypeOK, EventPoints, ResetPoints, WaitPoints, Counts
  <1>4. CASE next[head] = NULL
    <2>1. gat' = "none" /\ UNCHANGED <<head, node, next>>
      BY <1>4 DEF TakeHead
    <2>2. ~Out'
      BY <2>1 DEF Out
    <2> QED
      BY <1>1, <1>2, <1>3, <2>1, <2>2, ThreadMoves DEF CallTypeOK, BatchPoints
  <1>5. CASE next[head] # NULL
    <2>1. /\ head' = next[head] /\ node' = head
          /\ gat' = IF head = Dummy THEN "dummy_xchg" ELSE "found"
          /\ next' = IF head = Dummy THEN [next EXCEPT ![Dummy] = NULL] ELSE next
      BY <1>5 DEF TakeHead
    <2>2. /\ cat' = cat /\ issued' = issued /\ old_tail' = old_tail
          /\ Uncounted' = Uncounted
          /\ \A d \in Callers : Queued(d)' = Queued(d) /\ Current(d)' = Current(d)
      BY <1>2 DEF callerVars, Uncounted, Queued, Current
    <2>3. Awaiting' = Awaiting
      BY <1>2, <2>2, SameAwaiting
    <2>4. PICK q, lo, hi, B : Linked(q, lo, hi) /\ Holds(q, lo, hi) /\ Batch(q, lo, hi, B)
      BY DEF CallInv
    <2>5. /\ lo \in Nat /\ hi \in Nat /\ lo < hi /\ lo + 1 \in Nat /\ lo + 1 <= hi
          /\ lo \in lo .. hi /\ lo + 1 \in lo .. hi /\ lo + 1 \in lo + 1 .. hi
          /\ \A i \in lo + 1 .. hi : i \in lo .. hi /\ i # lo
          /\ \A i \in lo + 1 .. hi - 1 : i \in lo .. hi - 1
          /\ \A i \in lo .. hi : i = lo \/ i \in lo + 1 .. hi
          /\ lo \in lo .. hi - 1
      <3>1. lo \in Nat /\ hi \in Nat /\ lo <= hi /\ lo # hi
        BY <1>5, <2>4, Zenon DEF Linked
      <3> QED
        BY <3>1
    <2>6. /\ head = q[lo] /\ head' = q[lo + 1]
          /\ \A i \in lo + 1 .. hi : q[i] # head /\ next'[q[i]] = next[q[i]]
          /\ q \in [Nat -> Nodes \cup {Dummy}]
      <3>1. head = q[lo] /\ next[head] = q[lo + 1] /\ q \in [Nat -> Nodes \cup {Dummy}]
        BY <1>5, <2>4, <2>5, Zenon DEF Linked
      <3>2. \A i \in lo + 1 .. hi : q[i] # head
        BY <2>4, <2>5, <3>1, Zenon DEF Linked
      <3>3. \A i \in lo + 1 .. hi : q[i] \in Nodes \cup {Dummy}
        BY <2>4, <2>5, Places
      <3> QED
        BY <1>1, <2>1, <3>1, <3>2, <3>3 DEF CallTypeOK
    <2>7. /\ next' \in [Nodes \cup {Dummy} -> Nodes \cup {Dummy, NULL}]
          /\ \A y \in Nodes : next'[y] = next[y]
          /\ head = Dummy => next'[Dummy] = NULL
      BY <1>1, <2>1, CallRcuAssumption DEF CallTypeOK
    <2>8. CallTypeOK'
      <3>1. \A y \in Nodes : y[1] \in Callers
        BY DEF Nodes
      <3>2. \A y \in Nodes : y[2] > Queued(y[1])' => next'[y] = NULL
        BY <1>1, <2>2, <2>7, <3>1 DEF CallTypeOK
      <3>3. gat' \in BatchPoints
        BY <2>1 DEF BatchPoints
      <3> QED
        BY <1>1, <1>2, <1>3, <2>2, <2>7, <3>2, <3>3 DEF CallTypeOK
    <2>9. Counts'
      BY <1>1, <1>2, <1>3, <2>1, <2>2, <2>3 DEF Counts
    <2>10. Linked(q, lo + 1, hi)'
      <3>1. ASSUME NEW y, NEW z, Missing(next, q, lo, hi, y, z)
            PROVE  Missing(next', q, lo + 1, hi, y, z)
        <4>1. PICK i \in lo .. hi - 1 : y = q[i] /\ z = q[i + 1] /\ next[q[i]] = NULL
          BY <3>1 DEF Missing
        <4>2. i # lo
          BY <1>5, <2>6, <4>1
        <4>3. i \in lo + 1 .. hi - 1 /\ i \in lo + 1 .. hi
          BY <2>5, <4>2
        <4> QED
          BY <2>6, <4>1, <4>3 DEF Missing
      <3>2. \A d \in Callers : cat'[d] = "link" => Missing(next', q, lo + 1, hi, old_tail'[d], Current(d)')
        BY <2>2, <2>4, <3>1, Zenon DEF Linked
      <3>3. gat' # "dummy_link" /\ (gat' = "dummy_xchg" => head = Dummy)
        BY <2>1
      <3>4. gat' = "dummy_xchg" => next'[Dummy] = NULL /\ \A i \in lo + 1 .. hi : q[i] # Dummy
        BY <2>6, <2>7, <3>3
      <3>5. \A i, j \in lo + 1 .. hi : q[i] = q[j] => i = j
        BY <2>4, <2>5, Zenon DEF Linked
      <3>6. /\ hi \in lo + 1 .. hi /\ next'[q[hi]] = NULL /\ tail' = q[hi]
            /\ \A i \in lo + 1 .. hi - 1 : next'[q[i]] \in {NULL, q[i + 1]}
        <4>1. hi \in lo + 1 .. hi /\ \A i \in lo + 1 .. hi - 1 : i \in lo + 1 .. hi
          BY <2>5
        <4> QED
          BY <1>2, <2>4, <2>5, <2>6, <4>1, Zenon DEF Linked
      <3> QED
        BY <2>5, <2>6, <3>2, <3>3, <3>4, <3>5, <3>6, Zenon DEF Linked
    <2>11. /\ B \subseteq Awaiting /\ Cardinality(B) >= n
           /\ \A y \in B : y[2] <= covered[y[1]]
           /\ \A i, j \in lo .. hi : i < j /\ q[j] \in B /\ q[i] \in Nodes => q[i] \in B
      BY <1>3, <2>4 DEF Batch
    <2>12. ASSUME head # Dummy
           PROVE  head \in Nodes /\ head \in B /\ head[2] = ran[head[1]] + 1
      <3>1. head \in Nodes /\ head \in Awaiting
        BY <1>3, <2>4, <2>5, <2>6, <2>12, Zenon DEF Holds
      <3>2. head \in B
        <4>1. B # {}
          <5>1. Cardinality({}) = 0
            BY FS_EmptySet
          <5> QED
            BY <1>3, <2>11, <5>1
        <4>2. PICK y : y \in B
          BY <4>1
        <4>3. y \in Nodes
          BY <2>11, <4>2 DEF Awaiting
        <4>4. PICK j \in lo .. hi : q[j] = y
          BY <1>3, <2>4, <2>11, <4>2, <4>3, Zenon DEF Holds
        <4>5. CASE j = lo
          BY <2>6, <4>2, <4>4, <4>5
        <4>6. CASE j # lo
          <5>1. lo < j
            BY <2>5, <4>6
          <5> QED
            BY <2>5, <2>6, <2>11, <3>1, <4>2, <4>4, <5>1
        <4> QED
          BY <4>5, <4>6
      <3>3. head[2] = ran[head[1]] + 1
        <4> DEFINE c == head[1]
                   m == head[2]
        <4>1. /\ c \in Callers /\ m \in 1 .. MaxCalls /\ ran[c] \in Nat /\ MaxCalls \in Nat
              /\ Queued(c) \in Int
          <5>1. head[1] \in Callers /\ head[2] \in 1 .. MaxCalls
            BY <3>1 DEF Nodes
          <5>2. \A d \in Callers : ran[d] \in Nat /\ Queued(d) \in Int
            BY <1>1, NodeParts DEF CallTypeOK
          <5>3. MaxCalls \in Nat
            BY CallRcuAssumption
          <5> QED
            BY <5>1, <5>2, <5>3
        <4>2. ran[c] < m /\ m <= Queued(c)
          BY <3>1 DEF Awaiting
        <4>3. head = <<c, m>>
          BY <3>1 DEF Nodes
        <4> HIDE DEF c, m
        <4> SUFFICES ASSUME m # ran[c] + 1 PROVE FALSE
          BY DEF c, m
        <4>4. ran[c] + 1 < m /\ ran[c] < ran[c] + 1 /\ ran[c] + 1 <= Queued(c) /\ ran[c] + 1 \in 1 .. MaxCalls
          BY <4>1, <4>2
        <4> DEFINE y == <<c, ran[c] + 1>>
        <4>5. y \in Nodes /\ y \in Awaiting /\ y # head
          BY <4>1, <4>3, <4>4 DEF Nodes, Awaiting
        <4>6. PICK j \in lo .. hi : q[j] = y
          BY <1>3, <2>4, <4>5, Zenon DEF Holds
        <4>7. lo < j
          <5>1. j # lo
            BY <2>6, <4>5, <4>6
          <5> QED
            BY <2>5, <5>1
        <4>8. head[2] < y[2]
          <5>1. head[1] = y[1]
            BY <4>3
          <5>2. \A i, k \in lo .. hi :
                  i < k /\ q[i] \in Nodes /\ q[k] \in Nodes /\ q[i][1] = q[k][1] => q[i][2] < q[k][2]
            BY <2>4, Zenon DEF Holds
          <5> QED
            BY <2>5, <2>6, <3>1, <4>5, <4>6, <4>7, <5>1, <5>2
        <4> QED
          BY <4>1, <4>3, <4>4, <4>8
      <3> QED
        BY <3>1, <3>2, <3>3
    <2>13. Out' <=> head # Dummy
      BY <2>1 DEF Out
    <2>14. Holds(q, lo + 1, hi)'
      <3>1. \A y \in Nodes : y \in Awaiting' <=> (\E i \in lo + 1 .. hi : q[i] = y) \/ (Out' /\ y = node')
        <4>1. \A y \in Nodes : y # Dummy
          BY CallRcuAssumption
        <4>2. \A y \in Nodes : y \in Awaiting <=> \E i \in lo .. hi : q[i] = y
          BY <1>3, <2>4, Zenon DEF Holds
        <4> QED
          BY <2>1, <2>3, <2>5, <2>6, <2>13, <4>1, <4>2
      <3>2. \A i, j \in lo + 1 .. hi :
              i < j /\ q[i] \in Nodes /\ q[j] \in Nodes /\ q[i][1] = q[j][1] => q[i][2] < q[j][2]
        BY <2>4, <2>5 DEF Holds
      <3>3. Out' => /\ node' \in Nodes /\ node'[2] = ran'[node'[1]] + 1
                    /\ \A i \in lo + 1 .. hi : q[i] # node'
        BY <1>2, <2>1, <2>6, <2>12, <2>13
      <3> QED
        BY <3>1, <3>2, <3>3 DEF Holds
    <2>15. Batch(q, lo + 1, hi, B)'
      <3>1. \A i, j \in lo + 1 .. hi : i < j /\ q[j] \in B /\ q[i] \in Nodes => q[i] \in B
        BY <2>5, <2>11
      <3>2. Out' => node' \in B
        BY <2>1, <2>12, <2>13
      <3> QED
        BY <1>2, <2>3, <2>11, <3>1, <3>2, Zenon DEF Batch
    <2> QED
      BY <2>8, <2>9, <2>10, <2>14, <2>15 DEF CallInv
  <1> QED
    BY <1>4, <1>5

\* A callback is run: its node no longer waits, and the batch is one smaller.
LEMMA RunCallbackInv ==
  ASSUME CallInv, RunCallback
  PROVE  CallInv'
  <1>1. CallTypeOK /\ Counts
    BY DEF CallInv
  <1>2. /\ gat = "run" /\ ran' = [ran EXCEPT ![node[1]] = @ + 1] /\ n' = n - 1
        /\ \/ n' = 0 /\ gat' = "count" /\ phase' = "idle"
           \/ n' # 0 /\ gat' = "test" /\ phase' = "first"
        /\ UNCHANGED <<callerVars, next, tail, head, rcu_call_count, dummy_tail, covered>>
    BY DEF RunCallback
  <1>3. phase # "idle" /\ Out /\ ~Out' /\ HasBatch /\ n \in Nat /\ n # 0
    BY <1>1, <1>2 DEF Out, HasBatch, CallTypeOK, EventPoints, ResetPoints, WaitPoints, Counts
  <1>4. PICK q, lo, hi, B : Linked(q, lo, hi) /\ Holds(q, lo, hi) /\ Batch(q, lo, hi, B)
    BY DEF CallInv
  <1>5. PICK x \in Nodes : /\ x = node /\ x \in Awaiting /\ x \in B /\ x[2] = ran[x[1]] + 1
                           /\ \A i \in lo .. hi : q[i] # x
    BY <1>3, <1>4, Zenon DEF Holds, Batch
  <1>6. /\ B \subseteq Awaiting /\ Cardinality(B) >= n
        /\ \A y \in B : y[2] <= covered[y[1]]
        /\ \A i, j \in lo .. hi : i < j /\ q[j] \in B /\ q[i] \in Nodes => q[i] \in B
    BY <1>3, <1>4 DEF Batch
  <1>7. \A y \in Nodes : y[1] \in Callers /\ y[2] \in Nat /\ y = <<y[1], y[2]>>
    BY DEF Nodes
  <1>8. /\ cat' = cat /\ issued' = issued /\ old_tail' = old_tail /\ Uncounted' = Uncounted
        /\ \A d \in Callers : Queued(d)' = Queued(d) /\ Current(d)' = Current(d)
    BY <1>2 DEF callerVars, Uncounted, Queued, Current
  <1>9. /\ ran' \in [Callers -> Nat] /\ ran'[x[1]] = x[2] /\ ran[x[1]] \in Nat
        /\ \A d \in Callers : d # x[1] => ran'[d] = ran[d]
    BY <1>1, <1>2, <1>5, <1>7 DEF CallTypeOK
  <1>10. Awaiting' = Awaiting \ {x}
    <2>1. ASSUME NEW y \in Nodes PROVE y \in Awaiting' <=> y \in Awaiting /\ y # x
      <3>1. y \in Awaiting' <=> ran'[y[1]] < y[2] /\ y[2] <= Queued(y[1])
        BY <1>7, <1>8 DEF Awaiting
      <3>2. y \in Awaiting <=> ran[y[1]] < y[2] /\ y[2] <= Queued(y[1])
        BY DEF Awaiting
      <3>3. CASE y[1] # x[1]
        BY <1>7, <1>9, <3>1, <3>2, <3>3
      <3>4. CASE y[1] = x[1]
        <4>1. y = x <=> y[2] = x[2]
          BY <1>7, <3>4
        <4>2. x[2] < y[2] <=> ran[x[1]] < y[2] /\ y[2] # x[2]
          BY <1>5, <1>7, <1>9
        <4> QED
          BY <1>9, <3>1, <3>2, <3>4, <4>1, <4>2
      <3> QED
        BY <3>3, <3>4
    <2>2. Awaiting' \subseteq Nodes /\ Awaiting \subseteq Nodes
      BY DEF Awaiting
    <2> QED
      BY <2>1, <2>2
  <1>11. CallTypeOK'
    <2>1. \A y \in Nodes : y[2] > Queued(y[1])' => next'[y] = NULL
      BY <1>1, <1>2, <1>7, <1>8 DEF CallTypeOK
    <2>2. \A d \in Callers : ran'[d] <= Queued(d)'
      <3>1. x[2] <= Queued(x[1])
        BY <1>5 DEF Awaiting
      <3> QED
        BY <1>1, <1>8, <1>9, <3>1 DEF CallTypeOK
    <2>3. n' \in Nat
      BY <1>2, <1>3
    <2>4. /\ phase' \in {"idle", "first", "second", "third"}
          /\ gat' \in EventPoints \cup (IF phase' = "idle" THEN {"count", "recount", "take", "sync", "synced"}
                                        ELSE BatchPoints)
      BY <1>2 DEF BatchPoints
    <2> QED
      BY <1>1, <1>2, <1>8, <1>9, <2>1, <2>2, <2>3, <2>4, Zenon DEF CallTypeOK
  <1>12. Counts'
    <2>1. /\ Cardinality(Awaiting') = Cardinality(Awaiting) - 1 /\ Cardinality(Awaiting) \in Nat
          /\ Cardinality(Uncounted) \in Nat /\ rcu_call_count \in Nat
      BY <1>1, <1>5, <1>10, AllFinite, FS_RemoveElement, Zenon DEF CallTypeOK
    <2>2. Cardinality(Awaiting) = rcu_call_count + n + Cardinality(Uncounted)
      BY <1>1, <1>3 DEF Counts
    <2>3. /\ IF HasBatch' THEN n' # 0 ELSE n' = 0
          /\ gat' # "take" /\ n' \in Nat
      BY <1>2, <1>3 DEF HasBatch
    <2>4. Cardinality(Awaiting') = rcu_call_count' + n' + Cardinality(Uncounted')
      BY <1>2, <1>3, <1>8, <2>1, <2>2
    <2> QED
      BY <2>3, <2>4 DEF Counts
  <1>13. Linked(q, lo, hi)'
    <2>1. gat' \notin {"dummy_link", "dummy_xchg"}
      BY <1>2
    <2>2. \A d \in Callers : cat'[d] = "link" => Missing(next', q, lo, hi, old_tail'[d], Current(d)')
      BY <1>2, <1>4, <1>8, Zenon DEF Linked
    <2> QED
      BY <1>2, <1>4, <2>1, <2>2, Zenon DEF Linked
  <1>14. Holds(q, lo, hi)'
    <2>1. \A y \in Nodes : y \in Awaiting' <=> \E i \in lo .. hi : q[i] = y
      BY <1>4, <1>5, <1>10, Zenon DEF Holds
    <2> QED
      BY <1>3, <1>4, <2>1, Zenon DEF Holds
  <1>15. Batch(q, lo, hi, B \ {x})'
    <2>1. Cardinality(B \ {x}) >= n'
      <3>1. IsFiniteSet(B) /\ Cardinality(B) \in Nat
        BY <1>6, AllFinite, FS_Subset, FS_CardinalityType
      <3>2. Cardinality(B \ {x}) = Cardinality(B) - 1
        BY <1>5, <3>1, FS_RemoveElement, Zenon
      <3>3. n' = n - 1 /\ n \in Nat /\ Cardinality(B) >= n
        BY <1>2, <1>3, <1>6
      <3> QED
        BY <3>1, <3>2, <3>3
    <2>2. B \ {x} \subseteq Awaiting'
      BY <1>6, <1>10
    <2>3. \A i, j \in lo .. hi : i < j /\ q[j] \in B \ {x} /\ q[i] \in Nodes => q[i] \in B \ {x}
      BY <1>5, <1>6
    <2>4. \A y \in B \ {x} : y[2] <= covered'[y[1]]
      BY <1>2, <1>6
    <2> QED
      BY <1>3, <2>1, <2>2, <2>3, <2>4, Zenon DEF Batch
  <1> QED
    BY <1>11, <1>12, <1>13, <1>14, <1>15 DEF CallInv

\* At the start the dummy node is alone in the queue.
LEMMA CallInitInv == CallRcuInit => CallInv
  <1> SUFFICES ASSUME CallRcuInit PROVE CallInv
    OBVIOUS
  <1>1. \A c \in Callers : cat[c] = "idle" /\ issued[c] = 0 /\ ran[c] = 0 /\ Queued(c) = 0
    BY DEF CallRcuInit, Queued
  <1>2. \A x \in Nodes : x[1] \in Callers /\ x[2] \in Nat /\ x[2] # 0
    BY CallRcuAssumption DEF Nodes
  <1>3. Awaiting = {} /\ Uncounted = {}
    BY <1>1, <1>2 DEF Awaiting, Uncounted
  <1>4. ~HasBatch /\ ~Out /\ gat = "count" /\ phase = "idle" /\ n = 0 /\ rcu_call_count = 0
    BY DEF HasBatch, Out, CallRcuInit
  <1>5. CallTypeOK
    <2>1. /\ cat \in [Callers -> CallerPoints] /\ issued \in [Callers -> 0 .. MaxCalls]
          /\ ran \in [Callers -> Nat] /\ covered \in [Callers -> Nat]
          /\ next \in [Nodes \cup {Dummy} -> Nodes \cup {Dummy, NULL}]
          /\ (\A x \in Nodes : next[x] = NULL) /\ DOMAIN old_tail = Callers
      BY CallRcuAssumption DEF CallRcuInit, CallerPoints
    <2>2. \A c \in Callers : cat[c] \notin {"xchg", "link"} /\ ran[c] <= Queued(c)
      BY <1>1
    <2> QED
      BY <1>4, <2>1, <2>2 DEF CallTypeOK
  <1>6. Counts
    BY <1>3, <1>4, FS_EmptySet DEF Counts
  <1> DEFINE q == [i \in Nat |-> Dummy]
  <1>7. /\ q \in [Nat -> Nodes \cup {Dummy}] /\ 0 .. 0 = {0} /\ 0 .. 0 - 1 = {} /\ q[0] = Dummy
        /\ next[Dummy] = NULL /\ head = Dummy /\ tail = Dummy
    <2>1. next[Dummy] = NULL /\ head = Dummy /\ tail = Dummy
      BY DEF CallRcuInit
    <2>2. q \in [Nat -> Nodes \cup {Dummy}] /\ q[0] = Dummy
      OBVIOUS
    <2>3. 0 .. 0 = {0} /\ 0 .. 0 - 1 = {}
      OBVIOUS
    <2> QED
      BY <2>1, <2>2, <2>3
  <1> HIDE DEF q
  <1>8. Linked(q, 0, 0)
    <2>1. \A i \in 0 .. 0 - 1 : next[q[i]] \in {NULL, q[i + 1]}
      BY <1>7
    <2>2. \A i, j \in 0 .. 0 : q[i] = q[j] => i = j
      BY <1>7
    <2>3. gat \notin {"dummy_link", "dummy_xchg"} /\ \A c \in Callers : cat[c] # "link"
      BY <1>1, <1>4
    <2>4. 0 \in Nat /\ 0 <= 0
      OBVIOUS
    <2> QED
      BY <1>7, <2>1, <2>2, <2>3, <2>4, Zenon DEF Linked
  <1>9. Holds(q, 0, 0)
    BY <1>3, <1>4, <1>7, CallRcuAssumption DEF Holds
  <1>10. Batch(q, 0, 0, {})
    BY <1>4 DEF Batch
  <1> QED
    BY <1>5, <1>6, <1>8, <1>9, <1>10 DEF CallInv

\* The queue, the count and the batch of util/rcu.c belong together in every reachable
\* state: the nodes that wait are linked, or about to be, from the head to the tail, the
\* count and the batch are how many they are, and a batch is called for before its grace
\* period.
THEOREM CallRcuInvariant == CallRcuSpec => []CallInv
  <1>1. ASSUME CallInv, [CallRcuNext]_callVars PROVE CallInv'
    <2>1. CASE UNCHANGED callVars
      <3>1. UNCHANGED <<callerVars, next, tail, head, rcu_call_count, gat, phase, n, node, dummy_tail,
                        ran, covered>>
        BY <2>1 DEF callVars, threadLocals
      <3>2. (Out' <=> Out) /\ (HasBatch' <=> HasBatch) /\ CallTypeOK /\ Counts
        BY <1>1, <3>1 DEF Out, HasBatch, CallInv
      <3>3. \A c \in Callers : Queued(c)' = Queued(c) /\ Current(c)' = Current(c)
        BY <3>1 DEF Queued, Current, callerVars
      <3>4. Awaiting' = Awaiting /\ Uncounted' = Uncounted
        BY <1>1, <3>1, <3>3, SameAwaiting DEF Uncounted, callerVars
      <3>5. CallTypeOK'
        <4>1. \A x \in Nodes : x[1] \in Callers
          BY DEF Nodes
        <4>2. \A x \in Nodes : x[2] > Queued(x[1])' => next'[x] = NULL
          BY <3>1, <3>2, <3>3, <4>1 DEF CallTypeOK
        <4> QED
          BY <3>1, <3>2, <3>3, <4>2 DEF CallTypeOK, callerVars
      <3>6. Counts'
        BY <3>1, <3>2, <3>4 DEF Counts
      <3> QED
        BY <1>1, <3>1, <3>2, <3>3, <3>5, <3>6, KeepsQueue, Zenon DEF callerVars
    <2>2. ASSUME NEW c \in Callers, CallerProgress(c) \/ CallerRequest(c) PROVE CallInv'
      BY <1>1, <2>2, CallerQuietInv, CallBeginsInv, EnqueueTailInv, EnqueueLinkInv, CountUpInv
         DEF CallerProgress, CallerRequest
    <2>3. CASE RcuThreadProgress \/ SpuriousReady
      BY <1>1, <2>3, ThreadQuietInv, SyncBeginInv, TestEmptyInv, TakeHeadInv, DummyTailInv,
         DummyLinkInv, RunCallbackInv DEF RcuThreadProgress
    <2> QED
      BY <1>1, <2>1, <2>2, <2>3 DEF CallRcuNext
  <1> QED
    BY <1>1, CallInitInv, PTL DEF CallRcuSpec

\* A callback runs once, in the order of its thread's calls, and only after a grace period
\* that began when call_rcu1 had been called for it; the thread never meets an empty queue
\* and nobody links to a node whose callback has run (call_rcu_thread, try_dequeue and
\* enqueue), however many threads call.
THEOREM CallbacksAfterGrace == CallRcuSpec => []CallbackAfterGrace
  BY CallRcuInvariant, CallMeans, PTL
==============================================================================
