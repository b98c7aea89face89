----------------------------- MODULE CoreProofs ------------------------------
(***************************************************************************)
(* Proofs about the core that everything runs on: synchronize_rcu waits    *)
(* for every earlier reader, for any set of threads and any even range of  *)
(* `unsigned' (Rcu); and the main loop never sleeps through a timer or a   *)
(* bottom half, for any threads, timers and bottom halves (MainLoop).      *)
(***************************************************************************)
EXTENDS Rcu, MainLoop, SequenceTheorems, WellFoundedInduction, TLAPS

\* Reader r is inside or about to be, with a grace period that is not zero and
\* not ahead of the counter, and it is on one of the lists.
ReaderInv(r) ==
  /\ ctr[r] <= rcu_gp_ctr /\ seen[r] <= rcu_gp_ctr
  /\ rat[r] = "locking" => seen[r] # 0
  /\ rat[r] = "in" => ctr[r] # 0
  /\ rat[r] # "out" => r \in registry \cup qsreaders

\* A reader that synchronize_rcu must wait for is on the list it waits for, and
\* its grace period is an earlier one.
OldInv(r) == rat[r] = "in" /\ ctr[r] # rcu_gp_ctr /\ r \in registry

RcuInv ==
  /\ RcuTypeOK
  /\ rcu_gp_ctr % 2 = 1
  /\ \A r \in Readers : ReaderInv(r)
  /\ \A r \in old : OldInv(r)
  /\ uat = "idle" => old = {} /\ qsreaders = {}

\* An odd number is not lost when it is truncated to an even range.
LEMMA OddTruncated ==
  ASSUME NEW n \in Nat, n % 2 = 1
  PROVE  n % UintRange \in Nat /\ n % UintRange # 0 /\ n % UintRange <= n
  <1> DEFINE U == UintRange
             q == n \div U
             h == U \div 2
             m == n % U
  <1>1. U \in Nat /\ U > 0 /\ U % 2 = 0
    BY RcuAssumption
  <1> HIDE DEF U
  <1>2. q \in Nat /\ m \in Nat /\ n = U * q + m
    BY <1>1, Z3
  <1>3. h \in Nat /\ U = 2 * h
    BY <1>1, Z3
  <1> HIDE DEF q, m, h
  <1>4. U * q \in Nat /\ U * q = 2 * (h * q) /\ h * q \in Nat
    BY <1>2, <1>3, Z3
  <1>5. m # 0
    <2> DEFINE k == h * q
    <2>1. SUFFICES ASSUME m = 0 PROVE FALSE
      OBVIOUS
    <2>2. k \in Nat /\ n = 2 * k
      BY <1>2, <1>4, <2>1
    <2> HIDE DEF k
    <2> QED BY <2>2, Z3
  <1>6. m <= n
    BY <1>2, <1>4
  <1> QED BY <1>2, <1>5, <1>6 DEF m, U

\* Steps of one reader that do not touch the lists, the counter or a bigger `old'.
LEMMA ReaderKeeps ==
  ASSUME RcuInv, NEW r \in Readers, RcuTypeOK',
         UNCHANGED <<qsreaders, rcu_gp_ctr, registry>>,
         \A s \in Readers : s # r => rat'[s] = rat[s] /\ ctr'[s] = ctr[s] /\ seen'[s] = seen[s],
         ReaderInv(r)', old' \subseteq old, r \in old' => OldInv(r)',
         uat' = "idle" => uat = "idle"
  PROVE  RcuInv'
  BY DEF RcuInv, RcuTypeOK, ReaderInv, OldInv

\* Steps that leave the readers, the lists and the counter alone.
LEMMA UpdaterKeeps ==
  ASSUME RcuInv, RcuTypeOK', UNCHANGED <<readerVars, qsreaders, registry, rcu_gp_ctr, old>>,
         uat' = "idle" => uat = "idle"
  PROVE  RcuInv'
  BY DEF RcuInv, ReaderInv, OldInv, readerVars

\* Every step keeps the types.
LEMMA RcuTypeNext == RcuTypeOK /\ [RcuNext]_rcuVars => RcuTypeOK'
  <1> SUFFICES ASSUME RcuTypeOK, [RcuNext]_rcuVars PROVE RcuTypeOK'
    OBVIOUS
  <1> USE DEF RcuTypeOK, ReaderPoints, UpdaterPoints, SetPoints, ResetPoints, WaitPoints, EventValues,
              ReaderTo, readerVars, updaterVars
  <1>1. ASSUME NEW r \in Readers, rcu_register_thread(r) PROVE RcuTypeOK'
    BY <1>1 DEF rcu_register_thread
  <1>2. ASSUME NEW r \in Readers, rcu_unregister_thread(r) PROVE RcuTypeOK'
    BY <1>2 DEF rcu_unregister_thread
  <1>3. ASSUME NEW r \in Readers, LockRead(r) PROVE RcuTypeOK'
    <2>1. rcu_gp_ctr % UintRange \in Nat
      BY RcuAssumption, Z3
    <2> QED BY <1>3, <2>1 DEF LockRead
  <1>4. ASSUME NEW r \in Readers, LockWrite(r) PROVE RcuTypeOK'
    BY <1>4 DEF LockWrite
  <1>5. ASSUME NEW r \in Readers, LockNested(r) PROVE RcuTypeOK'
    BY <1>5 DEF LockNested
  <1>6. ASSUME NEW r \in Readers, UnlockNested(r) PROVE RcuTypeOK'
    <2>1. depth[r] - 1 \in Nat
      BY <1>6 DEF UnlockNested
    <2> QED BY <1>6, <2>1 DEF UnlockNested
  <1>7. ASSUME NEW r \in Readers, Unlock(r) PROVE RcuTypeOK'
    BY <1>7 DEF Unlock
  <1>8. ASSUME NEW r \in Readers, Report(r) \/ ClearWaiting(r) PROVE RcuTypeOK'
    BY <1>8 DEF Report, ClearWaiting
  <1>9. ASSUME NEW r \in Readers, SetEvent(r) PROVE RcuTypeOK'
    BY <1>9 DEF SetEvent, SetStep, EventStep
  <1>10. ASSUME NEW r \in Readers, FutexWake(r) PROVE RcuTypeOK'
    BY <1>10 DEF FutexWake
  <1>11. CASE Synchronize
    BY <1>11 DEF Synchronize
  <1>12. CASE ResetEvent
    BY <1>12 DEF ResetEvent, ResetStep, EventStep
  <1>13. ASSUME NEW r \in Readers, Mark(r) \/ ScanReader(r) PROVE RcuTypeOK'
    BY <1>13 DEF Mark, ScanReader
  <1>14. CASE Marked \/ Finish \/ StartWait \/ FutexSpurious
    BY <1>14 DEF Marked, Finish, StartWait, FutexSpurious
  <1>15. CASE WaitEvent
    BY <1>15 DEF WaitEvent, WaitStep, EventStep
  <1>16. CASE UNCHANGED rcuVars
    BY <1>16 DEF rcuVars
  <1> QED BY Zenon, <1>1, <1>2, <1>3, <1>4, <1>5, <1>6, <1>7, <1>8, <1>9, <1>10, <1>11, <1>12, <1>13,
             <1>14, <1>15, <1>16
          DEF RcuNext, ReaderStep, ReaderProgress, UpdaterProgress

\* Every step of a reader preserves the invariant.
LEMMA ReaderStepInv ==
  ASSUME RcuInv, RcuTypeOK', NEW r \in Readers, ReaderStep(r)
  PROVE  RcuInv'
  <1>t. RcuTypeOK /\ ReaderInv(r) /\ (r \in old => OldInv(r))
    BY DEF RcuInv
  <1> USE DEF ReaderInv, OldInv, RcuTypeOK, ReaderTo, readerVars, updaterVars
  <1>1. CASE rcu_register_thread(r)
    BY <1>1 DEF rcu_register_thread, RcuInv, Registered
  <1>2. CASE rcu_unregister_thread(r)
    BY <1>2 DEF rcu_unregister_thread, RcuInv, Registered
  <1>3. CASE LockRead(r)
    <2>1. /\ rcu_gp_ctr % UintRange \in Nat /\ rcu_gp_ctr % UintRange # 0
          /\ rcu_gp_ctr % UintRange <= rcu_gp_ctr
      BY OddTruncated DEF RcuInv
    <2>2. /\ rat' = [rat EXCEPT ![r] = "locking"] /\ ctr' = ctr
          /\ seen' = [seen EXCEPT ![r] = rcu_gp_ctr % UintRange]
          /\ UNCHANGED <<qsreaders, rcu_gp_ctr, registry, old, uat>>
          /\ rat[r] = "out" /\ r \in registry \cup qsreaders
      BY <1>3 DEF LockRead, Registered
    <2> QED BY <1>t, <2>1, <2>2, ReaderKeeps
  <1>4. CASE LockWrite(r)
    <2>1. /\ rat' = [rat EXCEPT ![r] = "in"] /\ ctr' = [ctr EXCEPT ![r] = seen[r]]
          /\ seen' = [seen EXCEPT ![r] = 0]
          /\ UNCHANGED <<qsreaders, rcu_gp_ctr, registry, old, uat>>
          /\ rat[r] = "locking"
      BY <1>4 DEF LockWrite
    <2> QED BY <1>t, <2>1, ReaderKeeps
  <1>5. CASE LockNested(r) \/ UnlockNested(r)
    BY <1>t, <1>5, ReaderKeeps DEF LockNested, UnlockNested
  <1>6. CASE Unlock(r)
    <2>1. /\ rat' = [rat EXCEPT ![r] = "unlocked"] /\ ctr' = [ctr EXCEPT ![r] = 0] /\ seen' = seen
          /\ UNCHANGED <<qsreaders, rcu_gp_ctr, registry, uat>> /\ old' = old \ {r}
          /\ rat[r] = "in"
      BY <1>6 DEF Unlock
    <2> QED BY <1>t, <2>1, ReaderKeeps
  <1>7. CASE Report(r) \/ ClearWaiting(r)
    BY <1>t, <1>7, ReaderKeeps DEF Report, ClearWaiting
  <1>8. CASE SetEvent(r)
    <2>1. PICK p \in {"out", "wake", "set_xchg"} : rat' = [rat EXCEPT ![r] = p]
      BY <1>8, Zenon DEF SetEvent, SetStep, EventStep
    <2>2. /\ rat[r] \in {"set_read", "set_xchg"}
          /\ UNCHANGED <<ctr, seen, qsreaders, rcu_gp_ctr, registry, old, uat>>
      BY <1>8 DEF SetEvent, SetPoints
    <2> QED BY <1>t, <2>1, <2>2, ReaderKeeps
  <1>9. CASE FutexWake(r)
    BY <1>t, <1>9, ReaderKeeps DEF FutexWake
  <1> QED BY <1>1, <1>2, <1>3, <1>4, <1>5, <1>6, <1>7, <1>8, <1>9 DEF ReaderStep, ReaderProgress

\* So does every step of synchronize_rcu.
LEMMA UpdaterStepInv ==
  ASSUME RcuInv, RcuTypeOK', Synchronize \/ UpdaterProgress \/ FutexSpurious
  PROVE  RcuInv'
  <1> USE DEF readerVars
  <1>1. CASE Synchronize
    <2>1. /\ UNCHANGED <<rat, ctr, seen, registry, qsreaders>> /\ qsreaders = {}
          /\ rcu_gp_ctr' = rcu_gp_ctr + 2 /\ uat' = "reset_read"
          /\ old' = {r \in Readers : rat[r] = "in"}
          /\ rcu_gp_ctr \in Nat
      BY <1>1 DEF Synchronize, RcuInv, RcuTypeOK
    <2>2. rcu_gp_ctr' % 2 = 1
      BY <2>1, Z3 DEF RcuInv
    <2>3. \A r \in Readers : /\ ctr[r] \in Nat /\ seen[r] \in Nat
                             /\ ctr[r] <= rcu_gp_ctr /\ seen[r] <= rcu_gp_ctr
      BY DEF RcuInv, RcuTypeOK, ReaderInv
    <2>4. \A r \in Readers : ReaderInv(r)'
      BY <2>1, <2>3 DEF RcuInv, ReaderInv
    <2>5. \A r \in old' : OldInv(r)'
      BY <2>1, <2>3 DEF RcuInv, ReaderInv, OldInv
    <2> QED BY <2>1, <2>2, <2>4, <2>5 DEF RcuInv
  <1>2. CASE ResetEvent
    BY <1>2, UpdaterKeeps DEF ResetEvent, ResetStep, EventStep
  <1>3. ASSUME NEW r \in Readers, Mark(r) PROVE RcuInv'
    BY <1>3, UpdaterKeeps DEF Mark
  <1>4. ASSUME NEW r \in Readers, ScanReader(r) PROVE RcuInv'
    <2>1. r \in old => rcu_gp_ongoing(r)
      BY DEF RcuInv, OldInv, ReaderInv, rcu_gp_ongoing
    <2>2. uat = "scan" /\ UNCHANGED <<rat, ctr, seen, uat, rcu_gp_ctr, old>>
      BY <1>4 DEF ScanReader
    <2>3. \/ UNCHANGED <<registry, qsreaders>>
          \/ r \notin old /\ registry' = registry \ {r} /\ qsreaders' = qsreaders \cup {r}
      BY <1>4, <2>1 DEF ScanReader
    <2> QED BY <2>2, <2>3 DEF RcuInv, ReaderInv, OldInv
  <1>5. CASE Marked \/ StartWait \/ FutexSpurious
    BY <1>5, UpdaterKeeps DEF Marked, StartWait, FutexSpurious
  <1>6. CASE Finish
    <2>1. old = {}
      BY <1>6 DEF Finish, RcuInv, OldInv
    <2> QED BY <1>6, <2>1 DEF Finish, RcuInv, ReaderInv, OldInv
  <1>7. CASE WaitEvent
    BY <1>7, UpdaterKeeps DEF WaitEvent, WaitStep, EventStep, WaitPoints
  <1> QED BY <1>1, <1>2, <1>3, <1>4, <1>5, <1>6, <1>7 DEF UpdaterProgress

\* The invariant holds when the program starts.
LEMMA RcuInitInv == RcuInit => RcuInv
  <1> SUFFICES ASSUME RcuInit PROVE RcuInv
    OBVIOUS
  <1>1. RcuTypeOK
    BY DEF RcuInit, RcuTypeOK, ReaderPoints, UpdaterPoints, EventValues
  <1>2. rcu_gp_ctr % 2 = 1
    BY Z3 DEF RcuInit
  <1> QED BY <1>1, <1>2 DEF RcuInit, RcuInv, ReaderInv, OldInv

\* The inductive invariant: whoever synchronize_rcu must wait for is on the list it
\* waits for, with the number of an earlier grace period.
THEOREM RcuInvariant == RcuSpec => []RcuInv
  <1>1. RcuInv /\ [RcuNext]_rcuVars => RcuInv'
    <2> SUFFICES ASSUME RcuInv, [RcuNext]_rcuVars PROVE RcuInv'
      OBVIOUS
    <2>1. RcuTypeOK'
      BY RcuTypeNext DEF RcuInv
    <2>2. CASE UNCHANGED rcuVars
      BY <2>1, <2>2, UpdaterKeeps DEF rcuVars, updaterVars
    <2> QED BY <2>1, <2>2, ReaderStepInv, UpdaterStepInv DEF RcuNext
  <1> QED BY <1>1, RcuInitInv, PTL DEF RcuSpec

\* synchronize_rcu returns only when every reader that was in a critical section
\* when the grace period began has left it.
THEOREM RcuGracePeriod == RcuSpec => []GracePeriod
  <1>1. RcuInv => GracePeriod
    BY DEF RcuInv, GracePeriod
  <1> QED BY <1>1, RcuInvariant, PTL

(***************************************************************************)
(* The main loop (MainLoop).                                               *)
(***************************************************************************)
\* A set of natural numbers has a least member.
LEMMA MinIsLeast ==
  ASSUME NEW S, S \subseteq Nat, S # {}
  PROVE  Min(S) \in S /\ \A y \in S : Min(S) <= y
  <1>1. PICK x \in S : \A y \in S : ~(<<y, x>> \in OpToRel(<, Nat))
    BY NatLessThanWellFounded, WFMin, Zenon
  <1>2. \A y \in S : x <= y
    <2> SUFFICES ASSUME NEW y \in S PROVE x <= y
      OBVIOUS
    <2>1. x \in Nat /\ y \in Nat
      OBVIOUS
    <2>2. ~(y < x)
      <3>1. y < x => <<y, x>> \in OpToRel(<, Nat)
        BY <2>1 DEF OpToRel
      <3> QED BY <1>1, <3>1, Zenon
    <2> QED BY <2>1, <2>2
  <1>3. \E m \in S : \A y \in S : m <= y
    BY <1>2
  <1> QED BY <1>3, Zenon DEF Min

\* A list without one of its entries.
LEMMA UnlinkAtProperties ==
  ASSUME NEW S, NEW s \in Seq(S), NEW k \in 1 .. Len(s)
  PROVE  /\ UnlinkAt(s, k) \in Seq(S)
         /\ Len(UnlinkAt(s, k)) = Len(s) - 1
         /\ \A i \in 1 .. Len(s) - 1 : UnlinkAt(s, k)[i] = s[IF i < k THEN i ELSE i + 1]
  <1> DEFINE a == SubSeq(s, 1, k - 1)
             b == SubSeq(s, k + 1, Len(s))
             n == Len(s)
  <1>1. n \in Nat /\ k \in 1 .. n /\ \A i \in 1 .. n : s[i] \in S
    OBVIOUS
  <1> HIDE DEF n
  <1>2. /\ a \in Seq(S) /\ Len(a) = k - 1 /\ \A i \in 1 .. k - 1 : a[i] = s[i]
    <2>1. \A i \in 1 .. k - 1 : s[i] \in S
      BY <1>1
    <2>2. /\ a \in Seq(S) /\ Len(a) = IF 1 <= k - 1 THEN (k - 1) - 1 + 1 ELSE 0
          /\ \A i \in 1 .. (k - 1) - 1 + 1 : a[i] = s[1 + i - 1]
      BY <1>1, <2>1, SubSeqProperties
    <2> HIDE DEF a
    <2> QED BY <1>1, <2>2
  <1>3. /\ b \in Seq(S) /\ Len(b) = n - k /\ \A i \in 1 .. n - k : b[i] = s[k + i]
    <2>1. \A i \in k + 1 .. n : s[i] \in S
      BY <1>1
    <2>2. /\ b \in Seq(S) /\ Len(b) = IF k + 1 <= n THEN n - (k + 1) + 1 ELSE 0
          /\ \A i \in 1 .. n - (k + 1) + 1 : b[i] = s[(k + 1) + i - 1]
      BY <1>1, <2>1, SubSeqProperties DEF n
    <2> HIDE DEF b
    <2> QED BY <1>1, <2>2
  <1> HIDE DEF a, b
  <1>4. /\ a \o b \in Seq(S) /\ Len(a \o b) = Len(a) + Len(b)
        /\ \A i \in 1 .. Len(a) + Len(b) : (a \o b)[i] = IF i <= Len(a) THEN a[i] ELSE b[i - Len(a)]
    BY <1>2, <1>3, ConcatProperties, Zenon
  <1>5. UnlinkAt(s, k) = a \o b
    BY DEF UnlinkAt, a, b
  <1>6. \A i \in 1 .. n - 1 : (a \o b)[i] = s[IF i < k THEN i ELSE i + 1]
    <2> SUFFICES ASSUME NEW i \in 1 .. n - 1
                 PROVE  (a \o b)[i] = s[IF i < k THEN i ELSE i + 1]
      BY Zenon
    <2>1. (a \o b)[i] = IF i <= k - 1 THEN a[i] ELSE b[i - (k - 1)]
      BY <1>1, <1>2, <1>3, <1>4
    <2>2. CASE i < k
      BY <1>1, <1>2, <2>1, <2>2
    <2>3. CASE ~(i < k)
      <3>1. (a \o b)[i] = b[i - (k - 1)] /\ i - (k - 1) \in 1 .. n - k /\ k + (i - (k - 1)) = i + 1
        BY <1>1, <2>1, <2>3
      <3> QED BY <1>3, <2>3, <3>1
    <2> QED BY <2>2, <2>3, Zenon
  <1>7. Len(a) + Len(b) = n - 1
    BY <1>1, <1>2, <1>3
  <1> QED BY <1>4, <1>5, <1>6, <1>7, Zenon DEF n

\* A list with one entry more.
LEMMA LinkAtProperties ==
  ASSUME NEW S, NEW s \in Seq(S), NEW k \in 1 .. Len(s) + 1, NEW e \in S
  PROVE  /\ LinkAt(s, k, e) \in Seq(S)
         /\ Len(LinkAt(s, k, e)) = Len(s) + 1
         /\ \A i \in 1 .. Len(s) + 1 :
              LinkAt(s, k, e)[i] = IF i < k THEN s[i] ELSE IF i = k THEN e ELSE s[i - 1]
  <1> DEFINE a == SubSeq(s, 1, k - 1)
             b == SubSeq(s, k, Len(s))
             n == Len(s)
             m == <<e>>
  <1>1. n \in Nat /\ k \in 1 .. n + 1 /\ \A i \in 1 .. n : s[i] \in S
    OBVIOUS
  <1> HIDE DEF n
  <1>2. /\ a \in Seq(S) /\ Len(a) = k - 1 /\ \A i \in 1 .. k - 1 : a[i] = s[i]
    <2>1. \A i \in 1 .. k - 1 : s[i] \in S
      BY <1>1
    <2>2. /\ a \in Seq(S) /\ Len(a) = IF 1 <= k - 1 THEN (k - 1) - 1 + 1 ELSE 0
          /\ \A i \in 1 .. (k - 1) - 1 + 1 : a[i] = s[1 + i - 1]
      BY <1>1, <2>1, SubSeqProperties
    <2> HIDE DEF a
    <2> QED BY <1>1, <2>2
  <1>3. /\ b \in Seq(S) /\ Len(b) = n + 1 - k /\ \A i \in 1 .. n + 1 - k : b[i] = s[k + i - 1]
    <2>1. \A i \in k .. n : s[i] \in S
      BY <1>1
    <2>2. /\ b \in Seq(S) /\ Len(b) = IF k <= n THEN n - k + 1 ELSE 0
          /\ \A i \in 1 .. n - k + 1 : b[i] = s[k + i - 1]
      BY <1>1, <2>1, SubSeqProperties DEF n
    <2> HIDE DEF b
    <2> QED BY <1>1, <2>2
  <1>4. m \in Seq(S) /\ Len(m) = 1 /\ m[1] = e
    OBVIOUS
  <1> HIDE DEF a, b, m
  <1> DEFINE c == a \o m
  <1>5. /\ c \in Seq(S) /\ Len(c) = Len(a) + Len(m)
        /\ \A i \in 1 .. Len(a) + Len(m) : c[i] = IF i <= Len(a) THEN a[i] ELSE m[i - Len(a)]
    BY <1>2, <1>4, ConcatProperties, Zenon
  <1> HIDE DEF c
  <1>6. /\ Len(c) = k /\ c[k] = e /\ \A i \in 1 .. k - 1 : c[i] = s[i]
    <2>1. Len(c) = k
      BY <1>1, <1>2, <1>4, <1>5
    <2>2. c[k] = m[k - (k - 1)] /\ k - (k - 1) = 1
      BY <1>1, <1>2, <1>4, <1>5
    <2>3. \A i \in 1 .. k - 1 : c[i] = a[i]
      BY <1>1, <1>2, <1>4, <1>5
    <2> QED BY <1>2, <1>4, <2>1, <2>2, <2>3
  <1>7. /\ c \o b \in Seq(S) /\ Len(c \o b) = Len(c) + Len(b)
        /\ \A i \in 1 .. Len(c) + Len(b) : (c \o b)[i] = IF i <= Len(c) THEN c[i] ELSE b[i - Len(c)]
    <2>1. c \in Seq(S) /\ b \in Seq(S)
      BY <1>3, <1>5
    <2> QED BY <2>1, ConcatProperties, Zenon
  <1>8. LinkAt(s, k, e) = c \o b
    BY DEF LinkAt, a, b, c, m
  <1>9. \A i \in 1 .. n + 1 : (c \o b)[i] = IF i < k THEN s[i] ELSE IF i = k THEN e ELSE s[i - 1]
    <2> SUFFICES ASSUME NEW i \in 1 .. n + 1
                 PROVE  (c \o b)[i] = IF i < k THEN s[i] ELSE IF i = k THEN e ELSE s[i - 1]
      BY Zenon
    <2>0. i \in 1 .. Len(c) + Len(b)
      BY <1>1, <1>3, <1>6
    <2>1. (c \o b)[i] = IF i <= k THEN c[i] ELSE b[i - k]
      BY <1>6, <1>7, <2>0, Zenon
    <2>2. CASE i < k
      BY <1>1, <1>6, <2>1, <2>2
    <2>3. CASE i = k
      BY <1>1, <1>6, <2>1, <2>3
    <2>4. CASE i > k
      <3>1. (c \o b)[i] = b[i - k] /\ i - k \in 1 .. n + 1 - k /\ k + (i - k) - 1 = i - 1
        BY <1>1, <2>1, <2>4
      <3>2. b[i - k] = s[k + (i - k) - 1]
        BY <1>3, <3>1
      <3> QED BY <2>4, <3>1, <3>2
    <2>5. i < k \/ i = k \/ i > k
      BY <1>1
    <2> QED BY <2>2, <2>3, <2>4, <2>5, Zenon
  <1>10. Len(c) + Len(b) = n + 1
    BY <1>1, <1>3, <1>6
  <1>11. LinkAt(s, k, e) \in Seq(S) /\ Len(LinkAt(s, k, e)) = n + 1
    <2>1. c \o b \in Seq(S) /\ Len(c \o b) = n + 1
      BY <1>7, <1>10
    <2> QED BY <1>8, <2>1
  <1>12. ASSUME NEW i \in 1 .. n + 1
         PROVE  LinkAt(s, k, e)[i] = IF i < k THEN s[i] ELSE IF i = k THEN e ELSE s[i - 1]
    BY <1>8, <1>9, Zenon
  <1> QED BY <1>11, <1>12 DEF n

(***************************************************************************)
(* The list of timers is sorted and holds the pending ones.                *)
(***************************************************************************)
TimerList(list, e) ==
  /\ list \in Seq(Timers)
  /\ \A i, j \in 1 .. Len(list) : list[i] = list[j] => i = j
  /\ \A i, j \in 1 .. Len(list) : i <= j => e[list[i]] <= e[list[j]]
  /\ \A x \in Timers : e[x] # Off <=> \E i \in 1 .. Len(list) : list[i] = x

Expiries == [Timers -> -1 .. MaxDelay]

\* The head of the list is a timer that is pending, and none is due before it.
LEMMA HeadIsFirst ==
  ASSUME NEW list, NEW e \in Expiries, TimerList(list, e), list # <<>>
  PROVE  /\ Head(list) \in Timers /\ e[Head(list)] # Off
         /\ \A x \in Timers : e[x] # Off => e[Head(list)] <= e[x]
  <1>1. list \in Seq(Timers) /\ Len(list) >= 1 /\ Head(list) = list[1] /\ 1 \in 1 .. Len(list)
    BY DEF TimerList
  <1>2. Head(list) \in Timers /\ e[Head(list)] # Off
    BY <1>1 DEF TimerList
  <1>3. ASSUME NEW x \in Timers, e[x] # Off
        PROVE  e[Head(list)] <= e[x]
    <2>1. PICK i \in 1 .. Len(list) : list[i] = x
      BY <1>3 DEF TimerList
    <2>2. 1 <= i
      BY <1>1
    <2> QED BY <1>1, <2>1, <2>2 DEF TimerList
  <1> QED BY <1>2, <1>3

\* No timer is pending if the list is empty.
LEMMA EmptyIsOff ==
  ASSUME NEW e, TimerList(<<>>, e)
  PROVE  \A x \in Timers : e[x] = Off
  BY DEF TimerList

\* timerlist_run_timers and timer_del_locked: the timer at k leaves the list.
LEMMA UnlinkKeepsList ==
  ASSUME NEW list, NEW e \in Expiries, TimerList(list, e), NEW k \in 1 .. Len(list)
  PROVE  TimerList(UnlinkAt(list, k), [e EXCEPT ![list[k]] = Off])
  <1> DEFINE r == UnlinkAt(list, k)
             f == [e EXCEPT ![list[k]] = Off]
             n == Len(list)
             src(i) == IF i < k THEN i ELSE i + 1
  <1>1. list \in Seq(Timers) /\ n \in Nat /\ k \in 1 .. n
    BY DEF TimerList
  <1>2. r \in Seq(Timers) /\ Len(r) = n - 1 /\ \A i \in 1 .. n - 1 : r[i] = list[src(i)]
    BY <1>1, UnlinkAtProperties
  <1>3. \A i, j \in 1 .. n : list[i] = list[j] => i = j
    BY DEF TimerList
  <1>4. \A i, j \in 1 .. n : i <= j => e[list[i]] <= e[list[j]]
    BY DEF TimerList
  <1>5. \A x \in Timers : e[x] # Off <=> \E i \in 1 .. n : list[i] = x
    BY DEF TimerList
  <1>6. \A i \in 1 .. n : list[i] \in Timers
    BY <1>1
  <1> HIDE DEF r, n
  <1>7. \A i \in 1 .. n - 1 : src(i) \in 1 .. n /\ src(i) # k
    BY <1>1
  <1>8. \A i, j \in 1 .. n - 1 : (i <= j => src(i) <= src(j)) /\ (src(i) = src(j) => i = j)
    BY <1>1
  <1>9. \A i \in 1 .. n : i # k => \E j \in 1 .. n - 1 : src(j) = i
    <2> SUFFICES ASSUME NEW i \in 1 .. n, i # k
                 PROVE  \E j \in 1 .. n - 1 : src(j) = i
      OBVIOUS
    <2>1. CASE i < k
      BY <1>1, <2>1
    <2>2. CASE i > k
      <3>1. i - 1 \in 1 .. n - 1 /\ src(i - 1) = i
        BY <1>1, <2>2
      <3> QED BY <3>1
    <2> QED BY <1>1, <2>1, <2>2
  <1> HIDE DEF src
  <1>10. \A i \in 1 .. n - 1 : r[i] # list[k] /\ r[i] \in Timers /\ f[r[i]] = e[r[i]]
    <2> SUFFICES ASSUME NEW i \in 1 .. n - 1
                 PROVE  r[i] # list[k] /\ r[i] \in Timers /\ f[r[i]] = e[r[i]]
      OBVIOUS
    <2>1. r[i] = list[src(i)] /\ src(i) \in 1 .. n /\ src(i) # k
      BY <1>2, <1>7
    <2>2. r[i] # list[k] /\ r[i] \in Timers
      BY <1>1, <1>3, <1>6, <2>1
    <2> QED BY <2>2 DEF Expiries
  <1>11. \A i, j \in 1 .. n - 1 : r[i] = r[j] => i = j
    BY <1>2, <1>3, <1>7, <1>8
  <1>12. \A i, j \in 1 .. n - 1 : i <= j => f[r[i]] <= f[r[j]]
    <2> SUFFICES ASSUME NEW i \in 1 .. n - 1, NEW j \in 1 .. n - 1, i <= j
                 PROVE  f[r[i]] <= f[r[j]]
      OBVIOUS
    <2>1. f[r[i]] = e[list[src(i)]] /\ f[r[j]] = e[list[src(j)]]
      BY <1>2, <1>10
    <2>2. src(i) \in 1 .. n /\ src(j) \in 1 .. n /\ src(i) <= src(j)
      BY <1>7, <1>8
    <2> QED BY <1>4, <2>1, <2>2
  <1>13. \A x \in Timers : f[x] # Off <=> \E i \in 1 .. n - 1 : r[i] = x
    <2> SUFFICES ASSUME NEW x \in Timers
                 PROVE  f[x] # Off <=> \E i \in 1 .. n - 1 : r[i] = x
      OBVIOUS
    <2>1. CASE x = list[k]
      <3>1. f[x] = Off
        BY <2>1 DEF Expiries
      <3> QED BY <1>10, <2>1, <3>1
    <2>2. CASE x # list[k]
      <3>1. f[x] = e[x]
        BY <2>2 DEF Expiries
      <3>2. ASSUME e[x] # Off
            PROVE  \E i \in 1 .. n - 1 : r[i] = x
        <4>1. PICK i \in 1 .. n : list[i] = x
          BY <1>5, <3>2
        <4>2. PICK j \in 1 .. n - 1 : src(j) = i
          BY <1>9, <2>2, <4>1
        <4> QED BY <1>2, <4>1, <4>2
      <3>3. ASSUME NEW i \in 1 .. n - 1, r[i] = x
            PROVE  e[x] # Off
        BY <1>2, <1>5, <1>7, <3>3
      <3> QED BY <3>1, <3>2, <3>3
    <2> QED BY <2>1, <2>2
  <1>14. r \in Seq(Timers) /\ Len(r) = n - 1
    BY <1>2
  <1> HIDE DEF f
  <1> QED BY <1>11, <1>12, <1>13, <1>14, Zenon DEF TimerList, r, f

\* timer_del_locked.
LEMMA DeleteKeepsList ==
  ASSUME NEW list, NEW e \in Expiries, TimerList(list, e), NEW x \in Timers
  PROVE  TimerList(timer_del_locked(list, x), [e EXCEPT ![x] = Off])
  <1> DEFINE S == {i \in DOMAIN list : list[i] = x}
  <1>0. list \in Seq(Timers) /\ DOMAIN list = 1 .. Len(list)
    BY DEF TimerList
  <1>1. CASE S # {}
    <2>1. S \subseteq Nat
      BY <1>0
    <2>2. Min(S) \in S
      BY <1>1, <2>1, MinIsLeast, Zenon
    <2>3. timer_del_locked(list, x) = UnlinkAt(list, Min(S))
      BY <1>1 DEF timer_del_locked
    <2>4. Min(S) \in 1 .. Len(list) /\ list[Min(S)] = x
      BY <1>0, <2>2
    <2> HIDE DEF S
    <2> QED BY <2>3, <2>4, UnlinkKeepsList
  <1>2. CASE S = {}
    <2>1. timer_del_locked(list, x) = list
      BY <1>2 DEF timer_del_locked
    <2>2. e[x] = Off
      BY <1>0, <1>2 DEF TimerList
    <2>3. [e EXCEPT ![x] = Off] = e
      BY <2>2 DEF Expiries
    <2> QED BY <2>1, <2>3
  <1> QED BY <1>1, <1>2

\* timer_mod_ns_locked: a timer that is not pending is linked at k, behind those that
\* are due before it and before those that are due after it.
LEMMA LinkKeepsList ==
  ASSUME NEW list, NEW e \in Expiries, TimerList(list, e), NEW x \in Timers, e[x] = Off,
         NEW d \in 1 .. MaxDelay, NEW k \in 1 .. Len(list) + 1,
         \A i \in 1 .. Len(list) : IF i < k THEN e[list[i]] <= d ELSE d <= e[list[i]]
  PROVE  TimerList(LinkAt(list, k, x), [e EXCEPT ![x] = d])
  <1> DEFINE r == LinkAt(list, k, x)
             f == [e EXCEPT ![x] = d]
             n == Len(list)
  <1>1. list \in Seq(Timers) /\ n \in Nat /\ k \in 1 .. n + 1
    BY DEF TimerList
  <1>2. /\ r \in Seq(Timers) /\ Len(r) = n + 1
        /\ \A i \in 1 .. n + 1 : r[i] = IF i < k THEN list[i] ELSE IF i = k THEN x ELSE list[i - 1]
    BY <1>1, LinkAtProperties
  <1>3. \A i, j \in 1 .. n : list[i] = list[j] => i = j
    BY DEF TimerList
  <1>4. \A i, j \in 1 .. n : i <= j => e[list[i]] <= e[list[j]]
    BY DEF TimerList
  <1>5. \A y \in Timers : e[y] # Off <=> \E i \in 1 .. n : list[i] = y
    BY DEF TimerList
  <1>6. \A i \in 1 .. n : /\ list[i] \in Timers /\ list[i] # x
                          /\ IF i < k THEN e[list[i]] <= d ELSE d <= e[list[i]]
    BY <1>1, <1>5
  <1>7. f[x] = d /\ \A y \in Timers : y # x => f[y] = e[y]
    BY DEF Expiries
  <1>8. MaxDelay \in Nat /\ \A y \in Timers : e[y] \in Int
    BY LoopAssumption DEF Expiries
  <1> HIDE DEF r, n
  <1>9. r[k] = x
    BY <1>1, <1>2
  <1>10. \A i \in 1 .. n + 1 : i < k => /\ i \in 1 .. n /\ r[i] = list[i] /\ r[i] # x /\ r[i] \in Timers
                                        /\ f[r[i]] = e[list[i]] /\ f[r[i]] <= d
    BY <1>1, <1>2, <1>6, <1>7
  <1>11. \A i \in 1 .. n + 1 : i > k => /\ i - 1 \in 1 .. n /\ r[i] = list[i - 1] /\ r[i] # x
                                        /\ r[i] \in Timers /\ f[r[i]] = e[list[i - 1]] /\ d <= f[r[i]]
    <2> SUFFICES ASSUME NEW i \in 1 .. n + 1, i > k
                 PROVE  /\ i - 1 \in 1 .. n /\ r[i] = list[i - 1] /\ r[i] # x
                        /\ r[i] \in Timers /\ f[r[i]] = e[list[i - 1]] /\ d <= f[r[i]]
      OBVIOUS
    <2>1. i - 1 \in 1 .. n /\ ~(i - 1 < k) /\ ~(i < k) /\ i # k
      BY <1>1
    <2>2. r[i] = list[i - 1]
      BY <1>2, <2>1
    <2> QED BY <1>6, <1>7, <2>1, <2>2
  <1> HIDE DEF f
  <1>12. \A i \in 1 .. n + 1 : i < k \/ i = k \/ i > k
    BY <1>1
  <1>13. \A i, j \in 1 .. n + 1 : r[i] = r[j] => i = j
    <2> SUFFICES ASSUME NEW i \in 1 .. n + 1, NEW j \in 1 .. n + 1, r[i] = r[j]
                 PROVE  i = j
      OBVIOUS
    <2>1. CASE i = k \/ j = k
      BY <1>9, <1>10, <1>11, <1>12, <2>1
    <2>2. CASE i < k /\ j < k
      BY <1>3, <1>10, <2>2
    <2>3. CASE i > k /\ j > k
      <3>1. i - 1 = j - 1
        BY <1>3, <1>11, <2>3
      <3> QED BY <1>1, <3>1
    <2>4. CASE i < k /\ j > k
      <3>1. i = j - 1
        BY <1>3, <1>10, <1>11, <2>4
      <3> QED BY <1>1, <2>4, <3>1
    <2>5. CASE i > k /\ j < k
      <3>1. j = i - 1
        BY <1>3, <1>10, <1>11, <2>5
      <3> QED BY <1>1, <2>5, <3>1
    <2> QED BY <1>12, <2>1, <2>2, <2>3, <2>4, <2>5
  <1>14. \A i, j \in 1 .. n + 1 : i <= j => f[r[i]] <= f[r[j]]
    <2> SUFFICES ASSUME NEW i \in 1 .. n + 1, NEW j \in 1 .. n + 1, i <= j
                 PROVE  f[r[i]] <= f[r[j]]
      OBVIOUS
    <2>1. f[r[k]] = d /\ k \in Int /\ i \in Int /\ j \in Int /\ d \in Int
      BY <1>1, <1>7, <1>9
    <2>2. CASE i < k /\ j < k
      BY <1>4, <1>10, <2>2
    <2>3. CASE i > k /\ j > k
      <3>1. i - 1 <= j - 1
        BY <2>1
      <3> QED BY <1>4, <1>11, <2>3, <3>1
    <2>4. CASE i <= k /\ j >= k
      <3>1. f[r[i]] <= d /\ f[r[i]] \in Int
        BY <1>6, <1>8, <1>10, <2>1, <2>4
      <3>2. d <= f[r[j]] /\ f[r[j]] \in Int
        BY <1>6, <1>8, <1>11, <2>1, <2>4
      <3> QED BY <2>1, <3>1, <3>2
    <2> QED BY <2>1, <2>2, <2>3, <2>4
  <1>15. \A y \in Timers : f[y] # Off <=> \E i \in 1 .. n + 1 : r[i] = y
    <2> SUFFICES ASSUME NEW y \in Timers
                 PROVE  f[y] # Off <=> \E i \in 1 .. n + 1 : r[i] = y
      OBVIOUS
    <2>1. CASE y = x
      <3>1. f[y] # Off
        BY <1>7, <1>8, <2>1 DEF Off
      <3> QED BY <1>1, <1>9, <2>1, <3>1
    <2>2. CASE y # x
      <3>1. f[y] = e[y]
        BY <1>7, <2>2
      <3>2. ASSUME e[y] # Off
            PROVE  \E i \in 1 .. n + 1 : r[i] = y
        <4>1. PICK i \in 1 .. n : list[i] = y
          BY <1>5, <3>2
        <4>2. CASE i < k
          BY <1>1, <1>10, <4>1, <4>2
        <4>3. CASE ~(i < k)
          <5>1. i + 1 \in 1 .. n + 1 /\ i + 1 > k /\ (i + 1) - 1 = i
            BY <1>1, <4>3
          <5> QED BY <1>11, <4>1, <5>1
        <4> QED BY <4>2, <4>3
      <3>3. ASSUME NEW i \in 1 .. n + 1, r[i] = y
            PROVE  e[y] # Off
        BY <1>5, <1>9, <1>10, <1>11, <1>12, <2>2, <3>3
      <3> QED BY <3>1, <3>2, <3>3
    <2> QED BY <2>1, <2>2
  <1>16. r \in Seq(Timers) /\ Len(r) = n + 1
    BY <1>2
  <1> QED BY <1>13, <1>14, <1>15, <1>16, Zenon DEF TimerList, r, f

\* timer_mod_ns on the list.
LEMMA SetTimerKeepsList ==
  ASSUME expire \in Expiries, TimerList(active_timers, expire),
         NEW x \in Timers, NEW d \in 1 .. MaxDelay, SetTimer(x, d)
  PROVE  expire' \in Expiries /\ TimerList(active_timers', expire')
  <1> DEFINE list == timer_del_locked(active_timers, x)
             e == [expire EXCEPT ![x] = Off]
             n == Len(list)
             L == Later(list, d)
             k == IF L = {} THEN n + 1 ELSE Min(L)
  <1>1. e \in Expiries /\ e[x] = Off /\ \A y \in Timers : y # x => e[y] = expire[y]
    BY LoopAssumption DEF Expiries, Off
  <1>2. TimerList(list, e)
    BY DeleteKeepsList
  <1>3. active_timers' = LinkAt(list, k, x) /\ expire' = [expire EXCEPT ![x] = d]
    BY DEF SetTimer, Sorted
  <1>4. [e EXCEPT ![x] = d] = [expire EXCEPT ![x] = d]
    BY Zenon DEF Expiries
  <1> HIDE DEF list, e
  <1>5. list \in Seq(Timers) /\ n \in Nat
    BY <1>2 DEF TimerList
  <1>6. \A i \in 1 .. n : list[i] \in Timers /\ list[i] # x /\ expire[list[i]] = e[list[i]]
    BY <1>1, <1>2, <1>5 DEF TimerList
  <1>7. L = {i \in 1 .. n : e[list[i]] > d}
    BY <1>5, <1>6 DEF Later
  <1>8. \A i \in 1 .. n : e[list[i]] \in Int
    BY <1>1, <1>6, LoopAssumption DEF Expiries
  <1>9. d \in Int
    BY LoopAssumption
  <1> HIDE DEF L, n
  <1>10. k \in 1 .. n + 1 /\ \A i \in 1 .. n : IF i < k THEN e[list[i]] <= d ELSE d <= e[list[i]]
    <2>1. CASE L = {}
      <3>1. k = n + 1
        BY <2>1
      <3>2. \A i \in 1 .. n : e[list[i]] <= d
        BY <1>7, <1>8, <1>9, <2>1
      <3> HIDE DEF k
      <3> QED BY <1>5, <3>1, <3>2
    <2>2. CASE L # {}
      <3>1. k = Min(L)
        BY <2>2
      <3>2. L \subseteq Nat
        BY <1>5, <1>7
      <3>3. k \in L /\ \A y \in L : k <= y
        BY <2>2, <3>1, <3>2, MinIsLeast, Zenon
      <3> HIDE DEF k
      <3>4. k \in 1 .. n /\ e[list[k]] > d
        BY <1>7, <3>3
      <3>5. ASSUME NEW i \in 1 .. n, i < k
            PROVE  e[list[i]] <= d
        <4>1. i \notin L
          BY <1>5, <3>3, <3>4, <3>5
        <4> QED BY <1>7, <1>8, <1>9, <4>1
      <3>6. ASSUME NEW i \in 1 .. n, ~(i < k)
            PROVE  d <= e[list[i]]
        <4>1. k <= i
          BY <1>5, <3>4, <3>6
        <4>2. e[list[k]] <= e[list[i]]
          BY <1>2, <3>4, <4>1 DEF TimerList, n
        <4> QED BY <1>8, <1>9, <3>4, <4>2
      <3> QED BY <1>5, <3>4, <3>5, <3>6
    <2> QED BY <2>1, <2>2
  <1> HIDE DEF k
  <1>11. TimerList(LinkAt(list, k, x), [e EXCEPT ![x] = d])
    BY <1>1, <1>2, <1>10, LinkKeepsList DEF n
  <1>12. [expire EXCEPT ![x] = d] \in Expiries
    BY LoopAssumption DEF Expiries
  <1> QED BY <1>3, <1>4, <1>11, <1>12 DEF list, e

(***************************************************************************)
(* The inductive invariant.                                                *)
(***************************************************************************)
LoopPoints == {"deadline", "prepare", "compute", "poll", "check", "move", "dequeue", "timers"}
ThreadPoints == {"idle", "insert", "notify", "set", "rearm"}

LoopTypeOK ==
  /\ lat \in LoopPoints
  /\ timeout \in 0 .. Forever
  /\ notify_me \in BOOLEAN
  /\ flags \in [AllBhs -> SUBSET {"PENDING", "SCHEDULED", "IDLE"}]
  /\ bh_list \in Seq(AllBhs) /\ slice \in Seq(AllBhs)
  /\ expire \in Expiries
  /\ tat \in [LoopThreads -> ThreadPoints]
  /\ target \in [LoopThreads -> AllBhs]

In(b, list) == \E i \in 1 .. Len(list) : list[i] = b

\* A bottom half that is marked as pending is in a list, or a thread is about to
\* insert it.
Listed(b) == In(b, bh_list) \/ In(b, slice) \/ \E t \in LoopThreads : tat[t] = "insert" /\ target[t] = b

BhInv(b) ==
  /\ Due(b) => "PENDING" \in flags[b]
  /\ "PENDING" \in flags[b] => Listed(b)

\* The timeout ends no later than the first timer and than the bottom halves.
TimersCovered == \A x \in Timers : expire[x] # Off => timeout <= expire[x]
BhsCovered ==
  \A b \in AllBhs : Due(b) => timeout = 0 \/ ("IDLE" \in flags[b] /\ timeout <= MaxDelay)

\* Before notify_me is set a thread that has changed the deadline has scheduled
\* NotifyBh or will; after it, a thread that has changed anything will set the
\* notifier, if it has not yet.
Rearming == \E t \in LoopThreads : tat[t] = "rearm"
Waking == notifier \/ \E t \in LoopThreads : tat[t] # "idle"

LoopInv ==
  /\ LoopTypeOK
  /\ TimerList(active_timers, expire)
  /\ slice # <<>> => lat = "dequeue"
  /\ lat \in {"compute", "poll"} => notify_me
  /\ \A b \in AllBhs : BhInv(b)
  /\ "IDLE" \notin flags[NotifyBh]
  /\ lat \in {"prepare", "compute"} => TimersCovered \/ Rearming \/ Due(NotifyBh)
  /\ lat = "poll" => Waking \/ (TimersCovered /\ BhsCovered)

\* The invariant is what the property needs.
LEMMA LoopInvSuffices == LoopInv => NeverOversleeps
  BY DEF LoopInv, NeverOversleeps, Waking, TimersCovered, BhsCovered

\* The initial state satisfies it.
LEMMA LoopInitInv == LoopInit => LoopInv
  <1> SUFFICES ASSUME LoopInit
               PROVE  LoopInv
    OBVIOUS
  <1> USE DEF LoopInit
  <1>1. LoopTypeOK
    <2>1. MaxDelay \in Nat
      BY LoopAssumption
    <2>2. bh_list \in Seq(AllBhs) /\ slice \in Seq(AllBhs)
      OBVIOUS
    <2>3. expire \in Expiries
      BY <2>1 DEF Expiries, Off
    <2>4. timeout \in 0 .. Forever
      BY <2>1 DEF Forever
    <2> QED BY <2>2, <2>3, <2>4, Zenon DEF LoopTypeOK, LoopPoints, ThreadPoints, AllBhs
  <1>2. TimerList(active_timers, expire)
    <2>1. active_timers \in Seq(Timers) /\ Len(active_timers) = 0 /\ 1 .. 0 = {}
      OBVIOUS
    <2> QED BY <2>1 DEF TimerList
  <1>3. \A b \in AllBhs : flags[b] = {}
    OBVIOUS
  <1> QED BY <1>1, <1>2, <1>3 DEF LoopInv, BhInv, Due, AllBhs

\* aio_bh_enqueue: from here on the thread is on its way to notify the loop.
LEMMA EnqueueInv ==
  ASSUME LoopInv, NEW t \in LoopThreads, NEW b \in AllBhs, NEW new \in SUBSET {"SCHEDULED", "IDLE"},
         "SCHEDULED" \in new, b = NotifyBh => "IDLE" \notin new,
         tat[t] = "idle" \/ (tat[t] = "rearm" /\ b = NotifyBh),
         Enqueue(t, b, new),
         UNCHANGED <<loopVars, notify_me, notifier, bh_list, expire, active_timers>>
  PROVE  LoopInv'
  <1>1. /\ flags' = [flags EXCEPT ![b] = flags[b] \cup {"PENDING"} \cup new]
        /\ target' = [target EXCEPT ![t] = b]
        /\ tat' = [tat EXCEPT ![t] = IF "PENDING" \in flags[b] THEN "notify" ELSE "insert"]
        /\ UNCHANGED <<lat, timeout, slice, notify_me, notifier, bh_list, expire, active_timers>>
    BY DEF Enqueue, ThreadTo, loopVars
  <1>2. LoopTypeOK /\ NotifyBh \in AllBhs
    BY DEF LoopInv, AllBhs
  <1>3. LoopTypeOK'
    BY <1>1, <1>2, Zenon DEF LoopTypeOK, ThreadPoints
  <1>4. /\ flags'[b] = flags[b] \cup {"PENDING"} \cup new
        /\ \A c \in AllBhs : c # b => flags'[c] = flags[c]
        /\ tat'[t] = (IF "PENDING" \in flags[b] THEN "notify" ELSE "insert") /\ target'[t] = b
        /\ \A u \in LoopThreads : u # t => tat'[u] = tat[u] /\ target'[u] = target[u]
    BY <1>1, <1>2 DEF LoopTypeOK
  <1>5. \A c \in AllBhs : BhInv(c)'
    <2> SUFFICES ASSUME NEW c \in AllBhs
                 PROVE  BhInv(c)'
      OBVIOUS
    <2>1. BhInv(c)
      BY DEF LoopInv
    <2>2. Listed(c) => Listed(c)'
      BY <1>1, <1>4 DEF Listed
    <2>3. CASE c = b
      <3>1. "PENDING" \in flags[b] => Listed(b)'
        BY <2>1, <2>2, <2>3, Zenon DEF BhInv
      <3>2. "PENDING" \notin flags[b] => Listed(b)'
        BY <1>4 DEF Listed
      <3> QED BY <1>4, <2>3, <3>1, <3>2 DEF BhInv
    <2>4. CASE c # b
      BY <1>4, <2>1, <2>2, <2>4, Zenon DEF BhInv, Due
    <2> QED BY <2>3, <2>4
  <1>6. Waking'
    BY <1>4, Zenon DEF Waking
  <1>7. "IDLE" \notin flags'[NotifyBh]
    BY <1>2, <1>4, Zenon DEF LoopInv
  <1>8. TimersCovered \/ Rearming \/ Due(NotifyBh) => (TimersCovered \/ Rearming \/ Due(NotifyBh))'
    <2>1. TimersCovered => TimersCovered'
      BY <1>1 DEF TimersCovered
    <2>2. Due(NotifyBh) => Due(NotifyBh)'
      BY <1>2, <1>4, Zenon DEF Due
    <2>3. Rearming => Rearming' \/ Due(NotifyBh)'
      <3>1. CASE tat[t] = "rearm"
        BY <1>4, <3>1, Zenon DEF Due
      <3>2. CASE tat[t] # "rearm"
        BY <1>4, <3>2 DEF Rearming
      <3> QED BY <3>1, <3>2
    <2> QED BY <2>1, <2>2, <2>3
  <1> QED BY <1>1, <1>3, <1>5, <1>6, <1>7, <1>8 DEF LoopInv

\* A list with an entry before its head, and without it.
LEMMA PushIn ==
  ASSUME NEW list \in Seq(AllBhs), NEW b \in AllBhs
  PROVE  /\ <<b>> \o list \in Seq(AllBhs)
         /\ \A c : c = b \/ In(c, list) => In(c, <<b>> \o list)
  <1> DEFINE n == Len(list)
             r == <<b>> \o list
  <1>1. /\ r \in Seq(AllBhs) /\ Len(r) = 1 + n /\ n \in Nat
        /\ r[1] = b /\ \A i \in 1 .. n : r[i + 1] = list[i]
    OBVIOUS
  <1> HIDE DEF r, n
  <1>2. \A i \in 1 .. n : i + 1 \in 1 .. Len(r)
    BY <1>1
  <1>3. 1 \in 1 .. Len(r)
    BY <1>1
  <1> QED BY <1>1, <1>2, <1>3, Zenon DEF In, r, n

\* aio_bh_dequeue of the first bottom half leaves the others.
LEMMA PopIn ==
  ASSUME NEW list \in Seq(AllBhs), list # <<>>
  PROVE  /\ Tail(list) \in Seq(AllBhs) /\ Head(list) \in AllBhs
         /\ \A c : In(c, list) => c = Head(list) \/ In(c, Tail(list))
  <1>1. Tail(list) \in Seq(AllBhs) /\ Head(list) \in AllBhs /\ Head(list) = list[1]
    OBVIOUS
  <1>2. /\ Len(list) \in Nat /\ Len(Tail(list)) = Len(list) - 1
        /\ \A i \in 1 .. Len(list) - 1 : Tail(list)[i] = list[i + 1]
    OBVIOUS
  <1>3. ASSUME NEW i \in 1 .. Len(list), i # 1
        PROVE  i - 1 \in 1 .. Len(Tail(list)) /\ Tail(list)[i - 1] = list[i]
    <2>1. i - 1 \in 1 .. Len(list) - 1 /\ (i - 1) + 1 = i
      BY <1>2, <1>3
    <2> QED BY <1>2, <2>1
  <1> QED BY <1>1, <1>3 DEF In

\* QSLIST_INSERT_HEAD_ATOMIC, aio_notify and event_notifier_set: the thread goes on
\* until the notifier is set, as notify_me is.
LEMMA WakeInv ==
  ASSUME LoopInv, NEW t \in LoopThreads, Insert(t) \/ Notify(t) \/ SetNotifier(t)
  PROVE  LoopInv'
  <1>1. LoopTypeOK /\ \A b \in AllBhs : BhInv(b)
    BY DEF LoopInv
  <1>2. /\ UNCHANGED <<lat, timeout, slice, notify_me, flags, expire, active_timers>>
        /\ tat[t] \in {"insert", "notify", "set"}
        /\ tat' \in [LoopThreads -> ThreadPoints]
        /\ target' \in [LoopThreads -> AllBhs]
        /\ \A u \in LoopThreads : u # t => tat'[u] = tat[u] /\ target'[u] = target[u]
    <2>1. CASE Insert(t)
      BY <1>1, <2>1 DEF Insert, ThreadTo, loopVars, LoopTypeOK, ThreadPoints
    <2>2. CASE Notify(t)
      BY <1>1, <2>2 DEF Notify, ThreadTo, loopVars, LoopTypeOK, ThreadPoints, AllBhs
    <2>3. CASE SetNotifier(t)
      BY <1>1, <2>3 DEF SetNotifier, ThreadTo, loopVars, LoopTypeOK, ThreadPoints
    <2> QED BY <2>1, <2>2, <2>3, Zenon
  <1>3. /\ bh_list' \in Seq(AllBhs)
        /\ \A b \in AllBhs : In(b, bh_list) \/ (tat[t] = "insert" /\ target[t] = b) => In(b, bh_list')
    <2>1. CASE Insert(t)
      <3>1. bh_list' = <<target[t]>> \o bh_list /\ target[t] \in AllBhs /\ bh_list \in Seq(AllBhs)
        BY <1>1, <2>1 DEF Insert, LoopTypeOK
      <3> QED BY <3>1, PushIn
    <2>2. CASE Notify(t) \/ SetNotifier(t)
      <3>1. bh_list' = bh_list /\ tat[t] # "insert" /\ bh_list \in Seq(AllBhs)
        BY <1>1, <2>2 DEF Notify, SetNotifier, LoopTypeOK
      <3> QED BY <3>1, Zenon
    <2> QED BY <2>1, <2>2, Zenon
  <1>4. LoopTypeOK'
    BY <1>1, <1>2, <1>3 DEF LoopTypeOK
  <1>5. \A b \in AllBhs : BhInv(b)'
    <2> SUFFICES ASSUME NEW b \in AllBhs
                 PROVE  BhInv(b)'
      OBVIOUS
    <2>1. BhInv(b)
      BY <1>1
    <2>2. Listed(b) => Listed(b)'
      <3>1. ASSUME NEW u \in LoopThreads, tat[u] = "insert", target[u] = b
            PROVE  Listed(b)'
        BY <1>2, <1>3, <3>1, Zenon DEF Listed
      <3> QED BY <1>2, <1>3, <3>1, Zenon DEF Listed
    <2> QED BY <1>2, <2>1, <2>2 DEF BhInv, Due
  <1>6. lat = "poll" => Waking'
    <2> SUFFICES ASSUME lat = "poll"
                 PROVE  Waking'
      OBVIOUS
    <2>1. CASE Insert(t)
      BY <1>1, <2>1 DEF Insert, ThreadTo, LoopTypeOK, Waking
    <2>2. CASE Notify(t)
      <3>1. notify_me
        BY DEF LoopInv
      <3> QED BY <1>1, <2>2, <3>1 DEF Notify, ThreadTo, LoopTypeOK, Waking
    <2>3. CASE SetNotifier(t)
      BY <2>3, Zenon DEF SetNotifier, Waking
    <2> QED BY <2>1, <2>2, <2>3
  <1>7. TimersCovered \/ Rearming \/ Due(NotifyBh) => (TimersCovered \/ Rearming \/ Due(NotifyBh))'
    <2>1. Rearming => Rearming'
      BY <1>2, Zenon DEF Rearming
    <2> QED BY <1>2, <2>1 DEF TimersCovered, Due
  <1> QED BY <1>2, <1>4, <1>5, <1>6, <1>7, Zenon DEF LoopInv

\* qemu_bh_cancel: nothing is due that was not.
LEMMA CancelInv ==
  ASSUME LoopInv, NEW t \in LoopThreads, NEW b \in Bhs, qemu_bh_cancel(t, b)
  PROVE  LoopInv'
  <1>1. LoopTypeOK /\ b \in AllBhs /\ NotifyBh \in AllBhs /\ b # NotifyBh
    BY LoopAssumption DEF LoopInv, AllBhs
  <1>2. /\ flags' = [flags EXCEPT ![b] = flags[b] \ {"SCHEDULED"}]
        /\ UNCHANGED <<lat, timeout, slice, tat, target, notify_me, notifier, bh_list, expire, active_timers>>
    BY DEF qemu_bh_cancel, loopVars, threadVars
  <1>3. \A c \in AllBhs : /\ "PENDING" \in flags'[c] <=> "PENDING" \in flags[c]
                          /\ "IDLE" \in flags'[c] <=> "IDLE" \in flags[c]
                          /\ "SCHEDULED" \in flags'[c] => "SCHEDULED" \in flags[c]
                          /\ c # b => flags'[c] = flags[c]
    BY <1>1, <1>2 DEF LoopTypeOK
  <1>4. LoopTypeOK'
    BY <1>1, <1>2 DEF LoopTypeOK
  <1>5. \A c \in AllBhs : BhInv(c)'
    BY <1>2, <1>3 DEF LoopInv, BhInv, Due, Listed
  <1>6. lat = "poll" => (Waking \/ (TimersCovered /\ BhsCovered))'
    BY <1>2, <1>3 DEF LoopInv, Waking, TimersCovered, BhsCovered, Due
  <1>7. lat \in {"prepare", "compute"} => (TimersCovered \/ Rearming \/ Due(NotifyBh))'
    BY <1>1, <1>2, <1>3 DEF LoopInv, TimersCovered, Rearming, Due
  <1> QED BY <1>1, <1>2, <1>3, <1>4, <1>5, <1>6, <1>7 DEF LoopInv

\* timer_mod_ns: a timer that is due before the timeout ends is the new head, and the
\* thread goes on to rearm; behind the head it does not matter.
LEMMA TimerModInv ==
  ASSUME LoopInv, NEW t \in LoopThreads, NEW x \in Timers, NEW d \in 1 .. MaxDelay, timer_mod(t, x, d)
  PROVE  LoopInv'
  <1>1. LoopTypeOK /\ TimerList(active_timers, expire) /\ SetTimer(x, d)
    BY DEF LoopInv, timer_mod
  <1>2. expire' \in Expiries /\ TimerList(active_timers', expire')
    BY <1>1, SetTimerKeepsList DEF LoopTypeOK
  <1>3. /\ UNCHANGED <<lat, timeout, slice, target, notify_me, notifier, flags, bh_list>>
        /\ tat[t] = "idle"
        /\ tat' = [tat EXCEPT ![t] = IF Rearm(x) THEN "rearm" ELSE "idle"]
    BY DEF timer_mod, ThreadTo, loopVars
  <1>4. /\ expire'[x] = d /\ d # Off /\ \A y \in Timers : y # x => expire'[y] = expire[y]
    BY <1>1, LoopAssumption DEF SetTimer, LoopTypeOK, Expiries, Off
  <1>5. LoopTypeOK'
    BY <1>1, <1>2, <1>3 DEF LoopTypeOK, ThreadPoints
  <1>6. /\ \A u \in LoopThreads : u # t => tat'[u] = tat[u]
        /\ IF Rearm(x) THEN tat'[t] = "rearm" ELSE tat'[t] = "idle"
    BY <1>1, <1>3 DEF LoopTypeOK
  <1>7. ~Rearm(x) /\ TimersCovered => TimersCovered'
    <2> SUFFICES ASSUME ~Rearm(x), TimersCovered
                 PROVE  TimersCovered'
      OBVIOUS
    <2> DEFINE y == Head(active_timers')
    <2>1. active_timers' # <<>>
      <3>1. PICK i \in 1 .. Len(active_timers') : active_timers'[i] = x
        BY <1>2, <1>4 DEF TimerList
      <3> QED BY <3>1
    <2>2. y \in Timers /\ expire'[y] # Off /\ expire'[y] <= expire'[x]
      BY <1>2, <1>4, <2>1, HeadIsFirst
    <2>3. y # x
      BY DEF Rearm
    <2>4. timeout <= expire[y] /\ expire'[y] = expire[y]
      BY <1>4, <2>2, <2>3 DEF TimersCovered
    <2>5. timeout <= expire'[x]
      <3>1. timeout \in Int /\ expire'[y] \in Int /\ expire'[x] \in Int
        BY <1>1, <1>2, <2>2, LoopAssumption DEF LoopTypeOK, Expiries, Forever
      <3> QED BY <2>2, <2>4, <3>1
    <2> QED BY <1>3, <1>4, <2>5 DEF TimersCovered
  <1>8. Rearm(x) => Rearming' /\ Waking'
    BY <1>6, Zenon DEF Rearming, Waking
  <1>9. Waking => Waking'
    BY <1>3, <1>6 DEF Waking
  <1>10. Rearming => Rearming'
    BY <1>3, <1>6 DEF Rearming
  <1>11. \A b \in AllBhs : BhInv(b)'
    <2>1. \A b \in AllBhs : Listed(b) => Listed(b)'
      BY <1>3, <1>6 DEF Listed
    <2> QED BY <1>3, <2>1, Zenon DEF LoopInv, BhInv, Due
  <1>12. (BhsCovered => BhsCovered') /\ (Due(NotifyBh) => Due(NotifyBh)')
    BY <1>3 DEF BhsCovered, Due
  <1> QED BY <1>2, <1>3, <1>5, <1>7, <1>8, <1>9, <1>10, <1>11, <1>12 DEF LoopInv

\* Steps that leave timeout and threads alone, and no timer pending that was not.
LEMMA TimersOffInv ==
  ASSUME LoopInv, expire' \in Expiries, TimerList(active_timers', expire'),
         \A x \in Timers : expire'[x] # Off => expire'[x] = expire[x],
         UNCHANGED <<loopVars, threadVars, notify_me, notifier, flags, bh_list>>
  PROVE  LoopInv'
  <1>1. LoopTypeOK'
    BY DEF LoopInv, LoopTypeOK, loopVars, threadVars
  <1>2. TimersCovered => TimersCovered'
    BY DEF TimersCovered, loopVars
  <1>3. \A b \in AllBhs : BhInv(b)'
    BY Zenon DEF LoopInv, BhInv, Due, Listed, loopVars, threadVars
  <1> QED BY <1>1, <1>2, <1>3
          DEF LoopInv, BhsCovered, Due, Rearming, Waking, loopVars, threadVars

\* timer_del.
LEMMA TimerDelInv ==
  ASSUME LoopInv, NEW t \in LoopThreads, NEW x \in Timers, timer_del(t, x)
  PROVE  LoopInv'
  <1>1. expire \in Expiries /\ TimerList(active_timers, expire)
    BY DEF LoopInv, LoopTypeOK
  <1>2. /\ active_timers' = timer_del_locked(active_timers, x) /\ expire' = [expire EXCEPT ![x] = Off]
        /\ UNCHANGED <<loopVars, threadVars, notify_me, notifier, flags, bh_list>>
    BY DEF timer_del
  <1>3. expire' \in Expiries /\ \A y \in Timers : expire'[y] # Off => expire'[y] = expire[y]
    BY <1>1, <1>2, LoopAssumption DEF Expiries, Off
  <1>4. TimerList(active_timers', expire')
    BY <1>1, <1>2, DeleteKeepsList, Zenon
  <1> QED BY <1>2, <1>3, <1>4, TimersOffInv

\* timerlist_run_timers: the head leaves the list.
LEMMA RunTimerInv ==
  ASSUME LoopInv, RunTimer
  PROVE  LoopInv'
  <1> DEFINE x == Head(active_timers)
  <1>1. expire \in Expiries /\ TimerList(active_timers, expire) /\ active_timers # <<>>
    BY DEF LoopInv, LoopTypeOK, RunTimer, Expired
  <1>2. /\ active_timers' = Tail(active_timers) /\ expire' = [expire EXCEPT ![x] = Off]
        /\ UNCHANGED <<loopVars, threadVars, notify_me, notifier, flags, bh_list>>
    BY DEF RunTimer
  <1>3. /\ active_timers \in Seq(Timers) /\ 1 \in 1 .. Len(active_timers) /\ x = active_timers[1]
        /\ x \in Timers
    BY <1>1 DEF TimerList
  <1>4. UnlinkAt(active_timers, 1) = Tail(active_timers)
    <2> DEFINE r == UnlinkAt(active_timers, 1)
               n == Len(active_timers)
    <2>1. /\ r \in Seq(Timers) /\ Len(r) = n - 1
          /\ \A i \in 1 .. n - 1 : r[i] = active_timers[IF i < 1 THEN i ELSE i + 1]
      BY <1>3, UnlinkAtProperties
    <2>2. /\ Tail(active_timers) \in Seq(Timers) /\ Len(Tail(active_timers)) = n - 1
          /\ \A i \in 1 .. n - 1 : Tail(active_timers)[i] = active_timers[i + 1]
      BY <1>1, <1>3
    <2>3. \A i \in 1 .. n - 1 : r[i] = Tail(active_timers)[i]
      BY <2>1, <2>2
    <2> HIDE DEF r, n
    <2> QED BY <2>1, <2>2, <2>3, SeqEqual DEF r
  <1> HIDE DEF x
  <1>5. TimerList(active_timers', expire')
    <2>1. TimerList(UnlinkAt(active_timers, 1), [expire EXCEPT ![active_timers[1]] = Off])
      BY <1>1, <1>3, UnlinkKeepsList
    <2> QED BY <1>2, <1>3, <1>4, <2>1, Zenon
  <1>6. expire' \in Expiries /\ \A y \in Timers : expire'[y] # Off => expire'[y] = expire[y]
    BY <1>1, <1>2, <1>3, LoopAssumption DEF Expiries, Off
  <1> QED BY <1>2, <1>5, <1>6, TimersOffInv

\* The loop's steps that touch neither timers nor threads.
LEMMA LoopKeeps ==
  ASSUME LoopInv, LoopTypeOK', UNCHANGED <<threadVars, expire, active_timers>>,
         slice' # <<>> => lat' = "dequeue",
         lat' \in {"compute", "poll"} => notify_me',
         \A b \in AllBhs : BhInv(b)',
         "IDLE" \notin flags'[NotifyBh],
         lat' \in {"prepare", "compute"} => (TimersCovered \/ Rearming \/ Due(NotifyBh))',
         lat' = "poll" => (Waking \/ (TimersCovered /\ BhsCovered))'
  PROVE  LoopInv'
  BY Zenon DEF LoopInv

\* timerlist_deadline_ns: the head of the list is the first timer.
LEMMA DeadlineInv ==
  ASSUME LoopInv, Deadline
  PROVE  LoopInv'
  <1>1. LoopTypeOK /\ TimerList(active_timers, expire) /\ expire \in Expiries
    BY DEF LoopInv, LoopTypeOK
  <1>2. /\ lat = "deadline" /\ lat' = "prepare"
        /\ timeout' = IF active_timers = <<>> THEN Forever ELSE expire[Head(active_timers)]
        /\ UNCHANGED <<slice, threadVars, notify_me, notifier, flags, bh_list, expire, active_timers>>
    BY DEF Deadline
  <1>3. timeout' \in 0 .. Forever /\ TimersCovered'
    <2>1. MaxDelay \in Nat
      BY LoopAssumption
    <2>2. CASE active_timers = <<>>
      <3>1. \A x \in Timers : expire[x] = Off
        BY <1>1, <2>2, EmptyIsOff
      <3> QED BY <1>2, <2>1, <2>2, <3>1 DEF TimersCovered, Forever
    <2>3. CASE active_timers # <<>>
      <3> DEFINE x == Head(active_timers)
      <3>1. x \in Timers /\ expire[x] # Off /\ \A y \in Timers : expire[y] # Off => expire[x] <= expire[y]
        BY <1>1, <2>3, HeadIsFirst
      <3>2. timeout' = expire[x]
        BY <1>2, <2>3
      <3> HIDE DEF x
      <3>3. expire[x] \in 0 .. Forever
        BY <1>1, <2>1, <3>1 DEF Expiries, Off, Forever
      <3> QED BY <1>2, <3>1, <3>2, <3>3 DEF TimersCovered
    <2> QED BY <2>2, <2>3
  <1>4. LoopTypeOK'
    BY <1>1, <1>2, <1>3 DEF LoopTypeOK, LoopPoints, threadVars
  <1>5. \A b \in AllBhs : BhInv(b)'
    BY <1>2 DEF LoopInv, BhInv, Due, Listed, threadVars
  <1> QED BY <1>2, <1>3, <1>4, <1>5, LoopKeeps, Zenon DEF LoopInv

\* aio_ctx_prepare.
LEMMA PrepareInv ==
  ASSUME LoopInv, Prepare
  PROVE  LoopInv'
  <1>1. /\ lat = "prepare" /\ lat' = "compute" /\ notify_me' = TRUE
        /\ UNCHANGED <<timeout, slice, threadVars, notifier, flags, bh_list, expire, active_timers>>
    BY DEF Prepare
  <1>2. LoopTypeOK'
    BY <1>1 DEF LoopInv, LoopTypeOK, LoopPoints, threadVars
  <1>3. \A b \in AllBhs : BhInv(b)'
    BY <1>1, Zenon DEF LoopInv, BhInv, Due, Listed, threadVars
  <1>4. (TimersCovered \/ Rearming \/ Due(NotifyBh))'
    BY <1>1, Zenon DEF LoopInv, TimersCovered, Rearming, Due, threadVars
  <1> QED BY <1>1, <1>2, <1>3, <1>4, LoopKeeps, Zenon DEF LoopInv

\* The smaller of two timeouts.
LEMMA MinOfTimeouts ==
  \A a, b \in Nat : Min({a, b}) \in Nat /\ Min({a, b}) <= a /\ Min({a, b}) <= b
                    /\ Min({a, b}) \in {a, b}
  <1> SUFFICES ASSUME NEW a \in Nat, NEW b \in Nat
               PROVE  Min({a, b}) \in Nat /\ Min({a, b}) <= a /\ Min({a, b}) <= b
                      /\ Min({a, b}) \in {a, b}
    OBVIOUS
  <1> DEFINE S == {a, b}
  <1>1. S \subseteq Nat /\ S # {}
    OBVIOUS
  <1>2. Min(S) \in S /\ \A y \in S : Min(S) <= y
    BY <1>1, MinIsLeast, Zenon
  <1> QED BY <1>2

\* aio_compute_timeout: every bottom half that is due is in the list, or a thread
\* that will notify the loop is about to insert it; NotifyBh in it ends the timeout.
LEMMA ComputeInv ==
  ASSUME LoopInv, Compute
  PROVE  LoopInv'
  <1> DEFINE due == {i \in DOMAIN bh_list : Due(bh_list[i])}
             now == \E i \in due : "IDLE" \notin flags[bh_list[i]]
             bhTimeout == IF now THEN 0 ELSE IF due # {} THEN MaxDelay ELSE Forever
  <1>1. /\ lat = "compute" /\ lat' = "poll" /\ timeout' = Min({timeout, bhTimeout})
        /\ UNCHANGED <<slice, threadVars, notify_me, notifier, flags, bh_list, expire, active_timers>>
    BY Zenon DEF Compute
  <1>2. LoopTypeOK /\ notify_me /\ slice = <<>> /\ MaxDelay \in Nat /\ bh_list \in Seq(AllBhs)
    BY <1>1, LoopAssumption DEF LoopInv, LoopTypeOK
  <1>3. timeout \in 0 .. Forever /\ bhTimeout \in 0 .. Forever
    BY <1>2 DEF LoopTypeOK, Forever
  <1>4. now => bhTimeout = 0
    OBVIOUS
  <1>5. due # {} => bhTimeout <= MaxDelay
    BY <1>2
  <1>6. \A b \in AllBhs : Due(b) /\ In(b, bh_list) => due # {} /\ ("IDLE" \notin flags[b] => now)
    <2> SUFFICES ASSUME NEW b \in AllBhs, Due(b), In(b, bh_list)
                 PROVE  due # {} /\ ("IDLE" \notin flags[b] => now)
      OBVIOUS
    <2>1. PICK i \in 1 .. Len(bh_list) : bh_list[i] = b
      BY DEF In
    <2>2. i \in due
      BY <1>2, <2>1
    <2> QED BY <2>1, <2>2
  <1> HIDE DEF due, now, bhTimeout
  <1>7. timeout' \in Nat /\ timeout' <= timeout /\ timeout' <= bhTimeout /\ timeout' \in {timeout, bhTimeout}
    <2>1. timeout \in Nat /\ bhTimeout \in Nat
      BY <1>2, <1>3 DEF Forever
    <2> QED BY <1>1, <2>1, MinOfTimeouts
  <1>8. timeout' \in 0 .. Forever
    BY <1>3, <1>7
  <1>9. LoopTypeOK'
    BY <1>1, <1>2, <1>8 DEF LoopTypeOK, LoopPoints, threadVars
  <1>10. \A b \in AllBhs : BhInv(b)'
    BY <1>1 DEF LoopInv, BhInv, Due, Listed, threadVars
  <1>11. Waking' \/ \A b \in AllBhs : Due(b) => In(b, bh_list)
    <2> SUFFICES ASSUME NEW b \in AllBhs, Due(b), ~In(b, bh_list)
                 PROVE  Waking'
      OBVIOUS
    <2>1. ~In(b, slice)
      BY <1>2 DEF In
    <2>2. PICK t \in LoopThreads : tat[t] = "insert"
      BY <2>1 DEF LoopInv, BhInv, Listed
    <2> QED BY <1>1, <2>2 DEF Waking, threadVars
  <1>12. ASSUME \A b \in AllBhs : Due(b) => In(b, bh_list)
         PROVE  BhsCovered'
    <2> SUFFICES ASSUME NEW b \in AllBhs, Due(b)
                 PROVE  timeout' = 0 \/ ("IDLE" \in flags[b] /\ timeout' <= MaxDelay)
      BY <1>1 DEF BhsCovered, Due
    <2>1. due # {} /\ ("IDLE" \notin flags[b] => now)
      BY <1>6, <1>12
    <2>2. CASE "IDLE" \notin flags[b]
      <3>1. bhTimeout = 0
        BY <1>4, <2>1, <2>2
      <3> QED BY <1>7, <3>1
    <2>3. CASE "IDLE" \in flags[b]
      <3>1. timeout' <= MaxDelay
        BY <1>2, <1>3, <1>5, <1>7, <2>1 DEF Forever
      <3> QED BY <2>3, <3>1
    <2> QED BY <2>2, <2>3
  <1>13. ASSUME \A b \in AllBhs : Due(b) => In(b, bh_list)
         PROVE  TimersCovered' \/ Waking'
    <2>1. CASE TimersCovered
      <3> SUFFICES ASSUME NEW x \in Timers, expire[x] # Off
                   PROVE  timeout' <= expire[x]
        BY <1>1 DEF TimersCovered
      <3>1. timeout <= expire[x] /\ expire[x] \in Int /\ timeout \in Int
        BY <1>2, <1>3, <2>1 DEF TimersCovered, LoopTypeOK, Expiries, Forever
      <3> QED BY <1>7, <3>1
    <2>2. CASE Rearming
      BY <1>1, <2>2 DEF Rearming, Waking, threadVars
    <2>3. CASE Due(NotifyBh)
      <3>1. now
        BY <1>6, <1>13, <2>3, Zenon DEF LoopInv, AllBhs
      <3>2. timeout' = 0
        BY <1>4, <1>7, <3>1
      <3>3. \A x \in Timers : expire[x] # Off => 0 <= expire[x]
        BY <1>2 DEF LoopTypeOK, Expiries, Off
      <3> QED BY <1>1, <3>2, <3>3 DEF TimersCovered
    <2> QED BY <1>1, <2>1, <2>2, <2>3, Zenon DEF LoopInv
  <1>14. (Waking \/ (TimersCovered /\ BhsCovered))'
    BY <1>11, <1>12, <1>13
  <1> QED BY <1>1, <1>2, <1>9, <1>10, <1>14, LoopKeeps, Zenon DEF LoopInv

\* qemu_poll_ns returns, aio_ctx_check, QSLIST_MOVE_ATOMIC, the end of aio_dispatch and
\* of the timers: the loop is awake.
LEMMA AwakeInv ==
  ASSUME LoopInv, Poll \/ Check \/ MoveList \/ Handlers \/ TimersDone
  PROVE  LoopInv'
  <1>1. LoopTypeOK /\ MaxDelay \in Nat
    BY LoopAssumption DEF LoopInv
  <1>2. /\ UNCHANGED <<threadVars, flags, expire, active_timers>>
        /\ lat' \in {"check", "move", "dequeue", "timers", "deadline"}
        /\ lat # "dequeue" \/ slice = <<>>
        /\ timeout' \in {timeout, 0}
        /\ notify_me' \in BOOLEAN
        /\ \/ UNCHANGED <<bh_list, slice>>
           \/ slice' = bh_list /\ bh_list' = <<>> /\ lat' = "dequeue"
    <2>1. CASE Poll
      BY <1>1, <2>1 DEF Poll, LoopTypeOK
    <2>2. CASE Check
      BY <1>1, <2>2, Zenon DEF Check, LoopTypeOK
    <2>3. CASE MoveList
      BY <1>1, <2>3 DEF MoveList, LoopTypeOK
    <2>4. CASE Handlers
      BY <1>1, <2>4 DEF Handlers, LoopTypeOK
    <2>5. CASE TimersDone
      BY <1>1, <2>5 DEF TimersDone, LoopTypeOK
    <2> QED BY <2>1, <2>2, <2>3, <2>4, <2>5, Zenon
  <1>3. slice = <<>>
    BY <1>2 DEF LoopInv
  <1>4. bh_list' \in Seq(AllBhs) /\ slice' \in Seq(AllBhs)
    <2>1. <<>> \in Seq(AllBhs)
      OBVIOUS
    <2> QED BY <1>1, <1>2, <2>1, Zenon DEF LoopTypeOK
  <1>5. timeout' \in 0 .. Forever
    BY <1>1, <1>2 DEF LoopTypeOK, Forever
  <1>6. LoopTypeOK'
    BY <1>1, <1>2, <1>4, <1>5 DEF LoopTypeOK, LoopPoints, threadVars
  <1>7. slice' # <<>> => lat' = "dequeue"
    BY <1>2, <1>3
  <1>8. \A b \in AllBhs : BhInv(b)'
    <2> SUFFICES ASSUME NEW b \in AllBhs
                 PROVE  BhInv(b)'
      OBVIOUS
    <2>1. ~In(b, slice)
      BY <1>3 DEF In
    <2>2. Listed(b) => Listed(b)'
      BY <1>2, <2>1, Zenon DEF Listed, threadVars
    <2> QED BY <1>2, <2>2, Zenon DEF LoopInv, BhInv, Due
  <1> QED BY <1>2, <1>6, <1>7, <1>8, LoopKeeps, Zenon DEF LoopInv

\* aio_bh_dequeue: the flags are fetched when the bottom half is off the list, so
\* that none is pending that is not in a list.
LEMMA RunBhInv ==
  ASSUME LoopInv, RunBh
  PROVE  LoopInv'
  <1> DEFINE b == Head(slice)
  <1>1. /\ lat = "dequeue" /\ slice # <<>> /\ slice' = Tail(slice)
        /\ flags' = [flags EXCEPT ![b] = flags[b] \ {"PENDING", "SCHEDULED", "IDLE"}]
        /\ UNCHANGED <<lat, timeout, threadVars, notify_me, notifier, bh_list, expire, active_timers>>
    BY DEF RunBh, Fetched
  <1>2. LoopTypeOK
    BY DEF LoopInv
  <1>3. /\ slice' \in Seq(AllBhs) /\ b \in AllBhs
        /\ \A c : In(c, slice) => c = b \/ In(c, slice')
    BY <1>1, <1>2, PopIn DEF LoopTypeOK
  <1> HIDE DEF b
  <1>4. LoopTypeOK'
    BY <1>1, <1>2, <1>3 DEF LoopTypeOK, threadVars
  <1>5. \A c \in AllBhs : BhInv(c)'
    <2> SUFFICES ASSUME NEW c \in AllBhs
                 PROVE  BhInv(c)'
      OBVIOUS
    <2>1. CASE c = b
      BY <1>1, <1>2, <2>1 DEF BhInv, Due, LoopTypeOK
    <2>2. CASE c # b
      <3>1. flags'[c] = flags[c]
        BY <1>1, <1>2, <2>2 DEF LoopTypeOK
      <3>2. Listed(c) => Listed(c)'
        BY <1>1, <1>3, <2>2 DEF Listed, threadVars
      <3> QED BY <3>1, <3>2 DEF LoopInv, BhInv, Due
    <2> QED BY <2>1, <2>2
  <1>6. "IDLE" \notin flags'[NotifyBh]
    <2>1. NotifyBh \in AllBhs /\ "IDLE" \notin flags[NotifyBh]
      BY DEF LoopInv, AllBhs
    <2> QED BY <1>1, <1>2, <1>3, <2>1 DEF LoopTypeOK
  <1> QED BY <1>1, <1>4, <1>5, <1>6, LoopKeeps, Zenon DEF LoopInv

\* Time passes in poll(): the timeout and what is left of every timer get shorter
\* together.
LEMMA PassTimeInv ==
  ASSUME LoopInv, PassTime
  PROVE  LoopInv'
  <1>1. /\ lat = "poll" /\ ~notifier /\ timeout > 0
        /\ timeout' = IF timeout = Forever THEN Forever ELSE timeout - 1
        /\ expire' = [x \in Timers |-> IF expire[x] > 0 THEN expire[x] - 1 ELSE expire[x]]
        /\ UNCHANGED <<lat, slice, threadVars, notify_me, notifier, flags, bh_list, active_timers>>
    BY DEF PassTime
  <1>2. LoopTypeOK /\ MaxDelay \in Nat /\ TimerList(active_timers, expire)
    BY LoopAssumption DEF LoopInv
  <1>3. timeout \in 0 .. MaxDelay + 1 /\ \A x \in Timers : expire[x] \in -1 .. MaxDelay
    BY <1>2 DEF LoopTypeOK, Forever, Expiries
  <1>4. \A x \in Timers : /\ expire'[x] \in -1 .. MaxDelay
                          /\ expire'[x] # Off <=> expire[x] # Off
    BY <1>1, <1>2, <1>3 DEF Off
  <1>5. \A x, y \in Timers : expire[x] <= expire[y] => expire'[x] <= expire'[y]
    BY <1>1, <1>2, <1>3
  <1>6. expire' \in Expiries
    BY <1>1, <1>4 DEF Expiries
  <1>7. TimerList(active_timers', expire')
    <2>1. active_timers \in Seq(Timers) /\ \A i \in 1 .. Len(active_timers) : active_timers[i] \in Timers
      BY <1>2 DEF TimerList
    <2>2. \A i, j \in 1 .. Len(active_timers) :
            i <= j => expire'[active_timers[i]] <= expire'[active_timers[j]]
      BY <1>2, <1>5, <2>1, Zenon DEF TimerList
    <2> QED BY <1>1, <1>2, <1>4, <2>1, <2>2, Zenon DEF TimerList
  <1>8. timeout' \in 0 .. Forever
    BY <1>1, <1>2, <1>3 DEF Forever
  <1>9. LoopTypeOK'
    BY <1>1, <1>2, <1>6, <1>8 DEF LoopTypeOK, threadVars
  <1>10. \A b \in AllBhs : BhInv(b)'
    BY <1>1, Zenon DEF LoopInv, BhInv, Due, Listed, threadVars
  <1>11. TimersCovered => TimersCovered'
    <2> SUFFICES ASSUME TimersCovered, NEW x \in Timers, expire'[x] # Off
                 PROVE  timeout' <= expire'[x]
      BY DEF TimersCovered
    <2>1. expire[x] # Off /\ timeout <= expire[x]
      BY <1>4 DEF TimersCovered
    <2> QED BY <1>1, <1>2, <1>3, <2>1 DEF Forever, Off
  <1>12. BhsCovered => BhsCovered'
    <2> SUFFICES ASSUME BhsCovered, NEW b \in AllBhs, Due(b)
                 PROVE  timeout' = 0 \/ ("IDLE" \in flags[b] /\ timeout' <= MaxDelay)
      BY <1>1 DEF BhsCovered, Due
    <2>1. timeout # 0
      BY <1>1, <1>3
    <2>2. "IDLE" \in flags[b] /\ timeout <= MaxDelay
      BY <2>1, Zenon DEF BhsCovered
    <2>3. timeout # Forever
      BY <1>2, <1>3, <2>2 DEF Forever
    <2>4. timeout' = timeout - 1
      BY <1>1, <2>3, Zenon
    <2>5. timeout' <= MaxDelay
      BY <1>2, <1>3, <2>2, <2>4
    <2> QED BY <2>2, <2>5
  <1>13. Waking => Waking'
    BY <1>1 DEF Waking, threadVars
  <1> QED BY <1>1, <1>7, <1>9, <1>10, <1>11, <1>12, <1>13, Zenon DEF LoopInv

\* Every step of the loop and of the threads keeps the invariant.
LEMMA LoopStepInv == LoopInv /\ [LoopNext]_mainVars => LoopInv'
  <1> SUFFICES ASSUME LoopInv, [LoopNext]_mainVars
               PROVE  LoopInv'
    OBVIOUS
  <1>1. CASE LoopProgress
    BY <1>1, DeadlineInv, PrepareInv, ComputeInv, AwakeInv, RunBhInv, RunTimerInv DEF LoopProgress
  <1>2. CASE PassTime
    BY <1>2, PassTimeInv
  <1>3. ASSUME NEW t \in LoopThreads, ThreadProgress(t)
        PROVE  LoopInv'
    <2>1. CASE timerlist_rearm(t)
      BY <2>1, EnqueueInv DEF timerlist_rearm, AllBhs
    <2> QED BY <1>3, <2>1, WakeInv DEF ThreadProgress
  <1>4. ASSUME NEW t \in LoopThreads, ThreadRequest(t)
        PROVE  LoopInv'
    <2>1. ASSUME NEW b \in Bhs, qemu_bh_schedule(t, b)
          PROVE  LoopInv'
      <3>1. b \in AllBhs /\ b # NotifyBh
        BY LoopAssumption DEF AllBhs
      <3> QED BY <2>1, <3>1, EnqueueInv DEF qemu_bh_schedule
    <2>2. ASSUME NEW b \in Bhs, qemu_bh_schedule_idle(t, b)
          PROVE  LoopInv'
      <3>1. b \in AllBhs /\ b # NotifyBh
        BY LoopAssumption DEF AllBhs
      <3> QED BY <2>2, <3>1, EnqueueInv DEF qemu_bh_schedule_idle
    <2> QED BY <1>4, <2>1, <2>2, CancelInv, TimerModInv, TimerDelInv DEF ThreadRequest
  <1>5. CASE UNCHANGED mainVars
    BY Zenon, <1>5 DEF mainVars, loopVars, threadVars, LoopInv, LoopTypeOK, BhInv, Due, Listed, TimersCovered,
                BhsCovered, Rearming, Waking
  <1> QED BY <1>1, <1>2, <1>3, <1>4, <1>5 DEF LoopNext

\* The main loop never sleeps through something: while it is in poll() and no thread
\* has still to notify it, the notifier is set or the timeout ends no later than the
\* first timer, and than the bottom halves that are due, for any number of threads,
\* bottom halves and timers.
THEOREM LoopNeverOversleeps == LoopSpec => []NeverOversleeps
  <1>1. LoopSpec => []LoopInv
    BY LoopInitInv, LoopStepInv, PTL DEF LoopSpec
  <1> QED BY <1>1, LoopInvSuffices, PTL
==============================================================================
