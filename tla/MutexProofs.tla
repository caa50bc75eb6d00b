---------------------------- MODULE MutexProofs ----------------------------
(***************************************************************************)
(* Mutual exclusion of the asynchronous mutex and the accuracy of its      *)
(* queue, for any number of attempts.  Who may hold it does not depend on  *)
(* the queue, only on `locked': every way in goes through a test of it     *)
(* under the inner lock, and only a guard clears it.  The queue is thinned *)
(* (retain, pop_front), refreshed or appended to, and each of these keeps  *)
(* its entries apart.                                                      *)
(***************************************************************************)
EXTENDS Mutex, TLAPS, FiniteSetTheorems

\* The inductive invariant: the types it needs, and the property.
HoldInv ==
    /\ locked \in BOOLEAN /\ at \in [Attempt -> Places]
    /\ MutualExclusion

(***************************************************************************)
(* An attempt that finds the mutex free takes it (try_lock,                *)
(* try_lock_unqueued and a poll).                                          *)
(***************************************************************************)
LEMMA TakeStep ==
    ASSUME HoldInv, NEW a \in Attempt, ~locked, locked' = TRUE,
           at' = [at EXCEPT ![a] = "holding"]
    PROVE  HoldInv'
  <1>1. \A b \in Attempt : at[b] # "holding"
    BY DEF HoldInv, MutualExclusion
  <1>2. at'[a] = "holding" /\ \A b \in Attempt : b # a => at'[b] # "holding"
    BY <1>1 DEF HoldInv
  <1>3. at' \in [Attempt -> Places]
    BY DEF HoldInv, Places
  <1> QED BY <1>2, <1>3 DEF HoldInv, MutualExclusion

(***************************************************************************)
(* A step of an attempt that does not hold the mutex and does not take it. *)
(***************************************************************************)
LEMMA AsideStep ==
    ASSUME HoldInv, NEW a \in Attempt, NEW p \in Places \ {"holding"}, at[a] # "holding",
           UNCHANGED locked, at' = [at EXCEPT ![a] = p]
    PROVE  HoldInv'
  <1>1. \A b \in Attempt : at'[b] = "holding" <=> at[b] = "holding"
    BY DEF HoldInv
  <1>2. at' \in [Attempt -> Places]
    BY DEF HoldInv
  <1> QED BY <1>1, <1>2 DEF HoldInv, MutualExclusion

(***************************************************************************)
(* The guard is dropped.                                                   *)
(***************************************************************************)
LEMMA ReleaseStep ==
    ASSUME HoldInv, NEW a \in Attempt, Release(a)
    PROVE  HoldInv'
  <1>1. PICK p \in Places \ {"holding"} : at' = [at EXCEPT ![a] = p]
    BY DEF Release, PopAndWake, Places
  <1>2. at[a] = "holding" /\ locked' = FALSE
    BY DEF Release
  <1>3. \A b \in Attempt : at'[b] # "holding"
    BY <1>1, <1>2 DEF HoldInv, MutualExclusion
  <1>4. at' \in [Attempt -> Places]
    BY <1>1 DEF HoldInv
  <1> QED BY <1>2, <1>3, <1>4 DEF HoldInv, MutualExclusion

(***************************************************************************)
(* Every step keeps HoldInv.                                               *)
(***************************************************************************)
LEMMA Step ==
    ASSUME HoldInv, [Next]_vars
    PROVE  HoldInv'
  <1>1. ASSUME NEW a \in Attempt, TryLock(a) \/ TryLockUnqueued(a) \/ \E w \in Waker : PollReady(a, w)
        PROVE  HoldInv'
    <2>1. ~locked /\ locked' = TRUE /\ at' = [at EXCEPT ![a] = "holding"]
      BY <1>1 DEF TryLock, TryLockUnqueued, PollReady
    <2> QED BY <2>1, TakeStep
  <1>2. ASSUME NEW a \in Attempt,
               Lock(a) \/ TryFails(a) \/ Wake(a) \/ Cancel(a) \/ \E w \in Waker : PollPending(a, w)
        PROVE  HoldInv'
    <2>1. at[a] # "holding" /\ UNCHANGED locked
      BY <1>2 DEF Lock, TryFails, Wake, Cancel, PollPending, Polled
    <2>2. PICK p \in Places \ {"holding"} : at' = [at EXCEPT ![a] = p]
      BY <1>2 DEF Lock, TryFails, Wake, Cancel, PollPending, PopAndWake, Places
    <2> QED BY <2>1, <2>2, AsideStep
  <1>3. ASSUME NEW a \in Attempt, Release(a)
        PROVE  HoldInv'
    BY <1>3, ReleaseStep
  <1>4. CASE UNCHANGED vars
    BY <1>4 DEF HoldInv, MutualExclusion, vars
  <1> QED BY <1>1, <1>2, <1>3, <1>4 DEF Next, Poll, Finished

(***************************************************************************)
(* At most one MutexGuard exists, and the mutex counts as held exactly     *)
(* while one does, for any number of lock, try_lock and cancelled futures. *)
(***************************************************************************)
THEOREM MutualExclusionHolds == Spec => []MutualExclusion
  <1>1. Init => HoldInv
    BY DEF Init, HoldInv, MutualExclusion, Places
  <1>2. HoldInv /\ [Next]_vars => HoldInv'
    BY Step
  <1>3. HoldInv => MutualExclusion
    BY DEF HoldInv
  <1> QED BY <1>1, <1>2, <1>3, PTL DEF Spec

----------------------------------------------------------------------------

Distinct == \A i, j \in DOMAIN waiters : waiters[i].who = waiters[j].who => i = j

\* q holds entries of the queue, each at most once, and none of attempt a.
Thinned(q, a) ==
    /\ q \in Seq(Entry)
    /\ \E f \in [DOMAIN q -> DOMAIN waiters] :
          /\ \A k \in DOMAIN q : q[k] = waiters[f[k]] /\ waiters[f[k]].who # a
          /\ \A j, k \in DOMAIN q : f[j] = f[k] => j = k

\* How many positions up to i are left of an interval without h.
LEMMA CountWithout ==
    ASSUME NEW h \in Nat, NEW i \in Nat
    PROVE  /\ IsFiniteSet((1..i) \ {h})
           /\ Cardinality((1..i) \ {h}) = IF h \in 1..i THEN i - 1 ELSE i
  <1>1. IsFiniteSet(1..i) /\ Cardinality(1..i) = i
    BY FS_Interval
  <1>2. /\ IsFiniteSet((1..i) \ {h})
        /\ Cardinality((1..i) \ {h}) = IF h \in 1..i THEN Cardinality(1..i) - 1 ELSE Cardinality(1..i)
    BY <1>1, FS_RemoveElement
  <1> QED BY <1>1, <1>2

\* retain removes the one entry of an attempt, or nothing.
LEMMA RetainThins ==
    ASSUME waiters \in Seq(Entry), Distinct, NEW a \in Attempt
    PROVE  Thinned(Without(a), a)
  <1> DEFINE n == Len(waiters)
             kept == {i \in DOMAIN waiters : waiters[i].who # a}
             upto(i) == {j \in kept : j <= i}
             nth(k) == CHOOSE i \in kept : Cardinality(upto(i)) = k
             src(h, k) == IF k < h THEN k ELSE k + 1
  <1>1. n \in Nat /\ DOMAIN waiters = 1..n /\ waiters \in [1..n -> Entry]
    OBVIOUS
  <1>2. PICK h \in 0..(n + 1) : kept = (1..n) \ {h} /\ h # 0
    <2>1. CASE Queued(a)
      <3>1. PICK h \in 1..n : waiters[h].who = a
        BY <1>1, <2>1 DEF Queued
      <3>2. kept = (1..n) \ {h}
        BY <1>1, <3>1 DEF Distinct
      <3> QED BY <1>1, <3>1, <3>2
    <2>2. CASE ~Queued(a)
      <3>1. kept = (1..n) \ {n + 1}
        BY <1>1, <2>2 DEF Queued
      <3> QED BY <1>1, <3>1
    <2> QED BY <2>1, <2>2
  <1> DEFINE m == IF h <= n THEN n - 1 ELSE n
  <1> HIDE DEF kept
  <1>h. h \in Nat \ {0}
    BY <1>1, <1>2
  <1>3. Cardinality(kept) = m /\ m \in Nat
    <2>1. Cardinality((1..n) \ {h}) = IF h \in 1..n THEN n - 1 ELSE n
      BY <1>1, <1>h, CountWithout
    <2>2. (h \in 1..n) <=> h <= n
      BY <1>1, <1>h
    <2>3. Cardinality(kept) = m
      BY <1>2, <2>1, <2>2
    <2> QED BY <1>1, <1>h, <2>3
  <1>4. ASSUME NEW i \in kept PROVE Cardinality(upto(i)) = IF h < i THEN i - 1 ELSE i
    <2>1. i \in 1..n /\ i # h /\ upto(i) = (1..i) \ {h}
      BY <1>1, <1>2
    <2>2. Cardinality((1..i) \ {h}) = IF h \in 1..i THEN i - 1 ELSE i
      <3>1. i \in Nat
        BY <1>1, <2>1
      <3> QED BY <1>h, <3>1, CountWithout
    <2>3. (h \in 1..i) <=> h < i
      BY <1>1, <1>h, <2>1
    <2> QED BY <2>1, <2>2, <2>3
  <1>5. ASSUME NEW k \in 1..m PROVE nth(k) = src(h, k) /\ src(h, k) \in kept
    <2>1. src(h, k) \in kept
      BY <1>1, <1>2
    <2>2. Cardinality(upto(src(h, k))) = k
      BY <1>1, <1>2, <1>4, <2>1
    <2>3. \A i \in kept : Cardinality(upto(i)) = k => i = src(h, k)
      BY <1>1, <1>2, <1>4
    <2> HIDE DEF upto, src
    <2> QED BY <2>1, <2>2, <2>3
  <1>6. Without(a) = [k \in 1..m |-> waiters[nth(k)]]
    BY <1>3 DEF Without, kept
  <1> HIDE DEF nth, m
  <1>7. Without(a) = [k \in 1..m |-> waiters[src(h, k)]]
    BY <1>5, <1>6
  <1>8. \A k \in 1..m : src(h, k) \in 1..n /\ waiters[src(h, k)].who # a
    BY <1>1, <1>5 DEF kept
  <1>9. Without(a) \in Seq(Entry) /\ DOMAIN Without(a) = 1..m
    BY <1>1, <1>3, <1>7, <1>8
  <1>10. \A j, k \in 1..m : src(h, j) = src(h, k) => j = k
    BY <1>2, <1>3
  <1> HIDE DEF src
  <1> DEFINE f == [k \in 1..m |-> src(h, k)]
  <1>11. f \in [DOMAIN Without(a) -> DOMAIN waiters]
    BY <1>1, <1>8, <1>9
  <1>12. \A k \in 1..m : f[k] = src(h, k) /\ Without(a)[k] = waiters[f[k]]
    BY <1>7
  <1> HIDE DEF f
  <1>13. \A k \in 1..m : Without(a)[k] = waiters[f[k]] /\ waiters[f[k]].who # a
    BY <1>8, <1>12
  <1>14. \A j, k \in 1..m : f[j] = f[k] => j = k
    BY <1>10, <1>12
  <1> DEFINE q == Without(a)
  <1>15. q \in Seq(Entry) /\ f \in [DOMAIN q -> DOMAIN waiters]
    BY <1>9, <1>11
  <1>16. /\ \A k \in DOMAIN q : q[k] = waiters[f[k]] /\ waiters[f[k]].who # a
         /\ \A j, k \in DOMAIN q : f[j] = f[k] => j = k
    BY <1>9, <1>13, <1>14
  <1> HIDE DEF q
  <1>17. Thinned(q, a)
    BY <1>15, <1>16 DEF Thinned
  <1> QED BY <1>17 DEF q

\* Popping the front entry, when the queue has none of attempt a.
LEMMA PopThins ==
    ASSUME waiters \in Seq(Entry), NEW a \in Attempt, ~Queued(a), waiters # <<>>
    PROVE  Thinned(Tail(waiters), a) /\ Head(waiters) \in Entry
  <1> DEFINE q == Tail(waiters)
             f == [k \in DOMAIN q |-> k + 1]
  <1>1. Len(waiters) \in Nat \ {0} /\ DOMAIN waiters = 1..Len(waiters)
    OBVIOUS
  <1>2. q \in Seq(Entry) /\ DOMAIN q = 1..(Len(waiters) - 1)
    BY <1>1
  <1>3. \A k \in DOMAIN q : q[k] = waiters[k + 1]
    BY <1>1, <1>2
  <1>4. f \in [DOMAIN q -> DOMAIN waiters]
    BY <1>1, <1>2
  <1>5. \A k \in DOMAIN q : q[k] = waiters[f[k]] /\ waiters[f[k]].who # a
    BY <1>1, <1>2, <1>3, <1>4 DEF Queued
  <1>6. \A j, k \in DOMAIN q : f[j] = f[k] => j = k
    BY <1>2
  <1> HIDE DEF f
  <1>7. Thinned(q, a)
    <2> HIDE DEF q
    <2> QED BY <1>2, <1>4, <1>5, <1>6 DEF Thinned
  <1>8. Head(waiters) \in Entry
    BY <1>1
  <1> QED BY <1>7, <1>8

----------------------------------------------------------------------------

\* The inductive invariant for the queue.
QueueInv == TypeOK /\ QueueIsAccurate

\* An attempt that is not registered is not in the queue.
LEMMA OnlyRegistered ==
    ASSUME QueueInv, NEW a \in Attempt, at[a] # "registered"
    PROVE  ~Queued(a)
  BY DEF QueueInv, QueueIsAccurate, Queued

\* A step of attempt a that leaves in the queue entries of other attempts.
LEMMA ThinStep ==
    ASSUME QueueInv, NEW a \in Attempt, Thinned(waiters', a), TypeOK',
           \A b \in Attempt : b # a => at'[b] = at[b] /\ last'[b] = last[b]
    PROVE  QueueInv'
  <1>1. PICK f \in [DOMAIN waiters' -> DOMAIN waiters] :
           /\ \A k \in DOMAIN waiters' : waiters'[k] = waiters[f[k]] /\ waiters[f[k]].who # a
           /\ \A j, k \in DOMAIN waiters' : f[j] = f[k] => j = k
    BY DEF Thinned
  <1>2. \A i \in DOMAIN waiters : waiters[i].who \in Attempt
    <2>1. \A i \in DOMAIN waiters : waiters[i] \in Entry
      BY DEF QueueInv, TypeOK
    <2> QED BY <2>1 DEF Entry
  <1>3. \A j, k \in DOMAIN waiters' : waiters'[j].who = waiters'[k].who => j = k
    BY <1>1 DEF QueueInv, QueueIsAccurate
  <1>4. ASSUME NEW k \in DOMAIN waiters'
        PROVE  at'[waiters'[k].who] = "registered" /\ last'[waiters'[k].who] = waiters'[k].waker
    <2>1. f[k] \in DOMAIN waiters /\ waiters'[k] = waiters[f[k]] /\ waiters'[k].who # a
      BY <1>1
    <2>2. at[waiters'[k].who] = "registered" /\ last[waiters'[k].who] = waiters'[k].waker
      BY <2>1 DEF QueueInv, QueueIsAccurate
    <2> QED BY <1>2, <2>1, <2>2
  <1> QED BY <1>3, <1>4 DEF QueueInv, QueueIsAccurate

\* The queue as it is, when it has no entry of a.
LEMMA SameThins ==
    ASSUME waiters \in Seq(Entry), NEW a \in Attempt, ~Queued(a)
    PROVE  Thinned(waiters, a)
  <1> DEFINE f == [k \in DOMAIN waiters |-> k]
  <1>1. f \in [DOMAIN waiters -> DOMAIN waiters]
    OBVIOUS
  <1>2. \A k \in DOMAIN waiters : f[k] = k /\ waiters[k].who # a
    BY DEF Queued
  <1> QED BY <1>1, <1>2 DEF Thinned

\* What a drop pops, it hands to the wake, and it pops nothing of its own.
LEMMA PopStep ==
    ASSUME QueueInv, NEW a \in Attempt, ~Queued(a), at[a] # "waking",
           PopAndWake(a, waiters), UNCHANGED <<last, runnable>>, locked' \in BOOLEAN
    PROVE  QueueInv'
  <1>1. waiters \in Seq(Entry) /\ at \in [Attempt -> Places] /\ hand \in [Attempt -> Entry \cup {None}]
    BY DEF QueueInv, TypeOK
  <1>2. CASE waiters = <<>>
    <2>1. waiters' = waiters /\ hand' = hand /\ at' = [at EXCEPT ![a] = "done"]
      BY <1>2 DEF PopAndWake
    <2>2. TypeOK'
      BY <2>1 DEF QueueInv, TypeOK, Places
    <2>3. Thinned(waiters', a)
      BY <1>1, <2>1, SameThins
    <2>4. \A b \in Attempt : b # a => at'[b] = at[b] /\ last'[b] = last[b]
      BY <1>1, <2>1
    <2> QED BY <2>2, <2>3, <2>4, ThinStep
  <1>3. CASE waiters # <<>>
    <2>1. waiters' = Tail(waiters) /\ hand' = [hand EXCEPT ![a] = Head(waiters)]
          /\ at' = [at EXCEPT ![a] = "waking"]
      BY <1>3 DEF PopAndWake
    <2>2. Thinned(waiters', a) /\ Head(waiters) \in Entry
      BY <1>1, <1>3, <2>1, PopThins
    <2>3. Head(waiters) # None
      BY <2>2, MutexAssumption DEF Entry
    <2>4. TypeOK'
      <3>1. at' \in [Attempt -> Places] /\ hand' \in [Attempt -> Entry \cup {None}]
        BY <1>1, <2>1, <2>2 DEF Places
      <3>2. \A b \in Attempt : at'[b] = "waking" <=> hand'[b] # None
        BY <1>1, <2>1, <2>3 DEF QueueInv, TypeOK
      <3>3. waiters' \in Seq(Entry)
        BY <2>2 DEF Thinned
      <3> QED BY <3>1, <3>2, <3>3 DEF QueueInv, TypeOK
    <2>5. \A b \in Attempt : b # a => at'[b] = at[b] /\ last'[b] = last[b]
      BY <1>1, <2>1
    <2> QED BY <2>2, <2>4, <2>5, ThinStep
  <1> QED BY <1>2, <1>3

\* A poll that finds the mutex held: the entry is refreshed, or appended.
LEMMA PendingStep ==
    ASSUME QueueInv, NEW a \in Attempt, NEW w \in Waker, PollPending(a, w)
    PROVE  QueueInv'
  <1>1. /\ at[a] \in {"new", "registered"} /\ at' = [at EXCEPT ![a] = "registered"]
        /\ last' = [last EXCEPT ![a] = w] /\ runnable' = [runnable EXCEPT ![a] = FALSE]
        /\ UNCHANGED <<hand, locked>>
    BY DEF PollPending, Polled
  <1>2. /\ waiters \in Seq(Entry) /\ at \in [Attempt -> Places]
        /\ last \in [Attempt -> Waker \cup {None}] /\ runnable \in [Attempt -> BOOLEAN]
    BY DEF QueueInv, TypeOK
  <1>3. /\ at' \in [Attempt -> Places] /\ last' \in [Attempt -> Waker \cup {None}]
        /\ runnable' \in [Attempt -> BOOLEAN]
        /\ \A b \in Attempt : at'[b] = "waking" <=> hand'[b] # None
    BY <1>1, <1>2 DEF QueueInv, TypeOK, Places
  <1>4. \A i \in DOMAIN waiters : waiters[i] \in Entry
    BY <1>2
  <1>5. CASE Queued(a)
    <2> DEFINE fresh(i) == IF waiters[i].who = a THEN [waiters[i] EXCEPT !.waker = w] ELSE waiters[i]
    <2>1. waiters' = [i \in DOMAIN waiters |-> fresh(i)]
      BY <1>5 DEF PollPending
    <2>2. \A i \in DOMAIN waiters :
             /\ fresh(i) \in Entry /\ fresh(i).who = waiters[i].who
             /\ fresh(i).waker = IF waiters[i].who = a THEN w ELSE waiters[i].waker
      BY <1>4 DEF Entry
    <2> HIDE DEF fresh
    <2>3. waiters' \in Seq(Entry) /\ DOMAIN waiters' = DOMAIN waiters
      BY <1>2, <2>1, <2>2
    <2>4. \A i \in DOMAIN waiters : waiters'[i] = fresh(i)
      BY <2>1
    <2>5. \A i, j \in DOMAIN waiters' : waiters'[i].who = waiters'[j].who => i = j
      BY <2>2, <2>3, <2>4 DEF QueueInv, QueueIsAccurate
    <2>6. ASSUME NEW i \in DOMAIN waiters'
          PROVE  at'[waiters'[i].who] = "registered" /\ last'[waiters'[i].who] = waiters'[i].waker
      <3>1. waiters[i].who \in Attempt
        BY <1>4, <2>3 DEF Entry
      <3>2. at[waiters[i].who] = "registered" /\ last[waiters[i].who] = waiters[i].waker
        BY <2>3 DEF QueueInv, QueueIsAccurate
      <3>3. waiters'[i].who = waiters[i].who
            /\ waiters'[i].waker = IF waiters[i].who = a THEN w ELSE waiters[i].waker
        BY <2>2, <2>3, <2>4
      <3> QED BY <1>1, <1>2, <3>1, <3>2, <3>3
    <2> QED BY <1>1, <1>3, <2>3, <2>5, <2>6 DEF QueueInv, TypeOK, QueueIsAccurate
  <1>6. CASE ~Queued(a)
    <2> DEFINE e == [who |-> a, waker |-> w]
               n == Len(waiters)
    <2>1. waiters' = Append(waiters, e) /\ e \in Entry
      BY <1>6 DEF PollPending, Entry
    <2>2. /\ n \in Nat /\ DOMAIN waiters = 1..n /\ DOMAIN waiters' = 1..(n + 1)
          /\ waiters' \in Seq(Entry)
          /\ waiters'[n + 1] = e /\ \A i \in 1..n : waiters'[i] = waiters[i]
      BY <1>2, <2>1
    <2>3. e.who = a /\ e.waker = w
      OBVIOUS
    <2> HIDE DEF e, n
    <2>4. \A i \in 1..n : waiters[i].who # a /\ waiters[i].who \in Attempt
      BY <1>4, <1>6, <2>2 DEF Queued, Entry
    <2>5. \A i, j \in DOMAIN waiters' : waiters'[i].who = waiters'[j].who => i = j
      BY <2>2, <2>3, <2>4 DEF QueueInv, QueueIsAccurate
    <2>6. ASSUME NEW i \in DOMAIN waiters'
          PROVE  at'[waiters'[i].who] = "registered" /\ last'[waiters'[i].who] = waiters'[i].waker
      <3>1. CASE i = n + 1
        BY <1>1, <1>2, <2>2, <2>3, <3>1
      <3>2. CASE i \in 1..n
        <4>1. at[waiters[i].who] = "registered" /\ last[waiters[i].who] = waiters[i].waker
          BY <2>2, <3>2 DEF QueueInv, QueueIsAccurate
        <4> QED BY <1>1, <1>2, <2>2, <2>4, <3>2, <4>1
      <3> QED BY <2>2, <3>1, <3>2
    <2> QED BY <1>1, <1>3, <2>2, <2>5, <2>6 DEF QueueInv, TypeOK, QueueIsAccurate
  <1> QED BY <1>5, <1>6

\* A step of an attempt outside the queue that leaves the queue alone.
LEMMA OutsideStep ==
    ASSUME QueueInv, NEW a \in Attempt, at[a] # "registered", UNCHANGED <<waiters, last>>,
           NEW p \in Places, at' = [at EXCEPT ![a] = p], TypeOK'
    PROVE  QueueInv'
  <1>1. ~Queued(a)
    BY OnlyRegistered
  <1>2. Thinned(waiters, a)
    BY <1>1, SameThins DEF QueueInv, TypeOK
  <1>3. \A b \in Attempt : b # a => at'[b] = at[b] /\ last'[b] = last[b]
    BY DEF QueueInv, TypeOK
  <1>4. Thinned(waiters', a)
    BY <1>2
  <1> QED BY <1>3, <1>4, ThinStep

\* A step after which the queue is without a: a poll that takes the mutex, or
\* the drop of a future.
LEMMA RetainStep ==
    ASSUME QueueInv, NEW a \in Attempt, at[a] \in {"new", "registered"}, waiters' = Without(a),
           NEW p \in Places \ {"waking"}, at' = [at EXCEPT ![a] = p], UNCHANGED hand,
           NEW w \in Waker \cup {None}, last' = [last EXCEPT ![a] = w],
           runnable' \in [Attempt -> BOOLEAN], locked' \in BOOLEAN
    PROVE  QueueInv'
  <1>1. Thinned(Without(a), a)
    BY RetainThins DEF QueueInv, TypeOK, QueueIsAccurate, Distinct
  <1>2. Thinned(waiters', a) /\ waiters' \in Seq(Entry)
    BY <1>1 DEF Thinned
  <1>3. TypeOK'
    BY <1>2 DEF QueueInv, TypeOK
  <1>4. \A b \in Attempt : b # a => at'[b] = at[b] /\ last'[b] = last[b]
    BY DEF QueueInv, TypeOK
  <1> QED BY <1>2, <1>3, <1>4, ThinStep

(***************************************************************************)
(* Every step keeps QueueInv.                                              *)
(***************************************************************************)
LEMMA QueueStep ==
    ASSUME QueueInv, [Next]_vars
    PROVE  QueueInv'
  <1>1. ASSUME NEW a \in Attempt, Lock(a)
        PROVE  QueueInv'
    <2>1. TypeOK'
      BY <1>1 DEF QueueInv, TypeOK, Lock, Places
    <2> QED BY <1>1, <2>1, OutsideStep DEF Lock, Places
  <1>2. ASSUME NEW a \in Attempt, TryLock(a) \/ TryLockUnqueued(a)
        PROVE  QueueInv'
    <2>1. /\ at[a] = "start" /\ locked' = TRUE /\ at' = [at EXCEPT ![a] = "holding"]
          /\ UNCHANGED <<waiters, last, runnable, hand>>
      BY <1>2 DEF TryLock, TryLockUnqueued
    <2>2. TypeOK'
      BY <2>1 DEF QueueInv, TypeOK, Places
    <2> QED BY <2>1, <2>2, OutsideStep DEF Places
  <1>3. ASSUME NEW a \in Attempt, TryFails(a)
        PROVE  QueueInv'
    <2>1. TypeOK'
      BY <1>3 DEF QueueInv, TypeOK, TryFails, Places
    <2> QED BY <1>3, <2>1, OutsideStep DEF TryFails, Places
  <1>4. ASSUME NEW a \in Attempt, Wake(a)
        PROVE  QueueInv'
    <2>1. TypeOK'
      <3>1. runnable' \in [Attempt -> BOOLEAN]
        BY <1>4 DEF Wake
      <3>2. at' \in [Attempt -> Places] /\ hand' \in [Attempt -> Entry \cup {None}]
        BY <1>4 DEF QueueInv, TypeOK, Wake, Places
      <3>3. \A b \in Attempt : at'[b] = "waking" <=> hand'[b] # None
        BY <1>4 DEF QueueInv, TypeOK, Wake
      <3> QED BY <1>4, <3>1, <3>2, <3>3 DEF QueueInv, TypeOK, Wake
    <2> QED BY <1>4, <2>1, OutsideStep DEF Wake, Places
  <1>5. ASSUME NEW a \in Attempt, NEW w \in Waker, PollReady(a, w)
        PROVE  QueueInv'
    <2>1. /\ at[a] \in {"new", "registered"} /\ waiters' = Without(a)
          /\ at' = [at EXCEPT ![a] = "holding"] /\ last' = [last EXCEPT ![a] = w]
          /\ runnable' = [runnable EXCEPT ![a] = FALSE] /\ UNCHANGED hand /\ locked' = TRUE
      BY <1>5 DEF PollReady, Polled
    <2>2. runnable' \in [Attempt -> BOOLEAN]
      BY <2>1 DEF QueueInv, TypeOK
    <2> QED BY <2>1, <2>2, RetainStep DEF Places
  <1>6. ASSUME NEW a \in Attempt, NEW w \in Waker, PollPending(a, w)
        PROVE  QueueInv'
    BY <1>6, PendingStep
  <1>7. ASSUME NEW a \in Attempt, Cancel(a)
        PROVE  QueueInv'
    <2>1. at[a] \in {"new", "registered"} /\ UNCHANGED <<locked, last, runnable>>
      BY <1>7 DEF Cancel
    <2>2. locked' \in BOOLEAN /\ runnable' \in [Attempt -> BOOLEAN]
      BY <2>1 DEF QueueInv, TypeOK
    <2>3. CASE at[a] = "registered" /\ ~Queued(a) /\ ~locked
      BY <1>7, <2>1, <2>2, <2>3, PopStep DEF Cancel
    <2>4. CASE ~(at[a] = "registered" /\ ~Queued(a) /\ ~locked)
      <3>1. waiters' = Without(a) /\ UNCHANGED hand /\ at' = [at EXCEPT ![a] = "done"]
        BY <1>7, <2>4 DEF Cancel
      <3>2. last[a] \in Waker \cup {None} /\ last' = [last EXCEPT ![a] = last[a]]
        BY <2>1 DEF QueueInv, TypeOK
      <3> QED BY <2>1, <2>2, <3>1, <3>2, RetainStep DEF Places
    <2> QED BY <2>3, <2>4
  <1>8. ASSUME NEW a \in Attempt, Release(a)
        PROVE  QueueInv'
    <2>1. at[a] = "holding" /\ ~Queued(a)
      BY <1>8, OnlyRegistered DEF Release
    <2> QED BY <1>8, <2>1, PopStep DEF Release
  <1>9. CASE UNCHANGED vars
    BY <1>9 DEF QueueInv, TypeOK, QueueIsAccurate, vars
  <1> QED BY <1>1, <1>2, <1>3, <1>4, <1>5, <1>6, <1>7, <1>8, <1>9 DEF Next, Poll, Finished

(***************************************************************************)
(* QueueInv holds in every state.                                          *)
(***************************************************************************)
THEOREM QueueInvariance == Spec => []QueueInv
  <1>1. Init => QueueInv
    <2> SUFFICES ASSUME Init PROVE QueueInv
      OBVIOUS
    <2>1. waiters = <<>> /\ waiters \in Seq(Entry) /\ DOMAIN waiters = {}
      BY DEF Init
    <2>2. QueueIsAccurate
      BY <2>1 DEF QueueIsAccurate
    <2>3. TypeOK
      BY <2>1 DEF Init, TypeOK, Places
    <2> QED BY <2>2, <2>3 DEF QueueInv
  <1>2. QueueInv /\ [Next]_vars => QueueInv'
    BY QueueStep
  <1> QED BY <1>1, <1>2, PTL DEF Spec

(***************************************************************************)
(* The types of MutexInner, its futures and guards.                        *)
(***************************************************************************)
THEOREM TypeCorrect == Spec => []TypeOK
  <1>1. QueueInv => TypeOK
    BY DEF QueueInv
  <1> QED BY <1>1, QueueInvariance, PTL

(***************************************************************************)
(* No future is queued twice, none that completed or was dropped is, and   *)
(* an entry has the waker of its future's last poll, however polls,        *)
(* releases, barging try_locks and drops of futures follow each other.     *)
(***************************************************************************)
THEOREM QueueIsAccurateHolds == Spec => []QueueIsAccurate
  <1>1. QueueInv => QueueIsAccurate
    BY DEF QueueInv
  <1> QED BY <1>1, QueueInvariance, PTL

=============================================================================
