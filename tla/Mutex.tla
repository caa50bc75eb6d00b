------------------------------- MODULE Mutex -------------------------------
(***************************************************************************)
(* The asynchronous mutex of lib/src/mutex.rs.  Every operation runs under *)
(* the inner spin lock and is one step, except that a waker popped off the *)
(* queue is called after that lock is released.  Each attempt to take the  *)
(* mutex is used once: it is a call of lock(), whose future is polled,     *)
(* woken and perhaps dropped, or of try_lock() or try_lock_unqueued().  An *)
(* attempt stands for its waiter id too, which is never given out twice.   *)
(***************************************************************************)
EXTENDS Integers, Sequences, FiniteSets

CONSTANTS Attempt,
          Waker,    \* the wakers one task may be polled with
          None

ASSUME MutexAssumption == None \notin [who : Attempt, waker : Waker]

VARIABLES locked, waiters,  \* MutexInner
          at,               \* where each attempt stands
          last,             \* the waker of the future's last poll
          runnable,         \* the executor has been told to poll the future
          hand              \* the entry a drop has popped and has still to wake

vars == <<locked, waiters, at, last, runnable, hand>>

Places == {"start", "new", "registered", "holding", "waking", "done"}
Entry == [who : Attempt, waker : Waker]

TypeOK ==
    /\ locked \in BOOLEAN /\ waiters \in Seq(Entry)
    /\ at \in [Attempt -> Places] /\ last \in [Attempt -> Waker \cup {None}]
    /\ runnable \in [Attempt -> BOOLEAN] /\ hand \in [Attempt -> Entry \cup {None}]
    /\ \A a \in Attempt : at[a] = "waking" <=> hand[a] # None

Init ==
    /\ locked = FALSE /\ waiters = <<>>
    /\ at = [a \in Attempt |-> "start"] /\ last = [a \in Attempt |-> None]
    /\ runnable = [a \in Attempt |-> FALSE] /\ hand = [a \in Attempt |-> None]

Queued(a) == \E i \in DOMAIN waiters : waiters[i].who = a

\* waiters.retain(): the entries of the other attempts, in their order.
Without(a) ==
    LET kept == {i \in DOMAIN waiters : waiters[i].who # a}
    IN  [k \in 1..Cardinality(kept) |->
            waiters[CHOOSE i \in kept : Cardinality({j \in kept : j <= i}) = k]]

----------------------------------------------------------------------------

\* Mutex::lock() makes the future; its task polls it right away.
Lock(a) ==
    /\ at[a] = "start"
    /\ at' = [at EXCEPT ![a] = "new"] /\ runnable' = [runnable EXCEPT ![a] = TRUE]
    /\ UNCHANGED <<locked, waiters, last, hand>>

\* try_lock(), and try_lock_unqueued(), which gives way to queued waiters.
TryLock(a) ==
    /\ at[a] = "start" /\ ~locked
    /\ locked' = TRUE /\ at' = [at EXCEPT ![a] = "holding"]
    /\ UNCHANGED <<waiters, last, runnable, hand>>

TryLockUnqueued(a) ==
    /\ at[a] = "start" /\ ~locked /\ waiters = <<>>
    /\ locked' = TRUE /\ at' = [at EXCEPT ![a] = "holding"]
    /\ UNCHANGED <<waiters, last, runnable, hand>>

\* A try_lock() or try_lock_unqueued() that returns None.
TryFails(a) ==
    /\ at[a] = "start" /\ (locked \/ waiters # <<>>)
    /\ at' = [at EXCEPT ![a] = "done"]
    /\ UNCHANGED <<locked, waiters, last, runnable, hand>>

\* A poll with waker w.  The executor polls a future that was woken, and may
\* poll it at any other time because its task waits for something else too.
Polled(a, w) ==
    /\ at[a] \in {"new", "registered"}
    /\ last' = [last EXCEPT ![a] = w] /\ runnable' = [runnable EXCEPT ![a] = FALSE]
    /\ UNCHANGED hand

\* Mutant: the entry is left in the queue.
PollReadyKeepEntry(a, w) ==
    /\ Polled(a, w) /\ ~locked
    /\ locked' = TRUE /\ at' = [at EXCEPT ![a] = "holding"]
    /\ UNCHANGED waiters

PollReady(a, w) ==
    /\ Polled(a, w) /\ ~locked
    /\ locked' = TRUE /\ at' = [at EXCEPT ![a] = "holding"]
    /\ waiters' = Without(a)

\* Mutant: a future that has registered once does not register again.
RefreshOnly(a, w) ==
    /\ Polled(a, w) /\ locked
    /\ at' = [at EXCEPT ![a] = "registered"]
    /\ waiters' = IF at[a] = "registered"
                  THEN [i \in DOMAIN waiters |-> IF waiters[i].who = a
                                                 THEN [waiters[i] EXCEPT !.waker = w] ELSE waiters[i]]
                  ELSE Append(waiters, [who |-> a, waker |-> w])
    /\ UNCHANGED locked

\* The mutex is held: a future that is not in the queue (it never was, or a
\* release popped it and the lock was taken by another) goes to the back.
PollPending(a, w) ==
    /\ Polled(a, w) /\ locked
    /\ at' = [at EXCEPT ![a] = "registered"]
    /\ waiters' = IF Queued(a)
                  THEN [i \in DOMAIN waiters |-> IF waiters[i].who = a
                                                 THEN [waiters[i] EXCEPT !.waker = w] ELSE waiters[i]]
                  ELSE Append(waiters, [who |-> a, waker |-> w])
    /\ UNCHANGED locked

\* Popping the front entry: the inner lock is dropped before the waker runs.
PopAndWake(a, queue) ==
    IF queue = <<>>
    THEN /\ waiters' = queue /\ hand' = hand /\ at' = [at EXCEPT ![a] = "done"]
    ELSE /\ waiters' = Tail(queue) /\ hand' = [hand EXCEPT ![a] = Head(queue)]
         /\ at' = [at EXCEPT ![a] = "waking"]

\* Mutant: a popped future that is dropped does not hand its wake on.
CancelSilently(a) ==
    /\ at[a] \in {"new", "registered"}
    /\ waiters' = Without(a) /\ hand' = hand /\ at' = [at EXCEPT ![a] = "done"]
    /\ UNCHANGED <<locked, last, runnable>>

\* LockFuture::drop before completion.  A future that was popped has had a
\* wake spent on it, which it hands on unless the mutex is held again.
Cancel(a) ==
    /\ at[a] \in {"new", "registered"}
    /\ IF at[a] = "registered" /\ ~Queued(a) /\ ~locked
       THEN PopAndWake(a, waiters)
       ELSE waiters' = Without(a) /\ hand' = hand /\ at' = [at EXCEPT ![a] = "done"]
    /\ UNCHANGED <<locked, last, runnable>>

\* Mutant: the mutex stays held on behalf of the future that is woken.
ReleaseHandsOver(a) ==
    /\ at[a] = "holding"
    /\ locked' = (waiters # <<>>)
    /\ PopAndWake(a, waiters)
    /\ UNCHANGED <<last, runnable>>

\* Mutant: the drop pops the front waker and returns without calling it.
ReleaseForgetsWake(a) ==
    /\ at[a] = "holding"
    /\ locked' = FALSE /\ at' = [at EXCEPT ![a] = "done"]
    /\ IF waiters = <<>> THEN UNCHANGED <<waiters, hand>>
       ELSE waiters' = Tail(waiters) /\ hand' = [hand EXCEPT ![a] = Head(waiters)]
    /\ UNCHANGED <<last, runnable>>

\* MutexGuard::drop.
Release(a) ==
    /\ at[a] = "holding"
    /\ locked' = FALSE
    /\ PopAndWake(a, waiters)
    /\ UNCHANGED <<last, runnable>>

\* Waker::wake() reaches the task if it is the waker of the task's last poll.
Wake(a) ==
    /\ at[a] = "waking"
    /\ runnable' = [f \in Attempt |-> runnable[f] \/ (f = hand[a].who /\ last[f] = hand[a].waker)]
    /\ hand' = [hand EXCEPT ![a] = None] /\ at' = [at EXCEPT ![a] = "done"]
    /\ UNCHANGED <<locked, waiters, last>>

Poll(a) == \E w \in Waker : PollReady(a, w) \/ PollPending(a, w)

\* Every attempt has ended.
Finished == (\A a \in Attempt : at[a] = "done") /\ UNCHANGED vars

Next ==
    \/ \E a \in Attempt : \/ Lock(a) \/ TryLock(a) \/ TryLockUnqueued(a) \/ TryFails(a)
                          \/ Poll(a) \/ Cancel(a) \/ Release(a) \/ Wake(a)
    \/ Finished

\* A task that was woken is polled, a guard is dropped in the end, and the
\* drop that popped a waker goes on to call it.
Fairness ==
    \A a \in Attempt : /\ WF_vars(runnable[a] /\ Poll(a))
                       /\ WF_vars(Release(a)) /\ WF_vars(Wake(a))

Spec == Init /\ [][Next]_vars /\ Fairness

----------------------------------------------------------------------------

\* At most one guard exists, and the mutex counts as held exactly while one
\* does: no sequence of releases, barging try_locks, cancelled futures and
\* repeated polls lets a second task in or leaves the mutex held by nobody.
MutualExclusion ==
    /\ locked <=> \E a \in Attempt : at[a] = "holding"
    /\ \A a, b \in Attempt : at[a] = "holding" /\ at[b] = "holding" => a = b

\* The queue holds no future twice and none that was dropped or completed,
\* and each entry the waker its future was last polled with, so that the wake
\* a release spends on the front entry is never spent in vain.
QueueIsAccurate ==
    /\ \A i, j \in DOMAIN waiters : waiters[i].who = waiters[j].who => i = j
    /\ \A i \in DOMAIN waiters : /\ at[waiters[i].who] = "registered"
                                 /\ last[waiters[i].who] = waiters[i].waker

\* Every future that registered gets the mutex or is dropped, whichever other
\* futures are cancelled after a release popped them (LockFuture::drop hands
\* the wake on) and whoever barges in with try_lock() in between.  An attempt is
\* used once, so that barging ends: the mutex is not fair, and a future that
\* endless try_lock()s starve is outside this property.
RegisteredIsServed ==
    \A a \in Attempt : at[a] = "registered" ~> at[a] \in {"holding", "waking", "done"}

=============================================================================
