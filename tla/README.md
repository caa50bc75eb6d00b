# Verification of NARF's core protocols

NARF is a framekernel: a small trusted frame, kernel services that run as
asynchronous tasks on per-CPU executors, shared-memory rings between them, and
quiescent-state-based reclamation (QSBR) for what they share, and capabilities
that say what a task may do.  This directory
holds TLA+ models of the parts of it where correctness depends on the order in
which CPUs, tasks and interrupt handlers take their steps, TLC runs that check
them on small instances, and TLAPS proofs that hold for every instance.

## 1. Inventory

The repository has some sixty crates.  Most are drivers, bus and firmware code,
file systems, the network stack and the Linux-compatible personality; they are
listed in `PROJECT.json` as not modelled.  The core protocols are these.

| Component | State | Operations | What is hard | What makes it correct |
|---|---|---|---|---|
| SPSC ring, `ipc/src/lib.rs` | `head`, `tail`, `closed`, slots, one waker per side | `try_send`, `try_recv`, `send`/`recv` futures, `try_push`/`try_pop`, drops | two sides without a lock, stale indices, wakers racing with checks, cancellation | FIFO without loss, slots touched in turn, no lost wakeup, nothing leaked |
| MPSC ring, `ipc/src/mpsc_ring.rs` | the same with a `seq` per slot, `producers`, `consumer_gone` | clone, claim loop, `try_recv` with its recheck, futures, drops | racing claims, publication out of order, one waker slot for many producers | the same, and `Closed` only when drained |
| SPMC ring, `ipc/src/spmc_ring.rs` | mirror image | mirror image | one waker slot for many consumers | as MPSC |
| Shared ring, `ipc/src/shared_ring.rs` | u32 indices and a closed word in a shared page | `try_send`, `try_recv`, `close` | wrap-around, peer in another address space | FIFO over the wrap |
| QSBR, `rcu/src/qsbr.rs`, `rcu/src/lib.rs` | global epoch; per CPU: readers, last quiescent epoch, bucket; offload queues | pin, unpin, load, store, retire, report, idle report, drain, advance, sync | scans that are not atomic, interrupts in the middle of a drain, CPUs that sleep, workers that share a wait's nodes | nothing freed under a guard, everything freed once and eventually, `sync` waits for prior readers |
| Reclaim offload, `rcu/src/qsbr.rs`, `frame/src/bare_main.rs` | per worker: a linked list, its `kicked` bit, a work bit, a waker | push, kick, park, take, run | node addresses that come back, coalesced wakes, waits that take the worker's queue | each callback runs once, no batch is stranded |
| Scheduler, `scheduler/src/lib.rs`, `lib/src/deferred_wake.rs` | wake cells; per CPU: run queue, parked storage, two inboxes, halted and resched flags, deferred wakers | wake, park, drain, poll rounds, migrate, steal, halt | a wake between any two looks of the sleeper, one intrusive node per task, stale homes | a woken task is polled, without a timer's help |
| Asynchronous mutex, `lib/src/mutex.rs` | `locked`, the queue of waiters | `lock`, `try_lock`, `try_lock_unqueued`, poll, drop of future and guard | barging, popped futures that are cancelled, changing wakers | one guard, and no waiter is forgotten |
| Capabilities, `capabilities/src/lib.rs`, `scheduler/src/lib.rs`, `abi/src/lib.rs` | object table with epochs, tokens, a table per task and their registry | mint, derive, revoke, install, transfer, look up | checks and installs under different locks, limits, u32 epochs | no amplification, revoked means dead, slot numbers keep their meaning |
| Hazard pointers, sleepable domains, `rcu/src/` | reservations, guard counts | protect, retire, scan | publish-then-validate | nothing freed while reserved |
| Event bus, `event_bus/` | subscriptions, queues | publish, subscribe, poll | overflow policy | delivery as promised |

Components meet as follows.  A task's `send()` or `recv()` parks it with a waker
in the ring; the peer takes the waker and the scheduler polls the task again.
The executor reports a quiescent state after every poll that was not preempted,
advances the epoch once a round, and reports idle before it halts; those calls
drain the CPU's bucket.  A drain hands expired nodes to a worker's queue when the
frame has installed its hook.  Interrupt handlers can retire nodes at any point
at which interrupts are not masked.  Every waker above, those of the rings, of
the mutex and of the reclaim worker, is a wake cell of the scheduler: `SchedWake`
is what entitles the other modules to say that a woken task is polled.  A task's
capability table is owned by its scheduler slot, and the ABI dispatcher resolves
the slots a submission presents in it.

## 2. Modules

| Module | Contents |
|---|---|
| `BoundedChannel` | what a ring promises: a bounded FIFO, as two sequences |
| `SpscRing`, `MCSpscRing`, `SpscRingProofs` | the SPSC ring, its instance, its theorems |
| `MpscRing`, `MCMpscRing`, `MpscRingProofs` | the MPSC ring, its instance, its theorems |
| `Qsbr`, `MCQsbr`, `QsbrProofs`, `QsbrSyncProofs` | QSBR with one cell, the executor, handlers and workers, its instance, its theorems: about readers, and about `sync_until` |
| `CallbackQueue` | what the reclaim offload promises: a set of callbacks, each taken once and run |
| `ReclaimOffload`, `ReclaimOffloadProofs` | one worker's queue, its producers, the waits and the worker, its theorems |
| `SchedWake`, `SchedWakeProofs` | wakes, parking, migration, stealing and the halt, its theorems |
| `Mutex`, `MutexProofs` | the asynchronous mutex, its theorems |
| `CapTable`, `MCCapTable`, `CapTableProofs` | capabilities and the tables of tasks, its instance, its theorems |

`map` in `PROJECT.json` gives the source lines of every definition.  Operators
whose comment begins with "Mutant:" are plausible mistakes, used to test the
properties; no specification refers to them.

### SpscRing

One action is one access to shared memory: the load of `closed`, the load of the
peer's index with the comparison it feeds, the write of the slot, the store of
the own index, the take of a waker under its lock.  `ppc` and `cpc` say which
access is next; `pcall` and `ccall` whether the attempt is a plain call, the
first or the second attempt of a poll, or a `RingTransport` call (whose steps
are the same but for the answer to an empty ring).  `producerWaker` says that a
waker is in the slot and `pawake` that the task has been asked to run; a waker
that a cancelled future left behind stays and causes a spurious wake, as in the
code.  A half is dropped in two steps, and `RingDrop` runs when both are gone.
`sent` and `rcvd` are history.

The source argues with release/acquire pairs.  Each index has one writer, each
hand-over is a release store read by an acquire load, and the waker slots are
locked, so interleaving single accesses is faithful here; weaker orders on
`closed` are not explored.

### MpscRing

As above, with a record per producer handle (`pc`, `call`, `msg`, `pos`).  The
claim loop is `SendLoadTail`, `SendLoadSeq`, `SendCasOk`, `SendCasFail`; the last
is also the spurious failure of `compare_exchange_weak`.  A message enters `sent`
where its position is claimed, which is where the ring linearises sends.
`Clone` is counted, and the last drop wakes the consumer.  `dropped` gives, per
position, what `MpscRing::drop` found there.

### Qsbr

Each CPU runs its executor, the task it polls, or an interrupt handler that
freezes the other two (`retire[c]["irq"]`).  A section under
`without_interrupts` is one step, as is each read of another CPU's cell: the
scan of `min_last_quiescent` and that of `all_cpus_past` are one step per CPU.
`pc` and `op` tell where the CPU is and for whom the drain runs (after the task,
after another task, idle, inside `sync_until`, or its last drain); `reg` holds
the value the running call has read (the epoch, then the minimum), `todo` what is
left to scan, `list` the detached nodes.

The executor's round is: poll the task (or not), poll another, advance the
epoch.  A preempted poll reports nothing and leaves the guard and a half-done
retirement in place; it is resumed on the same CPU.  CPUs in `Sleepers` may
report idle and halt, and need not wake.  `Hook` says whether the reclaim
workers are installed; with them a drain pushes on `queue`, a worker moves the
queue into `batch` and runs one dropper at a time.  `drops[n]` counts how often
node `n` was dropped, `view[c]` is what the guard on `c` has loaded.  Three history
variables say what a `sync_until` on `c` is about: `blockers[c]` the active CPUs that
held a guard when it was called and hold it still, `owed[c]` the nodes that were in
the caller's bucket, `late[c]` whether an inactive CPU came back with a report older
than the epoch the wait opened.

### ReclaimOffload

In `Qsbr` a queue is a set and a worker may take it at any time.  Here the queue
is what the code has, a list linked through its nodes, because the hazard is in
the links: a producer reads the head, links its chain to it and exchanges, while
takers free that head and the allocator hands its address out again.  `next` is
`DeferHdr::next`, `push[p]` a producer's place in `push` and in the hook,
`pc[t]` and `list[t]` a taker's place and private list.  The worker's poll is
`CheckWork`, `InstallWaker`, `RecheckWork`; `runnable` is the executor's debt to
it.  The abstract state of `CallbackQueue` is read off the pointers: `pending` is
what `head` reaches, `batch[t]` what `list[t]` reaches.

### SchedWake

A task is at every moment in one place: a run queue, parked storage, a wake inbox,
a CPU that polls it, or a call that carries it (`frame`).  A call in progress is a
frame with its place in the code, one per CPU in task context and one for an
interrupt on top of it, so that a handler's wake can fall between any two steps of
the executor, of a drain or of another wake on the same CPU.  Wakes are
`flag.swap`, `parked_wake_push` (or the local activation of a synchronous wake)
and the kick of the home CPU or a migration; `enqueue_on` is `EnqueueOwn`,
`EnqueueTest` and, for a task that is not runnable, `ParkInsert` and
`ParkRecheck`, between which `PARKED` stays locked.  A kick (`resched_remote`, or
`resched_remote_force` for the first entry of an inbox) is a step for `NEED_RESCHED`
and a step for the look at `CPU_HALTED` and the IPI, after the push that it announces.
The wakers that interrupts stash are a sequence of at most `MaxPending` per CPU, in
which a task may stand several times, as in the code's array; a waker that finds it
full is dropped.  `pc` follows one executor:
deferred wakers, inbox, nodes, at most as many polls as the run queue held, the
idle checks, the commit to halt.  `run_until_empty` and `run_forever` halt by the
same steps, with interrupts masked from the commit to `sti;hlt;cli`, and are one
here.  Placement policy, affinity and the thresholds of stealing decide only which
CPU is chosen, and are a free choice.

### Mutex

Each operation runs under the inner spin lock and is one step; only the wake is
called after it, from `hand`.  An attempt may be polled at any time with any of
its wakers, as by a task that waits for several things, and a wake counts only if
it is that of the last poll.

### CapTable

`epoch` is the object table; `caps` the typed tokens, which are freely copied and
never disappear; `slots`, `nextBootstrap` and `nextGeneral` the tables.  An
operation that checks and installs under different locks is several steps through
`op`.  `invoke` has no state and is left out.  Presenting a slot with fewer rights
than its entry has, and the type tag that always goes with the object, are
abstracted: what a transfer installs is the entry itself, in the code too.

## 3. Runs

| Run | Result | What it shows |
|---|---|---|
| `spsc` | pass | `SlotSafety`, `NoLeak`, `NoLostWakeup`, the refinement `ImplementsChannel`, and that parked halves resume |
| `mpsc` | pass | `SlotExclusive`, `NoLeak`, `NoLostConsumerWakeup`, `ClosedOnlyWhenDrained`, `ImplementsChannel`, `ConsumerResumes` |
| `mpsc_producer_wake` | violation | a parked producer whose waker another producer displaced |
| `qsbr` | pass | `ReaderProtected`, and `Reclaimed` under fairness although a peer sleeps for good |
| `qsbr_sync` | pass | `ReaderProtected`, `NodesConserved`, `SyncWaitsForReaders`, `SyncLeavesNothingQueued` with handlers, workers and `sync` |
| `qsbr_pin` | violation | a guard on a CPU still marked inactive protects nothing |
| `qsbr_idle_irq` | violation | a retirement between scan and detach on an inactive CPU is freed too early |
| `reclaim_offload` | pass | `OwnedOnce` though addresses are reused, `NodesHaveTaker` and `ParkedWorkerIsWoken` for the two bits and the waker, the refinement `ImplementsCallbackQueue` with its liveness |
| `sched_wake` | pass | `NodeQueuedOnce`, `WakeNotLost`, `NoSleepOverWork` for repeated wakes of one task |
| `sched_steal` | pass | `OneOwner`, and `WokenIsPolled` under fairness, for two tasks that are stolen and migrate |
| `mutex` | pass | `MutualExclusion`, `QueueIsAccurate`, and `RegisteredIsServed` under fairness |
| `cap_table` | pass | `NoAmplification`, `RevokedUntilWrap`, `SlotsNeverReused` |

The violations are the findings of `PROJECT.json`; each names the line and
quotes what the comment or the specification says.  They also bound the passing
runs: `ReaderProtected` speaks of CPUs that take part in grace periods
(`qsbr_pin`), `qsbr` and `qsbr_sync` retire from handlers only on CPUs that do
not sleep (`qsbr_idle_irq`), and in the MPSC ring only the consumer is promised
to resume (`mpsc_producer_wake`).

Bounds.  The rings have two slots and three messages (four in
`mpsc_producer_wake`): the ring fills, drains, and every slot is used again, so
that an index one lap off meets a live slot.  Two payloads tell order apart; the
two MPSC producers send different ones.  QSBR has two CPUs, since a violation
needs one that reads and one that frees, one worker, and three epochs: one in
which a node is retired, one that is opened for it and one beyond.  `qsbr` has
one node, because liveness multiplies the state space, and two CPUs retiring it;
`qsbr_sync` has two, so that one can be in flight from a handler while the other
is in a drain.  `MaxSend` and `MaxEpoch` stop counters that are unbounded in the
code; `Reclaimed` excludes the nodes stamped with the last epoch, for which no
later one can open.

The offload queue has two addresses, so that a chain of two, or two chains of one,
meet while one address is being reused (three addresses pass as well, in 421,795
states).  `sched_wake` has one task, two wakes and interrupts on both CPUs: a second
wake of a task can meet any stage of the first, from either side.  `sched_steal` has
two tasks, the fewest with a surplus to steal, one CPU with interrupts and one wake
beyond those the tasks start with; the safety properties of both runs also hold with
two tasks and two wakes without interrupts (1.4 million states), and with one task,
three wakes, interrupts on one CPU and `MaxPending` 2, where the stash fills with
wakers of the same task (2.0 million).  `MaxPending` is 1 in both runs: `sched_wake`
overflows the stash, and `sched_steal`, with one wake, cannot, which `WokenIsPolled`
needs (section 6).  The mutex has four attempts: a
holder, a popped future, one behind it in the queue, and one that barges; two wakers
make a stale one possible.  Each attempt is used once, so `RegisteredIsServed` is about
finitely many barging `try_lock`s; a waiter that endless ones starve is outside it.
The capability run has a table with one reserved and one
general slot, which two transfers overfill, `EpochMod` 2, so that two revocations wrap
the epoch, and the rights `Read`, `Grant` and `Create`, one of each kind the lattice
tells apart.  Objects and tasks are interchangeable there, which the symmetry uses.

Deadlock is checked for QSBR, the offload queue and the mutex, where something can
always happen or (the mutex) an explicit step marks the end.  The rings may stop:
both users may be content, or the ring is freed.  So may the scheduler, when all
CPUs halt with no wake left to come, and the capabilities, when every bound is
reached.

Fairness.  In the rings, an operation that has begun goes on and a task whose
waker was called is polled: that is what the executor does with a woken slot.
Nobody is obliged to begin, cancel or drop.  In QSBR, executors, handlers and
workers go on (weak fairness); a task that is polled again and again finishes a
retirement it has begun, drops its guard and returns (strong fairness, because
preemption takes it away again and again), which is the documented rule that a
guard does not outlive a poll.  No fairness is assumed of `WakeUp`.
In the offload queue, producers, takers and the worker's polls go on; nobody has to
retire anything.  In the scheduler a CPU that can take a step of its own, a pending
IPI included, takes one; nothing is asked of devices or timers, and the choice
between the steps of one CPU is free, which is why a round polls a bounded number of
tasks.  In the mutex a woken task is polled, a guard is dropped in the end, and a drop
that popped a waker calls it.

## 4. Proofs

`SpscRingProofs` proves, for every capacity `N > 0`, every set of payloads and
every `MaxSend`, that `Spec` implies `[]TypeOK`, `[]SlotSafety`, `[]NoLeak`,
`[]NoLostWakeup` and `ImplementsChannel`.  The only assumption is
`SpscAssumption`.

None of these is inductive.  The invariant `IndInv` adds:

- `IndexInv`: the lengths of `sent` and `rcvd` are the indices, where the
  consumer is one ahead between the take and the store of `tail` (`Taken`); and
  what a half concluded from a stale index stays true while the peer moves on.
- `SlotInv`: slot `i % N` holds `sent[i + 1]` for every `i` in flight, and every
  other slot is uninitialised.  It needs that two indices less than `N` apart
  never share a slot, which is the lemma on `%` the module begins with.
- `FifoInv`, `EndInv`, `CloseInv`: `rcvd` is a prefix of `sent`; what is dropped
  with the ring completes it; `closed` is set by a half that is being dropped.
- `WakeInv`: `NoLostWakeup`, extended back to the registration of the waker: from
  there on either the waker is in the ring or the task was woken, and an attempt
  that fails afterwards proves that the peer has yet to look at the waker.

Each action preserves each conjunct, one step each; the refinement maps every
step to a send, a receive or a stutter.

`QsbrProofs` proves, for any number of CPUs, nodes and workers, with and without
the reclaim hook, that `Spec` implies `[]ReaderProtected` (and `[]TypeOK`).  It
assumes `QsbrAssumption` and `IrqCPUs \cap Sleepers = {}`: no CPU that sleeps
retires from interrupt handlers.  The second is stated in each theorem, since
`ReaderProtected` fails without it (`qsbr_idle_irq`).

The inductive invariant `ReclaimInv` (in `Qsbr`, where TLC has checked it too)
follows a node from the cell to its dropper:

- `LiveInv`: what is unpublished or in the cell has been neither retired nor
  dropped, so a load never finds a node that is on its way out.
- `EpochInv`: no report and no stamp is ahead of the global epoch, so a node is
  stamped with an epoch that no active CPU has passed.
- `ViewInv`: hence a reader's last report is not later than the stamp of any
  retired node it views.  The report that would break this is stored without a
  guard, which is part of `ControlInv`.
- `ScanInv`: once a scan has read the reader's cell its minimum is not later
  either, up to and including the split of the detached list.  Nodes that a
  handler pushes in the middle of a scan are the hard case: they are stamped with
  the current epoch, and the minimum has not passed it because the scan started
  from a report of this CPU.  This is where the proviso enters: an idle CPU may
  start a drain from `u64::MAX`.
- `FreeInv`: so what a drain has let go is viewed by nobody.

There is one lemma per group of actions, with one step per action and, where a
step disturbs several conjuncts, one per conjunct.

`CapTableProofs` proves, for any number of objects, tasks and actors, any sizes
of the reserved region and the tables, and any width of the epochs, that `Spec`
implies `[]TypeOK`, `[]NoAmplification`, `[]RevokedUntilWrap` and
`SlotsNeverReused`, from `CapAssumption` alone.  The inductive invariant `CapInv`
(in `CapTable`, where TLC has checked it too) adds to the types:

- `TokensSound`, `EntriesSound`, `OpsSound`: tokens, entries and the operations in
  progress are all of generation 1 and within the right of the object's first
  capability.  The last is what makes `NoAmplification` inductive: an entry is
  installed some steps after its gate was checked, when the grant may be gone.
  Since nothing is within "none", a sound capability's object is minted already,
  so a later mint cannot change what it is measured against.
- `EpochInv`: the epoch is the number of revocations plus one, modulo its width.
  With generation 1 this gives `RevokedUntilWrap` by two lemmas on `%`.

`SlotsNeverReused` needs the clause of `TypeOK` that an entry lies below a cursor:
both installs write the slot at a cursor, and growth copies what is below it.

`MutexProofs` proves `[]TypeOK`, `[]MutualExclusion` and `[]QueueIsAccurate` for any
sets of attempts and wakers, from `MutexAssumption`.  For the guards, `HoldInv`
needs no fact about the queue, since an attempt that is woken still has to find
`locked` clear.  The types and the accuracy of the queue are inductive together.
`retain` is written without recursion, as the function that lists the kept positions
in order; since no attempt is queued twice, one position at most is missing, and a
lemma on the cardinality of intervals says where each entry ends up (`RetainThins`).
`retain` and `pop_front` then are one case: the new queue is an injective choice of
old entries, none of them of the attempt that takes the step (`ThinStep`).

`QsbrSyncProofs` proves `[]NodesConserved`, `[]SyncWaitsForReaders` and
`[]SyncLeavesNothingQueued`, from the assumptions of `QsbrProofs` and the same
proviso, which they inherit with `ReclaimInv`.  `GraceInv` adds to `ReclaimInv`:

- `LocalInv`: a detached list is empty unless a drain or a take is going on, and a
  retirement that is not going on has no node in hand.
- `HomeInv`: a node is in exactly one place, stated pairwise, since cardinalities do
  not survive a step; `NodesConserved` follows from it once.  Every action either
  leaves a node alone or moves it, and a lemma says what moving does.
- `SyncInv`: a CPU in `blockers` still has readers and is behind the target, since a
  report is only stored without a guard; so the check of `all_cpus_past` stops at it.
- `OwedInv`: a node in `owed` is in the caller's bucket with a stamp before the target,
  in its drain, or released; after the last drain what is still queued is in a queue
  that the visit to the workers has yet to reach.
- `PastInv`: unless `late`, the CPUs the check has passed are past the target, so the
  minimum of the last drain is at least the target and lets every owed node go.

The proviso `late` of `SyncLeavesNothingQueued` came out of this proof: without it
`PastInv` is not inductive, and TLC has the execution (section 6).

`MpscRingProofs` proves `[]TypeOK`, `[]SlotExclusive`, `[]NoLeak`,
`[]NoLostConsumerWakeup`, `[]ClosedOnlyWhenDrained` and `ImplementsChannel` for every
capacity `N > 1`, any finite set of producers, any payloads and every `MaxSend`, from
`MpscAssumption`.  `N > 1` is a hypothesis of each theorem, since with one slot a
published number equals that of a free slot (section 6).  `RingInv` adds:

- `HistInv`: the lengths of `sent` and `rcvd` are `tail` and the messages taken, and
  `tail` stays within `N` of the slots given back (`Given`, which lags `head` by one
  between the store of `head` and that of `seq`).
- `SeqInv`: each of the `N` positions from `Given` on is published, or claimed with a
  producer that has still to publish it, or free, and `seq` tells which.
- `ValInv`: a published position that was not taken holds its message, any other slot
  holds none.
- `ClaimInv`: a claimed position has one producer, and what a producer concluded from
  `seq` before its compare-exchange is still true if that succeeds, because `tail`
  never returns to a value.
- `WakeInv`: from the registration of its waker on, a consumer that found nothing has
  been woken, or a producer that published its slot has yet to wake it.

All but the last hold until the ring is freed; then `NoLeak` says that `dropped`
completes `rcvd`.  In the refinement a successful compare-exchange of `tail` is the
abstract send and the take the abstract receive.

`ReclaimOffloadProofs` proves, for any sets of nodes, producers and waits, `[]TypeOK`,
`[]OwnedOnce`, `[]NodesHaveTaker`, `[]ParkedWorkerIsWoken`, and
`ImplementsQueueSafely`: initial states and steps of `CallbackQueue` (its fairness is
left to TLC).  It assumes `OffloadAssumption` only.  What a pointer reaches is the
least set that contains it and is closed under `next`, so the facts about lists
(prepending a chain, detaching, stepping to the next node, a write outside) are
lemmas about closed sets and need no induction.  `OffloadInv` adds `ChainInv`, what a
producer relies on while it links its chain: the compare-exchange compares the
address its tail points to, so it is harmless that the node there may have been freed
and come back; `ListInv`, no list comes back to itself; and for the two bits `KickInv`,
while `kicked` is set somebody is on the way to clear it, and `ParkInv`.

`SchedWakeProofs` proves `[]TypeOK`, `[]OneOwner`, `[]NodeQueuedOnce`, `[]WakeNotLost`
and `[]NoSleepOverWork` for any number of CPUs, any finite set of tasks, interrupts on
any CPUs and every `MaxWakes` and `MaxPending`, from
`SchedAssumption`.  `SchedInv` adds:

- `CallInv`, `HandInv`: a call in progress has its task and its target.
- `EnqueueInv`, `LockInv`: a call that has written `home` enqueues there, and while
  `PARKED` is locked for the recheck the task stays parked and no other call is in
  that section.  `OneOwner` needs them: every step moves a task from one place to
  another, and leaves its home right.
- `ReadyInv`: what is in a run queue or an inbox has its flag set; only the pick
  clears it.
- `HaltInv`: `halted` is up from the commit to the halt on, and nothing else runs on
  that CPU, so a waker that publishes work and finds it down knows that the sleeper
  has still to look.

A lemma states what each kind of call may change and the proofs of the five parts
use it instead of the actions' text.

Only model-checked are the liveness properties (`ProducerResumes`, `ConsumerResumes`,
`Reclaimed`, `WokenIsPolled`, `RegisteredIsServed`, the fairness of `CallbackQueue`),
since TLAPS does not treat fairness and `ENABLED`.

## 5. Not modelled, and the plan

Of the modelled parts: `SyncFuture` (the awaiting form of `sync_until`), the
installation of the reclaim hook while nodes are in flight, stall counters,
`Atomic::drop`, migration of a preempted task to another CPU, and preemption inside
`sync_until`; in the scheduler, timers and the 2 ms backstop of the halt (`WokenIsPolled`
shows that nothing here needs them), CPU budgets, direct handoff, task exit, hotplug,
the halts of machines without a reliable tick, and the order of the run queues;
`Cap::invoke`.  Memory is sequentially consistent throughout.  The hazards these leave
open are listed in `PROJECT.json` with a note.

Of the rest: the shared ring's peer is user code; the SPMC ring mirrors the MPSC ring;
hazard domains have no user besides tests.  Drivers, file systems, the network stack,
the Linux personality and the memory manager are each larger than all of the above and
would be projects of their own.

Every invariant and every action property that a passing run checks is a theorem.
Next, in this order:

1. `NodesConserved` without the proviso on handlers and sleepers: it does not depend on
   the order of epochs, only `ReclaimInv`, from which it is proved, does.
2. Preemption inside `sync_until`, and `SyncFuture`, with the invariants of section 4.
3. The SPMC ring, whose consumers share one waker slot.

## 6. Other divergences met while modelling

The first four and the dropped waker were seen as TLC counterexamples, the others follow from the lines
named; no property above assumes them away.

- `Consumer::try_recv` (`ipc/src/lib.rs:508`) loads `head`, finds the ring empty and
  only then loads `closed`.  A producer that sends and is dropped in between makes it
  answer `Closed` with a message in the ring, although the comment at 501-502 says that
  "`Closed` is only reported once the ring has drained".  The MPSC ring rechecks.
- `MpscRing` with `N = 1`, which `POW2_GUARD` accepts (`ipc/src/mpsc_ring.rs:88`): the
  sequence number of a published slot is that of a slot free for the next position, and
  the next `try_send` writes over the unread message.
- `sync_until` (`rcu/src/qsbr.rs:630`) returns true while a worker that had detached its
  queue has not run this wait's nodes, although 626-628 says that "`sync` promises they
  are dropped".  `SyncLeavesNothingQueued` allows for exactly that.
- `report_quiescent` reads `GLOBAL_EPOCH` (`rcu/src/qsbr.rs:147`) and stores it later
  (154).  A CPU whose cell is still `u64::MAX` can do the two around another CPU's
  `sync_until`: its check takes the sentinel for past the target, the store puts the
  older epoch there, the minimum of the last drain (628) stays at the stamp of the
  caller's node, and the node is in the bucket when true is returned, although 239-240
  says that the waits "keep their "dropped on return" contract" and
  `rcu/specification/spec.md:308-309` "so everything retired before the wait has been
  dropped".  The node is dropped by later reports.  It takes three CPUs: the caller, one
  that is active, and the one that comes back (one node, two epochs, no handlers,
  sleepers or hook); with two, `qsbr_sync` does not meet it.  The theorem excludes it by
  `late`.
- The mutex does not serve "FIFO" (`lib/src/mutex.rs:53`): `try_lock` and a fresh
  `lock()` may take a mutex that a release left free for the future it woke, and that
  future then registers at the back.  Nothing bounds how often that happens to one
  waiter; `RegisteredIsServed` shows that it is served once the barging ends.
- A waker that finds the 64 slots of its CPU's deferred-wake queue taken is dropped
  (`lib/src/deferred_wake.rs:87-97`), and wakers of one task take a slot each.  The
  module's comment calls that "recoverable — the next timer tick re-fires the
  still-pending wheel slot" (13-14), but no timer re-fires what input
  (`input/src/lib.rs:961`, `input/src/evdev.rs:648`) and power
  (`power/src/orderly.rs:112`, `power/src/service.rs:483`) stash: those wakers were
  taken out of their slots.  With one CPU, two tasks, two deferred wakes and
  `MaxPending` 1, TLC finds `WokenIsPolled` violated; with `MaxPending` 2 it holds.
- A capability of an object that was revoked 2^32 times is live again
  (`capabilities/src/lib.rs:550`), and a token that is itself revoked still bumps the
  epoch (365); `RevokedUntilWrap` says what is left.
- `HazardDomain::scan` (`rcu/src/hazard.rs:396-406`) reads the hazard slots before it
  locks the retire list, so a node that is protected and then retired in between is
  freed under its guard, against 462-465.
