-------------------------------- MODULE Qsbr --------------------------------
(***************************************************************************)
(* The quiescent-state-based reclamation of rcu/src/qsbr.rs, with one      *)
(* Atomic<T> cell of rcu/src/lib.rs on top of it and the executor that     *)
(* drives it (scheduler/src/lib.rs) around it.                             *)
(*                                                                         *)
(* Each CPU runs one execution context at a time: its executor, the task   *)
(* the executor polls, or an interrupt handler that freezes the other two. *)
(* A stretch under without_interrupts() is one step, and so is every       *)
(* access to memory that another CPU writes.  One task on each CPU reads   *)
(* and writes the cell; the CPU's other tasks only make it pass quiescent  *)
(* points.  A preempted task is resumed on the CPU it was preempted on.    *)
(***************************************************************************)
EXTENDS Integers, FiniteSets

CONSTANTS CPU, Node, Null,
          Worker,      \* reclaim workers, each with an offload queue
          WorkerOf,    \* CPU modulo the number of workers
          Writers,     \* CPUs whose task publishes and retires
          Sleepers,    \* CPUs that run out of work and halt
          IrqCPUs,     \* CPUs on which interrupt handlers retire nodes
          Syncers,     \* CPUs on which a task waits for a grace period
          Hook,        \* whether set_reclaim_offload has installed the workers
          FirstNode,   \* the node Atomic::new published
          Inactive,    \* u64::MAX, a CPU that takes no part
          MaxEpoch     \* bound: the last epoch that is ever opened

ASSUME QsbrAssumption ==
    /\ MaxEpoch \in Nat \ {0} /\ Inactive \in Nat /\ Inactive > MaxEpoch
    /\ WorkerOf \in [CPU -> Worker]
    /\ Writers \subseteq CPU /\ Sleepers \subseteq CPU
    /\ IrqCPUs \subseteq CPU /\ Syncers \subseteq CPU
    /\ Hook \in BOOLEAN /\ FirstNode \in Node /\ Null \notin Node

VARIABLES epoch,                 \* GLOBAL_EPOCH
          readers, lastQ, bucket,  \* CpuCell: active_readers, last_quiescent, bucket
          stamp,                 \* DeferHdr::epoch
          cell, fresh,           \* the cell, and the nodes not published yet
          view,                  \* what the task's guard has loaded
          retire,                \* a node on its way to the bucket, per context
          preempted,             \* the task was switched out in the middle of a poll
          pc, op, reg, todo, list,  \* the running call and its locals
          target,       \* a sync() under way and its target epoch
          queue, batch,          \* offload queues; what each worker has taken off
          drops,                 \* how often each node's dropper has run
          blockers, owed,        \* history: a sync's prior readers, its own nodes,
          late                   \* and whether a CPU came back behind its target

cellVars == <<cell, fresh>>
callVars == <<pc, op, reg, todo, list>>
syncVars == <<target, blockers, owed, late>>
offVars  == <<queue, batch>>
vars == <<epoch, readers, lastQ, bucket, stamp, cellVars, view, retire, preempted, callVars,
          syncVars, offVars, drops>>

Contexts == {"task", "irq"}
PCs == {"round", "idle", "poll", "others", "end", "report", "report_store", "scan", "split",
        "drop", "idle_store", "halted", "sync_check", "sync_take"}
Ops == {"report", "other", "idle", "sync", "final", "take"}

NotRetiring == [at |-> "none", node |-> Null]

TypeOK ==
    /\ epoch \in 1..MaxEpoch
    /\ readers \in [CPU -> Nat]
    /\ lastQ \in [CPU -> 1..MaxEpoch \cup {Inactive}]
    /\ bucket \in [CPU -> SUBSET Node] /\ stamp \in [Node -> 0..MaxEpoch]
    /\ cell \in Node \cup {Null} /\ fresh \subseteq Node
    /\ view \in [CPU -> Node \cup {Null}]
    /\ retire \in [CPU -> [Contexts -> [at : {"none", "epoch", "push"}, node : Node \cup {Null}]]]
    /\ preempted \in [CPU -> BOOLEAN]
    /\ pc \in [CPU -> PCs] /\ op \in [CPU -> Ops]
    /\ reg \in [CPU -> 0..MaxEpoch \cup {Inactive}]
    /\ todo \in [CPU -> SUBSET (CPU \cup Worker)] /\ list \in [CPU -> SUBSET Node]
    /\ target \in [CPU -> 0..MaxEpoch]
    /\ queue \in [Worker -> SUBSET Node] /\ batch \in [Worker -> SUBSET Node]
    /\ drops \in [Node -> Nat]
    /\ blockers \in [CPU -> SUBSET CPU] /\ owed \in [CPU -> SUBSET Node]
    /\ late \in [CPU -> BOOLEAN]

\* The cells of CPUs that have reported q.
StartAt(q) ==
    /\ epoch = 1
    /\ readers = [c \in CPU |-> 0] /\ lastQ = [c \in CPU |-> q]
    /\ bucket = [c \in CPU |-> {}] /\ stamp = [n \in Node |-> 0]
    /\ cell = FirstNode /\ fresh = Node \ {FirstNode}
    /\ view = [c \in CPU |-> Null]
    /\ retire = [c \in CPU |-> [x \in Contexts |-> NotRetiring]]
    /\ preempted = [c \in CPU |-> FALSE]
    /\ pc = [c \in CPU |-> "round"] /\ op = [c \in CPU |-> "report"]
    /\ reg = [c \in CPU |-> 0] /\ todo = [c \in CPU |-> {}] /\ list = [c \in CPU |-> {}]
    /\ target = [c \in CPU |-> 0]
    /\ queue = [w \in Worker |-> {}] /\ batch = [w \in Worker |-> {}]
    /\ drops = [n \in Node |-> 0]
    /\ blockers = [c \in CPU |-> {}] /\ owed = [c \in CPU |-> {}]
    /\ late = [c \in CPU |-> FALSE]

\* Mutant: every CPU starts at epoch 0 instead of outside all grace periods.
InitAtZero == StartAt(0)

Init == StartAt(Inactive)

\* An interrupt handler freezes whatever its CPU was doing.
Running(c) == retire[c]["irq"].at = "none"
At(c, label) == Running(c) /\ pc[c] = label
Goto(c, label) == pc' = [pc EXCEPT ![c] = label]

\* The task is being polled and is not inside retire_node().
InTask(c) == At(c, "poll") /\ retire[c]["task"].at = "none"

-----------------------------------------------------------------------------
(* Readers: pin(), Atomic::load, and the drop of a ReadGuard *)

\* The count goes up; last_quiescent is left as it is.
Pin(c) ==
    /\ InTask(c) /\ readers[c] = 0
    /\ readers' = [readers EXCEPT ![c] = @ + 1]
    /\ UNCHANGED <<epoch, lastQ, bucket, stamp, cellVars, view, retire, callVars, syncVars,
                   offVars, drops, preempted>>

Load(c) ==
    /\ InTask(c) /\ readers[c] > 0
    /\ view' = [view EXCEPT ![c] = cell]
    /\ UNCHANGED <<epoch, readers, lastQ, bucket, stamp, cellVars, retire, callVars, syncVars,
                   offVars, drops, preempted>>

Unpin(c) ==
    /\ InTask(c) /\ readers[c] > 0
    /\ readers' = [readers EXCEPT ![c] = @ - 1]
    /\ view' = [view EXCEPT ![c] = Null]
    /\ blockers' = [d \in CPU |-> blockers[d] \ {c}]
    /\ UNCHANGED <<epoch, lastQ, bucket, stamp, cellVars, retire, callVars, target,
                   owed, late, offVars, drops, preempted>>

-----------------------------------------------------------------------------
(* Writers: store / clear / compare_and_set / defer_drop, then retire_node *)

\* retire_node(null) returns at once.
StartRetire(c, x, n) ==
    retire' = IF n = Null THEN retire
              ELSE [retire EXCEPT ![c][x] = [at |-> "epoch", node |-> n]]

\* The swap of store(), and of clear() when new is Null.
Swap(c, x, new) ==
    /\ new # cell
    /\ cell' = new /\ fresh' = fresh \ {new}
    /\ StartRetire(c, x, cell)
    /\ UNCHANGED <<epoch, readers, lastQ, bucket, stamp, callVars, syncVars, offVars,
                   drops, preempted>>

\* The task is about to write: every method of the cell asks for a guard.
MayWrite(c) == InTask(c) /\ c \in Writers /\ readers[c] > 0

Store(c, new) == MayWrite(c) /\ Swap(c, "task", new) /\ UNCHANGED view

\* Succeeds when the cell still holds what was loaded, and returns what it holds.
CompareAndSet(c, new) ==
    /\ MayWrite(c) /\ new # Null
    /\ \/ cell = view[c] /\ Swap(c, "task", new) /\ view' = [view EXCEPT ![c] = new]
       \/ /\ cell # view[c]
          /\ view' = [view EXCEPT ![c] = cell]
          /\ UNCHANGED <<epoch, readers, lastQ, bucket, stamp, cellVars, retire, callVars,
                         syncVars, offVars, drops, preempted>>

\* defer_drop and retire_box: a node no reader has reached through the cell.
DeferDrop(c, n) ==
    /\ InTask(c) /\ c \in Writers
    /\ fresh' = fresh \ {n}
    /\ StartRetire(c, "task", n)
    /\ UNCHANGED <<epoch, readers, lastQ, bucket, stamp, cell, view, callVars, syncVars,
                   offVars, drops, preempted>>

\* A handler's own pin() and unpin are seen by nobody: its CPU is frozen.
IrqStore(c, new) ==
    /\ c \in IrqCPUs /\ Running(c)
    /\ Swap(c, "irq", new) /\ UNCHANGED view

RetireReady(c, x, label) ==
    /\ retire[c][x].at = label
    /\ x = "task" => At(c, "poll")

\* defer_node reads GLOBAL_EPOCH before it masks interrupts.
DeferLoadEpoch(c, x) ==
    /\ RetireReady(c, x, "epoch")
    /\ stamp' = [stamp EXCEPT ![retire[c][x].node] = epoch]
    /\ retire' = [retire EXCEPT ![c][x].at = "push"]
    /\ UNCHANGED <<epoch, readers, lastQ, bucket, cellVars, view, callVars, syncVars, offVars,
                   drops, preempted>>

DeferPush(c, x) ==
    /\ RetireReady(c, x, "push")
    /\ bucket' = [bucket EXCEPT ![c] = @ \cup {retire[c][x].node}]
    /\ retire' = [retire EXCEPT ![c][x] = NotRetiring]
    /\ UNCHANGED <<epoch, readers, lastQ, stamp, cellVars, view, callVars, syncVars, offVars,
                   drops, preempted>>

-----------------------------------------------------------------------------
(* The executor: a round polls the task, then others, then ends *)

StartCall(c, label, call) ==
    /\ pc' = [pc EXCEPT ![c] = label]
    /\ op' = [op EXCEPT ![c] = call]

\* The task is polled, for the first time or where it was preempted.
PollTask(c) ==
    /\ At(c, "round")
    /\ preempted' = [preempted EXCEPT ![c] = FALSE]
    /\ Goto(c, "poll")
    /\ UNCHANGED <<epoch, readers, lastQ, bucket, stamp, cellVars, view, retire, op, reg, todo,
                   list, syncVars, offVars, drops>>

\* A task that was not preempted may have nothing to do in this round.
SkipTask(c) ==
    /\ At(c, "round") /\ ~preempted[c]
    /\ Goto(c, "others")
    /\ UNCHANGED <<epoch, readers, lastQ, bucket, stamp, cellVars, view, retire, preempted, op,
                   reg, todo, list, syncVars, offVars, drops>>

\* A poll that returns of its own accord: no guard is held across it.
PollReturns(c) ==
    /\ InTask(c) /\ readers[c] = 0
    /\ StartCall(c, "report", "report")
    /\ UNCHANGED <<epoch, readers, lastQ, bucket, stamp, cellVars, view, retire, preempted, reg,
                   todo, list, syncVars, offVars, drops>>

\* A preempted poll is no quiescent point: nothing is reported.
PollPreempted(c) ==
    /\ At(c, "poll")
    /\ preempted' = [preempted EXCEPT ![c] = TRUE]
    /\ Goto(c, "others")
    /\ UNCHANGED <<epoch, readers, lastQ, bucket, stamp, cellVars, view, retire, op, reg, todo,
                   list, syncVars, offVars, drops>>

\* Another task of this CPU is polled and returns.
PollOther(c) ==
    /\ At(c, "others")
    /\ StartCall(c, "report", "other")
    /\ UNCHANGED <<epoch, readers, lastQ, bucket, stamp, cellVars, view, retire, preempted, reg,
                   todo, list, syncVars, offVars, drops>>

\* The preempted task may be the only one.
NoOthers(c) ==
    /\ At(c, "others") /\ preempted[c]
    /\ Goto(c, "end")
    /\ UNCHANGED <<epoch, readers, lastQ, bucket, stamp, cellVars, view, retire, preempted, op,
                   reg, todo, list, syncVars, offVars, drops>>

\* Mutant: no epoch is opened outside sync().
AdvanceNothing(c) == UNCHANGED epoch

\* advance_epoch_if_pending opens the next epoch only when something is
\* pending here and this CPU is past the current one.  Its compare_exchange
\* is the step; where it loses, it changes nothing.
Advance(c) ==
    epoch' = IF bucket[c] # {} /\ lastQ[c] >= epoch /\ epoch < MaxEpoch
             THEN epoch + 1 ELSE epoch

EndRound(c) ==
    /\ At(c, "end")
    /\ Advance(c)
    /\ Goto(c, "round")
    /\ UNCHANGED <<readers, lastQ, bucket, stamp, cellVars, view, retire, preempted, op, reg, todo,
                   list, syncVars, offVars, drops>>

\* A CPU halts only when no task is runnable, so none is preempted in the
\* middle of its poll.
MayIdle(c) == c \in Sleepers /\ ~preempted[c]

\* run_forever advances the epoch once more before it reports idle.
IdleAdvance(c) ==
    /\ At(c, "round") /\ MayIdle(c)
    /\ Advance(c)
    /\ Goto(c, "idle")
    /\ UNCHANGED <<readers, lastQ, bucket, stamp, cellVars, view, retire, preempted, op, reg, todo,
                   list, syncVars, offVars, drops>>

\* report_idle, up to its drain, from run_forever or from one of the places
\* that park without advancing.
ReportIdle(c) ==
    /\ (At(c, "round") /\ MayIdle(c)) \/ At(c, "idle")
    /\ readers[c] = 0
    /\ StartCall(c, "scan", "idle")
    /\ reg' = [reg EXCEPT ![c] = lastQ[c]] /\ todo' = [todo EXCEPT ![c] = CPU \ {c}]
    /\ UNCHANGED <<epoch, readers, lastQ, bucket, stamp, cellVars, view, retire, list, syncVars,
                   offVars, drops, preempted>>

IdleStore(c) ==
    /\ At(c, "idle_store")
    /\ lastQ' = [lastQ EXCEPT ![c] = Inactive]
    /\ StartCall(c, "halted", "report")
    /\ UNCHANGED <<epoch, readers, bucket, stamp, cellVars, view, retire, reg, todo, list,
                   syncVars, offVars, drops, preempted>>

\* The CPU comes back without touching its cell.
WakeUp(c) ==
    /\ At(c, "halted")
    /\ Goto(c, "round")
    /\ UNCHANGED <<epoch, readers, lastQ, bucket, stamp, cellVars, view, retire, op, reg, todo,
                   list, syncVars, offVars, drops, preempted>>

-----------------------------------------------------------------------------
(* report_quiescent *)

\* Where a call of report_quiescent or drain_local_bucket returns to.
Resume(c) ==
    CASE op[c] = "report" -> "others"
      [] op[c] = "other"  -> "end"
      [] op[c] = "idle"   -> "idle_store"
      [] op[c] = "sync"   -> "sync_check"
      [] op[c] \in {"final", "take"} -> "sync_take"

\* What a return leaves in the locals: sync goes on to scan the CPUs, and
\* after its own drain to visit every worker's queue.
ReturnFromCall(c) ==
    /\ Goto(c, Resume(c))
    /\ todo' = [todo EXCEPT ![c] = CASE op[c] = "sync"  -> CPU
                                     [] op[c] = "final" -> Worker
                                     [] OTHER -> @]
    /\ op' = [op EXCEPT ![c] = IF @ = "final" THEN "take" ELSE @]
    /\ reg' = [reg EXCEPT ![c] = 0]

\* Mutant: a report that does not look at active_readers.
ReportUnchecked(c) ==
    /\ At(c, "report")
    /\ reg' = [reg EXCEPT ![c] = epoch]
    /\ Goto(c, "report_store")
    /\ UNCHANGED <<epoch, readers, lastQ, bucket, stamp, cellVars, view, retire, op, todo, list,
                   syncVars, offVars, drops, preempted>>

\* Nothing is reported while a guard is live.
ReportCheck(c) ==
    /\ At(c, "report")
    /\ \/ readers[c] # 0 /\ ReturnFromCall(c)
       \/ /\ readers[c] = 0
          /\ reg' = [reg EXCEPT ![c] = epoch]
          /\ Goto(c, "report_store")
          /\ UNCHANGED <<op, todo>>
    /\ UNCHANGED <<epoch, readers, lastQ, bucket, stamp, cellVars, view, retire, list, syncVars,
                   offVars, drops, preempted>>

\* The store is monotonic, but for the sentinel; the drain starts from it.
\* What it stores was read before: a CPU that was inactive may come back behind
\* the target of a sync that has been opened in between.
ReportStore(c) ==
    /\ At(c, "report_store")
    /\ LET q == IF lastQ[c] = Inactive \/ reg[c] > lastQ[c] THEN reg[c] ELSE lastQ[c]
       IN  /\ lastQ' = [lastQ EXCEPT ![c] = q]
           /\ reg' = [reg EXCEPT ![c] = q]
    /\ late' = [e \in CPU |-> late[e] \/ (lastQ[c] = Inactive /\ reg[c] < target[e])]
    /\ todo' = [todo EXCEPT ![c] = CPU \ {c}]
    /\ Goto(c, "scan")
    /\ UNCHANGED <<epoch, readers, bucket, stamp, cellVars, view, retire, op, list, target,
                   blockers, owed, offVars, drops, preempted>>

-----------------------------------------------------------------------------
(* drain_local_bucket *)

\* min_last_quiescent reads the cells one by one.  A CPU's own cell does not
\* change meanwhile: the scan starts from its value.
ScanOne(c, d) ==
    /\ At(c, "scan") /\ d \in todo[c]
    /\ reg' = [reg EXCEPT ![c] = IF lastQ[d] < @ THEN lastQ[d] ELSE @]
    /\ todo' = [todo EXCEPT ![c] = @ \ {d}]
    /\ UNCHANGED <<epoch, readers, lastQ, bucket, stamp, cellVars, view, retire, pc, op, list,
                   syncVars, offVars, drops, preempted>>

\* Phase 1, masked: the whole list is taken off the bucket.
Detach(c) ==
    /\ At(c, "scan") /\ todo[c] = {}
    /\ list' = [list EXCEPT ![c] = bucket[c]]
    /\ bucket' = [bucket EXCEPT ![c] = {}]
    /\ Goto(c, "split")
    /\ UNCHANGED <<epoch, readers, lastQ, stamp, cellVars, view, retire, op, reg, todo, syncVars,
                   offVars, drops, preempted>>

\* Mutant: a node retired in the epoch every CPU has reached is taken for expired.
ElapsedSameEpoch(n, minQ) == stamp[n] <= minQ

Elapsed(n, minQ) == stamp[n] < minQ

\* OffloadQueue::push: its compare_exchange is the step.
QueuePush(w, chain) == queue' = [queue EXCEPT ![w] = @ \cup chain]

\* A sync drops what is ready here, and so does everybody while no hook is
\* installed; otherwise offload_or_run hands it to this CPU's worker.
Offload(c, ready) ==
    LET inline == op[c] = "final" \/ ~Hook
    IN  \/ /\ ready # {} /\ inline
           /\ list' = [list EXCEPT ![c] = ready]
           /\ Goto(c, "drop")
           /\ UNCHANGED <<op, reg, todo, queue>>
        \/ /\ ready = {} \/ ~inline
           /\ QueuePush(WorkerOf[c], ready)
           /\ list' = [list EXCEPT ![c] = {}]
           /\ ReturnFromCall(c)

\* Phases 2 to 4: what has not elapsed joins `kept'.
SplitOnto(c, kept) ==
    /\ At(c, "split")
    /\ LET ready == {n \in list[c] : Elapsed(n, reg[c])}
       IN  /\ bucket' = [bucket EXCEPT ![c] = kept \cup (list[c] \ ready)]
           /\ Offload(c, ready)
    /\ UNCHANGED <<epoch, readers, lastQ, stamp, cellVars, view, retire, syncVars, batch,
                   drops, preempted>>

\* Mutant: what goes back replaces the bucket.
SplitReplaces(c) == SplitOnto(c, {})

\* What goes back joins whatever an interrupt has pushed since the detach.
Split(c) == SplitOnto(c, bucket[c])

\* The dropper runs and the header goes with the node.
Drop(n) ==
    /\ drops' = [drops EXCEPT ![n] = @ + 1]
    /\ stamp' = [stamp EXCEPT ![n] = 0]

RunDropper(c, n) ==
    /\ At(c, "drop") /\ n \in list[c]
    /\ Drop(n)
    /\ list' = [list EXCEPT ![c] = @ \ {n}]
    /\ \/ list[c] = {n} /\ ReturnFromCall(c)
       \/ list[c] # {n} /\ UNCHANGED <<pc, op, reg, todo>>
    /\ UNCHANGED <<epoch, readers, lastQ, bucket, cellVars, view, retire, syncVars, offVars,
                   preempted>>

-----------------------------------------------------------------------------
(* sync_until *)

\* A caller that holds a guard is refused.
SyncTo(c, goal) ==
    /\ c \in Syncers /\ InTask(c) /\ readers[c] = 0
    /\ epoch < MaxEpoch
    /\ epoch' = epoch + 1
    /\ target' = [target EXCEPT ![c] = goal]
    /\ blockers' = [blockers EXCEPT ![c] = {d \in CPU : readers[d] > 0 /\ lastQ[d] # Inactive}]
    /\ owed' = [owed EXCEPT ![c] = bucket[c]] /\ late' = [late EXCEPT ![c] = FALSE]
    /\ StartCall(c, "report", "sync")
    /\ UNCHANGED <<readers, lastQ, bucket, stamp, cellVars, view, retire, reg, todo, list,
                   offVars, drops, preempted>>

\* Mutant: the target is the epoch that was current.
SyncStartTooLow(c) == SyncTo(c, epoch)

\* The target is the epoch this call opens.
SyncStart(c) == SyncTo(c, epoch + 1)

\* all_cpus_past: one more CPU is past the target.
SyncCheckOne(c, d) ==
    /\ At(c, "sync_check") /\ d \in todo[c] /\ lastQ[d] >= target[c]
    /\ todo' = [todo EXCEPT ![c] = @ \ {d}]
    /\ UNCHANGED <<epoch, readers, lastQ, bucket, stamp, cellVars, view, retire, pc, op, reg, list,
                   syncVars, offVars, drops, preempted>>

\* Some CPU is not: another report, another look.
SyncNotYet(c) ==
    /\ At(c, "sync_check")
    /\ \E d \in todo[c] : lastQ[d] < target[c]
    /\ todo' = [todo EXCEPT ![c] = {}]
    /\ Goto(c, "report")
    /\ UNCHANGED <<epoch, readers, lastQ, bucket, stamp, cellVars, view, retire, op, reg, list,
                   syncVars, offVars, drops, preempted>>

SyncForget(c) ==
    /\ target' = [target EXCEPT ![c] = 0]
    /\ blockers' = [blockers EXCEPT ![c] = {}] /\ owed' = [owed EXCEPT ![c] = {}]
    /\ late' = [late EXCEPT ![c] = FALSE]

\* The deadline is looked at after a failed check; false is returned.
SyncDeadline(c) ==
    /\ At(c, "sync_check")
    /\ \E d \in todo[c] : lastQ[d] < target[c]
    /\ todo' = [todo EXCEPT ![c] = {}]
    /\ StartCall(c, "poll", "report")
    /\ SyncForget(c)
    /\ UNCHANGED <<epoch, readers, lastQ, bucket, stamp, cellVars, view, retire, reg, list,
                   offVars, drops, preempted>>

\* Mutant: only the workers' queues are run, not the bucket.
SyncElapsedNoDrain(c) ==
    /\ At(c, "sync_check") /\ todo[c] = {}
    /\ StartCall(c, "sync_take", "take")
    /\ todo' = [todo EXCEPT ![c] = Worker]
    /\ UNCHANGED <<epoch, readers, lastQ, bucket, stamp, cellVars, view, retire, reg, list,
                   syncVars, offVars, drops, preempted>>

\* All CPUs are past: this CPU's bucket is drained inline.
SyncElapsed(c) ==
    /\ At(c, "sync_check") /\ todo[c] = {}
    /\ StartCall(c, "scan", "final")
    /\ reg' = [reg EXCEPT ![c] = lastQ[c]] /\ todo' = [todo EXCEPT ![c] = CPU \ {c}]
    /\ UNCHANGED <<epoch, readers, lastQ, bucket, stamp, cellVars, view, retire, list, syncVars,
                   offVars, drops, preempted>>

\* run_offloaded_reclaim: each queue is detached and its droppers run.
SyncTake(c, w) ==
    /\ At(c, "sync_take") /\ w \in todo[c]
    /\ list' = [list EXCEPT ![c] = queue[w]]
    /\ queue' = [queue EXCEPT ![w] = {}]
    /\ todo' = [todo EXCEPT ![c] = @ \ {w}]
    /\ pc' = [pc EXCEPT ![c] = IF queue[w] = {} THEN @ ELSE "drop"]
    /\ UNCHANGED <<epoch, readers, lastQ, bucket, stamp, cellVars, view, retire, op, reg, syncVars,
                   batch, drops, preempted>>

\* sync_until returns true.
SyncReturn(c) ==
    /\ At(c, "sync_take") /\ todo[c] = {}
    /\ StartCall(c, "poll", "report")
    /\ SyncForget(c)
    /\ UNCHANGED <<epoch, readers, lastQ, bucket, stamp, cellVars, view, retire, reg, todo, list,
                   offVars, drops, preempted>>

-----------------------------------------------------------------------------
(* Reclaim workers: tasks that may run on any CPU, preempted anywhere *)

WorkerTake(w) ==
    /\ batch[w] = {} /\ queue[w] # {}
    /\ batch' = [batch EXCEPT ![w] = queue[w]]
    /\ queue' = [queue EXCEPT ![w] = {}]
    /\ UNCHANGED <<epoch, readers, lastQ, bucket, stamp, cellVars, view, retire, callVars,
                   syncVars, drops, preempted>>

WorkerRunDropper(w, n) ==
    /\ n \in batch[w]
    /\ Drop(n)
    /\ batch' = [batch EXCEPT ![w] = @ \ {n}]
    /\ UNCHANGED <<epoch, readers, lastQ, bucket, cellVars, view, retire, callVars,
                   syncVars, queue, preempted>>

-----------------------------------------------------------------------------
TaskRetires(c) == DeferLoadEpoch(c, "task") \/ DeferPush(c, "task")
IrqRetires(c) == DeferLoadEpoch(c, "irq") \/ DeferPush(c, "irq")

TaskMoves(c) ==
    \/ Pin(c) \/ Load(c) \/ Unpin(c)
    \/ \E n \in fresh : Store(c, n) \/ CompareAndSet(c, n) \/ DeferDrop(c, n)
    \/ Store(c, Null)
    \/ TaskRetires(c)
    \/ SyncStart(c) \/ PollReturns(c) \/ PollPreempted(c)

ExecutorStep(c) ==
    \/ PollTask(c) \/ SkipTask(c) \/ PollOther(c) \/ NoOthers(c) \/ EndRound(c)
    \/ IdleAdvance(c) \/ ReportIdle(c) \/ IdleStore(c)
    \/ ReportCheck(c) \/ ReportStore(c) \/ (\E d \in CPU : ScanOne(c, d)) \/ Detach(c) \/ Split(c)
    \/ (\E n \in Node : RunDropper(c, n))

SyncStep(c) ==
    \/ (\E d \in CPU : SyncCheckOne(c, d)) \/ SyncNotYet(c) \/ SyncDeadline(c) \/ SyncElapsed(c)
    \/ (\E w \in Worker : SyncTake(c, w)) \/ SyncReturn(c)

WorkerStep(w) == WorkerTake(w) \/ \E n \in Node : WorkerRunDropper(w, n)

Next ==
    \/ \E c \in CPU : \/ TaskMoves(c) \/ ExecutorStep(c) \/ SyncStep(c) \/ WakeUp(c)
                      \/ (\E n \in fresh \cup {Null} : IrqStore(c, n)) \/ IrqRetires(c)
    \/ \E w \in Worker : WorkerStep(w)

Spec == Init /\ [][Next]_vars

\* Executors, handlers and workers run on, and a task that is polled again and
\* again, however often it is preempted, finishes its retirement, drops its
\* guard and returns.  Nothing says that a halted CPU ever wakes up.
Fairness ==
    /\ \A c \in CPU : /\ WF_vars(ExecutorStep(c) \/ SyncStep(c) \/ IrqRetires(c))
                      /\ SF_vars(TaskRetires(c) \/ Unpin(c))
                      /\ SF_vars(PollReturns(c))
    /\ \A w \in Worker : WF_vars(WorkerStep(w))

FairSpec == Spec /\ Fairness

-----------------------------------------------------------------------------
(* Properties *)

\* Shared::as_ref: what a live guard has loaded is not dropped while the guard
\* lives, on a CPU that takes part in grace periods.
ReaderProtected ==
    \A c \in CPU : readers[c] > 0 /\ lastQ[c] # Inactive /\ view[c] # Null => drops[view[c]] = 0

Homes(n) ==
    (IF cell = n THEN {<<"cell">>} ELSE {}) \cup (IF n \in fresh THEN {<<"fresh">>} ELSE {})
    \cup {<<"retire", y>> : y \in {z \in CPU \X Contexts : retire[z[1]][z[2]].node = n}}
    \cup {<<"bucket", c>> : c \in {d \in CPU : n \in bucket[d]}}
    \cup {<<"list", c>> : c \in {d \in CPU : n \in list[d]}}
    \cup {<<"queue", w>> : w \in {v \in Worker : n \in queue[v]}}
    \cup {<<"batch", w>> : w \in {v \in Worker : n \in batch[v]}}

\* No node is lost or dropped twice, whatever an interrupt pushes in the
\* middle of a drain: each has one home until its dropper runs, once.
NodesConserved == \A n \in Node : Cardinality(Homes(n)) + drops[n] = 1

SyncReturning(c) == At(c, "sync_take") /\ todo[c] = {}

\* A grace period that has elapsed has outlived every guard that was live on
\* an active CPU when it was asked for.
SyncWaitsForReaders == \A c \in CPU : SyncReturning(c) => blockers[c] = {}

\* n has been dropped, or a worker or another sync is at its dropper already.
DroppedFor(c, n) ==
    \/ drops[n] = 1
    \/ \E w \in Worker : n \in batch[w]
    \/ \E d \in CPU \ {c} : pc[d] = "drop" /\ n \in list[d]

\* What this CPU had retired before it called sync has been dropped on return,
\* or is being dropped: its reports, its last drain and its visit to the queues
\* miss nothing.  The exception is a CPU that was inactive, and stores a report
\* it had read before the target was opened after all_cpus_past has passed it: the
\* last drain then keeps what it should let go, until the next report.
SyncLeavesNothingQueued ==
    \A c \in CPU : SyncReturning(c) /\ ~late[c] => \A n \in owed[c] : DroppedFor(c, n)

\* A node retired on a CPU that keeps working is dropped in the end, although
\* its grace period has to be opened first and a peer may halt and never wake.
Reclaimed ==
    \A c \in CPU \ Sleepers, n \in Node :
        (n \in bucket[c] /\ stamp[n] < MaxEpoch) ~> (drops[n] > 0)

\* Shared::as_ref without the proviso: every live guard keeps what it loaded.
PinProtects ==
    \A c \in CPU : readers[c] > 0 /\ view[c] # Null => drops[view[c]] = 0

-----------------------------------------------------------------------------
(***************************************************************************)
(* The inductive invariant behind ReaderProtected, for a system in which   *)
(* no CPU that sleeps retires from interrupt handlers.                     *)
(***************************************************************************)

\* A guard on an active CPU that has loaded n.
Views(d, n) == readers[d] > 0 /\ lastQ[d] # Inactive /\ view[d] = n

\* n carries the epoch of its retirement and has not been let go.
Stamped(n) ==
    \/ \E c \in CPU, x \in Contexts : retire[c][x].at = "push" /\ retire[c][x].node = n
    \/ \E c \in CPU : n \in bucket[c]
    \/ \E c \in CPU : pc[c] = "split" /\ n \in list[c]

\* A drain has let n go.
Released(n) ==
    \/ drops[n] > 0
    \/ \E c \in CPU : pc[c] = "drop" /\ n \in list[c]
    \/ \E w \in Worker : n \in queue[w] \/ n \in batch[w]

\* Reports and stamps never run ahead of the global epoch.
EpochInv ==
    /\ \A c \in CPU : lastQ[c] # Inactive => lastQ[c] <= epoch
    /\ \A c \in CPU : pc[c] = "report_store" => reg[c] \in 1..epoch
    /\ \A n \in Node : stamp[n] <= epoch

SyncOps == {"sync", "final", "take"}

\* Where a CPU is and what it may rely on there: it stores a report, or waits
\* in sync(), only without a guard; and it drains only once it is active,
\* unless it is about to sleep.
ControlInv ==
    /\ \A c \in CPU : pc[c] \in {"round", "idle", "poll", "others", "end", "idle_store", "halted"}
                         => op[c] \notin SyncOps
    /\ \A c \in CPU : pc[c] \in {"sync_check", "sync_take"} => op[c] \in SyncOps
    /\ \A c \in CPU : pc[c] = "report_store" \/ op[c] \in SyncOps => readers[c] = 0
    /\ \A c \in CPU : pc[c] \in {"idle", "idle_store"} \/ op[c] = "idle" => c \in Sleepers
    /\ \A c \in CPU : c \notin Sleepers
                      /\ pc[c] \in {"scan", "split", "drop", "sync_check", "sync_take"}
                         => lastQ[c] # Inactive
    /\ \A c \in CPU : retire[c]["irq"].at # "none" => c \in IrqCPUs
    /\ \A c \in CPU, x \in Contexts : retire[c][x].at # "none" => retire[c][x].node \in Node

\* What a reader can still reach has been neither retired nor dropped.
LiveInv ==
    /\ cell \notin fresh
    /\ \A n \in Node : n \in fresh \/ n = cell =>
          /\ \A c \in CPU, x \in Contexts : retire[c][x].node # n
          /\ \A c \in CPU : n \notin bucket[c] /\ n \notin list[c]
          /\ \A w \in Worker : n \notin queue[w] /\ n \notin batch[w]
          /\ drops[n] = 0

\* A reader's CPU has not reported an epoch later than the retirement of what
\* it views.
ViewInv ==
    /\ \A d \in CPU : readers[d] = 0 => view[d] = Null
    /\ \A d \in CPU, n \in Node : Views(d, n) /\ Stamped(n) => lastQ[d] <= stamp[n]

\* Once a drain's scan has passed the reader's CPU, its minimum is not later
\* either; a handler that retires in the middle of the scan stamps its node
\* with an epoch the minimum has not passed.
ScanInv ==
    /\ \A c \in CPU : pc[c] = "scan" /\ c \in IrqCPUs => reg[c] <= epoch
    /\ \A c, d \in CPU, n \in Node :
          pc[c] = "scan" /\ Views(d, n) =>
              /\ n \in bucket[c] /\ d \notin todo[c] => reg[c] <= stamp[n]
              /\ retire[c]["irq"].at = "push" /\ retire[c]["irq"].node = n => reg[c] <= stamp[n]
    /\ \A c, d \in CPU, n \in Node :
          pc[c] = "split" /\ n \in list[c] /\ Views(d, n) => reg[c] <= stamp[n]

\* What a drain has let go is viewed by nobody.
FreeInv == \A d \in CPU, n \in Node : Views(d, n) => ~Released(n)

ReclaimInv ==
    TypeOK /\ EpochInv /\ ControlInv /\ LiveInv /\ ViewInv /\ ScanInv /\ FreeInv

(***************************************************************************)
(* What NodesConserved and the promises of sync() rest on.                 *)
(***************************************************************************)

\* A list is only held inside a drain, and a context that retires nothing holds
\* no node.
LocalInv ==
    /\ \A c \in CPU : pc[c] \notin {"split", "drop"} => list[c] = {}
    /\ \A c \in CPU, x \in Contexts : retire[c][x].at = "none" => retire[c][x].node = Null

\* A sync is asked for without a guard; a reader it waits for keeps its guard and
\* its CPU stays behind the target, so no check passes that CPU.
SyncInv ==
    /\ \A c \in CPU : /\ pc[c] = "sync_check" => op[c] = "sync"
                      /\ pc[c] = "sync_take" => op[c] = "take"
                      /\ op[c] = "final" => pc[c] \in {"scan", "split", "drop"}
                      /\ op[c] = "take" => pc[c] \in {"drop", "sync_take"}
                      /\ op[c] = "idle" => pc[c] \in {"scan", "split", "drop", "idle_store"}
    /\ \A c \in CPU : pc[c] = "idle_store" \/ op[c] = "idle" => readers[c] = 0
    /\ \A c, d \in CPU : d \in blockers[c] => readers[d] > 0 /\ lastQ[d] < target[c]
    /\ \A c \in CPU : pc[c] = "sync_check" => blockers[c] \subseteq todo[c]
    /\ \A c \in CPU : op[c] \in {"final", "take"} => blockers[c] = {}

\* Where the nodes are that a sync found in its bucket, and why its last drain
\* lets every one of them go.
OwedInv ==
    /\ \A c \in CPU : target[c] <= epoch
    /\ \A c \in CPU : op[c] \notin SyncOps => owed[c] = {}
    /\ \A c \in CPU : \A n \in owed[c] : n \in bucket[c] \/ n \in list[c] \/ Released(n)
    /\ \A c \in CPU : \A n \in owed[c] :
          n \in bucket[c] \/ (pc[c] = "split" /\ n \in list[c]) => stamp[n] < target[c]
    /\ \A c \in CPU : op[c] = "take" => \A n \in owed[c], w \in Worker : n \in queue[w] => w \in todo[c]

\* Every CPU the sync has looked at is past the target, and so is the minimum of
\* its last drain, unless one came back behind it.
PastInv ==
    \A c \in CPU : ~late[c] =>
       /\ pc[c] = "sync_check" => \A d \in CPU \ todo[c] : lastQ[d] >= target[c]
       /\ op[c] = "final" => \A d \in CPU : lastQ[d] >= target[c]
       /\ op[c] = "final" /\ pc[c] \in {"scan", "split"} => reg[c] >= target[c]
       /\ op[c] = "take" \/ (op[c] = "final" /\ pc[c] \in {"split", "drop"}) =>
             \A n \in owed[c] : n \notin bucket[c]
       /\ op[c] = "take" \/ (op[c] = "final" /\ pc[c] = "drop") =>
             \A n \in owed[c] : Released(n)
=============================================================================
