----------------------------- MODULE SchedWake -----------------------------
(***************************************************************************)
(* How the scheduler keeps a wake (scheduler/src/lib.rs).  A sleeping task *)
(* is parked on its home CPU; a waker on any CPU, in task or in interrupt  *)
(* context, sets the task's wake flag and stages the task's one activation *)
(* node on the CPU that holds it; that CPU's executor drains the node and  *)
(* polls the task.  Meanwhile tasks migrate (at a wake, by stealing, when  *)
(* a poll returns), and executors halt without a timer to rescue them.     *)
(* Each shared access is a step, and memory is sequentially consistent     *)
(* (the protocol's accesses are SeqCst or fenced); an executor's checks of *)
(* its own queues that follow one another are one step.  Left out: timers  *)
(* and the 2 ms halt backstop (nothing here may need them), CPU budgets,   *)
(* direct handoff, task exit and CPU hotplug.                              *)
(***************************************************************************)
EXTENDS Integers, FiniteSets, Sequences

CONSTANTS CPU, Task, NoTask,
          IrqCPU,    \* CPUs that take device interrupts
          MaxPending, \* MAX_PENDING: the slots of a CPU's deferred-wake queue
          MaxWakes   \* bound on the wakes of a behaviour

ASSUME SchedAssumption ==
    /\ NoTask \notin Task /\ IsFiniteSet(Task) /\ IrqCPU \subseteq CPU /\ MaxWakes \in Nat
    /\ MaxPending \in Nat \ {0}

VARIABLES
    flag, queued, home,     \* WakeCell: flag, activation_queued, cpu
    parked, ready, inbox,   \* PARKED, READY, WAKE_INBOX: the tasks held per CPU
    nodes,                  \* PARKED_WAKE_INBOX: the nodes staged per CPU
    halted, need, ipi,      \* CPU_HALTED, NEED_RESCHED, a pending reschedule IPI
    deferred,               \* deferred_wake::QUEUES: wakers stashed by interrupts
    pc, cur, left, ret,     \* each executor: its place, its task, polls left of the
                            \* round, where a drain returns
    todo, taken,            \* ... a detached batch of nodes, wakers out of the stash
    frame,                  \* the wake or enqueue call in progress per CPU and level
    owed, wakes             \* history: woken since its last poll began; wakes so far

cellVars  == <<flag, queued, home>>
slotVars  == <<parked, ready, inbox>>
haltVars  == <<halted, need, ipi>>
execVars  == <<pc, cur, todo, taken, left, ret>>
histVars  == <<owed, wakes>>
vars == <<cellVars, slotVars, nodes, haltVars, deferred, execVars, frame, histVars>>

Level == {"exec", "irq"}
NoFrame == [at |-> "idle", task |-> NoTask, cpu |-> NoTask, then |-> "idle", place |-> FALSE]
WakeFrame(t) == [NoFrame EXCEPT !.at = "swap", !.task = t, !.then = "home", !.place = TRUE]
EnqueueFrame(t, c) == [NoFrame EXCEPT !.at = "own", !.task = t, !.cpu = c]

FrameType == [at : {"idle", "swap", "token", "claim", "locate", "publish", "release", "again",
                    "need", "halted", "home", "own", "test", "insert", "recheck"},
              task : Task \cup {NoTask}, cpu : CPU \cup {NoTask},
              then : {"idle", "home", "force"}, place : BOOLEAN]

TypeOK ==
    /\ flag \in [Task -> BOOLEAN] /\ queued \in [Task -> BOOLEAN] /\ home \in [Task -> CPU]
    /\ parked \in [CPU -> SUBSET Task] /\ ready \in [CPU -> SUBSET Task]
    /\ inbox \in [CPU -> SUBSET Task] /\ nodes \in [CPU -> SUBSET Task]
    /\ halted \in [CPU -> BOOLEAN] /\ need \in [CPU -> BOOLEAN] /\ ipi \in [CPU -> BOOLEAN]
    /\ deferred \in [CPU -> Seq(Task)] /\ \A c \in CPU : Len(deferred[c]) <= MaxPending
    /\ pc \in [CPU -> {"top", "wakers", "inbox", "node", "route", "take", "round", "pick", "poll",
                       "idle", "need", "scan", "hlt", "resume"}]
    /\ cur \in [CPU -> Task \cup {NoTask}] /\ todo \in [CPU -> SUBSET Task]
    /\ taken \in [CPU -> Seq(Task)]
    /\ left \in [CPU -> 0 .. Cardinality(Task)] /\ ret \in [CPU -> {"round", "pick", "idle"}]
    /\ frame \in [CPU -> [Level -> FrameType]]
    /\ owed \in [Task -> BOOLEAN] /\ wakes \in 0 .. MaxWakes

\* Every task was admitted to a run queue, and no CPU has started a round.
Init ==
    /\ home \in [Task -> CPU]
    /\ flag = [t \in Task |-> TRUE] /\ queued = [t \in Task |-> FALSE]
    /\ ready = [c \in CPU |-> {t \in Task : home[t] = c}]
    /\ parked = [c \in CPU |-> {}] /\ inbox = [c \in CPU |-> {}] /\ nodes = [c \in CPU |-> {}]
    /\ halted = [c \in CPU |-> FALSE] /\ need = [c \in CPU |-> FALSE] /\ ipi = [c \in CPU |-> FALSE]
    /\ deferred = [c \in CPU |-> <<>>] /\ taken = [c \in CPU |-> <<>>]
    /\ pc = [c \in CPU |-> "top"] /\ cur = [c \in CPU |-> NoTask]
    /\ todo = [c \in CPU |-> {}] /\ left = [c \in CPU |-> 0] /\ ret = [c \in CPU |-> "round"]
    /\ frame = [c \in CPU |-> [l \in Level |-> NoFrame]]
    /\ owed = [t \in Task |-> TRUE] /\ wakes = 0

----------------------------------------------------------------------------
(* What the code asks of the shared state. *)

\* parked_location: the CPUs whose parked storage holds t, at most one.
Location(t) == {c \in CPU : t \in parked[c]}

\* park_slot keeps PARKED[c] locked, with interrupts masked, until it returns.
ParkedLocked(c) == \E d \in CPU, l \in Level : frame[d][l].at = "recheck" /\ frame[d][l].cpu = c

\* wake_list_pending
Pending(c) == inbox[c] # {} \/ nodes[c] # {}

\* slot_is_dispatchable over READY[c]
Runnable(c) == {t \in ready[c] : flag[t]}

\* Interrupts are masked in a handler, from the commit to halt until the
\* halt, after it, and under an interrupt-safe lock.
Unmasked(c) ==
    /\ frame[c]["irq"].at = "idle" /\ frame[c]["exec"].at # "recheck"
    /\ pc[c] \notin {"need", "scan", "resume"}

\* The innermost call of CPU c.
Active(c, l) == frame[c][l].at # "idle" /\ (l = "exec" => frame[c]["irq"].at = "idle")
Executing(c) == \A l \in Level : frame[c][l].at = "idle"

At(c, l, place) == Active(c, l) /\ frame[c][l].at = place
Go(c, l, place) == frame' = [frame EXCEPT ![c][l].at = place]
Return(c, l)    == frame' = [frame EXCEPT ![c][l] = NoFrame]
Call(c, f)      == frame' = [frame EXCEPT ![c]["exec"] = f]

\* The call goes on to resched_remote(d), or to resched_remote_force(d) where
\* then = "force"; both are no-ops on the CPU itself.
Kick(c, l, d, then) ==
    frame' = [frame EXCEPT ![c][l] =
                 IF d # c THEN [@ EXCEPT !.at = "need", !.cpu = d, !.then = then]
                 ELSE IF then = "home" THEN [@ EXCEPT !.at = "home", !.cpu = NoTask]
                 ELSE NoFrame]

----------------------------------------------------------------------------
(* Waker: flag.swap, parked_wake_push, wake_place_and_kick. *)

\* flag.swap(true): only the wake that sets the flag stages the node.
WakeSwap(c, l) ==
    /\ At(c, l, "swap")
    /\ LET t == frame[c][l].task IN
         /\ flag' = [flag EXCEPT ![t] = TRUE] /\ owed' = [owed EXCEPT ![t] = TRUE]
         /\ Go(c, l, IF flag[t] THEN "home" ELSE "token")
    /\ UNCHANGED <<queued, home, slotVars, nodes, haltVars, deferred, execVars, wakes>>

\* try_activate_parked_local, for an exact synchronous wake on the task's CPU.
ActivateLocal(c, l) ==
    /\ At(c, l, "token") /\ frame[c][l].place
    /\ LET t == frame[c][l].task IN
         /\ t \in parked[c] /\ flag[t] /\ ~ParkedLocked(c)
         /\ parked' = [parked EXCEPT ![c] = @ \ {t}] /\ ready' = [ready EXCEPT ![c] = @ \cup {t}]
    /\ Go(c, l, "home")
    /\ UNCHANGED <<cellVars, inbox, nodes, haltVars, deferred, execVars, histVars>>

\* parked_wake_push: a task that is not parked is seen by whoever holds it.
TokenLoad(c, l) ==
    /\ At(c, l, "token")
    /\ Go(c, l, IF Location(frame[c][l].task) = {} THEN "home" ELSE "claim")
    /\ UNCHANGED <<cellVars, slotVars, nodes, haltVars, deferred, execVars, histVars>>

\* Mutant: the swap's answer is ignored.
ClaimBlind(c, l) ==
    /\ At(c, l, "claim")
    /\ queued' = [queued EXCEPT ![frame[c][l].task] = TRUE] /\ Go(c, l, "locate")
    /\ UNCHANGED <<flag, home, slotVars, nodes, haltVars, deferred, execVars, histVars>>

\* activation_queued.swap(true)
ClaimNode(c, l) ==
    /\ At(c, l, "claim")
    /\ LET t == frame[c][l].task IN
         queued' = [queued EXCEPT ![t] = TRUE] /\ Go(c, l, IF queued[t] THEN "home" ELSE "locate")
    /\ UNCHANGED <<flag, home, slotVars, nodes, haltVars, deferred, execVars, histVars>>

\* The token is loaded again under the claim.
LocateNode(c, l) ==
    /\ At(c, l, "locate")
    /\ LET where == Location(frame[c][l].task) IN
         IF where = {} THEN Go(c, l, "release")
         ELSE \E d \in where :
                frame' = [frame EXCEPT ![c][l].at = "publish", ![c][l].cpu = d]
    /\ UNCHANGED <<cellVars, slotVars, nodes, haltVars, deferred, execVars, histVars>>

\* Under the inbox gate: the node is published only where the task still is.
PublishNode(c, l) ==
    /\ At(c, l, "publish")
    /\ LET t == frame[c][l].task
           d == frame[c][l].cpu
       IN IF Location(t) = {d}
          THEN nodes' = [nodes EXCEPT ![d] = @ \cup {t}] /\ Kick(c, l, d, "home")
          ELSE /\ frame' = [frame EXCEPT ![c][l].at = "locate", ![c][l].cpu = NoTask]
               /\ UNCHANGED nodes
    /\ UNCHANGED <<cellVars, slotVars, haltVars, deferred, execVars, histVars>>

\* The claim is given back and the flag read again: a wake that coalesced with
\* the claim is staged by this producer.
ReleaseClaim(c, l) ==
    /\ At(c, l, "release")
    /\ queued' = [queued EXCEPT ![frame[c][l].task] = FALSE] /\ Go(c, l, "again")
    /\ UNCHANGED <<flag, home, slotVars, nodes, haltVars, deferred, execVars, histVars>>

\* Mutant: the producer that gave its claim back is done.
RecheckSkipped(c, l) ==
    /\ At(c, l, "again") /\ Go(c, l, "home")
    /\ UNCHANGED <<cellVars, slotVars, nodes, haltVars, deferred, execVars, histVars>>

RecheckFlag(c, l) ==
    /\ At(c, l, "again")
    /\ Go(c, l, IF flag[frame[c][l].task] THEN "token" ELSE "home")
    /\ UNCHANGED <<cellVars, slotVars, nodes, haltVars, deferred, execVars, histVars>>

\* wake_place_and_kick: the home is loaded and kicked ...
KickHome(c, l) ==
    /\ At(c, l, "home")
    /\ Kick(c, l, home[frame[c][l].task], "idle")
    /\ UNCHANGED <<cellVars, slotVars, nodes, haltVars, deferred, execVars, histVars>>

\* ... or the policy names another CPU and the woken task is moved there
\* (try_migrate_wakee_to, try_sync_wake_affine).
MigrateWakee(c, l, d) ==
    /\ At(c, l, "home") /\ frame[c][l].place
    /\ LET t == frame[c][l].task
           h == home[t]
       IN /\ d # h /\ flag[t]
          /\ \/ t \in ready[h] /\ ready' = [ready EXCEPT ![h] = @ \ {t}] /\ UNCHANGED parked
             \/ t \in parked[h] /\ ~ParkedLocked(h)
                /\ parked' = [parked EXCEPT ![h] = @ \ {t}] /\ UNCHANGED ready
          /\ frame' = [frame EXCEPT ![c][l] = EnqueueFrame(t, d)]
    /\ UNCHANGED <<cellVars, inbox, nodes, haltVars, deferred, execVars, histVars>>

\* resched_remote and resched_remote_force: NEED_RESCHED, fence, CPU_HALTED, and
\* an IPI to a halted CPU; by force, to any.
KickNeed(c, l) ==
    /\ At(c, l, "need")
    /\ need' = [need EXCEPT ![frame[c][l].cpu] = TRUE] /\ Go(c, l, "halted")
    /\ UNCHANGED <<cellVars, slotVars, nodes, halted, ipi, deferred, execVars, histVars>>

KickHalted(c, l) ==
    /\ At(c, l, "halted")
    /\ LET d == frame[c][l].cpu IN ipi' = [ipi EXCEPT ![d] = @ \/ halted[d] \/ frame[c][l].then = "force"]
    /\ IF frame[c][l].then = "home"
       THEN frame' = [frame EXCEPT ![c][l].at = "home", ![c][l].cpu = NoTask]
       ELSE Return(c, l)
    /\ UNCHANGED <<cellVars, slotVars, nodes, halted, need, deferred, execVars, histVars>>

----------------------------------------------------------------------------
(* enqueue_on: a task in hand goes to a run queue, an inbox or parked storage. *)

EnqueueOwn(c, l) ==
    /\ At(c, l, "own")
    /\ home' = [home EXCEPT ![frame[c][l].task] = frame[c][l].cpu] /\ Go(c, l, "test")
    /\ UNCHANGED <<flag, queued, slotVars, nodes, haltVars, deferred, execVars, histVars>>

\* A remote CPU's inbox takes the task and the CPU is kicked, by force for the
\* first entry.  Nobody clears the flag of a task in hand, so that its test and
\* the push are one step.
EnqueueTest(c, l) ==
    /\ At(c, l, "test")
    /\ LET t == frame[c][l].task
           d == frame[c][l].cpu
       IN \/ ~flag[t] /\ Go(c, l, "insert") /\ UNCHANGED slotVars
          \/ /\ flag[t] /\ d = c
             /\ ready' = [ready EXCEPT ![c] = @ \cup {t}] /\ Return(c, l)
             /\ UNCHANGED <<parked, inbox>>
          \/ /\ flag[t] /\ d # c
             /\ inbox' = [inbox EXCEPT ![d] = @ \cup {t}]
             /\ Kick(c, l, d, IF inbox[d] = {} THEN "force" ELSE "idle")
             /\ UNCHANGED <<parked, ready>>
    /\ UNCHANGED <<cellVars, nodes, haltVars, deferred, execVars, histVars>>

\* park_slot: publish the token, then read the flag again under the lock.
ParkInsert(c, l) ==
    /\ At(c, l, "insert") /\ ~ParkedLocked(frame[c][l].cpu)
    /\ parked' = [parked EXCEPT ![frame[c][l].cpu] = @ \cup {frame[c][l].task}]
    /\ Go(c, l, "recheck")
    /\ UNCHANGED <<cellVars, ready, inbox, nodes, haltVars, deferred, execVars, histVars>>

\* Mutant: the task stays parked, woken or not.
ParkOnly(c, l) ==
    /\ At(c, l, "recheck") /\ Return(c, l)
    /\ UNCHANGED <<cellVars, slotVars, nodes, haltVars, deferred, execVars, histVars>>

ParkRecheck(c, l) ==
    /\ At(c, l, "recheck")
    /\ LET t == frame[c][l].task IN
         IF flag[t]
         THEN parked' = [parked EXCEPT ![frame[c][l].cpu] = @ \ {t}] /\ Go(c, l, "own")
         ELSE Return(c, l) /\ UNCHANGED parked
    /\ UNCHANGED <<cellVars, ready, inbox, nodes, haltVars, deferred, execVars, histVars>>

CallStep(c, l) ==
    \/ WakeSwap(c, l) \/ ActivateLocal(c, l) \/ TokenLoad(c, l) \/ ClaimNode(c, l)
    \/ LocateNode(c, l) \/ PublishNode(c, l) \/ ReleaseClaim(c, l) \/ RecheckFlag(c, l)
    \/ KickHome(c, l) \/ (\E d \in CPU : MigrateWakee(c, l, d)) \/ KickNeed(c, l)
    \/ KickHalted(c, l) \/ EnqueueOwn(c, l) \/ EnqueueTest(c, l) \/ ParkInsert(c, l)
    \/ ParkRecheck(c, l)

----------------------------------------------------------------------------
(* The executor of CPU c: run_until_empty and the halt. *)

Exec(c, place) == Executing(c) /\ pc[c] = place
Goto(c, place) == pc' = [pc EXCEPT ![c] = place]

\* A round begins: the wakers that interrupts stashed are taken (drain_and_wake) ...
RoundTop(c) ==
    /\ Exec(c, "top")
    /\ taken' = [taken EXCEPT ![c] = deferred[c]] /\ deferred' = [deferred EXCEPT ![c] = <<>>]
    /\ Goto(c, IF deferred[c] = <<>> THEN "inbox" ELSE "wakers") /\ ret' = [ret EXCEPT ![c] = "round"]
    /\ UNCHANGED <<cellVars, slotVars, nodes, haltVars, cur, todo, left, frame, histVars>>

\* ... and woken one by one; then the inboxes are drained.  Wakers taken by
\* the idle check (ret = "idle") start a new round instead.
WakeDeferred(c) ==
    /\ Exec(c, "wakers")
    /\ taken[c] # <<>> /\ taken' = [taken EXCEPT ![c] = Tail(@)]
    /\ Call(c, WakeFrame(Head(taken[c])))
    /\ Goto(c, IF Tail(taken[c]) # <<>> THEN "wakers" ELSE IF ret[c] = "idle" THEN "top" ELSE "inbox")
    /\ UNCHANGED <<cellVars, slotVars, nodes, haltVars, deferred, cur, todo, left, ret, histVars>>

\* drain_wake_list: the inbox is folded into the run queue ...
DrainInbox(c, t) ==
    /\ Exec(c, "inbox") /\ t \in inbox[c]
    /\ inbox' = [inbox EXCEPT ![c] = @ \ {t}] /\ ready' = [ready EXCEPT ![c] = @ \cup {t}]
    /\ home' = [home EXCEPT ![t] = c]
    /\ UNCHANGED <<flag, queued, parked, nodes, haltVars, deferred, execVars, frame, histVars>>

\* ... and the staged nodes are detached (take_parked_wake_batch).
DetachNodes(c) ==
    /\ Exec(c, "inbox") /\ inbox[c] = {}
    /\ todo' = [todo EXCEPT ![c] = nodes[c]] /\ nodes' = [nodes EXCEPT ![c] = {}]
    /\ Goto(c, IF nodes[c] = {} THEN ret[c] ELSE "node")
    /\ UNCHANGED <<cellVars, slotVars, haltVars, deferred, cur, taken, left, ret, frame, histVars>>

\* drain_parked_wakes: the claim is released before the token is read.
DrainNode(c, t) ==
    /\ Exec(c, "node") /\ t \in todo[c]
    /\ todo' = [todo EXCEPT ![c] = @ \ {t}] /\ cur' = [cur EXCEPT ![c] = t]
    /\ queued' = [queued EXCEPT ![t] = FALSE] /\ Goto(c, "route")
    /\ UNCHANGED <<flag, home, slotVars, nodes, haltVars, deferred, taken, left, ret, frame, histVars>>

NodeDone(c) ==
    /\ cur' = [cur EXCEPT ![c] = NoTask] /\ Goto(c, IF todo[c] = {} THEN ret[c] ELSE "node")
    /\ UNCHANGED <<todo, taken, left, ret>>

\* A task parked elsewhere by now gets its node staged there.
RouteNode(c) ==
    /\ Exec(c, "route")
    /\ LET where == Location(cur[c]) IN
         IF where = {c} THEN Goto(c, "take") /\ UNCHANGED <<cur, todo, taken, left, ret, frame>>
         ELSE /\ NodeDone(c)
              /\ IF where = {} THEN UNCHANGED frame
                 ELSE Call(c, [WakeFrame(cur[c]) EXCEPT !.at = "token", !.place = FALSE])
    /\ UNCHANGED <<cellVars, slotVars, nodes, haltVars, deferred, histVars>>

\* Under the parked lock, a task still here and still woken is activated.
TakeParked(c) ==
    /\ Exec(c, "take") /\ ~ParkedLocked(c)
    /\ IF cur[c] \in parked[c] /\ flag[cur[c]]
       THEN parked' = [parked EXCEPT ![c] = @ \ {cur[c]}] /\ Call(c, EnqueueFrame(cur[c], c))
       ELSE UNCHANGED <<parked, frame>>
    /\ NodeDone(c)
    /\ UNCHANGED <<cellVars, ready, inbox, nodes, haltVars, deferred, histVars>>

\* A round polls at most as many tasks as its run queue held at its start.
Left(c) == IF pc[c] = "round" THEN Cardinality(ready[c]) ELSE left[c]
Picking(c) == \E place \in {"round", "pick"} : Exec(c, place)

\* Pending activations are drained before each pick.
DrainPending(c) ==
    /\ Picking(c) /\ Left(c) > 0 /\ Pending(c)
    /\ Goto(c, "inbox") /\ ret' = [ret EXCEPT ![c] = "pick"] /\ left' = [left EXCEPT ![c] = Left(c)]
    /\ UNCHANGED <<cellVars, slotVars, nodes, haltVars, deferred, cur, todo, taken, frame, histVars>>

\* Mutant: the round goes on while there is work.
PickUnbounded(c, t) ==
    /\ Picking(c) /\ ~Pending(c) /\ t \in Runnable(c)
    /\ ready' = [ready EXCEPT ![c] = @ \ {t}] /\ cur' = [cur EXCEPT ![c] = t]
    /\ flag' = [flag EXCEPT ![t] = FALSE] /\ home' = [home EXCEPT ![t] = c]
    /\ owed' = [owed EXCEPT ![t] = FALSE]
    /\ left' = [left EXCEPT ![c] = Left(c) - 1] /\ Goto(c, "poll")
    /\ UNCHANGED <<queued, parked, inbox, nodes, haltVars, deferred, todo, taken, ret, frame, wakes>>

\* A pick takes the task out of the run queue, clears its flag, names this CPU
\* its home, and begins the poll.
PickTask(c, t) ==
    /\ Picking(c) /\ Left(c) > 0 /\ ~Pending(c) /\ t \in Runnable(c)
    /\ ready' = [ready EXCEPT ![c] = @ \ {t}] /\ cur' = [cur EXCEPT ![c] = t]
    /\ flag' = [flag EXCEPT ![t] = FALSE] /\ home' = [home EXCEPT ![t] = c]
    /\ owed' = [owed EXCEPT ![t] = FALSE]
    /\ left' = [left EXCEPT ![c] = Left(c) - 1] /\ Goto(c, "poll")
    /\ UNCHANGED <<queued, parked, inbox, nodes, haltVars, deferred, todo, taken, ret, frame, wakes>>

\* The polled task wakes a task ...
PollWakes(c, t) ==
    /\ Exec(c, "poll") /\ wakes < MaxWakes
    /\ Call(c, WakeFrame(t)) /\ wakes' = wakes + 1
    /\ UNCHANGED <<cellVars, slotVars, nodes, haltVars, deferred, execVars, owed>>

\* ... and returns pending: enqueue_after_poll, to this CPU or to the one that
\* an affinity change or a synchronous wake asked for.
PollPending(c, d) ==
    /\ Exec(c, "poll")
    /\ Call(c, EnqueueFrame(cur[c], d)) /\ cur' = [cur EXCEPT ![c] = NoTask] /\ Goto(c, "pick")
    /\ UNCHANGED <<cellVars, slotVars, nodes, haltVars, deferred, todo, taken, left, ret, histVars>>

\* The round is over: what is staged is drained before the CPU is called idle.
EndRound(c) ==
    /\ Picking(c) /\ (Left(c) = 0 \/ (~Pending(c) /\ Runnable(c) = {}))
    /\ Goto(c, IF Pending(c) THEN "inbox" ELSE "idle")
    /\ ret' = [ret EXCEPT ![c] = "idle"] /\ left' = [left EXCEPT ![c] = 0]
    /\ UNCHANGED <<cellVars, slotVars, nodes, haltVars, deferred, cur, todo, taken, frame, histVars>>

\* Mutant: a stolen task keeps its victim for a home.
StealStaleHome(c, d, t) ==
    /\ Exec(c, "idle") /\ Runnable(c) = {} /\ d # c /\ t \in Runnable(d)
    /\ Cardinality(Runnable(d)) + (IF pc[d] = "poll" THEN 1 ELSE 0) >= 2
    /\ ready' = [ready EXCEPT ![d] = @ \ {t}] /\ Goto(c, "top")
    /\ Call(c, [EnqueueFrame(t, c) EXCEPT !.at = "test"])
    /\ UNCHANGED <<cellVars, parked, inbox, nodes, haltVars, deferred, cur, todo, taken, left, ret, histVars>>

\* try_steal_one: from a CPU with two runnable tasks, the running one included.
Steal(c, d, t) ==
    /\ Exec(c, "idle") /\ Runnable(c) = {} /\ d # c /\ t \in Runnable(d)
    /\ Cardinality(Runnable(d)) + (IF pc[d] = "poll" THEN 1 ELSE 0) >= 2
    /\ ready' = [ready EXCEPT ![d] = @ \ {t}] /\ Call(c, EnqueueFrame(t, c)) /\ Goto(c, "top")
    /\ UNCHANGED <<cellVars, parked, inbox, nodes, haltVars, deferred, cur, todo, taken, left, ret, histVars>>

\* A CPU that holds no task at all returns to run_forever and halts there.
LocalEmpty(c) == ready[c] = {} /\ parked[c] = {}

\* Runnable work starts a round, and so do deferred wakers.
LeaveIdle(c) ==
    /\ Exec(c, "idle")
    /\ \/ Runnable(c) # {} /\ Goto(c, "top") /\ UNCHANGED <<taken, deferred>>
       \/ /\ Runnable(c) = {} /\ ~LocalEmpty(c) /\ deferred[c] # <<>> /\ Goto(c, "wakers")
          /\ taken' = [taken EXCEPT ![c] = deferred[c]] /\ deferred' = [deferred EXCEPT ![c] = <<>>]
    /\ UNCHANGED <<cellVars, slotVars, nodes, haltVars, cur, todo, left, ret, frame, histVars>>

\* The halt, with interrupts masked: publish CPU_HALTED, consume NEED_RESCHED,
\* scan, sti;hlt;cli.
CommitToHalt(c) ==
    /\ Exec(c, "idle") /\ Runnable(c) = {} /\ (LocalEmpty(c) \/ deferred[c] = <<>>)
    /\ halted' = [halted EXCEPT ![c] = TRUE] /\ Goto(c, "need")
    /\ UNCHANGED <<cellVars, slotVars, nodes, need, ipi, deferred, cur, todo, taken, left, ret, frame, histVars>>

CheckNeed(c) ==
    /\ Exec(c, "need")
    /\ need' = [need EXCEPT ![c] = FALSE] /\ Goto(c, IF need[c] THEN "resume" ELSE "scan")
    /\ UNCHANGED <<cellVars, slotVars, nodes, halted, ipi, deferred, cur, todo, taken, left, ret, frame, histVars>>

\* Mutant: the scan before the halt leaves out wake_list_pending.
ScanReadyOnly(c) ==
    /\ Exec(c, "scan") /\ Goto(c, IF deferred[c] # <<>> \/ Runnable(c) # {} THEN "resume" ELSE "hlt")
    /\ UNCHANGED <<cellVars, slotVars, nodes, haltVars, deferred, cur, todo, taken, left, ret, frame, histVars>>

FinalScan(c) ==
    /\ Exec(c, "scan")
    /\ Goto(c, IF Pending(c) \/ deferred[c] # <<>> \/ Runnable(c) # {} THEN "resume" ELSE "hlt")
    /\ UNCHANGED <<cellVars, slotVars, nodes, haltVars, deferred, cur, todo, taken, left, ret, frame, histVars>>

Resume(c) ==
    /\ Exec(c, "resume")
    /\ halted' = [halted EXCEPT ![c] = FALSE] /\ Goto(c, "top")
    /\ UNCHANGED <<cellVars, slotVars, nodes, need, ipi, deferred, cur, todo, taken, left, ret, frame, histVars>>

ExecutorStep(c) ==
    \/ RoundTop(c) \/ WakeDeferred(c) \/ DetachNodes(c) \/ RouteNode(c) \/ TakeParked(c)
    \/ DrainPending(c) \/ EndRound(c) \/ LeaveIdle(c) \/ CommitToHalt(c) \/ CheckNeed(c)
    \/ FinalScan(c) \/ Resume(c)
    \/ \E t \in Task : DrainInbox(c, t) \/ DrainNode(c, t) \/ PickTask(c, t) \/ PollWakes(c, t)
    \/ \E d \in CPU : PollPending(c, d) \/ \E t \in Task : Steal(c, d, t)

----------------------------------------------------------------------------
(* Interrupts.  sti;hlt;cli: one taken in the halt ends it. *)

Interrupted(c) == IF pc[c] = "hlt" THEN Goto(c, "resume") ELSE UNCHANGED pc

TakeIpi(c) ==
    /\ ipi[c] /\ Unmasked(c)
    /\ ipi' = [ipi EXCEPT ![c] = FALSE] /\ Interrupted(c)
    /\ UNCHANGED <<cellVars, slotVars, nodes, halted, need, deferred, cur, todo, taken, left, ret, frame, histVars>>

\* A handler that wakes a task itself.
IrqWakes(c, t) ==
    /\ c \in IrqCPU /\ Unmasked(c) /\ wakes < MaxWakes
    /\ frame' = [frame EXCEPT ![c]["irq"] = WakeFrame(t)] /\ wakes' = wakes + 1 /\ Interrupted(c)
    /\ UNCHANGED <<cellVars, slotVars, nodes, haltVars, deferred, cur, todo, taken, left, ret, owed>>

\* A handler that leaves the waker to the executor (push_pending_iter): the
\* first free slot takes it, and with no slot free it is dropped.
IrqDefers(c, t) ==
    /\ c \in IrqCPU /\ Unmasked(c) /\ wakes < MaxWakes
    /\ \/ Len(deferred[c]) < MaxPending /\ deferred' = [deferred EXCEPT ![c] = Append(@, t)]
       \/ Len(deferred[c]) = MaxPending /\ UNCHANGED deferred
    /\ wakes' = wakes + 1 /\ owed' = [owed EXCEPT ![t] = TRUE] /\ Interrupted(c)
    /\ UNCHANGED <<cellVars, slotVars, nodes, haltVars, cur, todo, taken, left, ret, frame>>

CpuStep(c) == (\E l \in Level : CallStep(c, l)) \/ ExecutorStep(c) \/ TakeIpi(c)

Next == \E c \in CPU : CpuStep(c) \/ \E t \in Task : IrqWakes(c, t) \/ IrqDefers(c, t)

\* A CPU that can take a step of its own takes one.
Fairness == \A c \in CPU : WF_vars(CpuStep(c))

Spec == Init /\ [][Next]_vars
FairSpec == Spec /\ Fairness

----------------------------------------------------------------------------
Frames == {frame[c][l] : c \in CPU, l \in Level}
HoldsTask(f) == f.at \in {"own", "test", "insert"}
HoldsClaim(f) == f.at \in {"locate", "publish", "release"}
Batch(c) == IF pc[c] \in {"node", "route", "take"} THEN todo[c] ELSE {}

\* The tasks that a part of CPU c holds: a queue, the poll in progress, the
\* call of a level.
Part == {"parked", "ready", "inbox", "polled"} \cup Level
Held(k, c) ==
    CASE k = "parked" -> parked[c]
      [] k = "ready"  -> ready[c]
      [] k = "inbox"  -> inbox[c]
      [] k = "polled" -> {t \in Task : pc[c] = "poll" /\ cur[c] = t}
      [] k \in Level  -> {t \in Task : HoldsTask(frame[c][k]) /\ frame[c][k].task = t}

HeldOnce ==
    \A t \in Task : \E k \in Part, c \in CPU :
        \A j \in Part, d \in CPU : t \in Held(j, d) <=> j = k /\ d = c
HomeNamesHolder == \A c \in CPU : \A t \in parked[c] \cup ready[c] : home[t] = c

\* A task is in one place, through wakes, migrations, steals and parking, and
\* its wake cell names the CPU whose queue or parked storage holds it: that is
\* the CPU a waker will kick (the re-homing of a stolen slot, lib.rs:7448-7465,
\* and insert's assertion that a task is parked once, lib.rs:307-315).
OneOwner == HeldOnce /\ HomeNamesHolder

\* The tasks whose node is in a part of CPU c: its inbox, the batch it drains,
\* the call of a level that has claimed the node.
NodePart == {"staged", "batch"} \cup Level
NodeHeld(k, c) ==
    CASE k = "staged" -> nodes[c]
      [] k = "batch"  -> Batch(c)
      [] k \in Level  -> {t \in Task : HoldsClaim(frame[c][k]) /\ frame[c][k].task = t}

\* The one intrusive node of a task is in one inbox, in one detached batch or
\* with one producer while activation_queued is set, and nowhere otherwise:
\* nobody writes wake_next of a node that another list goes through.
NodeQueuedOnce ==
    \A t \in Task :
        IF queued[t]
        THEN \E k \in NodePart, c \in CPU :
                \A j \in NodePart, d \in CPU : t \in NodeHeld(j, d) <=> j = k /\ d = c
        ELSE \A j \in NodePart, d \in CPU : t \notin NodeHeld(j, d)

Attended(t) ==
    \/ queued[t]
    \/ \E f \in Frames : f.task = t /\ f.at \in {"token", "claim", "again", "recheck"}
    \/ \E c \in CPU : cur[c] = t /\ (pc[c] = "route" \/ (pc[c] = "take" /\ t \in parked[c]))

\* A task that is parked with its wake flag set has someone still to act on it:
\* its staged node or the producer that owns the claim, a waker about to claim
\* it, the park that rereads the flag, or the drain that holds its node.
WakeNotLost ==
    \A t \in Task, c \in CPU : t \in parked[c] /\ flag[t] => Attended(t)

\* A CPU halted over staged, runnable or deferred work has an interrupt on its
\* way: an IPI is pending, or a producer is between its push and its look at
\* CPU_HALTED or its unconditional IPI (the halt handshake, lib.rs:6922-6968).
NoSleepOverWork ==
    \A c \in CPU :
        pc[c] = "hlt" /\ (Pending(c) \/ Runnable(c) # {} \/ deferred[c] # <<>>)
            => ipi[c] \/ \E f \in Frames : f.cpu = c /\ f.at \in {"need", "halted"}

\* Every wake is followed by a poll that begins after it, without a timer
\* tick, whatever the task, its waker and the two CPUs were doing, as long as
\* interrupts stash at most MaxPending wakers on a CPU between two drains.
WokenIsPolled == \A t \in Task : []<>(~owed[t])

----------------------------------------------------------------------------
(* The inductive strengthening of the invariants above. *)

\* A call in progress has a task and, where it needs one, a target CPU; an
\* executor that routes, takes or polls has a task in hand.
CallInv ==
    \A c \in CPU, l \in Level :
        /\ frame[c][l].at # "idle" => frame[c][l].task \in Task
        /\ frame[c][l].at \in {"publish", "need", "halted", "own", "test", "insert", "recheck"}
               => frame[c][l].cpu \in CPU
HandInv == \A c \in CPU : pc[c] \in {"route", "take", "poll"} => cur[c] \in Task

\* A call that has written the task's home enqueues it there, and the task it
\* has just parked stays parked while it holds the lock ...
EnqueueInv ==
    \A c \in CPU, l \in Level :
        /\ frame[c][l].at \in {"test", "insert"} => home[frame[c][l].task] = frame[c][l].cpu
        /\ frame[c][l].at = "recheck" => frame[c][l].task \in parked[frame[c][l].cpu]

\* ... which one call at a time does.
LockInv ==
    \A c, d \in CPU, l, m \in Level :
        frame[c][l].at = "recheck" /\ frame[d][m].at = "recheck" /\ frame[c][l].cpu = frame[d][m].cpu
            => c = d /\ l = m

\* A task in a run queue or an inbox has been woken: only the pick clears the flag.
ReadyInv == \A c \in CPU : \A t \in ready[c] \cup inbox[c] : flag[t]

\* CPU_HALTED is up through the halt, and nothing else runs on the CPU.
HaltInv == \A c \in CPU : pc[c] \in {"need", "scan", "hlt"} => halted[c] /\ Executing(c)

TypeInv == TypeOK /\ CallInv /\ HandInv
SlotInv == OneOwner /\ EnqueueInv /\ LockInv /\ ReadyInv
SleepInv == HaltInv /\ NoSleepOverWork
SchedInv == TypeInv /\ SlotInv /\ NodeQueuedOnce /\ WakeNotLost /\ SleepInv

=============================================================================
