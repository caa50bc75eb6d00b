--------------------------- MODULE ReclaimOffload ---------------------------
(***************************************************************************)
(* One reclaim worker's offload queue (OffloadQueue of rcu/src/qsbr.rs)    *)
(* with everyone who touches it: CPUs that hand over chains of nodes whose *)
(* grace period has elapsed, explicit grace-period waits that take the     *)
(* queue too, and the worker task of frame/src/bare_main.rs with the hook  *)
(* that wakes it.  The queue is a linked list whose nodes are freed and    *)
(* allocated again while producers still hold their addresses, so the list *)
(* is modelled by its pointers.  Each access to shared memory is a step;   *)
(* memory is sequentially consistent.                                      *)
(***************************************************************************)

CONSTANTS Node,      \* addresses of callback nodes
          Null,
          Producer,  \* CPUs passing quiescent points
          Syncer,    \* tasks in sync_until or SyncFuture
          Worker     \* the worker task of this queue

Taker == Syncer \cup {Worker}

ASSUME OffloadAssumption == Null \notin Node /\ Worker \notin Syncer

VARIABLES head, kicked,  \* OffloadQueue
          next,          \* DeferHdr::next
          free,          \* nodes no chain, list or taker owns
          work, waker,   \* RcuReclaimWorker, waker as whether one is installed
          runnable,      \* the executor owes the worker task a poll
          pc, list,      \* each taker's place, and the node it is to run next
          push           \* each producer's place and its chain

queueVars == <<head, kicked, next, free>>
wakeVars  == <<work, waker, runnable>>
vars == <<queueVars, wakeVars, pc, list, push>>

Ptr == Node \cup {Null}
NoPush == [at |-> "idle", first |-> Null, tail |-> Null, seen |-> Null, cells |-> {}]

TypeOK ==
    /\ head \in Ptr /\ next \in [Node -> Ptr] /\ free \subseteq Node
    /\ kicked \in BOOLEAN /\ work \in BOOLEAN /\ waker \in BOOLEAN /\ runnable \in BOOLEAN
    /\ pc \in [Taker -> {"idle", "check", "install", "recheck", "clear", "detach", "run"}]
    /\ list \in [Taker -> Ptr] /\ \A t \in Taker : pc[t] # "run" => list[t] = Null
    /\ push \in [Producer -> [at : {"idle", "load", "cas", "swap", "work", "clone", "wake"},
                              first : Ptr, tail : Ptr, seen : Ptr, cells : SUBSET Node]]

Init ==
    /\ head = Null /\ kicked = FALSE /\ next = [n \in Node |-> Null] /\ free = Node
    /\ work = FALSE /\ waker = FALSE /\ runnable = TRUE
    /\ pc = [t \in Taker |-> "idle"] /\ list = [t \in Taker |-> Null]
    /\ push = [p \in Producer |-> NoPush]

----------------------------------------------------------------------------
(* offload_or_run on a producer: OffloadQueue::push, then the wake hook. *)

Step(p, place) == push' = [push EXCEPT ![p].at = place]

\* The drain has cut a chain of one or two ready nodes off its bucket.
Offload(p) ==
    /\ push[p].at = "idle"
    /\ \E a, b \in free :
         /\ push' = [push EXCEPT ![p] = [at |-> "load", first |-> a, tail |-> b,
                                         seen |-> Null, cells |-> {a, b}]]
         /\ next' = IF a = b THEN next ELSE [next EXCEPT ![a] = b]
         /\ free' = free \ {a, b}
    /\ UNCHANGED <<head, kicked, wakeVars, pc, list>>

\* head.load, and the tail of the chain linked in front of what it returned.
LoadHead(p) ==
    /\ push[p].at = "load"
    /\ push' = [push EXCEPT ![p].at = "cas", ![p].seen = head]
    /\ next' = [next EXCEPT ![push[p].tail] = head]
    /\ UNCHANGED <<head, kicked, free, wakeVars, pc, list>>

\* Mutant: a failed exchange retries without linking the tail again.
CasHeadStaleLink(p) ==
    /\ push[p].at = "cas"
    /\ IF head = push[p].seen
       THEN /\ head' = push[p].first
            /\ push' = [push EXCEPT ![p] = [NoPush EXCEPT !.at = "swap"]] /\ next' = next
       ELSE push' = [push EXCEPT ![p].seen = head] /\ next' = next /\ head' = head
    /\ UNCHANGED <<kicked, free, wakeVars, pc, list>>

\* compare_exchange_weak: on failure the tail is linked to the head it saw.
CasHead(p) ==
    /\ push[p].at = "cas"
    /\ IF head = push[p].seen
       THEN /\ head' = push[p].first
            /\ push' = [push EXCEPT ![p] = [NoPush EXCEPT !.at = "swap"]] /\ next' = next
       ELSE /\ push' = [push EXCEPT ![p].seen = head]
            /\ next' = [next EXCEPT ![push[p].tail] = head] /\ head' = head
    /\ UNCHANGED <<kicked, free, wakeVars, pc, list>>

\* Mutant: the producer skips the wake when it finds its chain already taken.
SwapKickedPlain(p) ==
    /\ push[p].at = "swap"
    /\ Step(p, IF kicked \/ head = Null THEN "idle" ELSE "work")
    /\ kicked' = TRUE
    /\ UNCHANGED <<head, next, free, wakeVars, pc, list>>

\* kicked.swap(true): the producer that set it calls the hook.
SwapKicked(p) ==
    /\ push[p].at = "swap"
    /\ Step(p, IF kicked THEN "idle" ELSE "work")
    /\ kicked' = TRUE
    /\ UNCHANGED <<head, next, free, wakeVars, pc, list>>

\* rcu_reclaim_kick: the work bit, a clone of the waker, the wake.
KickWork(p) ==
    /\ push[p].at = "work"
    /\ work' = TRUE /\ Step(p, "clone")
    /\ UNCHANGED <<queueVars, waker, runnable, pc, list>>

KickClone(p) ==
    /\ push[p].at = "clone"
    /\ Step(p, IF waker THEN "wake" ELSE "idle")
    /\ UNCHANGED <<queueVars, wakeVars, pc, list>>

KickWake(p) ==
    /\ push[p].at = "wake"
    /\ runnable' = TRUE /\ Step(p, "idle")
    /\ UNCHANGED <<queueVars, work, waker, pc, list>>

ProducerStep(p) ==
    \/ LoadHead(p) \/ CasHead(p) \/ SwapKicked(p) \/ KickWork(p) \/ KickClone(p) \/ KickWake(p)

----------------------------------------------------------------------------
(* run_offloaded_reclaim_for: take, then run_droppers. *)

\* take clears the coalescing bit ...
ClearKicked(t) ==
    /\ pc[t] = "clear"
    /\ kicked' = FALSE /\ pc' = [pc EXCEPT ![t] = "detach"]
    /\ UNCHANGED <<head, next, free, wakeVars, list, push>>

\* ... and then detaches the whole list.
DetachList(t) ==
    /\ pc[t] = "detach"
    /\ list' = [list EXCEPT ![t] = head] /\ head' = Null
    /\ pc' = [pc EXCEPT ![t] = "run"]
    /\ UNCHANGED <<kicked, next, free, wakeVars, push>>

\* run_droppers reads the link, then runs the dropper, which frees the node
\* (a freed node's link is nobody's to read, and stands at Null).
RunDropper(t) ==
    /\ pc[t] = "run" /\ list[t] # Null
    /\ list' = [list EXCEPT ![t] = next[list[t]]]
    /\ free' = free \cup {list[t]} /\ next' = [next EXCEPT ![list[t]] = Null]
    /\ UNCHANGED <<head, kicked, wakeVars, pc, push>>

\* Mutant: the taker ends its poll after each node.
BatchDoneEarly(t) ==
    /\ pc[t] = "run"
    /\ pc' = [pc EXCEPT ![t] = "idle"] /\ runnable' = (runnable \/ t = Worker)
    /\ UNCHANGED <<queueVars, work, waker, list, push>>

\* The list is done.  The worker ends its poll in yield_now, which wakes it.
BatchDone(t) ==
    /\ pc[t] = "run" /\ list[t] = Null
    /\ pc' = [pc EXCEPT ![t] = "idle"] /\ runnable' = (runnable \/ t = Worker)
    /\ UNCHANGED <<queueVars, work, waker, list, push>>

\* The end of a grace-period wait: run_offloaded_reclaim visits this queue.
SyncTakes(s) ==
    /\ pc[s] = "idle" /\ s \in Syncer
    /\ pc' = [pc EXCEPT ![s] = "clear"]
    /\ UNCHANGED <<queueVars, wakeVars, list, push>>

\* Mutant: take detaches the list first and clears the bit after it.
TakerStepDetachFirst(t) ==
    \/ /\ pc[t] = "clear"
       /\ list' = [list EXCEPT ![t] = head] /\ head' = Null
       /\ pc' = [pc EXCEPT ![t] = "detach"]
       /\ UNCHANGED <<kicked, next, free, wakeVars, push>>
    \/ /\ pc[t] = "detach"
       /\ kicked' = FALSE /\ pc' = [pc EXCEPT ![t] = "run"]
       /\ UNCHANGED <<head, next, free, wakeVars, list, push>>
    \/ RunDropper(t) \/ BatchDone(t)

\* run_offloaded_reclaim_for, for the worker and for a grace-period wait.
TakerStep(t) == ClearKicked(t) \/ DetachList(t) \/ RunDropper(t) \/ BatchDone(t)

----------------------------------------------------------------------------
(* The poll_fn the worker parks in: look, install the waker, look again. *)

PollWorker ==
    /\ pc[Worker] = "idle" /\ runnable
    /\ runnable' = FALSE /\ pc' = [pc EXCEPT ![Worker] = "check"]
    /\ UNCHANGED <<queueVars, work, waker, list, push>>

CheckWork ==
    /\ pc[Worker] = "check"
    /\ pc' = [pc EXCEPT ![Worker] = IF work THEN "clear" ELSE "install"]
    /\ work' = FALSE
    /\ UNCHANGED <<queueVars, waker, runnable, list, push>>

InstallWaker ==
    /\ pc[Worker] = "install"
    /\ waker' = TRUE /\ pc' = [pc EXCEPT ![Worker] = "recheck"]
    /\ UNCHANGED <<queueVars, work, runnable, list, push>>

\* Mutant: the worker parks without looking at the work bit again.
RecheckSkipped ==
    /\ pc[Worker] = "recheck"
    /\ pc' = [pc EXCEPT ![Worker] = "idle"]
    /\ UNCHANGED <<queueVars, wakeVars, list, push>>

RecheckWork ==
    /\ pc[Worker] = "recheck"
    /\ pc' = [pc EXCEPT ![Worker] = IF work THEN "clear" ELSE "idle"]
    /\ work' = FALSE
    /\ UNCHANGED <<queueVars, waker, runnable, list, push>>

WorkerStep == PollWorker \/ CheckWork \/ InstallWaker \/ RecheckWork

Next ==
    \/ \E p \in Producer : Offload(p) \/ ProducerStep(p)
    \/ \E t \in Taker : TakerStep(t)
    \/ \E s \in Syncer : SyncTakes(s)
    \/ WorkerStep

\* A call that has begun goes on, and the executor polls a runnable task.
\* Nothing obliges anyone to retire a node or to wait for a grace period.
Fairness ==
    /\ \A p \in Producer : WF_vars(ProducerStep(p))
    /\ \A t \in Taker : WF_vars(TakerStep(t))
    /\ WF_vars(WorkerStep)

Spec == Init /\ [][Next]_vars /\ Fairness

----------------------------------------------------------------------------

\* The nodes a pointer leads to through the links f: what is in every set that
\* has the pointer's target and is closed under f.
ReachIn(f, ptr) ==
    {n \in Node : \A S \in SUBSET Node :
        ptr \in S \cup {Null} /\ (\A m \in S : f[m] \in S \cup {Null}) => n \in S}
Reach(ptr) == ReachIn(next, ptr)

\* Who owns nodes: the allocator, the queue, each producer's chain, each taker.
Owner == ({"free", "queue"} \X {Null}) \cup ({"chain"} \X Producer) \cup ({"taken"} \X Taker)
Owned(o) ==
    CASE o[1] = "free"  -> free
      [] o[1] = "queue" -> Reach(head)
      [] o[1] = "chain" -> push[o[2]].cells
      [] o[1] = "taken" -> Reach(list[o[2]])

\* Every node is owned by exactly one of them, though a node's address may be
\* freed, allocated again and pushed between a producer's load of the head and
\* its exchange: no callback runs twice, none is dropped from the list, and no
\* taker walks into another's nodes.
OwnedOnce ==
    \A n \in Node : \E o \in Owner : \A q \in Owner : n \in Owned(q) <=> q = o

\* The coalescing bit and the work bit lose no kick: while nodes queue, some
\* producer has still to kick, or the bit is set for a take that is to come, or
\* a taker has cleared the bit and has still to detach the list.
KickComing == \E p \in Producer : push[p].at \in {"swap", "work"}
WorkerComing == work \/ pc[Worker] = "clear"
NodesHaveTaker ==
    head # Null => KickComing \/ WorkerComing \/ \E t \in Taker : pc[t] = "detach"

\* A worker parked with its work bit set is about to be polled or woken: the
\* look at the bit after installing the waker leaves no gap for a kick.
ParkedWorkerIsWoken ==
    work /\ pc[Worker] = "idle" =>
        runnable \/ \E p \in Producer : push[p].at \in {"clone", "wake"} /\ waker

\* The pointers, the coalescing bit and the worker's park implement a set of
\* callbacks that are each taken once and run, however producers, waits and
\* the worker interleave.
Abstract == INSTANCE CallbackQueue WITH
                pending <- Reach(head),
                batch   <- [t \in Taker |-> Reach(list[t])]
ImplementsCallbackQueue == Abstract!Spec

----------------------------------------------------------------------------
(* The inductive strengthening of the properties of the two bits. *)

\* While the coalescing bit is set, the kick that set it is on its way to the
\* worker, or has reached it and the worker has still to clear the bit.
KickInv == kicked => WorkerComing \/ \E p \in Producer : push[p].at = "work"

\* The worker parks with its waker installed, and on no earlier occasion.
ParkInv ==
    /\ pc[Worker] = "recheck" => waker
    /\ pc[Worker] = "idle" => runnable \/ waker

\* What a producer relies on while it links its chain.
ChainInv ==
    \A p \in Producer :
        LET c == push[p] IN
        IF c.at \in {"load", "cas"}
        THEN /\ c.first \in Node /\ c.tail \in Node /\ c.cells = {c.first, c.tail}
             /\ c.first # c.tail => next[c.first] = c.tail
             /\ c.at = "cas" => next[c.tail] = c.seen
        ELSE c.cells = {}

\* Neither the queue nor what a taker runs comes back to itself.
Acyclic(f, ptr) == \A n \in ReachIn(f, ptr) : n \notin ReachIn(f, f[n])
ListInv == Acyclic(next, head) /\ \A t \in Taker : Acyclic(next, list[t])

BitsInv == NodesHaveTaker /\ ParkedWorkerIsWoken /\ KickInv /\ ParkInv
NodesInv == OwnedOnce /\ ChainInv /\ ListInv
OffloadInv == TypeOK /\ BitsInv /\ NodesInv

=============================================================================
