------------------------------ MODULE MpscRing ------------------------------
(***************************************************************************)
(* The multi-producer single-consumer ring of ipc/src/mpsc_ring.rs: a      *)
(* bounded queue in which every slot carries a sequence number that says   *)
(* whose turn it is, with cloneable producer handles and one waker slot    *)
(* for each side.                                                          *)
(*                                                                         *)
(* One step is one access to shared memory.  `head' is stored only by the  *)
(* consumer, so the consumer's `pos' is always head, except between its    *)
(* store of head and its store of seq.  Every message's hand-over is a     *)
(* release/acquire pair on the slot's seq and a waker is only touched      *)
(* under its lock.  Indices are u64 and cannot wrap in a ring's life.      *)
(***************************************************************************)
EXTENDS Integers, Sequences, FiniteSets

CONSTANTS Producer,    \* producer handles that may ever exist
          First,       \* the handle mpsc_ring_channel() returns
          Msg, Uninit, \* payloads, and MaybeUninit::uninit()
          Payload,     \* the payloads each handle's user sends
          NoWaker,     \* the waker slot holds None
          N,           \* capacity
          MaxSend      \* bound: how many slots are ever claimed

ASSUME MpscAssumption ==
    /\ N \in Nat \ {0}
    /\ MaxSend \in Nat
    /\ First \in Producer /\ IsFiniteSet(Producer)
    /\ Payload \in [Producer -> SUBSET Msg]
    /\ Uninit \notin Msg /\ NoWaker \notin Producer

VARIABLES tail, head, producers, consumerGone,   \* MpscRing
          seq, val,                              \* its slots
          consumerWaker, producerWaker,          \* its waker slots
          prod, pawake,                          \* the producers and their tasks
          cpc, ccall, eof, cawake,               \* the consumer and its task
          freed, dropped,                        \* MpscRing::drop has run; on what, by position
          sent, rcvd                             \* history: claimed and taken

idxVars  == <<tail, head, producers, consumerGone>>
slotVars == <<seq, val>>
consVars == <<cpc, ccall, eof>>
wakeVars == <<consumerWaker, producerWaker, pawake, cawake>>
endVars  == <<freed, dropped>>
histVars == <<sent, rcvd>>
vars == <<idxVars, slotVars, prod, consVars, wakeVars, endVars, histVars>>

SendCalls == {"try", "poll1", "poll2"}
RecvCalls == {"try", "pop", "poll1", "poll2"}

ProducerPCs == {"unborn", "idle", "check_closed", "load_tail", "load_seq", "cas",
                "write", "publish", "wake", "register", "clear", "parked",
                "last_wake", "gone"}
ConsumerPCs == {"idle", "load_seq", "check_producers", "recheck_seq", "take",
                "advance", "release", "wake", "register", "clear", "parked",
                "dropping", "gone"}

Slot(i) == i % N

\* What a producer handle keeps on its stack; dead values are reset.
IdleProducer == [pc |-> "idle", call |-> "try", msg |-> Uninit, pos |-> 0]

Counted == {p \in Producer : prod[p].pc \notin {"unborn", "last_wake", "gone"}}

TypeOK ==
    /\ tail \in Nat /\ head \in Nat /\ consumerGone \in BOOLEAN
    /\ producers = Cardinality(Counted)
    /\ seq \in [0..N-1 -> Nat] /\ val \in [0..N-1 -> Msg \cup {Uninit}]
    /\ consumerWaker \in BOOLEAN /\ producerWaker \in Producer \cup {NoWaker}
    /\ prod \in [Producer -> [pc : ProducerPCs, call : SendCalls,
                              msg : Msg \cup {Uninit}, pos : Nat]]
    /\ pawake \in [Producer -> BOOLEAN] /\ cawake \in BOOLEAN
    /\ cpc \in ConsumerPCs /\ ccall \in RecvCalls /\ eof \in BOOLEAN
    /\ freed \in BOOLEAN
    /\ DOMAIN dropped \subseteq Nat /\ dropped \in [DOMAIN dropped -> Msg]
    /\ sent \in Seq(Msg) /\ rcvd \in Seq(Msg)

(***************************************************************************)
(* mpsc_ring_channel(): one producer, an empty ring, slot i ready for pos i.*)
(***************************************************************************)
Init ==
    /\ tail = 0 /\ head = 0 /\ producers = 1 /\ consumerGone = FALSE
    /\ seq = [i \in 0..N-1 |-> i] /\ val = [i \in 0..N-1 |-> Uninit]
    /\ consumerWaker = FALSE /\ producerWaker = NoWaker
    /\ prod = [p \in Producer |->
                 IF p = First THEN IdleProducer ELSE [IdleProducer EXCEPT !.pc = "unborn"]]
    /\ pawake = [p \in Producer |-> FALSE] /\ cawake = FALSE
    /\ cpc = "idle" /\ ccall = "try" /\ eof = FALSE
    /\ freed = FALSE /\ dropped = [i \in {} |-> Uninit]
    /\ sent = <<>> /\ rcvd = <<>>

Goto(p, label) == prod' = [prod EXCEPT ![p].pc = label]
Return(p) == prod' = [prod EXCEPT ![p] = IdleProducer]

WakeConsumer ==
    /\ consumerWaker' = FALSE
    /\ cawake' = (cawake \/ consumerWaker)
    /\ UNCHANGED <<producerWaker, pawake>>

\* Whoever's waker is in the slot is woken, and nobody else.
WakeProducer ==
    /\ producerWaker' = NoWaker
    /\ pawake' = [p \in Producer |-> pawake[p] \/ producerWaker = p]
    /\ UNCHANGED <<consumerWaker, cawake>>

-----------------------------------------------------------------------------
(* Producer handles *)

\* Mutant: a clone that forgets to count itself.
CloneUncounted(p, q) ==
    /\ prod[p].pc = "idle" /\ prod[q].pc = "unborn"
    /\ Goto(q, "idle")
    /\ UNCHANGED <<idxVars, slotVars, consVars, wakeVars, endVars, histVars>>

Clone(p, q) ==
    /\ prod[p].pc = "idle" /\ prod[q].pc = "unborn"
    /\ producers' = producers + 1
    /\ Goto(q, "idle")
    /\ UNCHANGED <<tail, head, consumerGone, slotVars, consVars, wakeVars, endVars, histVars>>

\* Only the drop that takes the count to zero goes on to wake the consumer.
DropProducer(p) ==
    /\ prod[p].pc = "idle"
    /\ producers' = producers - 1
    /\ Goto(p, IF producers = 1 THEN "last_wake" ELSE "gone")
    /\ UNCHANGED <<tail, head, consumerGone, slotVars, consVars, wakeVars, endVars, histVars>>

LastProducerWake(p) ==
    /\ prod[p].pc = "last_wake"
    /\ WakeConsumer
    /\ Goto(p, "gone")
    /\ UNCHANGED <<idxVars, slotVars, consVars, endVars, histVars>>

\* Sends that have begun and hold no slot yet.
Unclaimed ==
    {p \in Producer : prod[p].pc \in {"check_closed", "load_tail", "load_seq", "cas",
                                      "register", "parked"}}

\* try_send, try_push, or the first poll of send().
StartSend(p, m, call) ==
    /\ prod[p].pc = "idle" /\ Len(sent) + Cardinality(Unclaimed) < MaxSend
    /\ prod' = [prod EXCEPT ![p] = [pc |-> "check_closed", call |-> call, msg |-> m, pos |-> 0]]
    /\ UNCHANGED <<idxVars, slotVars, consVars, wakeVars, endVars, histVars>>

SendCheckClosed(p) ==
    /\ prod[p].pc = "check_closed"
    /\ \/ consumerGone /\ Return(p)
       \/ ~consumerGone /\ Goto(p, "load_tail")
    /\ UNCHANGED <<idxVars, slotVars, consVars, wakeVars, endVars, histVars>>

SendLoadTail(p) ==
    /\ prod[p].pc = "load_tail"
    /\ prod' = [prod EXCEPT ![p].pos = tail, ![p].pc = "load_seq"]
    /\ UNCHANGED <<idxVars, slotVars, consVars, wakeVars, endVars, histVars>>

\* Err(Full) ends a plain try_send; the future registers and tries once more,
\* and is Pending when that fails too.
SendFull(p) ==
    \/ prod[p].call = "try" /\ Return(p)
    \/ prod[p].call = "poll1" /\ prod' = [prod EXCEPT ![p].pc = "register", ![p].pos = 0]
    \/ prod[p].call = "poll2" /\ prod' = [prod EXCEPT ![p].pc = "parked", ![p].pos = 0]

\* Mutant: a slot that is one lap behind pos is taken for a free one.
SendLoadSeqLapBehind(p) ==
    /\ prod[p].pc = "load_seq"
    /\ LET diff == seq[Slot(prod[p].pos)] - prod[p].pos
       IN  \/ diff \in {0, 1 - N} /\ Goto(p, "cas")
           \/ diff < 1 - N /\ SendFull(p)
           \/ diff > 0 /\ Goto(p, "load_tail")
    /\ UNCHANGED <<idxVars, slotVars, consVars, wakeVars, endVars, histVars>>

\* A slot that lags behind pos still holds an unread message: the ring is full.
\* One that is ahead was claimed by another producer: tail is read again.
SendLoadSeq(p) ==
    /\ prod[p].pc = "load_seq"
    /\ LET diff == seq[Slot(prod[p].pos)] - prod[p].pos
       IN  \/ diff = 0 /\ Goto(p, "cas")
           \/ diff < 0 /\ SendFull(p)
           \/ diff > 0 /\ Goto(p, "load_tail")
    /\ UNCHANGED <<idxVars, slotVars, consVars, wakeVars, endVars, histVars>>

Claim(p) ==
    /\ sent' = Append(sent, prod[p].msg)
    /\ Goto(p, "write")
    /\ UNCHANGED <<head, producers, consumerGone, slotVars, consVars, wakeVars, endVars, rcvd>>

\* Mutant: a claim that does not compare, as a plain load and store would make it.
SendClaimUnchecked(p) ==
    /\ prod[p].pc = "cas"
    /\ tail' = prod[p].pos + 1
    /\ Claim(p)

SendCasOk(p) ==
    /\ prod[p].pc = "cas" /\ tail = prod[p].pos
    /\ tail' = tail + 1
    /\ Claim(p)

\* compare_exchange_weak may fail although tail is unchanged; either way it
\* yields the value of tail and the loop goes round.
SendCasFail(p) ==
    /\ prod[p].pc = "cas"
    /\ prod' = [prod EXCEPT ![p].pos = tail, ![p].pc = "load_seq"]
    /\ UNCHANGED <<idxVars, slotVars, consVars, wakeVars, endVars, histVars>>

SendWrite(p) ==
    /\ prod[p].pc = "write"
    /\ val' = [val EXCEPT ![Slot(prod[p].pos)] = prod[p].msg]
    /\ Goto(p, "publish")
    /\ UNCHANGED <<idxVars, seq, consVars, wakeVars, endVars, histVars>>

SendPublish(p) ==
    /\ prod[p].pc = "publish"
    /\ seq' = [seq EXCEPT ![Slot(prod[p].pos)] = prod[p].pos + 1]
    /\ prod' = [prod EXCEPT ![p] = [@ EXCEPT !.pc = "wake", !.msg = Uninit, !.pos = 0]]
    /\ UNCHANGED <<idxVars, val, consVars, wakeVars, endVars, histVars>>

\* Mutant: the consumer's waker is left where it is.
SendWakeNobody(p) ==
    /\ prod[p].pc = "wake"
    /\ IF prod[p].call = "poll2" THEN Goto(p, "clear") ELSE Return(p)
    /\ UNCHANGED <<idxVars, slotVars, consVars, wakeVars, endVars, histVars>>

SendWake(p) ==
    /\ prod[p].pc = "wake"
    /\ WakeConsumer
    /\ IF prod[p].call = "poll2" THEN Goto(p, "clear") ELSE Return(p)
    /\ UNCHANGED <<idxVars, slotVars, consVars, endVars, histVars>>

\* The waker slot is overwritten, whoever's waker it held.
SendRegister(p) ==
    /\ prod[p].pc = "register"
    /\ producerWaker' = p
    /\ prod' = [prod EXCEPT ![p].call = "poll2", ![p].pc = "check_closed"]
    /\ UNCHANGED <<idxVars, slotVars, consVars, consumerWaker, pawake, cawake, endVars, histVars>>

\* The waker slot is emptied, whoever's waker it holds.
SendClear(p) ==
    /\ prod[p].pc = "clear"
    /\ producerWaker' = NoWaker
    /\ Return(p)
    /\ UNCHANGED <<idxVars, slotVars, consVars, consumerWaker, pawake, cawake, endVars, histVars>>

SendRepoll(p) ==
    /\ prod[p].pc = "parked" /\ pawake[p]
    /\ pawake' = [pawake EXCEPT ![p] = FALSE]
    /\ prod' = [prod EXCEPT ![p].call = "poll1", ![p].pc = "check_closed"]
    /\ UNCHANGED <<idxVars, slotVars, consVars, consumerWaker, producerWaker, cawake,
                   endVars, histVars>>

\* The pending future is dropped; its waker stays in the ring.
CancelSend(p) ==
    /\ prod[p].pc = "parked"
    /\ Return(p)
    /\ UNCHANGED <<idxVars, slotVars, consVars, wakeVars, endVars, histVars>>

ProducerStep(p) ==
    \/ SendCheckClosed(p) \/ SendLoadTail(p) \/ SendLoadSeq(p) \/ SendCasOk(p)
    \/ SendCasFail(p) \/ SendWrite(p) \/ SendPublish(p) \/ SendWake(p)
    \/ SendRegister(p) \/ SendClear(p) \/ SendRepoll(p) \/ LastProducerWake(p)

-----------------------------------------------------------------------------
(* Consumer *)

StartRecv(call) ==
    /\ cpc = "idle"
    /\ cpc' = "load_seq" /\ ccall' = call /\ eof' = FALSE
    /\ UNCHANGED <<idxVars, slotVars, prod, wakeVars, endVars, histVars>>

RecvReturn == cpc' = "idle" /\ ccall' = "try"

\* Ok(None) ends a plain try_recv; RecvFuture::poll registers and retries.
RecvEmpty ==
    /\ eof' = eof
    /\ \/ ccall \in {"try", "pop"} /\ RecvReturn
       \/ ccall = "poll1" /\ cpc' = "register" /\ ccall' = ccall
       \/ ccall = "poll2" /\ cpc' = "parked" /\ ccall' = ccall

RecvClosed == RecvReturn /\ eof' = TRUE

Ready == seq[Slot(head)] = head + 1

\* try_pop answers None for any slot that is not ready.
RecvLoadSeq ==
    /\ cpc = "load_seq"
    /\ \/ Ready /\ cpc' = "take" /\ UNCHANGED <<ccall, eof>>
       \/ ~Ready /\ ccall = "pop" /\ RecvEmpty
       \/ ~Ready /\ ccall # "pop" /\ cpc' = "check_producers" /\ UNCHANGED <<ccall, eof>>
    /\ UNCHANGED <<idxVars, slotVars, prod, wakeVars, endVars, histVars>>

\* Mutant: Closed as soon as no producer is left, without looking at the slot again.
RecvNoRecheck ==
    /\ cpc = "check_producers"
    /\ \/ producers = 0 /\ RecvClosed
       \/ producers # 0 /\ RecvEmpty
    /\ UNCHANGED <<idxVars, slotVars, prod, wakeVars, endVars, histVars>>

RecvCheckProducers ==
    /\ cpc = "check_producers"
    /\ \/ producers = 0 /\ cpc' = "recheck_seq" /\ UNCHANGED <<ccall, eof>>
       \/ producers # 0 /\ RecvEmpty
    /\ UNCHANGED <<idxVars, slotVars, prod, wakeVars, endVars, histVars>>

RecvRecheckSeq ==
    /\ cpc = "recheck_seq"
    /\ \/ Ready /\ RecvEmpty
       \/ ~Ready /\ RecvClosed
    /\ UNCHANGED <<idxVars, slotVars, prod, wakeVars, endVars, histVars>>

RecvTake ==
    /\ cpc = "take"
    /\ rcvd' = Append(rcvd, val[Slot(head)])
    /\ val' = [val EXCEPT ![Slot(head)] = Uninit]
    /\ cpc' = "advance"
    /\ UNCHANGED <<idxVars, seq, prod, ccall, eof, wakeVars, endVars, sent>>

RecvAdvance ==
    /\ cpc = "advance"
    /\ head' = head + 1
    /\ cpc' = "release"
    /\ UNCHANGED <<tail, producers, consumerGone, slotVars, prod, ccall, eof, wakeVars,
                   endVars, histVars>>

\* pos is the head this call started from, which it has already advanced.
RecvRelease ==
    /\ cpc = "release"
    /\ seq' = [seq EXCEPT ![Slot(head - 1)] = (head - 1) + N]
    /\ cpc' = "wake"
    /\ UNCHANGED <<idxVars, val, prod, ccall, eof, wakeVars, endVars, histVars>>

RecvWake ==
    /\ cpc = "wake"
    /\ WakeProducer
    /\ IF ccall = "poll2" THEN cpc' = "clear" /\ ccall' = ccall ELSE RecvReturn
    /\ UNCHANGED <<idxVars, slotVars, prod, eof, endVars, histVars>>

\* Mutant: parking without the second attempt.
RecvRegisterAndPark ==
    /\ cpc = "register"
    /\ consumerWaker' = TRUE
    /\ ccall' = "poll2" /\ cpc' = "parked"
    /\ UNCHANGED <<idxVars, slotVars, prod, eof, producerWaker, pawake, cawake, endVars, histVars>>

RecvRegister ==
    /\ cpc = "register"
    /\ consumerWaker' = TRUE
    /\ ccall' = "poll2" /\ cpc' = "load_seq"
    /\ UNCHANGED <<idxVars, slotVars, prod, eof, producerWaker, pawake, cawake, endVars, histVars>>

RecvClear ==
    /\ cpc = "clear"
    /\ consumerWaker' = FALSE
    /\ RecvReturn
    /\ UNCHANGED <<idxVars, slotVars, prod, eof, producerWaker, pawake, cawake, endVars, histVars>>

RecvRepoll ==
    /\ cpc = "parked" /\ cawake
    /\ cawake' = FALSE
    /\ cpc' = "load_seq" /\ ccall' = "poll1"
    /\ UNCHANGED <<idxVars, slotVars, prod, eof, consumerWaker, producerWaker, pawake,
                   endVars, histVars>>

CancelRecv ==
    /\ cpc = "parked"
    /\ RecvReturn
    /\ UNCHANGED <<idxVars, slotVars, prod, eof, wakeVars, endVars, histVars>>

DropConsumer ==
    /\ cpc = "idle"
    /\ consumerGone' = TRUE
    /\ cpc' = "dropping"
    /\ UNCHANGED <<tail, head, producers, slotVars, prod, ccall, eof, wakeVars, endVars, histVars>>

DropConsumerWake ==
    /\ cpc = "dropping"
    /\ WakeProducer
    /\ cpc' = "gone"
    /\ UNCHANGED <<idxVars, slotVars, prod, ccall, eof, endVars, histVars>>

ConsumerStep ==
    \/ RecvLoadSeq \/ RecvCheckProducers \/ RecvRecheckSeq \/ RecvTake \/ RecvAdvance
    \/ RecvRelease \/ RecvWake \/ RecvRegister \/ RecvClear \/ RecvRepoll
    \/ DropConsumerWake

-----------------------------------------------------------------------------
(* MpscRing::drop, once every handle is gone *)

HandlesGone == cpc = "gone" /\ \A p \in Producer : prod[p].pc \in {"unborn", "gone"}

\* The slot of position i was published and never taken.
Live(i) == seq[Slot(i)] = i + 1

\* Mutant: the last message in flight is not dropped.
RingDropSkipsLast ==
    /\ HandlesGone /\ ~freed
    /\ LET live == {i \in head..(tail - 2) : Live(i)}
       IN  /\ dropped' = [i \in live |-> val[Slot(i)]]
           /\ val' = [j \in 0..N-1 |-> IF \E i \in live : Slot(i) = j THEN Uninit ELSE val[j]]
    /\ freed' = TRUE
    /\ UNCHANGED <<idxVars, seq, prod, consVars, wakeVars, histVars>>

RingDrop ==
    /\ HandlesGone /\ ~freed
    /\ LET live == {i \in head..(tail - 1) : Live(i)}
       IN  /\ dropped' = [i \in live |-> val[Slot(i)]]
           /\ val' = [j \in 0..N-1 |-> IF \E i \in live : Slot(i) = j THEN Uninit ELSE val[j]]
    /\ freed' = TRUE
    /\ UNCHANGED <<idxVars, seq, prod, consVars, wakeVars, histVars>>

-----------------------------------------------------------------------------
Next ==
    \/ \E p \in Producer :
          \/ \E q \in Producer : Clone(p, q)
          \/ \E m \in Payload[p], call \in {"try", "poll1"} : StartSend(p, m, call)
          \/ ProducerStep(p) \/ CancelSend(p) \/ DropProducer(p)
    \/ \E call \in {"try", "pop", "poll1"} : StartRecv(call)
    \/ ConsumerStep \/ CancelRecv \/ DropConsumer
    \/ RingDrop

Spec == Init /\ [][Next]_vars

\* As for SpscRing: an operation under way goes on, a woken task is polled.
FairSpec ==
    /\ Spec
    /\ \A p \in Producer : WF_vars(ProducerStep(p))
    /\ WF_vars(ConsumerStep)

-----------------------------------------------------------------------------
(* Properties *)

\* The SAFETY argument of `unsafe impl Sync': "every payload access happens on
\* exactly one side at a time".  Two producers never own one slot, a producer
\* never writes over a message, the consumer never reads what is not there.
SlotExclusive ==
    /\ \A p, q \in Producer :
          /\ p # q
          /\ prod[p].pc \in {"write", "publish"} /\ prod[q].pc \in {"write", "publish"}
          => Slot(prod[p].pos) # Slot(prod[q].pos)
    /\ \A p \in Producer : prod[p].pc = "write" => val[Slot(prod[p].pos)] = Uninit
    /\ cpc = "take" => val[Slot(head)] # Uninit

\* Linearised where tail is claimed, the ring is a bounded FIFO channel.
Channel == INSTANCE BoundedChannel WITH Capacity <- N
ImplementsChannel == Channel!Spec

\* After MpscRing::drop every message was received or dropped, once.
NoLeak ==
    freed => /\ \A i \in 1..Len(rcvd) : rcvd[i] = sent[i]
             /\ dropped = [i \in Len(rcvd)..(Len(sent) - 1) |-> sent[i + 1]]
             /\ \A j \in 0..N-1 : val[j] = Uninit

\* A parked consumer that was not woken has its waker in the ring, and when a
\* message is ready or no producer is left somebody is on the way to it.
NoLostConsumerWakeup ==
    (cpc = "parked" /\ ~cawake) =>
        /\ consumerWaker
        /\ Ready => \E p \in Producer : prod[p].pc = "wake"
        /\ producers = 0 => \E p \in Producer : prod[p].pc = "last_wake"

\* Closed is only reported for a ring that has been drained for good.
ClosedOnlyWhenDrained == eof => head = tail /\ producers = 0

\* A parked recv() resumes once the next message is published or the last
\* producer is gone.
ConsumerResumes ==
    (cpc = "parked" /\ (Ready \/ producers = 0)) ~> (cpc # "parked")

\* A send() that is parked although the ring has drained, and that nobody has
\* woken, still has its waker in the ring: it is re-polled when the consumer
\* advances or goes away.  Without it nothing will ever poll that task again.
NoLostProducerWakeup ==
    \A p \in Producer :
        prod[p].pc = "parked" /\ ~pawake[p] /\ head = tail => producerWaker = p

-----------------------------------------------------------------------------
(* The inductive strengthening of the properties above, for N > 1. *)

\* The consumer has taken the messages before Taken and given back the slots
\* before Given: both are head, but for the steps around its store.
Taken == IF cpc = "advance" THEN head + 1 ELSE head
Given == IF cpc = "release" THEN head - 1 ELSE head

Claiming == {"write", "publish"}
Sending == {"check_closed", "load_tail", "load_seq", "cas", "write", "publish", "register", "parked"}

\* The histories follow the indices.
HistInv ==
    /\ Len(sent) = tail /\ Len(rcvd) = Taken
    /\ \A i \in 1..Len(rcvd) : rcvd[i] = sent[i]
    /\ Taken <= tail /\ tail <= Given + N
    /\ cpc = "release" => head > 0
    /\ cpc = "take" => Ready

\* Of the N positions from Given on, those below tail were claimed: each is
\* published, or its producer has still to publish it.  The others are free.
SeqInv ==
    /\ \A i \in Given..(tail - 1) :
          \/ Live(i)
          \/ seq[Slot(i)] = i /\ \E p \in Producer : prod[p].pc \in Claiming /\ prod[p].pos = i
    /\ \A i \in tail..(Given + N - 1) : seq[Slot(i)] = i

\* A published position that was not taken holds its message, and a slot of no
\* such position holds none.
ValInv ==
    /\ \A i \in Taken..(tail - 1) : Live(i) => val[Slot(i)] = sent[i + 1]
    /\ \A j \in 0..N-1 : (\A i \in Taken..(tail - 1) : Slot(i) # j) => val[j] = Uninit

\* A producer that has claimed a position is alone in it until it publishes;
\* one that is about to claim a position has seen that its slot was given back.
ClaimInv ==
    /\ \A p \in Producer : prod[p].pc \in Claiming =>
          /\ prod[p].pos \in Taken..(tail - 1) /\ seq[Slot(prod[p].pos)] = prod[p].pos
          /\ prod[p].msg = sent[prod[p].pos + 1]
          /\ val[Slot(prod[p].pos)] = IF prod[p].pc = "write" THEN Uninit ELSE prod[p].msg
    /\ \A p, q \in Producer :
          prod[p].pc \in Claiming /\ prod[q].pc \in Claiming /\ prod[p].pos = prod[q].pos => p = q
    /\ \A p \in Producer :
          /\ prod[p].pc \in {"load_seq", "cas"} => prod[p].pos <= tail
          /\ prod[p].pc = "cas" => prod[p].pos < Given + N
    /\ \A p \in Producer : prod[p].pc \in Sending => prod[p].msg \in Msg

\* The consumer's last look at the slot and at the producers, and its waker.
WakeInv ==
    /\ cpc \in {"load_seq", "check_producers", "recheck_seq", "parked"} /\ ccall = "poll2"
          => cawake \/ consumerWaker
    /\ cpc \in {"check_producers", "recheck_seq", "parked"} /\ ccall = "poll2" /\ ~cawake /\ Ready
          => \E p \in Producer : prod[p].pc = "wake"
    /\ cpc = "parked" /\ ~cawake /\ producers = 0 => \E p \in Producer : prod[p].pc = "last_wake"
    /\ cpc = "parked" => ccall = "poll2"
    /\ cpc = "recheck_seq" => producers = 0
    /\ eof => cpc \in {"idle", "dropping", "gone"}

EndInv == freed => HandlesGone

CoreInv == HistInv /\ SeqInv /\ ValInv /\ ClaimInv
RingInv ==
    /\ TypeOK /\ WakeInv /\ ClosedOnlyWhenDrained /\ EndInv /\ NoLeak
    /\ ~freed => CoreInv
=============================================================================
