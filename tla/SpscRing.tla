------------------------------ MODULE SpscRing ------------------------------
(***************************************************************************)
(* The single-producer single-consumer Narf-Ring of ipc/src/lib.rs: Ring,  *)
(* its Producer and Consumer halves, the futures they return and the       *)
(* RingTransport implementation.                                           *)
(*                                                                         *)
(* One step of this module is one access to shared memory.  `head' is      *)
(* stored only by the producer and `tail' only by the consumer, so a half  *)
(* needs no copy of its own index, and the comparison it makes belongs to  *)
(* the load of the peer's index.  Every load is an acquire paired with a   *)
(* release store, and a waker slot is only touched under its lock, so the  *)
(* interleaving semantics is the one the code gets.  The u64 indices       *)
(* cannot wrap in the life of a ring and are naturals; `& MASK' is % N     *)
(* because POW2_GUARD makes N a power of two.                              *)
(***************************************************************************)
EXTENDS Naturals, Sequences

CONSTANTS Msg,      \* payloads
          Uninit,   \* MaybeUninit::uninit()
          N,        \* capacity
          MaxSend   \* bound: how many messages are ever published

ASSUME SpscAssumption ==
    /\ N \in Nat \ {0}
    /\ MaxSend \in Nat
    /\ Uninit \notin Msg

VARIABLES head, tail, closed, slots,        \* Ring
          producerWaker, consumerWaker,     \* Ring: is a waker registered?
          ppc, pcall, pmsg, pawake,         \* the producer and its task
          cpc, ccall, cres, cawake,         \* the consumer and its task
          freed, dropped,                   \* Ring::drop has run; on what
          sent, rcvd                        \* history: published and taken

ringVars == <<head, tail, closed, slots>>
prodVars == <<ppc, pcall, pmsg>>
consVars == <<cpc, ccall, cres>>
wakeVars == <<producerWaker, consumerWaker, pawake, cawake>>
endVars  == <<freed, dropped>>
histVars == <<sent, rcvd>>
vars == <<ringVars, prodVars, consVars, wakeVars, endVars, histVars>>

\* A call of try_send is made by the user ("try"), or is the first or the
\* second attempt inside SendFuture::poll.  "pop" is RingTransport::try_pop.
SendCalls == {"try", "poll1", "poll2"}
RecvCalls == {"try", "pop", "poll1", "poll2"}

ProducerPCs == {"idle", "check_closed", "check_full", "write", "publish",
                "wake", "register", "clear", "parked", "dropping", "gone"}
ConsumerPCs == {"idle", "check_empty", "check_closed", "take", "advance",
                "wake", "register", "clear", "parked", "dropping", "gone"}

Slot(i) == i % N

RingType ==
    /\ head \in Nat /\ tail \in Nat /\ closed \in BOOLEAN
    /\ slots \in [0..N-1 -> Msg \cup {Uninit}]
    /\ freed \in BOOLEAN
    /\ dropped \in Seq(Msg) /\ sent \in Seq(Msg) /\ rcvd \in Seq(Msg)

WakeType ==
    /\ producerWaker \in BOOLEAN /\ consumerWaker \in BOOLEAN
    /\ pawake \in BOOLEAN /\ cawake \in BOOLEAN

ProducerType ==
    /\ ppc \in ProducerPCs /\ pcall \in SendCalls /\ pmsg \in Msg \cup {Uninit}
    /\ ppc \in {"check_closed", "check_full", "write", "publish", "register", "parked"}
          => pmsg \in Msg

ConsumerType ==
    /\ cpc \in ConsumerPCs /\ ccall \in RecvCalls
    /\ cres \in {"none", "msg", "empty", "closed"}
    /\ cpc = "check_closed" => ccall # "pop"

TypeOK == RingType /\ WakeType /\ ProducerType /\ ConsumerType

(***************************************************************************)
(* channel(): both halves exist, the ring is empty.                        *)
(***************************************************************************)
Init ==
    /\ head = 0 /\ tail = 0 /\ closed = FALSE
    /\ slots = [i \in 0..N-1 |-> Uninit]
    /\ producerWaker = FALSE /\ consumerWaker = FALSE
    /\ pawake = FALSE /\ cawake = FALSE
    /\ ppc = "idle" /\ pcall = "try" /\ pmsg = Uninit
    /\ cpc = "idle" /\ ccall = "try" /\ cres = "none"
    /\ freed = FALSE /\ dropped = <<>>
    /\ sent = <<>> /\ rcvd = <<>>

(***************************************************************************)
(* Waking the peer: take its waker under the lock and, if there was one,   *)
(* wake its task.                                                          *)
(***************************************************************************)
WakeConsumer ==
    /\ consumerWaker' = FALSE
    /\ cawake' = (cawake \/ consumerWaker)
    /\ UNCHANGED <<producerWaker, pawake>>

WakeProducer ==
    /\ producerWaker' = FALSE
    /\ pawake' = (pawake \/ producerWaker)
    /\ UNCHANGED <<consumerWaker, cawake>>

-----------------------------------------------------------------------------
(* Producer *)

\* Mutant: the ring is taken to have room for one message more.
FullOffByOne == head - tail > N

Full == head - tail >= N

\* try_send, try_push, or the first poll of send().
StartSend(m, call) ==
    /\ ppc = "idle" /\ Len(sent) < MaxSend
    /\ ppc' = "check_closed" /\ pcall' = call /\ pmsg' = m
    /\ UNCHANGED <<ringVars, consVars, wakeVars, endVars, histVars>>

\* Err(Closed): the caller has its message back, a poll is Ready(Err(m)).
SendCheckClosed ==
    /\ ppc = "check_closed"
    /\ ppc' = IF closed THEN "idle" ELSE "check_full"
    /\ UNCHANGED <<ringVars, pcall, pmsg, consVars, wakeVars, endVars, histVars>>

\* Err(Full) ends a plain try_send; SendFuture::poll then registers its waker
\* and tries once more, and is Pending when that fails too.
AfterFull ==
    CASE pcall = "try"   -> "idle"
      [] pcall = "poll1" -> "register"
      [] pcall = "poll2" -> "parked"

SendCheckFull ==
    /\ ppc = "check_full"
    /\ ppc' = IF Full THEN AfterFull ELSE "write"
    /\ UNCHANGED <<ringVars, pcall, pmsg, consVars, wakeVars, endVars, histVars>>

\* Mutant: the slot is published without having been written.
SendWriteMissing ==
    /\ ppc = "write"
    /\ ppc' = "publish"
    /\ UNCHANGED <<head, tail, closed, slots, pcall, pmsg, consVars, wakeVars, endVars,
                   histVars>>

SendWrite ==
    /\ ppc = "write"
    /\ slots' = [slots EXCEPT ![Slot(head)] = pmsg]
    /\ ppc' = "publish"
    /\ UNCHANGED <<head, tail, closed, pcall, pmsg, consVars, wakeVars, endVars, histVars>>

SendPublish ==
    /\ ppc = "publish"
    /\ head' = head + 1
    /\ sent' = Append(sent, pmsg)
    /\ ppc' = "wake"
    /\ UNCHANGED <<tail, closed, slots, pcall, pmsg, consVars, wakeVars, endVars, rcvd>>

\* Mutant: the consumer's waker is left where it is.
SendWakeNobody ==
    /\ ppc = "wake"
    /\ ppc' = IF pcall = "poll2" THEN "clear" ELSE "idle"
    /\ UNCHANGED <<ringVars, pcall, pmsg, consVars, wakeVars, endVars, histVars>>

SendWake ==
    /\ ppc = "wake"
    /\ WakeConsumer
    /\ ppc' = IF pcall = "poll2" THEN "clear" ELSE "idle"
    /\ UNCHANGED <<ringVars, pcall, pmsg, consVars, endVars, histVars>>

\* Mutant: parking without the second attempt that avoids a lost wakeup.
SendRegisterAndPark ==
    /\ ppc = "register"
    /\ producerWaker' = TRUE
    /\ pcall' = "poll2" /\ ppc' = "parked"
    /\ UNCHANGED <<ringVars, pmsg, consVars, consumerWaker, pawake, cawake, endVars, histVars>>

SendRegister ==
    /\ ppc = "register"
    /\ producerWaker' = TRUE
    /\ pcall' = "poll2" /\ ppc' = "check_closed"
    /\ UNCHANGED <<ringVars, pmsg, consVars, consumerWaker, pawake, cawake, endVars, histVars>>

SendClear ==
    /\ ppc = "clear"
    /\ producerWaker' = FALSE
    /\ ppc' = "idle"
    /\ UNCHANGED <<ringVars, pcall, pmsg, consVars, consumerWaker, pawake, cawake, endVars,
                   histVars>>

\* The executor polls the woken task again.
SendRepoll ==
    /\ ppc = "parked" /\ pawake
    /\ pawake' = FALSE
    /\ ppc' = "check_closed" /\ pcall' = "poll1"
    /\ UNCHANGED <<ringVars, pmsg, consVars, producerWaker, consumerWaker, cawake, endVars,
                   histVars>>

\* The pending SendFuture is dropped; its waker stays in the ring.
CancelSend ==
    /\ ppc = "parked"
    /\ ppc' = "idle"
    /\ UNCHANGED <<ringVars, pcall, pmsg, consVars, wakeVars, endVars, histVars>>

DropProducer ==
    /\ ppc = "idle"
    /\ closed' = TRUE
    /\ ppc' = "dropping"
    /\ UNCHANGED <<head, tail, slots, pcall, pmsg, consVars, wakeVars, endVars, histVars>>

DropProducerWake ==
    /\ ppc = "dropping"
    /\ WakeConsumer
    /\ ppc' = "gone"
    /\ UNCHANGED <<ringVars, pcall, pmsg, consVars, endVars, histVars>>

\* The steps of an operation that is under way.
ProducerStep ==
    \/ SendCheckClosed \/ SendCheckFull \/ SendWrite \/ SendPublish \/ SendWake
    \/ SendRegister \/ SendClear \/ SendRepoll \/ DropProducerWake

-----------------------------------------------------------------------------
(* Consumer *)

\* try_recv, try_pop, or the first poll of recv().
StartRecv(call) ==
    /\ cpc = "idle"
    /\ cpc' = "check_empty" /\ ccall' = call
    /\ UNCHANGED <<ringVars, prodVars, cres, wakeVars, endVars, histVars>>

\* try_pop answers None without looking at `closed'.
RecvCheckEmpty ==
    /\ cpc = "check_empty"
    /\ \/ head = tail /\ ccall = "pop" /\ cpc' = "idle" /\ cres' = "empty"
       \/ head = tail /\ ccall # "pop" /\ cpc' = "check_closed" /\ cres' = cres
       \/ head # tail /\ cpc' = "take" /\ cres' = cres
    /\ UNCHANGED <<ringVars, prodVars, ccall, wakeVars, endVars, histVars>>

\* Ok(None) ends a plain try_recv; RecvFuture::poll registers and retries.
AfterEmpty ==
    CASE ccall = "try"   -> "idle"
      [] ccall = "poll1" -> "register"
      [] ccall = "poll2" -> "parked"

RecvCheckClosed ==
    /\ cpc = "check_closed"
    /\ \/ closed /\ cpc' = "idle" /\ cres' = "closed"
       \/ ~closed /\ cpc' = AfterEmpty /\ cres' = "empty"
    /\ UNCHANGED <<ringVars, prodVars, ccall, wakeVars, endVars, histVars>>

\* Mutant: the slot's index is computed from the advanced tail.
RecvTakeNext ==
    /\ cpc = "take"
    /\ rcvd' = Append(rcvd, slots[Slot(tail + 1)])
    /\ slots' = [slots EXCEPT ![Slot(tail + 1)] = Uninit]
    /\ cpc' = "advance" /\ cres' = "msg"
    /\ UNCHANGED <<head, tail, closed, prodVars, ccall, wakeVars, endVars, sent>>

RecvTake ==
    /\ cpc = "take"
    /\ rcvd' = Append(rcvd, slots[Slot(tail)])
    /\ slots' = [slots EXCEPT ![Slot(tail)] = Uninit]
    /\ cpc' = "advance" /\ cres' = "msg"
    /\ UNCHANGED <<head, tail, closed, prodVars, ccall, wakeVars, endVars, sent>>

RecvAdvance ==
    /\ cpc = "advance"
    /\ tail' = tail + 1
    /\ cpc' = "wake"
    /\ UNCHANGED <<head, closed, slots, prodVars, ccall, cres, wakeVars, endVars, histVars>>

\* Mutant: the producer's waker is left where it is.
RecvWakeNobody ==
    /\ cpc = "wake"
    /\ cpc' = IF ccall = "poll2" THEN "clear" ELSE "idle"
    /\ UNCHANGED <<ringVars, prodVars, ccall, cres, wakeVars, endVars, histVars>>

RecvWake ==
    /\ cpc = "wake"
    /\ WakeProducer
    /\ cpc' = IF ccall = "poll2" THEN "clear" ELSE "idle"
    /\ UNCHANGED <<ringVars, prodVars, ccall, cres, endVars, histVars>>

RecvRegister ==
    /\ cpc = "register"
    /\ consumerWaker' = TRUE
    /\ ccall' = "poll2" /\ cpc' = "check_empty"
    /\ UNCHANGED <<ringVars, prodVars, cres, producerWaker, pawake, cawake, endVars, histVars>>

RecvClear ==
    /\ cpc = "clear"
    /\ consumerWaker' = FALSE
    /\ cpc' = "idle"
    /\ UNCHANGED <<ringVars, prodVars, ccall, cres, producerWaker, pawake, cawake, endVars,
                   histVars>>

RecvRepoll ==
    /\ cpc = "parked" /\ cawake
    /\ cawake' = FALSE
    /\ cpc' = "check_empty" /\ ccall' = "poll1"
    /\ UNCHANGED <<ringVars, prodVars, cres, producerWaker, consumerWaker, pawake, endVars,
                   histVars>>

\* The pending RecvFuture is dropped; its waker stays in the ring.
CancelRecv ==
    /\ cpc = "parked"
    /\ cpc' = "idle"
    /\ UNCHANGED <<ringVars, prodVars, ccall, cres, wakeVars, endVars, histVars>>

DropConsumer ==
    /\ cpc = "idle"
    /\ closed' = TRUE
    /\ cpc' = "dropping"
    /\ UNCHANGED <<head, tail, slots, prodVars, ccall, cres, wakeVars, endVars, histVars>>

DropConsumerWake ==
    /\ cpc = "dropping"
    /\ WakeProducer
    /\ cpc' = "gone"
    /\ UNCHANGED <<ringVars, prodVars, ccall, cres, endVars, histVars>>

ConsumerStep ==
    \/ RecvCheckEmpty \/ RecvCheckClosed \/ RecvTake \/ RecvAdvance \/ RecvWake
    \/ RecvRegister \/ RecvClear \/ RecvRepoll \/ DropConsumerWake

-----------------------------------------------------------------------------
(* Ring::drop, once the last Arc is gone *)

\* Mutant: the last message in flight is not dropped.
RingDropSkipsLast ==
    /\ ppc = "gone" /\ cpc = "gone" /\ ~freed
    /\ freed' = TRUE
    /\ dropped' = [i \in 1..(IF head = tail THEN 0 ELSE head - tail - 1) |->
                     slots[Slot(tail + i - 1)]]
    /\ slots' = slots
    /\ UNCHANGED <<head, tail, closed, prodVars, consVars, wakeVars, histVars>>

RingDrop ==
    /\ ppc = "gone" /\ cpc = "gone" /\ ~freed
    /\ freed' = TRUE
    /\ dropped' = [i \in 1..(head - tail) |-> slots[Slot(tail + i - 1)]]
    /\ slots' = [j \in 0..N-1 |->
                   IF \E i \in tail..(head - 1) : Slot(i) = j THEN Uninit ELSE slots[j]]
    /\ UNCHANGED <<head, tail, closed, prodVars, consVars, wakeVars, histVars>>

-----------------------------------------------------------------------------
Next ==
    \/ \E m \in Msg, call \in {"try", "poll1"} : StartSend(m, call)
    \/ ProducerStep \/ CancelSend \/ DropProducer
    \/ \E call \in {"try", "pop", "poll1"} : StartRecv(call)
    \/ ConsumerStep \/ CancelRecv \/ DropConsumer
    \/ RingDrop

Spec == Init /\ [][Next]_vars

\* An operation that has begun runs to its end, and the executor polls a task
\* it was asked to wake.  Nothing obliges a user to start, cancel or drop.
FairSpec == Spec /\ WF_vars(ProducerStep) /\ WF_vars(ConsumerStep)

-----------------------------------------------------------------------------
(* Properties *)

\* The SAFETY arguments of try_send and try_recv: a slot that is about to be
\* written holds no live message (a write would leak it), and a slot that is
\* about to be read has been initialised (assume_init would be undefined).
SlotSafety ==
    /\ ppc = "write" => slots[Slot(head)] = Uninit
    /\ cpc = "take" => slots[Slot(tail)] # Uninit

\* The ring is a bounded loss-free FIFO channel, whatever mix of calls, polls,
\* cancellations and drops its two users make.
Channel == INSTANCE BoundedChannel WITH Capacity <- N
ImplementsChannel == Channel!Spec

\* When Ring::drop has run, every message that was published was either
\* received or dropped, once, and no slot still owns one.
NoLeak ==
    freed => /\ rcvd \o dropped = sent
             /\ \A j \in 0..N-1 : slots[j] = Uninit

\* A parked half that nobody has woken has its waker in the ring, and if what
\* it waits for has come about the peer is on its way to that waker.
NoLostWakeup ==
    /\ (cpc = "parked" /\ ~cawake) =>
          /\ consumerWaker
          /\ head # tail => ppc = "wake"
          /\ closed => ppc = "dropping"
    /\ (ppc = "parked" /\ ~pawake) =>
          /\ producerWaker
          /\ ~Full => cpc = "wake"
          /\ closed => cpc = "dropping"

\* A parked recv() resumes once there is a message or the producer is gone.
ConsumerResumes ==
    (cpc = "parked" /\ (head # tail \/ closed)) ~> (cpc # "parked")

\* A parked send() resumes once there is room or the consumer is gone.
ProducerResumes ==
    (ppc = "parked" /\ (~Full \/ closed)) ~> (ppc # "parked")

-----------------------------------------------------------------------------
(***************************************************************************)
(* The inductive invariant behind the safety properties.                   *)
(***************************************************************************)

\* How many messages have left their slots: between the take and the store of
\* `tail' the consumer is one ahead of what the producer can see.
Taken == IF cpc = "advance" THEN tail + 1 ELSE tail

\* What a half concluded from the peer's index stays true although the peer
\* moves on: room stays room, a message stays there.
IndexInv ==
    /\ Len(sent) = head /\ Len(rcvd) = Taken
    /\ Taken <= head /\ head <= tail + N
    /\ ppc \in {"write", "publish"} => head < tail + N
    /\ cpc \in {"take", "advance"} => tail < head

\* The slots hold exactly the messages in flight and the one being published.
SlotInv ==
    /\ ~freed => \A i \in Taken..(head - 1) : slots[Slot(i)] = sent[i + 1]
    /\ ppc = "publish" => slots[Slot(head)] = pmsg
    /\ \A j \in 0..N-1 : slots[j] # Uninit =>
          \/ ~freed /\ \E i \in Taken..(head - 1) : Slot(i) = j
          \/ ppc = "publish" /\ j = Slot(head)

FifoInv == \A k \in 1..Len(rcvd) : rcvd[k] = sent[k]

EndInv == freed => ppc = "gone" /\ cpc = "gone" /\ rcvd \o dropped = sent

\* `closed' is stored by a half that is being dropped.
CloseInv == closed => ppc \in {"dropping", "gone"} \/ cpc \in {"dropping", "gone"}

\* NoLostWakeup from the registration of the waker on.
WakeInv ==
    /\ (\/ cpc = "parked"
        \/ cpc \in {"check_empty", "check_closed"} /\ ccall = "poll2") /\ ~cawake
          => consumerWaker
    /\ (cpc = "parked" \/ (cpc = "check_closed" /\ ccall = "poll2")) /\ ~cawake
          => (head # tail => ppc = "wake")
    /\ (cpc = "parked" /\ ~cawake) => (closed => ppc = "dropping")
    /\ (\/ ppc = "parked"
        \/ ppc \in {"check_closed", "check_full"} /\ pcall = "poll2") /\ ~pawake
          => producerWaker
    /\ (ppc = "parked" \/ (ppc = "check_full" /\ pcall = "poll2")) /\ ~pawake
          => (closed => cpc = "dropping")
    /\ (ppc = "parked" /\ ~pawake) => (~Full => cpc = "wake")

IndInv == TypeOK /\ IndexInv /\ SlotInv /\ FifoInv /\ EndInv /\ CloseInv /\ WakeInv

=============================================================================
