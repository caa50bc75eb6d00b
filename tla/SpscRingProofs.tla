--------------------------- MODULE SpscRingProofs ---------------------------
(***************************************************************************)
(* What holds of the Narf-Ring for every capacity, every set of messages   *)
(* and every number of sends.  IndInvStep shows that each action keeps     *)
(* IndInv; the safety properties and the refinement follow from it.        *)
(***************************************************************************)
EXTENDS SpscRing, SequenceTheorems, TLAPS

(***************************************************************************)
(* `index & MASK' is a slot of the ring.                                   *)
(***************************************************************************)
LEMMA SlotRange ==
    ASSUME NEW i \in Nat
    PROVE  Slot(i) \in 0..N-1
  BY SpscAssumption DEF Slot

(***************************************************************************)
(* Two indices less than a lap apart use different slots.                  *)
(***************************************************************************)
LEMMA SlotDistinct ==
    ASSUME NEW a \in Nat, NEW b \in Nat, a < b, b < a + N
    PROVE  Slot(a) # Slot(b)
  <1> SUFFICES ASSUME a % N = b % N PROVE FALSE
    BY DEF Slot
  <1> DEFINE qa == a \div N
             qb == b \div N
  <1>0. N \in Nat /\ N > 0
    BY SpscAssumption
  <1>1. a = (N * qa) + (a % N) /\ b = (N * qb) + (b % N) /\ qa \in Int /\ qb \in Int
    BY <1>0
  <1> HIDE DEF qa, qb
  <1>2. b - a = N * qb - N * qa /\ N * qb \in Int /\ N * qa \in Int
    BY <1>0, <1>1
  <1>3. N * qb - N * qa = N * (qb - qa)
    BY <1>0, <1>1
  <1>4. qb - qa >= 1
    <2>1. CASE qb - qa <= 0
      <3>1. N * (qb - qa) <= 0
        BY <2>1, <1>0, <1>1
      <3> QED BY <3>1, <1>2, <1>3
    <2> QED BY <2>1, <1>1
  <1>5. N * (qb - qa) >= N
    BY <1>0, <1>1, <1>4
  <1> QED BY <1>0, <1>2, <1>3, <1>5

(***************************************************************************)
(* The slots of the messages in flight are not the slot of the next one.   *)
(***************************************************************************)
LEMMA SlotsBelow ==
    ASSUME NEW lo \in Nat, NEW hi \in Nat, hi < lo + N
    PROVE  \A i \in lo..(hi - 1) : Slot(i) \in 0..N-1 /\ Slot(i) # Slot(hi)
  <1> SUFFICES ASSUME NEW i \in lo..(hi - 1)
               PROVE  Slot(i) \in 0..N-1 /\ Slot(i) # Slot(hi)
    OBVIOUS
  <1>1. i \in Nat /\ i < hi /\ hi < i + N
    BY SpscAssumption
  <1>2. Slot(i) # Slot(hi)
    BY <1>1, SlotDistinct
  <1> QED BY <1>1, <1>2, SlotRange

(***************************************************************************)
(* Nor are those behind the oldest message its slot.                       *)
(***************************************************************************)
LEMMA SlotsAbove ==
    ASSUME NEW lo \in Nat, NEW hi \in Nat, hi <= lo + N
    PROVE  \A i \in (lo + 1)..(hi - 1) : Slot(i) \in 0..N-1 /\ Slot(i) # Slot(lo)
  <1> SUFFICES ASSUME NEW i \in (lo + 1)..(hi - 1)
               PROVE  Slot(i) \in 0..N-1 /\ Slot(i) # Slot(lo)
    OBVIOUS
  <1>1. i \in Nat /\ lo < i /\ i < lo + N
    BY SpscAssumption
  <1>2. Slot(i) # Slot(lo)
    BY <1>1, SlotDistinct
  <1> QED BY <1>1, <1>2, SlotRange

(***************************************************************************)
(* Appending to a sequence keeps its elements.                             *)
(***************************************************************************)
LEMMA AppendFacts ==
    ASSUME NEW S, NEW s \in Seq(S), NEW x \in S
    PROVE  /\ Append(s, x) \in Seq(S)
           /\ Len(Append(s, x)) = Len(s) + 1
           /\ \A i \in 1..Len(s) : Append(s, x)[i] = s[i]
           /\ Append(s, x)[Len(s) + 1] = x
  OBVIOUS

(***************************************************************************)
(* The message the consumer is about to take is the oldest in flight.      *)
(***************************************************************************)
LEMMA TakeFacts ==
    ASSUME IndInv, cpc = "take"
    PROVE  slots[Slot(tail)] = sent[tail + 1] /\ sent[tail + 1] \in Msg
  <1>1. ~freed /\ Taken = tail /\ tail < head /\ head = Len(sent) /\ tail \in Nat /\ head \in Nat
        /\ sent \in Seq(Msg)
    BY DEF IndInv, EndInv, IndexInv, Taken, TypeOK, RingType
  <1>2. tail \in Taken..(head - 1)
    BY <1>1
  <1> QED BY <1>1, <1>2 DEF IndInv, SlotInv

(***************************************************************************)
(* Every action of either half, and Ring::drop, keeps the invariant.       *)
(***************************************************************************)
LEMMA IndInvStep == IndInv /\ [Next]_vars => IndInv'
  <1> SUFFICES ASSUME IndInv, [Next]_vars PROVE IndInv'
    OBVIOUS
  <1> USE SpscAssumption DEF IndInv, Taken, Full, ringVars, prodVars, consVars, wakeVars,
           endVars, histVars, ProducerPCs, ConsumerPCs, SendCalls, RecvCalls,
           TypeOK, RingType, WakeType, ProducerType, ConsumerType
  <1>S. ASSUME NEW m \in Msg, NEW call \in {"try", "poll1"}, StartSend(m, call) PROVE IndInv'
    BY <1>S DEF IndexInv, SlotInv, FifoInv, EndInv, CloseInv, WakeInv, StartSend
  <1>R. ASSUME NEW call \in {"try", "pop", "poll1"}, StartRecv(call) PROVE IndInv'
    BY <1>R DEF IndexInv, SlotInv, FifoInv, EndInv, CloseInv, WakeInv, StartRecv
  <1>SendCheckClosed. CASE SendCheckClosed
    BY <1>SendCheckClosed DEF IndexInv, SlotInv, FifoInv, EndInv, CloseInv, WakeInv,
       SendCheckClosed
  <1>SendCheckFull. CASE SendCheckFull
    BY <1>SendCheckFull DEF IndexInv, SlotInv, FifoInv, EndInv, CloseInv, WakeInv,
       SendCheckFull, AfterFull, SendCalls
  <1>SendWrite. CASE SendWrite
    <2>0. TypeOK'
      <3>1. RingType'
        BY <1>SendWrite DEF TypeOK, RingType, ProducerType, SendWrite
      <3>2. WakeType'
        BY <1>SendWrite DEF TypeOK, WakeType, SendWrite
      <3>3. ProducerType'
        BY <1>SendWrite DEF TypeOK, ProducerType, SendWrite
      <3>4. ConsumerType'
        BY <1>SendWrite DEF TypeOK, ConsumerType, SendWrite
      <3> QED BY <3>1, <3>2, <3>3, <3>4 DEF TypeOK
    <2>1. IndexInv'
      BY <1>SendWrite DEF IndexInv, SendWrite
    <2>2. SlotInv'
      <3>1. /\ head \in Nat /\ tail \in Nat /\ head < tail + N /\ ~freed
            /\ Taken' = Taken /\ Taken \in Nat /\ tail <= Taken /\ head < Taken + N
            /\ slots' = [slots EXCEPT ![Slot(head)] = pmsg]
        BY <1>SendWrite DEF IndexInv, EndInv, SendWrite
      <3>2. \A i \in Taken..(head - 1) : Slot(i) \in 0..N-1 /\ Slot(i) # Slot(head)
        <4> HIDE DEF Taken
        <4> QED BY <3>1, SlotsBelow
      <3>3. Slot(head) \in 0..N-1
        BY <3>1, SlotRange
      <3> QED BY <1>SendWrite, <3>1, <3>2, <3>3 DEF SlotInv, SendWrite
    <2>3. FifoInv'
      BY <1>SendWrite DEF IndexInv, SlotInv, FifoInv, SendWrite
    <2>4. EndInv'
      BY <1>SendWrite DEF IndexInv, SlotInv, EndInv, SendWrite
    <2>5. CloseInv'
      BY <1>SendWrite DEF CloseInv, SendWrite
    <2>6. WakeInv'
      BY <1>SendWrite DEF WakeInv, SendWrite
    <2> QED BY <2>0, <2>1, <2>2, <2>3, <2>4, <2>5, <2>6
  <1>SendPublish. CASE SendPublish
    <2>0. TypeOK'
      <3>1. RingType'
        BY <1>SendPublish DEF TypeOK, RingType, ProducerType, SendPublish
      <3>2. WakeType'
        BY <1>SendPublish DEF TypeOK, WakeType, SendPublish
      <3>3. ProducerType'
        BY <1>SendPublish DEF TypeOK, ProducerType, SendPublish
      <3>4. ConsumerType'
        BY <1>SendPublish DEF TypeOK, ConsumerType, SendPublish
      <3> QED BY <3>1, <3>2, <3>3, <3>4 DEF TypeOK
    <2>1. IndexInv'
      <3>1. Len(sent') = Len(sent) + 1
        BY <1>SendPublish, AppendFacts DEF SendPublish
      <3> QED BY <1>SendPublish, <3>1 DEF IndexInv, SendPublish
    <2>2. SlotInv'
      <3>1. /\ head \in Nat /\ Taken' = Taken /\ Taken \in Nat /\ ~freed /\ ~freed'
            /\ head' = head + 1 /\ slots' = slots /\ Len(sent) = head
            /\ ppc = "publish" /\ ppc' = "wake" /\ Taken <= head
        BY <1>SendPublish DEF IndexInv, EndInv, SendPublish
      <3>2. sent' = Append(sent, pmsg) /\ sent \in Seq(Msg) /\ pmsg \in Msg
        BY <1>SendPublish DEF SendPublish
      <3>3. \A i \in Taken..head : slots[Slot(i)] = sent'[i + 1]
        <4> SUFFICES ASSUME NEW i \in Taken..head PROVE slots[Slot(i)] = sent'[i + 1]
          OBVIOUS
        <4>1. CASE i = head
          BY <4>1, <3>1, <3>2, AppendFacts DEF SlotInv
        <4>2. CASE i < head
          <5>1. i \in Taken..(head - 1) /\ i + 1 \in 1..Len(sent)
            BY <4>2, <3>1
          <5>2. sent'[i + 1] = sent[i + 1]
            BY <5>1, <3>2, AppendFacts
          <5> QED BY <5>1, <5>2, <3>1 DEF SlotInv
        <4> QED BY <4>1, <4>2, <3>1
      <3>4. \A j \in 0..N-1 : slots'[j] # Uninit => \E i \in Taken..head : Slot(i) = j
        BY <3>1 DEF SlotInv
      <3> QED BY <3>1, <3>3, <3>4 DEF SlotInv
    <2>3. FifoInv'
      BY <1>SendPublish, AppendFacts DEF IndexInv, FifoInv, SendPublish
    <2>4. EndInv'
      BY <1>SendPublish DEF IndexInv, SlotInv, EndInv, SendPublish
    <2>5. CloseInv'
      BY <1>SendPublish DEF CloseInv, SendPublish
    <2>6. WakeInv'
      BY <1>SendPublish DEF WakeInv, SendPublish
    <2> QED BY <2>0, <2>1, <2>2, <2>3, <2>4, <2>5, <2>6
  <1>SendWake. CASE SendWake
    <2>0. TypeOK'
      <3>1. RingType'
        BY <1>SendWake DEF TypeOK, RingType, SendWake, WakeConsumer
      <3>2. WakeType'
        BY <1>SendWake DEF TypeOK, WakeType, SendWake, WakeConsumer
      <3>3. ProducerType'
        BY <1>SendWake DEF TypeOK, ProducerType, SendWake, WakeConsumer
      <3>4. ConsumerType'
        BY <1>SendWake DEF TypeOK, ConsumerType, SendWake, WakeConsumer
      <3> QED BY <3>1, <3>2, <3>3, <3>4 DEF TypeOK
    <2>1. IndexInv'
      BY <1>SendWake DEF IndexInv, SendWake, WakeConsumer
    <2>2. SlotInv'
      BY <1>SendWake DEF IndexInv, SlotInv, SendWake, WakeConsumer
    <2>3. FifoInv'
      BY <1>SendWake DEF IndexInv, SlotInv, FifoInv, SendWake, WakeConsumer
    <2>4. EndInv'
      BY <1>SendWake DEF IndexInv, SlotInv, EndInv, SendWake, WakeConsumer
    <2>5. CloseInv'
      BY <1>SendWake DEF CloseInv, SendWake, WakeConsumer
    <2>6. WakeInv'
      BY <1>SendWake DEF WakeInv, SendWake, WakeConsumer
    <2> QED BY <2>0, <2>1, <2>2, <2>3, <2>4, <2>5, <2>6
  <1>SendRegister. CASE SendRegister
    BY <1>SendRegister DEF IndexInv, SlotInv, FifoInv, EndInv, CloseInv, WakeInv, SendRegister
  <1>SendClear. CASE SendClear
    <2>0. TypeOK'
      <3>1. RingType'
        BY <1>SendClear DEF TypeOK, RingType, SendClear
      <3>2. WakeType'
        BY <1>SendClear DEF TypeOK, WakeType, SendClear
      <3>3. ProducerType'
        BY <1>SendClear DEF TypeOK, ProducerType, SendClear
      <3>4. ConsumerType'
        BY <1>SendClear DEF TypeOK, ConsumerType, SendClear
      <3> QED BY <3>1, <3>2, <3>3, <3>4 DEF TypeOK
    <2>1. IndexInv'
      BY <1>SendClear DEF IndexInv, SendClear
    <2>2. SlotInv'
      BY <1>SendClear DEF IndexInv, SlotInv, SendClear
    <2>3. FifoInv'
      BY <1>SendClear DEF IndexInv, SlotInv, FifoInv, SendClear
    <2>4. EndInv'
      BY <1>SendClear DEF IndexInv, SlotInv, EndInv, SendClear
    <2>5. CloseInv'
      BY <1>SendClear DEF CloseInv, SendClear
    <2>6. WakeInv'
      BY <1>SendClear DEF WakeInv, SendClear
    <2> QED BY <2>0, <2>1, <2>2, <2>3, <2>4, <2>5, <2>6
  <1>SendRepoll. CASE SendRepoll
    <2>0. TypeOK'
      <3>1. RingType'
        BY <1>SendRepoll DEF TypeOK, RingType, SendRepoll
      <3>2. WakeType'
        BY <1>SendRepoll DEF TypeOK, WakeType, SendRepoll
      <3>3. ProducerType'
        BY <1>SendRepoll DEF TypeOK, ProducerType, SendRepoll
      <3>4. ConsumerType'
        BY <1>SendRepoll DEF TypeOK, ConsumerType, SendRepoll
      <3> QED BY <3>1, <3>2, <3>3, <3>4 DEF TypeOK
    <2>1. IndexInv'
      BY <1>SendRepoll DEF IndexInv, SendRepoll
    <2>2. SlotInv'
      BY <1>SendRepoll DEF IndexInv, SlotInv, SendRepoll
    <2>3. FifoInv'
      BY <1>SendRepoll DEF IndexInv, SlotInv, FifoInv, SendRepoll
    <2>4. EndInv'
      BY <1>SendRepoll DEF IndexInv, SlotInv, EndInv, SendRepoll
    <2>5. CloseInv'
      BY <1>SendRepoll DEF CloseInv, SendRepoll
    <2>6. WakeInv'
      BY <1>SendRepoll DEF WakeInv, SendRepoll
    <2> QED BY <2>0, <2>1, <2>2, <2>3, <2>4, <2>5, <2>6
  <1>DropProducerWake. CASE DropProducerWake
    <2>0. TypeOK'
      <3>1. RingType'
        BY <1>DropProducerWake DEF TypeOK, RingType, DropProducerWake, WakeConsumer
      <3>2. WakeType'
        BY <1>DropProducerWake DEF TypeOK, WakeType, DropProducerWake, WakeConsumer
      <3>3. ProducerType'
        BY <1>DropProducerWake DEF TypeOK, ProducerType, DropProducerWake, WakeConsumer
      <3>4. ConsumerType'
        BY <1>DropProducerWake DEF TypeOK, ConsumerType, DropProducerWake, WakeConsumer
      <3> QED BY <3>1, <3>2, <3>3, <3>4 DEF TypeOK
    <2>1. IndexInv'
      BY <1>DropProducerWake DEF IndexInv, DropProducerWake, WakeConsumer
    <2>2. SlotInv'
      BY <1>DropProducerWake DEF IndexInv, SlotInv, DropProducerWake, WakeConsumer
    <2>3. FifoInv'
      BY <1>DropProducerWake DEF IndexInv, SlotInv, FifoInv, DropProducerWake, WakeConsumer
    <2>4. EndInv'
      BY <1>DropProducerWake DEF IndexInv, SlotInv, EndInv, DropProducerWake, WakeConsumer
    <2>5. CloseInv'
      BY <1>DropProducerWake DEF CloseInv, DropProducerWake, WakeConsumer
    <2>6. WakeInv'
      BY <1>DropProducerWake DEF WakeInv, DropProducerWake, WakeConsumer
    <2> QED BY <2>0, <2>1, <2>2, <2>3, <2>4, <2>5, <2>6
  <1>CancelSend. CASE CancelSend
    BY <1>CancelSend DEF IndexInv, SlotInv, FifoInv, EndInv, CloseInv, WakeInv, CancelSend
  <1>DropProducer. CASE DropProducer
    BY <1>DropProducer DEF IndexInv, SlotInv, FifoInv, EndInv, CloseInv, WakeInv, DropProducer
  <1>RecvCheckEmpty. CASE RecvCheckEmpty
    BY <1>RecvCheckEmpty DEF IndexInv, SlotInv, FifoInv, EndInv, CloseInv, WakeInv,
       RecvCheckEmpty
  <1>RecvCheckClosed. CASE RecvCheckClosed
    BY <1>RecvCheckClosed DEF IndexInv, SlotInv, FifoInv, EndInv, CloseInv, WakeInv,
       RecvCheckClosed, AfterEmpty, RecvCalls
  <1>RecvTake. CASE RecvTake
    <2>0. TypeOK'
      <3>1. RingType'
        <4>1. slots[Slot(tail)] \in Msg
          BY <1>RecvTake, TakeFacts DEF RecvTake
        <4> QED BY <1>RecvTake, <4>1, AppendFacts DEF TypeOK, RingType, RecvTake
      <3>2. WakeType'
        BY <1>RecvTake DEF TypeOK, WakeType, RecvTake
      <3>3. ProducerType'
        BY <1>RecvTake DEF TypeOK, ProducerType, RecvTake
      <3>4. ConsumerType'
        BY <1>RecvTake DEF TypeOK, ConsumerType, RecvTake
      <3> QED BY <3>1, <3>2, <3>3, <3>4 DEF TypeOK
    <2>1. IndexInv'
      <3>1. Len(rcvd') = Len(rcvd) + 1
        BY <1>RecvTake, TakeFacts, AppendFacts DEF RecvTake
      <3> QED BY <1>RecvTake, <3>1 DEF IndexInv, RecvTake
    <2>2. SlotInv'
      <3>1. /\ head \in Nat /\ tail \in Nat /\ tail < head /\ head <= tail + N /\ ~freed
            /\ Taken = tail /\ Taken' = tail + 1 /\ head' = head
            /\ ppc = "publish" => head < tail + N
            /\ slots' = [slots EXCEPT ![Slot(tail)] = Uninit]
        BY <1>RecvTake DEF IndexInv, EndInv, RecvTake
      <3>2. \A i \in (tail + 1)..(head - 1) : Slot(i) \in 0..N-1 /\ Slot(i) # Slot(tail)
        BY <3>1, SlotsAbove
      <3>3. ppc = "publish" => Slot(head) # Slot(tail)
        BY <3>1, SlotDistinct
      <3>4. Slot(tail) \in 0..N-1 /\ Slot(head) \in 0..N-1
        BY <3>1, SlotRange
      <3>5. \A j \in 0..N-1 : slots'[j] # Uninit => j # Slot(tail) /\ slots[j] # Uninit
        BY <3>1, <3>4 DEF TypeOK, RingType
      <3> QED BY <1>RecvTake, <3>1, <3>2, <3>3, <3>4, <3>5 DEF SlotInv, RecvTake
    <2>3. FifoInv'
      <3>1. /\ slots[Slot(tail)] = sent[Len(rcvd) + 1] /\ slots[Slot(tail)] \in Msg
            /\ rcvd' = Append(rcvd, slots[Slot(tail)]) /\ sent' = sent /\ rcvd \in Seq(Msg)
        BY <1>RecvTake, TakeFacts DEF IndexInv, RecvTake
      <3> QED BY <3>1, AppendFacts DEF FifoInv
    <2>4. EndInv'
      BY <1>RecvTake DEF IndexInv, SlotInv, EndInv, RecvTake
    <2>5. CloseInv'
      BY <1>RecvTake DEF CloseInv, RecvTake
    <2>6. WakeInv'
      BY <1>RecvTake DEF WakeInv, RecvTake
    <2> QED BY <2>0, <2>1, <2>2, <2>3, <2>4, <2>5, <2>6
  <1>RecvAdvance. CASE RecvAdvance
    BY <1>RecvAdvance DEF IndexInv, SlotInv, FifoInv, EndInv, CloseInv, WakeInv, RecvAdvance
  <1>RecvWake. CASE RecvWake
    <2>0. TypeOK'
      <3>1. RingType'
        BY <1>RecvWake DEF TypeOK, RingType, RecvWake, WakeProducer
      <3>2. WakeType'
        BY <1>RecvWake DEF TypeOK, WakeType, RecvWake, WakeProducer
      <3>3. ProducerType'
        BY <1>RecvWake DEF TypeOK, ProducerType, RecvWake, WakeProducer
      <3>4. ConsumerType'
        BY <1>RecvWake DEF TypeOK, ConsumerType, RecvWake, WakeProducer
      <3> QED BY <3>1, <3>2, <3>3, <3>4 DEF TypeOK
    <2>1. IndexInv'
      BY <1>RecvWake DEF IndexInv, RecvWake, WakeProducer
    <2>2. SlotInv'
      BY <1>RecvWake DEF IndexInv, SlotInv, RecvWake, WakeProducer
    <2>3. FifoInv'
      BY <1>RecvWake DEF IndexInv, SlotInv, FifoInv, RecvWake, WakeProducer
    <2>4. EndInv'
      BY <1>RecvWake DEF IndexInv, SlotInv, EndInv, RecvWake, WakeProducer
    <2>5. CloseInv'
      BY <1>RecvWake DEF CloseInv, RecvWake, WakeProducer
    <2>6. WakeInv'
      BY <1>RecvWake DEF WakeInv, RecvWake, WakeProducer
    <2> QED BY <2>0, <2>1, <2>2, <2>3, <2>4, <2>5, <2>6
  <1>RecvRegister. CASE RecvRegister
    BY <1>RecvRegister DEF IndexInv, SlotInv, FifoInv, EndInv, CloseInv, WakeInv, RecvRegister
  <1>RecvClear. CASE RecvClear
    <2>0. TypeOK'
      <3>1. RingType'
        BY <1>RecvClear DEF TypeOK, RingType, RecvClear
      <3>2. WakeType'
        BY <1>RecvClear DEF TypeOK, WakeType, RecvClear
      <3>3. ProducerType'
        BY <1>RecvClear DEF TypeOK, ProducerType, RecvClear
      <3>4. ConsumerType'
        BY <1>RecvClear DEF TypeOK, ConsumerType, RecvClear
      <3> QED BY <3>1, <3>2, <3>3, <3>4 DEF TypeOK
    <2>1. IndexInv'
      BY <1>RecvClear DEF IndexInv, RecvClear
    <2>2. SlotInv'
      BY <1>RecvClear DEF IndexInv, SlotInv, RecvClear
    <2>3. FifoInv'
      BY <1>RecvClear DEF IndexInv, SlotInv, FifoInv, RecvClear
    <2>4. EndInv'
      BY <1>RecvClear DEF IndexInv, SlotInv, EndInv, RecvClear
    <2>5. CloseInv'
      BY <1>RecvClear DEF CloseInv, RecvClear
    <2>6. WakeInv'
      BY <1>RecvClear DEF WakeInv, RecvClear
    <2> QED BY <2>0, <2>1, <2>2, <2>3, <2>4, <2>5, <2>6
  <1>RecvRepoll. CASE RecvRepoll
    <2>0. TypeOK'
      <3>1. RingType'
        BY <1>RecvRepoll DEF TypeOK, RingType, RecvRepoll
      <3>2. WakeType'
        BY <1>RecvRepoll DEF TypeOK, WakeType, RecvRepoll
      <3>3. ProducerType'
        BY <1>RecvRepoll DEF TypeOK, ProducerType, RecvRepoll
      <3>4. ConsumerType'
        BY <1>RecvRepoll DEF TypeOK, ConsumerType, RecvRepoll
      <3> QED BY <3>1, <3>2, <3>3, <3>4 DEF TypeOK
    <2>1. IndexInv'
      BY <1>RecvRepoll DEF IndexInv, RecvRepoll
    <2>2. SlotInv'
      BY <1>RecvRepoll DEF IndexInv, SlotInv, RecvRepoll
    <2>3. FifoInv'
      BY <1>RecvRepoll DEF IndexInv, SlotInv, FifoInv, RecvRepoll
    <2>4. EndInv'
      BY <1>RecvRepoll DEF IndexInv, SlotInv, EndInv, RecvRepoll
    <2>5. CloseInv'
      BY <1>RecvRepoll DEF CloseInv, RecvRepoll
    <2>6. WakeInv'
      BY <1>RecvRepoll DEF WakeInv, RecvRepoll
    <2> QED BY <2>0, <2>1, <2>2, <2>3, <2>4, <2>5, <2>6
  <1>DropConsumerWake. CASE DropConsumerWake
    <2>0. TypeOK'
      <3>1. RingType'
        BY <1>DropConsumerWake DEF TypeOK, RingType, DropConsumerWake, WakeProducer
      <3>2. WakeType'
        BY <1>DropConsumerWake DEF TypeOK, WakeType, DropConsumerWake, WakeProducer
      <3>3. ProducerType'
        BY <1>DropConsumerWake DEF TypeOK, ProducerType, DropConsumerWake, WakeProducer
      <3>4. ConsumerType'
        BY <1>DropConsumerWake DEF TypeOK, ConsumerType, DropConsumerWake, WakeProducer
      <3> QED BY <3>1, <3>2, <3>3, <3>4 DEF TypeOK
    <2>1. IndexInv'
      BY <1>DropConsumerWake DEF IndexInv, DropConsumerWake, WakeProducer
    <2>2. SlotInv'
      BY <1>DropConsumerWake DEF IndexInv, SlotInv, DropConsumerWake, WakeProducer
    <2>3. FifoInv'
      BY <1>DropConsumerWake DEF IndexInv, SlotInv, FifoInv, DropConsumerWake, WakeProducer
    <2>4. EndInv'
      BY <1>DropConsumerWake DEF IndexInv, SlotInv, EndInv, DropConsumerWake, WakeProducer
    <2>5. CloseInv'
      BY <1>DropConsumerWake DEF CloseInv, DropConsumerWake, WakeProducer
    <2>6. WakeInv'
      BY <1>DropConsumerWake DEF WakeInv, DropConsumerWake, WakeProducer
    <2> QED BY <2>0, <2>1, <2>2, <2>3, <2>4, <2>5, <2>6
  <1>CancelRecv. CASE CancelRecv
    BY <1>CancelRecv DEF IndexInv, SlotInv, FifoInv, EndInv, CloseInv, WakeInv, CancelRecv
  <1>DropConsumer. CASE DropConsumer
    BY <1>DropConsumer DEF IndexInv, SlotInv, FifoInv, EndInv, CloseInv, WakeInv, DropConsumer
  <1>RingDrop. CASE RingDrop
    <2>0. TypeOK'
      <3>1. RingType'
        <4>1. \A i \in 1..(head - tail) : slots[Slot(tail + i - 1)] \in Msg
          <5> SUFFICES ASSUME NEW i \in 1..(head - tail) PROVE slots[Slot(tail + i - 1)] \in Msg
            OBVIOUS
          <5>1. tail + i - 1 \in Taken..(head - 1) /\ (tail + i - 1) + 1 \in 1..Len(sent)
            BY <1>RingDrop DEF IndexInv, RingDrop
          <5>2. slots[Slot(tail + i - 1)] = sent[(tail + i - 1) + 1]
            BY <1>RingDrop, <5>1 DEF SlotInv, RingDrop
          <5>3. sent \in Seq(Msg)
            BY DEF TypeOK, RingType
          <5> QED BY <5>1, <5>2, <5>3
        <4>2. head - tail \in Nat
          BY <1>RingDrop DEF IndexInv, RingDrop
        <4>3. dropped' \in Seq(Msg)
          BY <1>RingDrop, <4>1, <4>2 DEF RingDrop
        <4> QED BY <1>RingDrop, <4>3 DEF TypeOK, RingType, RingDrop
      <3>2. WakeType'
        BY <1>RingDrop DEF TypeOK, WakeType, RingDrop
      <3>3. ProducerType'
        BY <1>RingDrop DEF TypeOK, ProducerType, RingDrop
      <3>4. ConsumerType'
        BY <1>RingDrop DEF TypeOK, ConsumerType, RingDrop
      <3> QED BY <3>1, <3>2, <3>3, <3>4 DEF TypeOK
    <2>1. IndexInv'
      BY <1>RingDrop DEF IndexInv, RingDrop
    <2>2. SlotInv'
      BY <1>RingDrop DEF IndexInv, SlotInv, RingDrop
    <2>3. FifoInv'
      BY <1>RingDrop DEF IndexInv, SlotInv, FifoInv, RingDrop
    <2>4. EndInv'
      <3>1. /\ head \in Nat /\ tail \in Nat /\ tail <= head /\ Len(sent) = head /\ Len(rcvd) = tail
            /\ ~freed /\ sent \in Seq(Msg) /\ rcvd \in Seq(Msg) /\ Taken = tail
            /\ sent' = sent /\ rcvd' = rcvd
        BY <1>RingDrop DEF IndexInv, RingDrop
      <3>2. dropped' = [i \in 1..(head - tail) |-> slots[Slot(tail + i - 1)]]
        BY <1>RingDrop DEF RingDrop
      <3>3. \A i \in 1..(head - tail) : dropped'[i] = sent[tail + i]
        <4> SUFFICES ASSUME NEW i \in 1..(head - tail) PROVE dropped'[i] = sent[tail + i]
          OBVIOUS
        <4>1. tail + i - 1 \in Taken..(head - 1) /\ (tail + i - 1) + 1 = tail + i
          BY <3>1
        <4> QED BY <4>1, <3>1, <3>2 DEF SlotInv
      <3>4. dropped' \in Seq(Msg) /\ Len(dropped') = head - tail
        BY <2>0, <3>1, <3>2 DEF TypeOK, RingType
      <3>5. rcvd \o dropped' \in Seq(Msg) /\ Len(rcvd \o dropped') = Len(sent)
        <4>1. PICK q : q = dropped'
          OBVIOUS
        <4>2. q \in Seq(Msg) /\ rcvd \in Seq(Msg)
          BY <3>1, <3>4, <4>1
        <4>3. rcvd \o q \in Seq(Msg) /\ Len(rcvd \o q) = Len(rcvd) + Len(q)
          BY <4>2, ConcatProperties
        <4> QED BY <3>1, <3>4, <4>1, <4>3
      <3>6. \A k \in 1..Len(sent) : (rcvd \o dropped')[k] = sent[k]
        <4> SUFFICES ASSUME NEW k \in 1..Len(sent) PROVE (rcvd \o dropped')[k] = sent[k]
          OBVIOUS
        <4>1. CASE k <= tail
          BY <4>1, <3>1, <3>4 DEF FifoInv
        <4>2. CASE k > tail
          <5>1. k - tail \in 1..(head - tail) /\ tail + (k - tail) = k
            BY <4>2, <3>1
          <5>2. (rcvd \o dropped')[k] = dropped'[k - tail]
            BY <5>1, <3>1, <3>4
          <5> QED BY <5>1, <5>2, <3>3
        <4>3. k <= tail \/ k > tail
          BY <3>1
        <4> QED BY <4>1, <4>2, <4>3
      <3>7. rcvd \o dropped' = sent
        BY <3>1, <3>5, <3>6, SeqEqual
      <3> QED BY <1>RingDrop, <3>1, <3>7 DEF EndInv, RingDrop
    <2>5. CloseInv'
      BY <1>RingDrop DEF CloseInv, RingDrop
    <2>6. WakeInv'
      BY <1>RingDrop DEF WakeInv, RingDrop
    <2> QED BY <2>0, <2>1, <2>2, <2>3, <2>4, <2>5, <2>6
  <1>U. CASE UNCHANGED vars
    BY <1>U DEF IndexInv, SlotInv, FifoInv, EndInv, CloseInv, WakeInv, vars
  <1> QED
    BY <1>S, <1>R, <1>U, <1>SendCheckClosed, <1>SendCheckFull, <1>SendWrite, <1>SendPublish,
       <1>SendWake, <1>SendRegister, <1>SendClear, <1>SendRepoll, <1>DropProducerWake,
          <1>CancelSend, <1>DropProducer, <1>RecvCheckEmpty, <1>RecvCheckClosed, <1>RecvTake,
             <1>RecvAdvance, <1>RecvWake, <1>RecvRegister, <1>RecvClear, <1>RecvRepoll,
                <1>DropConsumerWake, <1>CancelRecv, <1>DropConsumer, <1>RingDrop
    DEF Next, ProducerStep, ConsumerStep

(***************************************************************************)
(* A fresh channel() satisfies the invariant.                              *)
(***************************************************************************)
LEMMA IndInvInit == Init => IndInv
  <1> SUFFICES ASSUME Init PROVE IndInv
    OBVIOUS
  <1> USE SpscAssumption DEF Init
  <1>1. TypeOK
    <2>1. RingType
      <3>1. <<>> \in Seq(Msg)
        OBVIOUS
      <3>2. slots \in [0..N-1 -> Msg \cup {Uninit}]
        OBVIOUS
      <3> QED BY <3>1, <3>2 DEF RingType
    <2>2. WakeType /\ ProducerType /\ ConsumerType
      BY DEF WakeType, ProducerType, ConsumerType, ProducerPCs, ConsumerPCs, SendCalls,
         RecvCalls
    <2> QED BY <2>1, <2>2 DEF TypeOK
  <1>2. IndexInv /\ SlotInv /\ FifoInv /\ EndInv
    BY DEF IndexInv, SlotInv, FifoInv, EndInv, Taken
  <1>3. CloseInv /\ WakeInv
    BY DEF CloseInv, WakeInv
  <1> QED BY <1>1, <1>2, <1>3 DEF IndInv

(***************************************************************************)
(* The inductive invariant holds in every behaviour of the ring.           *)
(***************************************************************************)
THEOREM Invariance == Spec => []IndInv
  BY IndInvInit, IndInvStep, PTL DEF Spec

(***************************************************************************)
(* Type correctness, which includes that nothing but a message is ever     *)
(* delivered or dropped.                                                   *)
(***************************************************************************)
THEOREM TypeCorrect == Spec => []TypeOK
  <1>1. IndInv => TypeOK
    BY DEF IndInv
  <1> QED BY <1>1, Invariance, PTL

(***************************************************************************)
(* The two SAFETY comments of try_send and try_recv hold for a ring of any *)
(* capacity: no live slot is overwritten, no uninitialised slot is read.   *)
(***************************************************************************)
THEOREM SlotSafetyHolds == Spec => []SlotSafety
  <1>1. IndInv => SlotSafety
    <2> SUFFICES ASSUME IndInv PROVE SlotSafety
      OBVIOUS
    <2>1. ASSUME ppc = "write" PROVE slots[Slot(head)] = Uninit
      <3>1. /\ head \in Nat /\ tail \in Nat /\ head < tail + N
            /\ Taken \in Nat /\ tail <= Taken /\ slots \in [0..N-1 -> Msg \cup {Uninit}]
        BY <2>1 DEF IndInv, TypeOK, RingType, IndexInv, Taken
      <3>2. \A i \in Taken..(head - 1) : Slot(i) # Slot(head)
        BY <3>1, SpscAssumption, SlotDistinct
      <3>3. Slot(head) \in 0..N-1
        BY <3>1, SlotRange
      <3> QED BY <2>1, <3>2, <3>3 DEF IndInv, SlotInv
    <2>2. ASSUME cpc = "take" PROVE slots[Slot(tail)] # Uninit
      BY <2>2, TakeFacts, SpscAssumption
    <2> QED BY <2>1, <2>2 DEF SlotSafety
  <1> QED BY <1>1, Invariance, PTL

(***************************************************************************)
(* No message is leaked or dropped twice, whichever way the two halves     *)
(* end.                                                                    *)
(***************************************************************************)
THEOREM NoLeakHolds == Spec => []NoLeak
  <1>1. IndInv => NoLeak
    BY DEF IndInv, NoLeak, EndInv, SlotInv
  <1> QED BY <1>1, Invariance, PTL

(***************************************************************************)
(* The register-then-retry protocol of the two futures loses no wake-up.   *)
(***************************************************************************)
THEOREM NoLostWakeupHolds == Spec => []NoLostWakeup
  <1>1. IndInv => NoLostWakeup
    BY DEF IndInv, NoLostWakeup, WakeInv
  <1> QED BY <1>1, Invariance, PTL

(***************************************************************************)
(* The ring implements the bounded FIFO channel: SendPublish is Send,      *)
(* RecvTake is Recv, and every other step is invisible.                    *)
(***************************************************************************)
THEOREM Refinement == Spec => ImplementsChannel
  <1>1. Init => Channel!Init
    BY DEF Init, Channel!Init
  <1>2. IndInv /\ [Next]_vars => [Channel!Next]_(Channel!chanVars)
    <2> SUFFICES ASSUME IndInv, [Next]_vars PROVE [Channel!Next]_(Channel!chanVars)
      OBVIOUS
    <2>1. CASE SendPublish
      <3>1. Len(sent) - Len(rcvd) < N
        BY <2>1, SpscAssumption DEF SendPublish, IndInv, IndexInv, Taken, TypeOK, RingType
      <3>2. pmsg \in Msg /\ sent' = Append(sent, pmsg) /\ rcvd' = rcvd
        BY <2>1 DEF SendPublish, IndInv, TypeOK, ProducerType
      <3>3. Channel!Send(pmsg)
        BY <3>1, <3>2 DEF Channel!Send
      <3> QED BY <3>2, <3>3 DEF Channel!Next
    <2>2. CASE RecvTake
      <3>1. Len(rcvd) = tail /\ tail < head /\ head = Len(sent)
        BY <2>2 DEF RecvTake, IndInv, IndexInv, Taken
      <3>2. slots[Slot(tail)] = sent[Len(rcvd) + 1]
        BY <2>2, <3>1, TakeFacts DEF RecvTake
      <3>3. Channel!Recv
        BY <2>2, <3>1, <3>2 DEF RecvTake, Channel!Recv
      <3> QED BY <3>3 DEF Channel!Next
    <2>3. CASE UNCHANGED <<sent, rcvd>>
      BY <2>3 DEF Channel!chanVars
    <2> QED
      BY <2>1, <2>2, <2>3
      DEF Next, vars, histVars, ProducerStep, ConsumerStep, StartSend, SendCheckClosed,
          SendCheckFull, SendWrite, SendWake, SendRegister, SendClear, SendRepoll,
          CancelSend, DropProducer, DropProducerWake, StartRecv, RecvCheckEmpty,
          RecvCheckClosed, RecvAdvance, RecvWake, RecvRegister, RecvClear, RecvRepoll,
          CancelRecv, DropConsumer, DropConsumerWake, RingDrop
  <1> QED BY <1>1, <1>2, Invariance, PTL DEF Spec, ImplementsChannel, Channel!Spec
=============================================================================
