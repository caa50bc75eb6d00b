--------------------------- MODULE MpscRingProofs ---------------------------
(***************************************************************************)
(* What holds of the multi-producer ring for every number of producers,    *)
(* every capacity of at least two, and every number of sends.  A capacity  *)
(* of one is excluded where it must be: there the sequence number of a     *)
(* published slot is also that of a slot given back.                       *)
(***************************************************************************)
EXTENDS MpscRing, FiniteSetTheorems, TLAPS

----------------------------------------------------------------------------
(* Positions and slots. *)

\* A position has a slot.
LEMMA SlotRange ==
    ASSUME NEW i \in Nat
    PROVE  Slot(i) \in 0..N-1
  BY MpscAssumption DEF Slot

\* Positions less than a lap apart have different slots.
LEMMA SlotOrdered ==
    ASSUME NEW a \in Nat, NEW b \in Nat, a < b, b < a + N
    PROVE  Slot(a) # Slot(b)
  <1> SUFFICES ASSUME a % N = b % N PROVE FALSE
    BY DEF Slot
  <1>0. N \in Nat /\ N > 0
    BY MpscAssumption
  <1>1. PICK qa \in Int, qb \in Int : a = (N * qa) + (a % N) /\ b = (N * qb) + (b % N)
    <2>1. /\ a \div N \in Int /\ a = (N * (a \div N)) + (a % N)
          /\ b \div N \in Int /\ b = (N * (b \div N)) + (b % N)
      BY <1>0
    <2> QED BY <2>1
  <1>2. b - a = N * qb - N * qa /\ N * qb \in Int /\ N * qa \in Int
    BY <1>0, <1>1
  <1>3. N * qb - N * qa = N * (qb - qa)
    BY <1>0, <1>1
  <1>4. qb - qa >= 1
    <2>1. CASE qb - qa <= 0
      <3>1. N * (qb - qa) <= 0
        BY <2>1, <1>0, <1>1
      <3> QED BY <3>1, <1>2, <1>3
    <2> QED BY <2>1, <1>1
  <1>5. N * (qb - qa) >= N
    BY <1>0, <1>1, <1>4
  <1> QED BY <1>0, <1>2, <1>3, <1>5

(***************************************************************************)
(* Two positions of one lap have different slots, and a lap later the slot *)
(* comes round again.                                                      *)
(***************************************************************************)
LEMMA SlotDistinct ==
    ASSUME NEW g \in Nat, NEW a \in g..(g + N - 1), NEW b \in g..(g + N - 1), a # b
    PROVE  Slot(a) # Slot(b)
  <1>1. N \in Nat /\ a \in Nat /\ b \in Nat
    BY MpscAssumption
  <1>2. CASE a < b
    BY <1>1, <1>2, SlotOrdered
  <1>3. CASE b < a
    BY <1>1, <1>3, SlotOrdered
  <1> QED BY <1>1, <1>2, <1>3

\* One lap on is the same slot.
LEMMA SlotLap ==
    ASSUME NEW i \in Nat
    PROVE  Slot(i + N) = Slot(i)
  <1>0. N \in Nat /\ N > 0 /\ i + N \in Nat
    BY MpscAssumption
  <1>1. PICK qa \in Int, qb \in Int :
           i = (N * qa) + (i % N) /\ i + N = (N * qb) + ((i + N) % N)
    <2>1. /\ i \div N \in Int /\ i = (N * (i \div N)) + (i % N)
          /\ (i + N) \div N \in Int /\ i + N = (N * ((i + N) \div N)) + ((i + N) % N)
      BY <1>0
    <2> QED BY <2>1
  <1>2. i % N \in 0..N-1 /\ (i + N) % N \in 0..N-1
    BY <1>0
  <1>3. N * qb - N * qa = N * (qb - qa) /\ N * qb \in Int /\ N * qa \in Int
    BY <1>0, <1>1
  <1>4. N + (i % N) - ((i + N) % N) = N * (qb - qa)
    BY <1>0, <1>1, <1>2, <1>3
  <1>5. qb - qa = 1
    <2>1. CASE qb - qa <= 0
      <3>1. N * (qb - qa) <= 0
        BY <2>1, <1>0, <1>1
      <3> QED BY <3>1, <1>0, <1>2, <1>4
    <2>2. CASE qb - qa >= 2
      <3>1. N * (qb - qa) >= N * 2
        BY <2>2, <1>0, <1>1
      <3> QED BY <3>1, <1>0, <1>2, <1>4
    <2> QED BY <2>1, <2>2, <1>1
  <1>6. N * (qb - qa) = N
    BY <1>0, <1>5
  <1> QED BY <1>0, <1>2, <1>4, <1>6 DEF Slot

\* What Append does to a sequence.
LEMMA AppendFacts ==
    ASSUME NEW S, NEW s \in Seq(S), NEW x \in S
    PROVE  /\ Append(s, x) \in Seq(S)
           /\ Len(Append(s, x)) = Len(s) + 1
           /\ \A i \in 1..Len(s) : Append(s, x)[i] = s[i]
           /\ Append(s, x)[Len(s) + 1] = x
  OBVIOUS

----------------------------------------------------------------------------
(* Where a step takes a producer. *)

Handle == [pc : ProducerPCs, call : SendCalls, msg : Msg \cup {Uninit}, pos : Nat]
Handles == [Producer -> Handle]

Moves(p, label, m, i) ==
    /\ prod' \in Handles /\ p \in Producer /\ \A q \in Producer \ {p} : prod'[q] = prod[q]
    /\ prod'[p].pc = label /\ prod'[p].msg = m /\ prod'[p].pos = i

\* The fields of a producer handle.
LEMMA HandleFields ==
    /\ \A h \in Handle : /\ h.pc \in ProducerPCs /\ h.call \in SendCalls
                         /\ h.msg \in Msg \cup {Uninit} /\ h.pos \in Nat
    /\ IdleProducer \in Handle
    /\ \A h \in Handle, label \in ProducerPCs, i \in Nat :
          [h EXCEPT !.pos = i, !.pc = label] \in Handle
    /\ \A h \in Handle, label \in ProducerPCs, c \in SendCalls :
          [h EXCEPT !.call = c, !.pc = label] \in Handle
  <1>1. IdleProducer \in Handle
    BY DEF Handle, IdleProducer, ProducerPCs, SendCalls
  <1> QED BY <1>1 DEF Handle

\* A handle that is set as a whole.
LEMMA HandleSet ==
    ASSUME prod \in Handles, NEW p \in Producer, NEW h \in Handle, prod' = [prod EXCEPT ![p] = h]
    PROVE  Moves(p, h.pc, h.msg, h.pos)
  BY DEF Handles, Moves

\* A handle that changes its label only.
LEMMA GotoMoves ==
    ASSUME prod \in Handles, NEW p \in Producer, NEW label \in ProducerPCs, Goto(p, label)
    PROVE  Moves(p, label, prod[p].msg, prod[p].pos)
  <1>1. PICK h : h = [prod[p] EXCEPT !.pc = label]
    OBVIOUS
  <1>2. prod[p] \in Handle
    BY DEF Handles
  <1>3. h \in Handle /\ h.pc = label /\ h.msg = prod[p].msg /\ h.pos = prod[p].pos
    BY <1>1, <1>2 DEF Handle
  <1>4. prod' = [prod EXCEPT ![p] = h]
    BY <1>1 DEF Goto
  <1> QED BY <1>3, <1>4, HandleSet

\* A handle that changes its label and its position.
LEMMA GotoAtMoves ==
    ASSUME prod \in Handles, NEW p \in Producer, NEW label \in ProducerPCs, NEW i \in Nat,
           prod' = [prod EXCEPT ![p].pos = i, ![p].pc = label]
    PROVE  Moves(p, label, prod[p].msg, i)
  <1>1. PICK h : h = [prod[p] EXCEPT !.pos = i, !.pc = label]
    OBVIOUS
  <1>2. prod[p] \in Handle
    BY DEF Handles
  <1>3. h \in Handle /\ h.pc = label /\ h.msg = prod[p].msg /\ h.pos = i
    BY <1>1, <1>2 DEF Handle
  <1>4. prod' = [prod EXCEPT ![p] = h]
    BY <1>1, <1>2 DEF Handle, Handles
  <1> QED BY <1>3, <1>4, HandleSet

\* A handle that gives its position up.
LEMMA GotoToMoves ==
    ASSUME prod \in Handles, NEW p \in Producer, NEW label \in ProducerPCs,
           prod' = [prod EXCEPT ![p].pc = label, ![p].pos = 0]
    PROVE  Moves(p, label, prod[p].msg, 0)
  <1>1. PICK h : h = [prod[p] EXCEPT !.pc = label, !.pos = 0]
    OBVIOUS
  <1>2. prod[p] \in Handle
    BY DEF Handles
  <1>3. h \in Handle /\ h.pc = label /\ h.msg = prod[p].msg /\ h.pos = 0
    BY <1>1, <1>2 DEF Handle
  <1>4. prod' = [prod EXCEPT ![p] = h]
    BY <1>1, <1>2 DEF Handle, Handles
  <1> QED BY <1>3, <1>4, HandleSet

\* A call that starts over.
LEMMA AgainMoves ==
    ASSUME prod \in Handles, NEW p \in Producer, NEW c \in SendCalls,
           prod' = [prod EXCEPT ![p].call = c, ![p].pc = "check_closed"]
    PROVE  Moves(p, "check_closed", prod[p].msg, prod[p].pos)
  <1>1. PICK h : h = [prod[p] EXCEPT !.call = c, !.pc = "check_closed"]
    OBVIOUS
  <1>2. prod[p] \in Handle
    BY DEF Handles
  <1>3. h \in Handle /\ h.pc = "check_closed" /\ h.msg = prod[p].msg /\ h.pos = prod[p].pos
    BY <1>1, <1>2 DEF Handle, ProducerPCs
  <1>4. prod' = [prod EXCEPT ![p] = h]
    BY <1>1, <1>2 DEF Handle, Handles
  <1> QED BY <1>3, <1>4, HandleSet

\* A call that returns.
LEMMA ReturnMoves ==
    ASSUME prod \in Handles, NEW p \in Producer, Return(p)
    PROVE  Moves(p, "idle", Uninit, 0)
  <1>1. Moves(p, IdleProducer.pc, IdleProducer.msg, IdleProducer.pos)
    BY HandleFields, HandleSet DEF Return
  <1> QED BY <1>1 DEF IdleProducer

\* What each producer step does to its handle.
LEMMA ProducerMoves ==
    ASSUME prod \in Handles, tail \in Nat, NEW p \in Producer, NEW m, NEW i,
           m = prod[p].msg, i = prod[p].pos
    PROVE  /\ \A q \in Producer : Clone(q, p) => Moves(p, "idle", m, i)
           /\ DropProducer(p) => Moves(p, IF producers = 1 THEN "last_wake" ELSE "gone", m, i)
           /\ LastProducerWake(p) => Moves(p, "gone", m, i)
           /\ \A x \in Payload[p], call \in {"try", "poll1"} :
                 StartSend(p, x, call) => x \in Msg /\ Moves(p, "check_closed", x, 0)
           /\ SendCheckClosed(p) => Moves(p, "idle", Uninit, 0) \/ Moves(p, "load_tail", m, i)
           /\ SendLoadTail(p) => Moves(p, "load_seq", m, tail)
           /\ SendLoadSeq(p) => \/ seq[Slot(i)] - i = 0 /\ Moves(p, "cas", m, i)
                                \/ Moves(p, "load_tail", m, i) \/ Moves(p, "idle", Uninit, 0)
                                \/ Moves(p, "register", m, 0) \/ Moves(p, "parked", m, 0)
           /\ SendCasOk(p) => Moves(p, "write", m, i)
           /\ SendCasFail(p) => Moves(p, "load_seq", m, tail)
           /\ SendWrite(p) => Moves(p, "publish", m, i)
           /\ SendPublish(p) => Moves(p, "wake", Uninit, 0)
           /\ SendWake(p) => Moves(p, "clear", m, i) \/ Moves(p, "idle", Uninit, 0)
           /\ SendRegister(p) => Moves(p, "check_closed", m, i)
           /\ SendClear(p) => Moves(p, "idle", Uninit, 0)
           /\ SendRepoll(p) => Moves(p, "check_closed", m, i)
           /\ CancelSend(p) => Moves(p, "idle", Uninit, 0)
  <1> USE DEF ProducerPCs
  <1>1. \A q \in Producer : Clone(q, p) => Moves(p, "idle", m, i)
    BY GotoMoves DEF Clone
  <1>2. DropProducer(p) => Moves(p, IF producers = 1 THEN "last_wake" ELSE "gone", m, i)
    BY GotoMoves DEF DropProducer
  <1>3. LastProducerWake(p) => Moves(p, "gone", m, i)
    BY GotoMoves DEF LastProducerWake
  <1>4. \A x \in Payload[p], call \in {"try", "poll1"} :
           StartSend(p, x, call) => x \in Msg /\ Moves(p, "check_closed", x, 0)
    <2> SUFFICES ASSUME NEW x \in Payload[p], NEW call \in {"try", "poll1"}, StartSend(p, x, call)
                 PROVE  x \in Msg /\ Moves(p, "check_closed", x, 0)
      OBVIOUS
    <2>1. x \in Msg
      BY MpscAssumption
    <2>2. PICK h : h = [pc |-> "check_closed", call |-> call, msg |-> x, pos |-> 0]
      OBVIOUS
    <2>3. h \in Handle /\ prod' = [prod EXCEPT ![p] = h]
      BY <2>1, <2>2 DEF StartSend, Handle, SendCalls
    <2> QED BY <2>1, <2>2, <2>3, HandleSet
  <1>5. SendCheckClosed(p) => Moves(p, "idle", Uninit, 0) \/ Moves(p, "load_tail", m, i)
    BY GotoMoves, ReturnMoves DEF SendCheckClosed
  <1>6. SendLoadTail(p) => Moves(p, "load_seq", m, tail)
    BY GotoAtMoves DEF SendLoadTail
  <1>7. SendLoadSeq(p) => \/ seq[Slot(i)] - i = 0 /\ Moves(p, "cas", m, i)
                          \/ Moves(p, "load_tail", m, i) \/ Moves(p, "idle", Uninit, 0)
                          \/ Moves(p, "register", m, 0) \/ Moves(p, "parked", m, 0)
    <2>1. SendFull(p) => \/ Moves(p, "idle", Uninit, 0) \/ Moves(p, "register", m, 0)
                         \/ Moves(p, "parked", m, 0)
      BY GotoToMoves, ReturnMoves DEF SendFull
    <2>2. SendLoadSeq(p) => \/ seq[Slot(i)] - i = 0 /\ Goto(p, "cas")
                            \/ SendFull(p) \/ Goto(p, "load_tail")
      BY DEF SendLoadSeq
    <2>3. /\ Goto(p, "cas") => Moves(p, "cas", m, i)
          /\ Goto(p, "load_tail") => Moves(p, "load_tail", m, i)
      BY GotoMoves
    <2> QED BY <2>1, <2>2, <2>3
  <1>8. SendCasOk(p) => Moves(p, "write", m, i)
    BY GotoMoves DEF SendCasOk, Claim
  <1>9. SendCasFail(p) => Moves(p, "load_seq", m, tail)
    BY GotoAtMoves DEF SendCasFail
  <1>10. SendWrite(p) => Moves(p, "publish", m, i)
    BY GotoMoves DEF SendWrite
  <1>11. SendPublish(p) => Moves(p, "wake", Uninit, 0)
    <2> SUFFICES ASSUME SendPublish(p) PROVE Moves(p, "wake", Uninit, 0)
      OBVIOUS
    <2>1. PICK h : h = [prod[p] EXCEPT !.pc = "wake", !.msg = Uninit, !.pos = 0]
      OBVIOUS
    <2>2. prod[p] \in Handle
      BY DEF Handles
    <2>3. h \in Handle /\ h.pc = "wake" /\ h.msg = Uninit /\ h.pos = 0
      BY <2>1, <2>2 DEF Handle
    <2>4. prod' = [prod EXCEPT ![p] = h]
      BY <2>1 DEF SendPublish
    <2> QED BY <2>3, <2>4, HandleSet
  <1>12. SendWake(p) => Moves(p, "clear", m, i) \/ Moves(p, "idle", Uninit, 0)
    BY GotoMoves, ReturnMoves DEF SendWake
  <1>13. SendRegister(p) => Moves(p, "check_closed", m, i)
    BY AgainMoves DEF SendRegister, SendCalls
  <1>14. SendClear(p) => Moves(p, "idle", Uninit, 0)
    BY ReturnMoves DEF SendClear
  <1>15. SendRepoll(p) => Moves(p, "check_closed", m, i)
    BY AgainMoves DEF SendRepoll, SendCalls
  <1>16. CancelSend(p) => Moves(p, "idle", Uninit, 0)
    BY ReturnMoves DEF CancelSend
  <1> QED BY ONLY <1>1, <1>2, <1>3, <1>4, <1>5, <1>6, <1>7, <1>8, <1>9, <1>10, <1>11, <1>12,
                  <1>13, <1>14, <1>15, <1>16

----------------------------------------------------------------------------
(* Sequence numbers, messages and claims. *)

\* What the steps of the core rest on: the types of the ring.
RingType ==
    /\ tail \in Nat /\ head \in Nat
    /\ seq \in [0..N-1 -> Nat] /\ val \in [0..N-1 -> Msg \cup {Uninit}]
    /\ prod \in Handles /\ sent \in Seq(Msg) /\ rcvd \in Seq(Msg)

\* Given back, taken and claimed positions, in this order.
LEMMA Bounds ==
    ASSUME RingType, HistInv
    PROVE  /\ Given \in Nat /\ Taken \in Nat /\ Given <= Taken /\ Taken <= tail
           /\ tail <= Given + N /\ Taken <= Given + 1 /\ head \in Given..Taken
           /\ N \in Nat /\ N > 0 /\ tail \in Nat /\ head \in Nat
           /\ Len(sent) = tail /\ Len(rcvd) = Taken
  BY MpscAssumption DEF RingType, HistInv, Given, Taken

(***************************************************************************)
(* Steps that claim, write, publish, take and give back nothing.           *)
(***************************************************************************)
SameClaim(p) ==
    /\ prod[p].pc \notin Claiming /\ prod'[p].pc \notin Claiming
    /\ prod'[p].pc \in {"load_seq", "cas"} => prod'[p].pos <= tail
    /\ prod'[p].pc = "cas" => prod'[p].pos < Given + N
    /\ prod'[p].pc \in Sending => prod'[p].msg \in Msg

Quiet ==
    /\ UNCHANGED <<tail, seq, val, sent, rcvd>> /\ Taken' = Taken /\ Given' = Given
    /\ cpc' = "take" => seq'[Slot(head')] = head' + 1
    /\ cpc' = "release" => head' > 0
    /\ \A p \in Producer : prod'[p] = prod[p] \/ SameClaim(p)

\* CoreInv survives steps that touch neither positions nor slots.
LEMMA QuietCore ==
    ASSUME RingType, CoreInv, Quiet
    PROVE  CoreInv'
  <1>1. HistInv'
    BY DEF CoreInv, HistInv, Quiet, Ready
  <1>2. SeqInv'
    <2>1. ASSUME NEW i \in Given..(tail - 1)
          PROVE  \/ Live(i)
                 \/ /\ seq[Slot(i)] = i
                    /\ \E p \in Producer : prod'[p].pc \in Claiming /\ prod'[p].pos = i
      BY <2>1 DEF CoreInv, SeqInv, Quiet, SameClaim
    <2> QED BY <2>1 DEF CoreInv, SeqInv, Quiet, Live
  <1>3. ValInv'
    BY DEF CoreInv, ValInv, Quiet, Live
  <1>4. ClaimInv'
    <2>1. ASSUME NEW p \in Producer
          PROVE  /\ prod'[p].pc \in Claiming =>
                    /\ prod'[p].pos \in Taken..(tail - 1)
                    /\ seq[Slot(prod'[p].pos)] = prod'[p].pos
                    /\ prod'[p].msg = sent[prod'[p].pos + 1]
                    /\ val[Slot(prod'[p].pos)] = IF prod'[p].pc = "write" THEN Uninit
                                                 ELSE prod'[p].msg
                 /\ prod'[p].pc \in {"load_seq", "cas"} => prod'[p].pos <= tail
                 /\ prod'[p].pc = "cas" => prod'[p].pos < Given + N
                 /\ prod'[p].pc \in Sending => prod'[p].msg \in Msg
                 /\ prod'[p].pc \in Claiming => prod'[p] = prod[p]
      BY DEF CoreInv, ClaimInv, Quiet, SameClaim
    <2>2. \A p, q \in Producer :
             prod'[p].pc \in Claiming /\ prod'[q].pc \in Claiming /\ prod'[p].pos = prod'[q].pos
                => p = q
      BY <2>1 DEF CoreInv, ClaimInv
    <2> QED BY <2>1, <2>2 DEF ClaimInv, Quiet
  <1> QED BY <1>1, <1>2, <1>3, <1>4 DEF CoreInv

(***************************************************************************)
(* A slot whose sequence number is the producer's position has been given  *)
(* back, if there are at least two slots.                                  *)
(***************************************************************************)
LEMMA SlotGivenBack ==
    ASSUME RingType, CoreInv, N > 1, NEW i \in Nat, i <= tail, seq[Slot(i)] = i
    PROVE  i < Given + N
  <1>0. /\ Given \in Nat /\ tail <= Given + N /\ N \in Nat /\ tail \in Nat
    BY Bounds DEF CoreInv
  <1>1. CASE i = Given + N
    <2>1. Slot(i) = Slot(Given) /\ Given \in Given..(tail - 1)
      BY <1>0, <1>1, SlotLap
    <2>2. seq[Slot(Given)] \in {Given, Given + 1}
      BY <2>1 DEF CoreInv, SeqInv, Live
    <2> QED BY <1>0, <1>1, <2>1, <2>2
  <1> QED BY <1>0, <1>1

\* The producer steps that touch neither.
LEMMA QuietProducer ==
    ASSUME RingType, CoreInv, N > 1, NEW p \in Producer,
           \/ (\E q \in Producer : Clone(q, p)) \/ DropProducer(p) \/ LastProducerWake(p)
           \/ (\E x \in Payload[p], call \in {"try", "poll1"} : StartSend(p, x, call))
           \/ SendCheckClosed(p) \/ SendLoadTail(p) \/ SendLoadSeq(p) \/ SendCasFail(p)
           \/ SendWake(p) \/ SendRegister(p) \/ SendClear(p) \/ SendRepoll(p) \/ CancelSend(p)
    PROVE  Quiet
  <1>0. PICK m, i : m = prod[p].msg /\ i = prod[p].pos
    OBVIOUS
  <1>1. /\ UNCHANGED <<tail, head, seq, val, sent, rcvd, cpc>> /\ prod[p].pc \notin Claiming
    BY DEF Clone, DropProducer, LastProducerWake, StartSend, SendCheckClosed, SendLoadTail,
           SendLoadSeq, SendCasFail, SendWake, SendRegister, SendClear, SendRepoll, CancelSend,
           idxVars, slotVars, consVars, histVars, Claiming
  <1>2. /\ prod \in Handles /\ tail \in Nat /\ head \in Nat /\ seq \in [0..N-1 -> Nat]
        /\ N \in Nat /\ Given \in Nat /\ i \in Nat /\ Slot(i) \in 0..N-1
    BY <1>0, MpscAssumption, Bounds, SlotRange DEF RingType, CoreInv, Handles, Handle
  <1>3. /\ prod[p].pc \in Sending => m \in Msg
        /\ prod[p].pc \in {"load_seq", "cas"} => i <= tail
    BY <1>0 DEF CoreInv, ClaimInv
  <1>4. ASSUME NEW label \in ProducerPCs, NEW x, NEW j, Moves(p, label, x, j),
               label \notin Claiming, label \in {"load_seq", "cas"} => j <= tail,
               label = "cas" => j < Given + N, label \in Sending => x \in Msg
        PROVE  \A q \in Producer : prod'[q] = prod[q] \/ SameClaim(q)
    BY <1>1, <1>4 DEF Moves, SameClaim
  <1>5. \A q \in Producer : prod'[q] = prod[q] \/ SameClaim(q)
    <2> USE DEF ProducerPCs, Claiming, Sending
    <2>1. ASSUME NEW q \in Producer, Clone(q, p)
          PROVE  \A r \in Producer : prod'[r] = prod[r] \/ SameClaim(r)
      BY <1>0, <1>2, <1>4, <2>1, ProducerMoves
    <2>2. CASE DropProducer(p) \/ LastProducerWake(p)
      <3>1. Moves(p, "last_wake", m, i) \/ Moves(p, "gone", m, i)
        BY <1>0, <1>2, <2>2, ProducerMoves
      <3> QED BY <1>4, <3>1
    <2>3. ASSUME NEW x \in Payload[p], NEW call \in {"try", "poll1"}, StartSend(p, x, call)
          PROVE  \A q \in Producer : prod'[q] = prod[q] \/ SameClaim(q)
      <3>1. x \in Msg /\ Moves(p, "check_closed", x, 0)
        BY <1>0, <1>2, <2>3, ProducerMoves
      <3> QED BY <1>4, <3>1
    <2>4. CASE SendCheckClosed(p) \/ SendLoadTail(p) \/ SendCasFail(p) \/ SendRegister(p)
               \/ SendRepoll(p)
      <3>1. m \in Msg
        BY <1>3, <2>4 DEF SendCheckClosed, SendLoadTail, SendCasFail, SendRegister, SendRepoll
      <3>2. \/ Moves(p, "idle", Uninit, 0) \/ Moves(p, "load_tail", m, i)
            \/ Moves(p, "load_seq", m, tail) \/ Moves(p, "check_closed", m, i)
        BY <1>0, <1>2, <2>4, ProducerMoves
      <3> QED BY <1>2, <1>4, <3>1, <3>2
    <2>5. CASE SendLoadSeq(p)
      <3>1. m \in Msg /\ i <= tail
        BY <1>3, <2>5 DEF SendLoadSeq
      <3>2. \/ seq[Slot(i)] - i = 0 /\ Moves(p, "cas", m, i)
            \/ Moves(p, "load_tail", m, i) \/ Moves(p, "idle", Uninit, 0)
            \/ Moves(p, "register", m, 0) \/ Moves(p, "parked", m, 0)
        BY <1>0, <1>2, <2>5, ProducerMoves
      <3>3. seq[Slot(i)] - i = 0 => i < Given + N
        BY <1>2, <3>1, SlotGivenBack
      <3> QED BY <1>4, <3>1, <3>2, <3>3
    <2>6. CASE SendWake(p) \/ SendClear(p) \/ CancelSend(p)
      <3>1. Moves(p, "clear", m, i) \/ Moves(p, "idle", Uninit, 0)
        BY <1>0, <1>2, <2>6, ProducerMoves
      <3> QED BY <1>4, <3>1
    <2> QED BY <2>1, <2>2, <2>3, <2>4, <2>5, <2>6
  <1> QED BY <1>1, <1>5 DEF Quiet, Taken, Given, CoreInv, HistInv, Ready

\* The consumer steps that touch neither.
LEMMA QuietConsumer ==
    ASSUME RingType, CoreInv,
           \/ (\E call \in {"try", "pop", "poll1"} : StartRecv(call))
           \/ RecvLoadSeq \/ RecvCheckProducers \/ RecvRecheckSeq \/ RecvAdvance
           \/ RecvWake \/ RecvRegister \/ RecvClear \/ RecvRepoll \/ CancelRecv
           \/ DropConsumer \/ DropConsumerWake
    PROVE  Quiet
  <1>1. UNCHANGED <<tail, seq, val, sent, rcvd, prod>>
    BY DEF StartRecv, RecvLoadSeq, RecvCheckProducers, RecvRecheckSeq, RecvAdvance, RecvWake,
           RecvRegister, RecvClear, RecvRepoll, CancelRecv, DropConsumer, DropConsumerWake,
           idxVars, slotVars, histVars
  <1>2. CASE RecvAdvance
    BY <1>1, <1>2 DEF RecvAdvance, Quiet, Taken, Given, RingType
  <1>3. CASE ~RecvAdvance
    <2>1. head' = head /\ cpc \notin {"advance", "release"} /\ cpc' \notin {"advance", "release"}
          /\ (cpc' = "take" => Ready)
      BY <1>3 DEF StartRecv, RecvLoadSeq, RecvCheckProducers, RecvRecheckSeq, RecvWake,
           RecvRegister, RecvClear, RecvRepoll, CancelRecv, DropConsumer, DropConsumerWake,
           idxVars, RecvEmpty, RecvReturn, RecvClosed
    <2> QED BY <1>1, <2>1 DEF Quiet, Taken, Given, Ready
  <1> QED BY <1>2, <1>3

(***************************************************************************)
(* The claim: the compare-exchange gives position tail to one producer.    *)
(***************************************************************************)
LEMMA ClaimCore ==
    ASSUME RingType, CoreInv, NEW p \in Producer, SendCasOk(p)
    PROVE  CoreInv' /\ sent' \in Seq(Msg) /\ prod[p].msg \in Msg
  <1>0. /\ Given \in Nat /\ Taken \in Nat /\ Given <= Taken /\ Taken <= tail /\ tail \in Nat
        /\ N \in Nat /\ N > 0 /\ Len(sent) = tail /\ Len(rcvd) = Taken /\ head \in Nat
        /\ HistInv /\ SeqInv /\ ValInv /\ ClaimInv
    BY Bounds DEF CoreInv
  <1>1. PICK m, i : m = prod[p].msg /\ i = prod[p].pos
    OBVIOUS
  <1>2. /\ prod[p].pc = "cas" /\ i = tail /\ tail < Given + N /\ m \in Msg
    BY <1>0, <1>1 DEF SendCasOk, ClaimInv, Sending
  <1>3. /\ tail' = tail + 1 /\ sent' = Append(sent, m) /\ UNCHANGED <<head, seq, val, cpc, rcvd>>
        /\ Taken' = Taken /\ Given' = Given
    BY <1>1 DEF SendCasOk, Claim, slotVars, consVars, Taken, Given
  <1>4. Moves(p, "write", m, tail)
    BY <1>1, <1>2, ProducerMoves DEF RingType
  <1>5. /\ sent' \in Seq(Msg) /\ Len(sent') = tail + 1 /\ sent'[tail + 1] = m
        /\ \A k \in 1..tail : sent'[k] = sent[k]
    BY <1>0, <1>2, <1>3, AppendFacts DEF RingType
  <1>6. seq[Slot(tail)] = tail /\ val[Slot(tail)] = Uninit /\ Slot(tail) \in 0..N-1
    <2>1. Slot(tail) \in 0..N-1 /\ tail \in tail..(Given + N - 1)
      BY <1>0, <1>2, SlotRange
    <2>2. ASSUME NEW k \in Taken..(tail - 1) PROVE Slot(k) # Slot(tail)
      BY <1>0, <1>2, SlotDistinct
    <2> QED BY <1>0, <2>1, <2>2 DEF SeqInv, ValInv
  <1>7. HistInv'
    BY <1>0, <1>2, <1>3, <1>5 DEF HistInv, Ready
  <1>8. SeqInv'
    <2>1. ASSUME NEW k \in Given..tail
          PROVE  \/ seq[Slot(k)] = k + 1
                 \/ /\ seq[Slot(k)] = k
                    /\ \E q \in Producer : prod'[q].pc \in Claiming /\ prod'[q].pos = k
      <3>1. CASE k = tail
        BY <1>4, <1>6, <3>1 DEF Moves, Claiming
      <3>2. CASE k # tail
        <4>1. k \in Given..(tail - 1)
          BY <1>0, <3>2
        <4>2. CASE seq[Slot(k)] = k + 1
          BY <4>2
        <4>3. CASE seq[Slot(k)] # k + 1
          <5>1. seq[Slot(k)] = k
            BY <1>0, <4>1, <4>3 DEF SeqInv, Live
          <5>2. PICK q \in Producer : prod[q].pc \in Claiming /\ prod[q].pos = k
            BY <1>0, <4>1, <4>3 DEF SeqInv, Live
          <5>3. q # p
            BY <1>2, <5>2 DEF Claiming
          <5>4. prod'[q] = prod[q]
            BY <1>4, <5>3 DEF Moves
          <5> QED BY <5>1, <5>2, <5>4
        <4> QED BY <4>2, <4>3
      <3> QED BY <3>1, <3>2
    <2>2. \A k \in (tail + 1)..(Given + N - 1) : seq[Slot(k)] = k
      BY <1>0 DEF SeqInv
    <2> QED BY <1>0, <1>3, <2>1, <2>2 DEF SeqInv, Live
  <1>9. ValInv'
    <2>1. ASSUME NEW k \in Taken..tail, seq[Slot(k)] = k + 1
          PROVE  val[Slot(k)] = sent'[k + 1]
      <3>1. k \in Taken..(tail - 1) /\ k + 1 \in 1..tail
        BY <1>0, <1>6, <2>1
      <3> QED BY <1>0, <1>5, <2>1, <3>1 DEF ValInv, Live
    <2>2. ASSUME NEW j \in 0..N-1, \A k \in Taken..tail : Slot(k) # j PROVE val[j] = Uninit
      BY <1>0, <2>2 DEF ValInv
    <2> QED BY <1>0, <1>3, <2>1, <2>2 DEF ValInv, Live
  <1>10. ClaimInv'
    <2>1. ASSUME NEW q \in Producer, q # p, prod[q].pc \in Claiming
          PROVE  prod[q].pos \in Taken..(tail - 1) /\ prod[q].pos + 1 \in 1..tail
      BY <1>0, <2>1 DEF ClaimInv
    <2>2. ASSUME NEW q \in Producer, prod'[q].pc \in Claiming
          PROVE  /\ prod'[q].pos \in Taken..tail /\ seq[Slot(prod'[q].pos)] = prod'[q].pos
                 /\ prod'[q].msg = sent'[prod'[q].pos + 1]
                 /\ val[Slot(prod'[q].pos)] = IF prod'[q].pc = "write" THEN Uninit ELSE prod'[q].msg
      <3>1. CASE q = p
        BY <1>0, <1>4, <1>5, <1>6, <3>1 DEF Moves
      <3>2. CASE q # p
        <4>1. prod'[q] = prod[q] /\ prod[q].pc \in Claiming
          BY <1>4, <2>2, <3>2 DEF Moves
        <4>2. prod[q].pos \in Taken..(tail - 1) /\ prod[q].pos + 1 \in 1..tail
          BY <2>1, <3>2, <4>1
        <4>3. /\ seq[Slot(prod[q].pos)] = prod[q].pos /\ prod[q].msg = sent[prod[q].pos + 1]
              /\ val[Slot(prod[q].pos)] = IF prod[q].pc = "write" THEN Uninit ELSE prod[q].msg
          BY <1>0, <4>1 DEF ClaimInv
        <4>4. prod[q].pos \in Taken..tail /\ sent'[prod[q].pos + 1] = sent[prod[q].pos + 1]
          BY <1>0, <1>5, <4>2
        <4> QED BY <4>1, <4>3, <4>4
      <3> QED BY <3>1, <3>2
    <2>3. ASSUME NEW q \in Producer, NEW r \in Producer, prod'[q].pc \in Claiming,
                 prod'[r].pc \in Claiming, prod'[q].pos = prod'[r].pos
          PROVE  q = r
      BY <1>0, <1>4, <2>1, <2>3 DEF Moves, ClaimInv
    <2>4. ASSUME NEW q \in Producer
          PROVE  /\ prod'[q].pc \in {"load_seq", "cas"} => prod'[q].pos <= tail + 1
                 /\ prod'[q].pc = "cas" => prod'[q].pos < Given + N
                 /\ prod'[q].pc \in Sending => prod'[q].msg \in Msg
      <3>1. CASE q = p
        BY <1>2, <1>4, <3>1 DEF Moves
      <3>2. CASE q # p
        <4>1. prod'[q] = prod[q] /\ prod[q].pos \in Nat
          BY <1>4, <3>2 DEF Moves, RingType, Handles, Handle
        <4> QED BY <1>0, <4>1 DEF ClaimInv
      <3> QED BY <3>1, <3>2
    <2> QED BY <1>0, <1>3, <2>2, <2>3, <2>4 DEF ClaimInv
  <1> QED BY <1>1, <1>2, <1>5, <1>7, <1>8, <1>9, <1>10 DEF CoreInv

(***************************************************************************)
(* The producer writes its slot, and publishes it.                         *)
(***************************************************************************)
LEMMA WriteCore ==
    ASSUME RingType, CoreInv, NEW p \in Producer, SendWrite(p)
    PROVE  CoreInv'
  <1>0. /\ Given \in Nat /\ Taken \in Nat /\ Given <= Taken /\ Taken <= tail /\ tail \in Nat
        /\ N \in Nat /\ N > 0 /\ tail <= Given + N /\ HistInv /\ SeqInv /\ ValInv /\ ClaimInv
    BY Bounds DEF CoreInv
  <1>1. PICK m, i : m = prod[p].msg /\ i = prod[p].pos
    OBVIOUS
  <1>2. /\ prod[p].pc = "write" /\ i \in Taken..(tail - 1) /\ seq[Slot(i)] = i
        /\ m = sent[i + 1] /\ m \in Msg
    BY <1>0, <1>1 DEF SendWrite, ClaimInv, Claiming, Sending
  <1>3. /\ val' = [val EXCEPT ![Slot(i)] = m]
        /\ UNCHANGED <<tail, head, seq, cpc, sent, rcvd>> /\ Taken' = Taken /\ Given' = Given
    BY <1>1 DEF SendWrite, idxVars, consVars, histVars, Taken, Given
  <1>4. Moves(p, "publish", m, i)
    BY <1>1, ProducerMoves DEF RingType
  <1>5. /\ Slot(i) \in 0..N-1 /\ val'[Slot(i)] = m
        /\ \A j \in 0..N-1 : j # Slot(i) => val'[j] = val[j]
    <2>1. i \in Nat
      BY <1>0, <1>2
    <2>2. Slot(i) \in 0..N-1
      BY <2>1, SlotRange
    <2> QED BY <1>3, <2>2 DEF RingType
  <1>6. ASSUME NEW k \in Given..(tail - 1), k # i
        PROVE  Slot(k) \in 0..N-1 /\ Slot(k) # Slot(i)
    <2>1. k \in Nat /\ k \in Given..(Given + N - 1) /\ i \in Given..(Given + N - 1)
      BY <1>0, <1>2
    <2>2. Slot(k) # Slot(i)
      BY <1>0, <1>6, <2>1, SlotDistinct
    <2> QED BY <2>1, <2>2, SlotRange
  <1>7. HistInv'
    BY <1>0, <1>3 DEF HistInv, Ready
  <1>8. SeqInv'
    <2>1. ASSUME NEW k \in Given..(tail - 1)
          PROVE  \/ seq[Slot(k)] = k + 1
                 \/ /\ seq[Slot(k)] = k
                    /\ \E q \in Producer : prod'[q].pc \in Claiming /\ prod'[q].pos = k
      <3>1. ASSUME NEW q \in Producer, prod[q].pc \in Claiming, prod[q].pos = k
            PROVE  prod'[q].pc \in Claiming /\ prod'[q].pos = k
        BY <1>1, <1>4, <3>1 DEF Moves, Claiming
      <3> QED BY <1>0, <3>1 DEF SeqInv, Live
    <2> QED BY <1>0, <1>3, <2>1 DEF SeqInv, Live
  <1>9. ValInv'
    <2>1. ASSUME NEW k \in Taken..(tail - 1), seq[Slot(k)] = k + 1
          PROVE  val'[Slot(k)] = sent[k + 1]
      <3>1. k # i /\ k \in Given..(tail - 1)
        BY <1>0, <1>2, <2>1
      <3> QED BY <1>0, <1>5, <1>6, <2>1, <3>1 DEF ValInv, Live
    <2>2. ASSUME NEW j \in 0..N-1, \A k \in Taken..(tail - 1) : Slot(k) # j PROVE val'[j] = Uninit
      BY <1>0, <1>2, <1>5, <2>2 DEF ValInv
    <2> QED BY <1>0, <1>3, <2>1, <2>2 DEF ValInv, Live
  <1>10. ClaimInv'
    <2>1. ASSUME NEW q \in Producer, prod'[q].pc \in Claiming
          PROVE  /\ prod'[q].pos \in Taken..(tail - 1) /\ seq[Slot(prod'[q].pos)] = prod'[q].pos
                 /\ prod'[q].msg = sent[prod'[q].pos + 1]
                 /\ val'[Slot(prod'[q].pos)] = IF prod'[q].pc = "write" THEN Uninit ELSE prod'[q].msg
      <3>1. CASE q = p
        BY <1>2, <1>4, <1>5, <3>1 DEF Moves
      <3>2. CASE q # p
        <4>1. /\ prod'[q] = prod[q] /\ prod[q].pos \in Taken..(tail - 1) /\ prod[q].pos # i
          BY <1>0, <1>1, <1>2, <1>4, <2>1, <3>2 DEF Moves, ClaimInv, Claiming
        <4>2. prod[q].pos \in Given..(tail - 1)
          BY <1>0, <4>1
        <4> QED BY <1>0, <1>5, <1>6, <2>1, <4>1, <4>2 DEF ClaimInv
      <3> QED BY <3>1, <3>2
    <2>2. ASSUME NEW q \in Producer
          PROVE  /\ prod'[q].pc \in Claiming => prod[q].pc \in Claiming /\ prod'[q].pos = prod[q].pos
                 /\ prod'[q].pc \in {"load_seq", "cas"} => prod'[q].pos <= tail
                 /\ prod'[q].pc = "cas" => prod'[q].pos < Given + N
                 /\ prod'[q].pc \in Sending => prod'[q].msg \in Msg
      BY <1>0, <1>1, <1>2, <1>4 DEF Moves, ClaimInv, Claiming
    <2> QED BY <1>0, <1>3, <2>1, <2>2 DEF ClaimInv
  <1> QED BY <1>7, <1>8, <1>9, <1>10 DEF CoreInv

\* The publication gives the claimed slot the next sequence number.
LEMMA PublishCore ==
    ASSUME RingType, CoreInv, NEW p \in Producer, SendPublish(p)
    PROVE  CoreInv'
  <1>0. /\ Given \in Nat /\ Taken \in Nat /\ Given <= Taken /\ Taken <= tail /\ tail \in Nat
        /\ N \in Nat /\ N > 0 /\ tail <= Given + N /\ head \in Given..Taken
        /\ HistInv /\ SeqInv /\ ValInv /\ ClaimInv
    BY Bounds DEF CoreInv
  <1>1. PICK m, i : m = prod[p].msg /\ i = prod[p].pos
    OBVIOUS
  <1>2. /\ prod[p].pc = "publish" /\ i \in Taken..(tail - 1) /\ seq[Slot(i)] = i
        /\ m = sent[i + 1] /\ val[Slot(i)] = m
    BY <1>0, <1>1 DEF SendPublish, ClaimInv, Claiming
  <1>3. /\ seq' = [seq EXCEPT ![Slot(i)] = i + 1]
        /\ UNCHANGED <<tail, head, val, cpc, sent, rcvd>> /\ Taken' = Taken /\ Given' = Given
    BY <1>1 DEF SendPublish, idxVars, consVars, histVars, Taken, Given
  <1>4. Moves(p, "wake", Uninit, 0)
    BY ProducerMoves DEF RingType
  <1>5. /\ Slot(i) \in 0..N-1 /\ seq'[Slot(i)] = i + 1
        /\ \A j \in 0..N-1 : j # Slot(i) => seq'[j] = seq[j]
    <2>1. i \in Nat
      BY <1>0, <1>2
    <2>2. Slot(i) \in 0..N-1
      BY <2>1, SlotRange
    <2> QED BY <1>3, <2>2 DEF RingType
  <1>6. ASSUME NEW k \in Given..(Given + N - 1), k # i
        PROVE  Slot(k) \in 0..N-1 /\ Slot(k) # Slot(i) /\ seq'[Slot(k)] = seq[Slot(k)]
    <2>1. i \in Given..(Given + N - 1) /\ k \in Nat
      BY <1>0, <1>2
    <2>2. Slot(k) \in 0..N-1 /\ Slot(k) # Slot(i)
      BY <1>0, <1>6, <2>1, SlotDistinct, SlotRange
    <2> QED BY <1>5, <2>2
  <1>7. HistInv'
    <2>1. cpc = "take" => seq'[Slot(head)] = head + 1
      <3>1. cpc = "take" => Ready
        BY <1>0 DEF HistInv
      <3>2. head \in Given..(Given + N - 1) \/ cpc # "take"
        BY <1>0 DEF Taken, Given
      <3> QED BY <1>0, <1>2, <1>6, <3>1, <3>2 DEF Ready
    <2> QED BY <1>0, <1>3, <2>1 DEF HistInv, Ready
  <1>8. SeqInv'
    <2>1. ASSUME NEW k \in Given..(tail - 1)
          PROVE  \/ seq'[Slot(k)] = k + 1
                 \/ /\ seq'[Slot(k)] = k
                    /\ \E q \in Producer : prod'[q].pc \in Claiming /\ prod'[q].pos = k
      <3>1. CASE k = i
        BY <1>5, <3>1
      <3>2. CASE k # i
        <4>1. seq'[Slot(k)] = seq[Slot(k)]
          BY <1>0, <1>6, <3>2
        <4>2. ASSUME NEW q \in Producer, prod[q].pc \in Claiming, prod[q].pos = k
              PROVE  prod'[q].pc \in Claiming /\ prod'[q].pos = k
          BY <1>1, <1>4, <3>2, <4>2 DEF Moves
        <4> QED BY <1>0, <4>1, <4>2 DEF SeqInv, Live
      <3> QED BY <3>1, <3>2
    <2>2. ASSUME NEW k \in tail..(Given + N - 1) PROVE seq'[Slot(k)] = k
      BY <1>0, <1>2, <1>6 DEF SeqInv
    <2> QED BY <1>0, <1>3, <2>1, <2>2 DEF SeqInv, Live
  <1>9. ValInv'
    <2>1. ASSUME NEW k \in Taken..(tail - 1), seq'[Slot(k)] = k + 1
          PROVE  val[Slot(k)] = sent[k + 1]
      <3>1. CASE k = i
        BY <1>2, <3>1
      <3>2. CASE k # i
        <4>1. seq'[Slot(k)] = seq[Slot(k)]
          BY <1>0, <1>6, <3>2
        <4> QED BY <1>0, <2>1, <4>1 DEF ValInv, Live
      <3> QED BY <3>1, <3>2
    <2>2. ASSUME NEW j \in 0..N-1, \A k \in Taken..(tail - 1) : Slot(k) # j PROVE val[j] = Uninit
      BY <1>0, <2>2 DEF ValInv
    <2> QED BY <1>0, <1>3, <2>1, <2>2 DEF ValInv, Live
  <1>10. ClaimInv'
    <2>1. ASSUME NEW q \in Producer, prod'[q].pc \in Claiming
          PROVE  /\ prod'[q] = prod[q] /\ prod[q].pos \in Taken..(tail - 1)
                 /\ seq'[Slot(prod[q].pos)] = prod[q].pos
      <3>1. /\ prod'[q] = prod[q] /\ prod[q].pos \in Taken..(tail - 1) /\ prod[q].pos # i
        BY <1>0, <1>1, <1>2, <1>4, <2>1 DEF Moves, ClaimInv, Claiming
      <3>2. prod[q].pos \in Given..(Given + N - 1)
        BY <1>0, <3>1
      <3> QED BY <1>0, <1>6, <2>1, <3>1, <3>2 DEF ClaimInv
    <2>2. ASSUME NEW q \in Producer
          PROVE  /\ prod'[q].pc \in {"load_seq", "cas"} => prod'[q].pos <= tail
                 /\ prod'[q].pc = "cas" => prod'[q].pos < Given + N
                 /\ prod'[q].pc \in Sending => prod'[q].msg \in Msg
      BY <1>0, <1>4 DEF Moves, ClaimInv, Sending
    <2> QED BY <1>0, <1>3, <2>1, <2>2 DEF ClaimInv
  <1> QED BY <1>7, <1>8, <1>9, <1>10 DEF CoreInv

(***************************************************************************)
(* The consumer takes the message at head: the oldest in flight.           *)
(***************************************************************************)
LEMMA TakeFacts ==
    ASSUME RingType, CoreInv, cpc = "take"
    PROVE  /\ head < tail /\ Taken = head /\ Given = head /\ seq[Slot(head)] = head + 1
           /\ val[Slot(head)] = sent[head + 1] /\ sent[head + 1] \in Msg
  <1>0. /\ tail \in Nat /\ head \in Nat /\ N \in Nat /\ N > 0 /\ head <= tail /\ Len(sent) = tail
        /\ Taken = head /\ Given = head
    BY Bounds DEF CoreInv, Taken, Given
  <1>1. seq[Slot(head)] = head + 1
    BY DEF CoreInv, HistInv, Ready
  <1>2. head < tail
    <2>1. CASE head = tail
      <3>1. head \in tail..(Given + N - 1)
        BY <1>0, <2>1
      <3>2. seq[Slot(head)] = head
        BY <3>1 DEF CoreInv, SeqInv
      <3> QED BY <1>0, <1>1, <3>2
    <2> QED BY <1>0, <2>1
  <1>3. head \in Taken..(tail - 1) /\ head + 1 \in 1..Len(sent)
    BY <1>0, <1>2
  <1> QED BY <1>0, <1>1, <1>2, <1>3 DEF CoreInv, ValInv, Live, RingType

\* The take empties the slot the head is at.
LEMMA TakeCore ==
    ASSUME RingType, CoreInv, RecvTake
    PROVE  CoreInv' /\ rcvd' \in Seq(Msg)
  <1>0. /\ tail \in Nat /\ head \in Nat /\ N \in Nat /\ N > 0 /\ Len(sent) = tail
        /\ Len(rcvd) = head /\ tail <= head + N /\ HistInv /\ SeqInv /\ ValInv /\ ClaimInv
        /\ cpc = "take"
    BY Bounds, TakeFacts DEF CoreInv, RecvTake
  <1>1. /\ head < tail /\ Taken = head /\ Given = head /\ seq[Slot(head)] = head + 1
        /\ val[Slot(head)] = sent[head + 1] /\ sent[head + 1] \in Msg
    BY <1>0, TakeFacts
  <1>2. /\ rcvd' = Append(rcvd, sent[head + 1]) /\ val' = [val EXCEPT ![Slot(head)] = Uninit]
        /\ UNCHANGED <<tail, head, seq, prod, sent>> /\ cpc' = "advance"
        /\ Taken' = head + 1 /\ Given' = head
    BY <1>1 DEF RecvTake, idxVars, Taken, Given
  <1>3. /\ rcvd' \in Seq(Msg) /\ Len(rcvd') = head + 1 /\ rcvd'[head + 1] = sent[head + 1]
        /\ \A k \in 1..head : rcvd'[k] = rcvd[k]
    BY <1>0, <1>1, <1>2, AppendFacts DEF RingType
  <1>4. /\ Slot(head) \in 0..N-1 /\ val'[Slot(head)] = Uninit
        /\ \A j \in 0..N-1 : j # Slot(head) => val'[j] = val[j]
    BY <1>0, <1>2, SlotRange DEF RingType
  <1>5. ASSUME NEW k \in (head + 1)..(tail - 1)
        PROVE  Slot(k) \in 0..N-1 /\ Slot(k) # Slot(head) /\ val'[Slot(k)] = val[Slot(k)]
    <2>1. k \in head..(head + N - 1) /\ head \in head..(head + N - 1) /\ k # head /\ k \in Nat
      BY <1>0
    <2>2. Slot(k) \in 0..N-1 /\ Slot(k) # Slot(head)
      BY <1>0, <2>1, SlotDistinct, SlotRange
    <2> QED BY <1>4, <2>2
  <1>6. HistInv'
    <2>1. \A k \in 1..(head + 1) : rcvd'[k] = sent[k]
      <3>1. \A k \in 1..head : rcvd[k] = sent[k]
        BY <1>0 DEF HistInv
      <3> QED BY <1>0, <1>3, <3>1
    <2> QED BY <1>0, <1>1, <1>2, <1>3, <2>1 DEF HistInv
  <1>7. SeqInv'
    BY <1>0, <1>1, <1>2 DEF SeqInv, Live
  <1>8. ValInv'
    <2>1. ASSUME NEW k \in (head + 1)..(tail - 1), seq[Slot(k)] = k + 1
          PROVE  val'[Slot(k)] = sent[k + 1]
      <3>1. k \in head..(tail - 1)
        BY <1>0
      <3> QED BY <1>0, <1>1, <1>5, <2>1, <3>1 DEF ValInv, Live
    <2>2. ASSUME NEW j \in 0..N-1, \A k \in (head + 1)..(tail - 1) : Slot(k) # j
          PROVE  val'[j] = Uninit
      <3>1. CASE j = Slot(head)
        BY <1>4, <3>1
      <3>2. CASE j # Slot(head)
        <4>1. \A k \in head..(tail - 1) : Slot(k) # j
          BY <1>0, <2>2, <3>2
        <4> QED BY <1>0, <1>1, <1>4, <3>2, <4>1 DEF ValInv
      <3> QED BY <3>1, <3>2
    <2> QED BY <1>2, <2>1, <2>2 DEF ValInv, Live
  <1>9. ClaimInv'
    <2>1. ASSUME NEW q \in Producer, prod[q].pc \in Claiming
          PROVE  /\ prod[q].pos \in (head + 1)..(tail - 1)
                 /\ val'[Slot(prod[q].pos)] = val[Slot(prod[q].pos)]
      <3>1. prod[q].pos \in head..(tail - 1) /\ prod[q].pos # head
        BY <1>0, <1>1, <2>1 DEF ClaimInv
      <3>2. prod[q].pos \in (head + 1)..(tail - 1)
        BY <1>0, <3>1
      <3> QED BY <1>5, <3>2
    <2> QED BY <1>0, <1>1, <1>2, <2>1 DEF ClaimInv
  <1> QED BY <1>3, <1>6, <1>7, <1>8, <1>9 DEF CoreInv

(***************************************************************************)
(* The slot it took from is given back for the next lap.                   *)
(***************************************************************************)
LEMMA ReleaseCore ==
    ASSUME RingType, CoreInv, RecvRelease
    PROVE  CoreInv' /\ seq' \in [0..N-1 -> Nat]
  <1>0. /\ tail \in Nat /\ head \in Nat /\ head > 0 /\ N \in Nat /\ N > 0
        /\ Given = head - 1 /\ Taken = head /\ head <= tail /\ tail <= head - 1 + N
        /\ Len(sent) = tail /\ Len(rcvd) = head /\ HistInv /\ SeqInv /\ ValInv /\ ClaimInv
    BY Bounds DEF CoreInv, RecvRelease, Taken, Given, HistInv
  <1>1. PICK g \in Nat : g = head - 1
    BY <1>0
  <1>2. /\ seq' = [seq EXCEPT ![Slot(g)] = g + N] /\ cpc' = "wake"
        /\ UNCHANGED <<tail, head, val, prod, sent, rcvd>> /\ Taken' = head /\ Given' = head
    BY <1>1 DEF RecvRelease, idxVars, histVars, Taken, Given
  <1>3. /\ Slot(g) \in 0..N-1 /\ seq'[Slot(g)] = g + N /\ Slot(g + N) = Slot(g)
        /\ \A j \in 0..N-1 : j # Slot(g) => seq'[j] = seq[j]
        /\ seq' \in [0..N-1 -> Nat]
    <2>1. Slot(g) \in 0..N-1
      BY <1>1, SlotRange
    <2>2. Slot(g + N) = Slot(g)
      BY <1>1, SlotLap
    <2>3. g + N \in Nat
      BY <1>0, <1>1
    <2> QED BY <1>2, <2>1, <2>2, <2>3 DEF RingType
  <1>4. ASSUME NEW k \in head..(g + N - 1)
        PROVE  Slot(k) \in 0..N-1 /\ Slot(k) # Slot(g) /\ seq'[Slot(k)] = seq[Slot(k)]
    <2>1. k \in g..(g + N - 1) /\ g \in g..(g + N - 1) /\ k # g /\ k \in Nat
      BY <1>0, <1>1
    <2>2. Slot(k) \in 0..N-1 /\ Slot(k) # Slot(g)
      BY <1>0, <2>1, SlotDistinct, SlotRange
    <2> QED BY <1>3, <2>2
  <1>5. HistInv'
    BY <1>0, <1>2 DEF HistInv
  <1>6. SeqInv'
    <2>1. ASSUME NEW k \in head..(tail - 1)
          PROVE  \/ seq'[Slot(k)] = k + 1
                 \/ /\ seq'[Slot(k)] = k
                    /\ \E q \in Producer : prod[q].pc \in Claiming /\ prod[q].pos = k
      <3>1. k \in (head - 1)..(tail - 1) /\ k \in head..(g + N - 1)
        BY <1>0, <1>1
      <3> QED BY <1>0, <1>4, <3>1 DEF SeqInv, Live
    <2>2. ASSUME NEW k \in tail..(head + N - 1) PROVE seq'[Slot(k)] = k
      <3>1. CASE k = g + N
        BY <1>3, <3>1
      <3>2. CASE k # g + N
        <4>1. k \in tail..(head - 1 + N - 1) /\ k \in head..(g + N - 1)
          BY <1>0, <1>1, <3>2
        <4> QED BY <1>0, <1>4, <4>1 DEF SeqInv
      <3> QED BY <3>1, <3>2
    <2> QED BY <1>2, <2>1, <2>2 DEF SeqInv, Live
  <1>7. ValInv'
    <2>1. ASSUME NEW k \in head..(tail - 1), seq'[Slot(k)] = k + 1
          PROVE  val[Slot(k)] = sent[k + 1]
      <3>1. k \in head..(g + N - 1)
        BY <1>0, <1>1
      <3> QED BY <1>0, <1>4, <2>1, <3>1 DEF ValInv, Live
    <2> QED BY <1>0, <1>2, <2>1 DEF ValInv, Live
  <1>8. ClaimInv'
    <2>1. ASSUME NEW q \in Producer, prod[q].pc \in Claiming
          PROVE  seq'[Slot(prod[q].pos)] = prod[q].pos
      <3>1. prod[q].pos \in head..(g + N - 1)
        BY <1>0, <1>1, <2>1 DEF ClaimInv
      <3> QED BY <1>0, <1>4, <2>1, <3>1 DEF ClaimInv
    <2>2. ASSUME NEW q \in Producer, prod[q].pc = "cas" PROVE prod[q].pos < head + N
      <3>1. prod[q].pos \in Nat /\ prod[q].pos < head - 1 + N
        BY <1>0, <2>2 DEF ClaimInv, RingType, Handles, Handle
      <3> QED BY <1>0, <3>1
    <2> QED BY <1>0, <1>2, <2>1, <2>2 DEF ClaimInv
  <1> QED BY <1>3, <1>5, <1>6, <1>7, <1>8 DEF CoreInv

----------------------------------------------------------------------------
(* MpscRing::drop. *)

\* RingDrop drops what is published and not taken.
LEMMA DropLeavesNothing ==
    ASSUME RingType, CoreInv, RingDrop
    PROVE  /\ NoLeak' /\ EndInv' /\ val' \in [0..N-1 -> Msg \cup {Uninit}]
           /\ DOMAIN dropped' \subseteq Nat /\ dropped' \in [DOMAIN dropped' -> Msg]
  <1>0. /\ tail \in Nat /\ head \in Nat /\ N \in Nat /\ N > 0 /\ cpc = "gone" /\ head <= tail
        /\ Len(sent) = tail /\ Len(rcvd) = head /\ Given = head /\ Taken = head
        /\ \A q \in Producer : prod[q].pc \notin Claiming
        /\ UNCHANGED <<tail, head, prod, cpc, sent, rcvd>>
    BY Bounds DEF CoreInv, RingDrop, HandlesGone, Taken, Given, Claiming, idxVars, consVars,
                  histVars
  <1>1. \A i \in head..(tail - 1) : Live(i) /\ val[Slot(i)] = sent[i + 1]
    BY <1>0 DEF CoreInv, SeqInv, ValInv
  <1>2. {i \in head..(tail - 1) : Live(i)} = head..(tail - 1)
    BY <1>1
  <1>3. /\ dropped' = [i \in head..(tail - 1) |-> val[Slot(i)]]
        /\ val' = [j \in 0..N-1 |-> IF \E i \in head..(tail - 1) : Slot(i) = j THEN Uninit ELSE val[j]]
    BY <1>2 DEF RingDrop
  <1>4. dropped' = [i \in head..(tail - 1) |-> sent[i + 1]]
    BY <1>1, <1>3
  <1>5. \A j \in 0..N-1 : val'[j] = Uninit
    <2> SUFFICES ASSUME NEW j \in 0..N-1 PROVE val'[j] = Uninit
      OBVIOUS
    <2>1. CASE \E i \in head..(tail - 1) : Slot(i) = j
      BY <1>3, <2>1
    <2>2. CASE ~\E i \in head..(tail - 1) : Slot(i) = j
      BY <1>0, <1>3, <2>2 DEF CoreInv, ValInv
    <2> QED BY <2>1, <2>2
  <1>6. NoLeak'
    <2>1. \A i \in 1..head : rcvd[i] = sent[i]
      BY <1>0 DEF CoreInv, HistInv
    <2> QED BY <1>0, <1>4, <1>5, <2>1 DEF NoLeak
  <1>7. EndInv'
    BY <1>0 DEF RingDrop, EndInv, HandlesGone
  <1>8. val' \in [0..N-1 -> Msg \cup {Uninit}]
    BY <1>3 DEF RingType
  <1>9. DOMAIN dropped' \subseteq Nat /\ dropped' \in [DOMAIN dropped' -> Msg]
    <2>1. ASSUME NEW i \in head..(tail - 1) PROVE i \in Nat /\ sent[i + 1] \in Msg
      <3>1. i \in Nat /\ i + 1 \in 1..Len(sent)
        BY <1>0
      <3> QED BY <3>1 DEF RingType
    <2> QED BY <1>4, <2>1
  <1> QED BY <1>6, <1>7, <1>8, <1>9

----------------------------------------------------------------------------
(* Types and the count of the handles. *)

RestType ==
    /\ consumerGone \in BOOLEAN /\ consumerWaker \in BOOLEAN
    /\ producerWaker \in Producer \cup {NoWaker}
    /\ pawake \in [Producer -> BOOLEAN] /\ cawake \in BOOLEAN
    /\ cpc \in ConsumerPCs /\ ccall \in RecvCalls /\ eof \in BOOLEAN /\ freed \in BOOLEAN
    /\ DOMAIN dropped \subseteq Nat /\ dropped \in [DOMAIN dropped -> Msg]
CountOK == producers = Cardinality(Counted)

\* TypeOK, in the parts that are proved apart.
LEMMA TypeParts ==
    /\ TypeOK <=> RingType /\ CountOK /\ RestType
    /\ TypeOK' <=> RingType' /\ CountOK' /\ RestType'
  BY DEF TypeOK, RingType, CountOK, RestType, Handles, Handle

Uncounted == {"unborn", "last_wake", "gone"}

\* The handle count is a natural number, zero when no handle is counted.
LEMMA CountFacts ==
    ASSUME CountOK
    PROVE  /\ producers \in Nat
           /\ producers = 0 <=> \A p \in Producer : prod[p].pc \in Uncounted
  <1>1. IsFiniteSet(Counted)
    BY MpscAssumption, FS_Subset DEF Counted
  <1>2. producers \in Nat /\ (producers = 0 <=> Counted = {})
    BY <1>1, FS_CardinalityType, FS_EmptySet DEF CountOK
  <1> QED BY <1>2 DEF Counted, Uncounted

\* Steps that neither make nor drop a handle.
LEMMA CountStays ==
    ASSUME CountOK, producers' = producers,
           \A p \in Producer : prod'[p].pc \in Uncounted <=> prod[p].pc \in Uncounted
    PROVE  CountOK'
  <1>1. Counted' = Counted
    BY DEF Counted, Uncounted
  <1> QED BY <1>1 DEF CountOK

\* A clone counts itself.
LEMMA CloneCount ==
    ASSUME RingType, CountOK, NEW p \in Producer, NEW q \in Producer, Clone(p, q)
    PROVE  CountOK'
  <1>1. PICK m, i : Moves(q, "idle", m, i)
    BY ProducerMoves DEF RingType
  <1>2. Counted' = Counted \cup {q} /\ q \notin Counted
    BY <1>1 DEF Counted, Moves, Clone
  <1>3. IsFiniteSet(Counted)
    BY MpscAssumption, FS_Subset DEF Counted
  <1>4. Cardinality(Counted \cup {q}) = Cardinality(Counted) + 1
    BY <1>2, <1>3, FS_AddElement
  <1> QED BY <1>2, <1>4 DEF CountOK, Clone

\* The handle that takes the count to zero is the one that wakes.
LEMMA DropCount ==
    ASSUME RingType, CountOK, NEW p \in Producer, DropProducer(p)
    PROVE  CountOK' /\ (producers' = 0 => prod'[p].pc = "last_wake")
  <1>1. PICK label, m, i : Moves(p, label, m, i) /\ label = IF producers = 1 THEN "last_wake" ELSE "gone"
    BY ProducerMoves DEF RingType
  <1>2. Counted' = Counted \ {p} /\ p \in Counted
    BY <1>1 DEF Counted, Moves, DropProducer
  <1>3. IsFiniteSet(Counted)
    BY MpscAssumption, FS_Subset DEF Counted
  <1>4. Cardinality(Counted \ {p}) = Cardinality(Counted) - 1
    BY <1>2, <1>3, FS_RemoveElement
  <1>5. producers' = 0 => producers = 1
    BY CountFacts DEF DropProducer
  <1> QED BY <1>1, <1>2, <1>4, <1>5 DEF CountOK, DropProducer, Moves

(***************************************************************************)
(* The steps of the handle of p, and those of the consumer.                *)
(***************************************************************************)
HandleStep(p) ==
    \/ \E q \in Producer : Clone(q, p)
    \/ \E m \in Payload[p], call \in {"try", "poll1"} : StartSend(p, m, call)
    \/ ProducerStep(p) \/ CancelSend(p) \/ DropProducer(p)
RecvStep ==
    \/ \E call \in {"try", "pop", "poll1"} : StartRecv(call)
    \/ ConsumerStep \/ CancelRecv \/ DropConsumer

\* The three kinds of steps.
LEMMA NextIs ==
    Next <=> (\E p \in Producer : HandleStep(p)) \/ RecvStep \/ RingDrop
  BY DEF Next, HandleStep, RecvStep

\* Producer steps keep the type.
LEMMA HandleType ==
    ASSUME TypeOK, CoreInv, NEW p \in Producer, HandleStep(p)
    PROVE  TypeOK'
  <1>0. RingType /\ CountOK /\ RestType
    BY TypeParts
  <1>1. RestType'
    <2>1. UNCHANGED <<consumerGone, cpc, ccall, eof, freed, dropped>>
      BY DEF HandleStep, ProducerStep, Clone, DropProducer, LastProducerWake, StartSend,
             SendCheckClosed, SendLoadTail, SendLoadSeq, SendCasOk, Claim, SendCasFail, SendWrite,
             SendPublish, SendWake, SendRegister, SendClear, SendRepoll, CancelSend,
             idxVars, consVars, endVars
    <2>2. /\ consumerWaker' \in BOOLEAN /\ producerWaker' \in Producer \cup {NoWaker}
          /\ pawake' \in [Producer -> BOOLEAN] /\ cawake' \in BOOLEAN
      BY <1>0 DEF RestType, HandleStep, ProducerStep, Clone, DropProducer, LastProducerWake,
             StartSend, SendCheckClosed, SendLoadTail, SendLoadSeq, SendCasOk, Claim, SendCasFail,
             SendWrite, SendPublish, SendWake, SendRegister, SendClear, SendRepoll, CancelSend,
             WakeConsumer, wakeVars
    <2> QED BY <1>0, <2>1, <2>2 DEF RestType
  <1>2. PICK m, i : m = prod[p].msg /\ i = prod[p].pos
    OBVIOUS
  <1>3. prod' \in Handles
    BY <1>0, <1>2, ProducerMoves DEF HandleStep, ProducerStep, Moves, RingType
  <1>4. RingType'
    <2>1. CASE SendCasOk(p)
      <3>1. sent' \in Seq(Msg)
        BY <1>0, <2>1, ClaimCore
      <3> QED BY <1>0, <1>3, <2>1, <3>1 DEF RingType, SendCasOk, Claim, slotVars
    <2>2. CASE SendWrite(p)
      <3>1. prod[p] \in Handle
        BY <1>0 DEF RingType, Handles
      <3>2. val' \in [0..N-1 -> Msg \cup {Uninit}]
        BY <1>0, <2>2, <3>1, HandleFields DEF RingType, SendWrite
      <3> QED BY <1>0, <1>3, <2>2, <3>2 DEF RingType, SendWrite, idxVars, histVars
    <2>3. CASE SendPublish(p)
      <3>1. prod[p] \in Handle
        BY <1>0 DEF RingType, Handles
      <3>0. prod[p].pos \in Nat
        BY <3>1, HandleFields
      <3>2. seq' \in [0..N-1 -> Nat]
        <4>1. i \in Nat /\ i + 1 \in Nat /\ seq' = [seq EXCEPT ![Slot(i)] = i + 1]
          BY <1>2, <2>3, <3>0 DEF SendPublish
        <4> QED BY <1>0, <4>1 DEF RingType
      <3> QED BY <1>0, <1>3, <2>3, <3>2 DEF RingType, SendPublish, idxVars, histVars
    <2>4. CASE ~(SendCasOk(p) \/ SendWrite(p) \/ SendPublish(p))
      <3>1. UNCHANGED <<tail, head, seq, val, sent, rcvd>>
        BY <2>4 DEF HandleStep, ProducerStep, Clone, DropProducer, LastProducerWake, StartSend,
             SendCheckClosed, SendLoadTail, SendLoadSeq, SendCasFail,
             SendWake, SendRegister, SendClear, SendRepoll, CancelSend,
             idxVars, slotVars, histVars
      <3> QED BY <1>0, <1>3, <3>1 DEF RingType
    <2> QED BY <2>1, <2>2, <2>3, <2>4
  <1>5. CountOK'
    <2>1. CASE \E q \in Producer : Clone(q, p)
      BY <1>0, <2>1, CloneCount
    <2>2. CASE DropProducer(p)
      BY <1>0, <2>2, DropCount
    <2>3. CASE \/ \E x \in Payload[p], call \in {"try", "poll1"} : StartSend(p, x, call)
               \/ ProducerStep(p) \/ CancelSend(p)
      <3>1. producers' = producers
        BY <2>3 DEF ProducerStep, LastProducerWake, StartSend, SendCheckClosed, SendLoadTail,
             SendLoadSeq, SendCasOk, Claim, SendCasFail, SendWrite, SendPublish, SendWake,
             SendRegister, SendClear, SendRepoll, CancelSend, idxVars
      <3>2. CASE LastProducerWake(p)
        <4>1. Moves(p, "gone", m, i) /\ prod[p].pc = "last_wake"
          BY <1>0, <1>2, <3>2, ProducerMoves DEF RingType, LastProducerWake
        <4>2. \A q \in Producer : prod'[q].pc \in Uncounted <=> prod[q].pc \in Uncounted
          BY <4>1 DEF Moves, Uncounted
        <4> QED BY <1>0, <3>1, <4>2, CountStays
      <3>3. CASE ~LastProducerWake(p)
        <4>1. prod[p].pc \notin Uncounted
          BY <2>3, <3>3 DEF ProducerStep, StartSend, SendCheckClosed, SendLoadTail,
             SendLoadSeq, SendCasOk, SendCasFail, SendWrite, SendPublish, SendWake,
             SendRegister, SendClear, SendRepoll, CancelSend, Uncounted
        <4>2. \E label \in ProducerPCs \ Uncounted : \E x, j : Moves(p, label, x, j)
          BY <1>0, <1>2, <2>3, <3>3, ProducerMoves DEF ProducerStep, RingType, ProducerPCs, Uncounted
        <4>3. \A q \in Producer : prod'[q].pc \in Uncounted <=> prod[q].pc \in Uncounted
          BY <4>1, <4>2 DEF Moves
        <4> QED BY <1>0, <3>1, <4>3, CountStays
      <3> QED BY <3>2, <3>3
    <2> QED BY <2>1, <2>2, <2>3 DEF HandleStep
  <1> QED BY <1>1, <1>4, <1>5, TypeParts

\* Consumer steps keep the type.
LEMMA RecvType ==
    ASSUME TypeOK, CoreInv, RecvStep
    PROVE  TypeOK'
  <1>0. RingType /\ CountOK /\ RestType
    BY TypeParts
  <1>1. UNCHANGED <<prod, producers, freed, dropped>>
    BY DEF RecvStep, ConsumerStep, StartRecv, RecvLoadSeq, RecvCheckProducers, RecvRecheckSeq,
           RecvTake, RecvAdvance, RecvRelease, RecvWake, RecvRegister, RecvClear, RecvRepoll,
           CancelRecv, DropConsumer, DropConsumerWake, idxVars, endVars
  <1>2. CountOK'
    BY <1>0, <1>1, CountStays
  <1>3. RestType'
    <2>1. cpc' \in ConsumerPCs /\ ccall' \in RecvCalls /\ eof' \in BOOLEAN /\ consumerGone' \in BOOLEAN
      BY <1>0 DEF RestType, ConsumerPCs, RecvCalls, RecvStep, ConsumerStep, StartRecv, RecvLoadSeq,
           RecvCheckProducers, RecvRecheckSeq, RecvTake, RecvAdvance, RecvRelease, RecvWake,
           RecvRegister, RecvClear, RecvRepoll, CancelRecv, DropConsumer, DropConsumerWake,
           idxVars, RecvEmpty, RecvReturn, RecvClosed
    <2>2. /\ consumerWaker' \in BOOLEAN /\ producerWaker' \in Producer \cup {NoWaker}
          /\ pawake' \in [Producer -> BOOLEAN] /\ cawake' \in BOOLEAN
      BY <1>0 DEF RestType, RecvStep, ConsumerStep, StartRecv, RecvLoadSeq,
           RecvCheckProducers, RecvRecheckSeq, RecvTake, RecvAdvance, RecvRelease, RecvWake,
           RecvRegister, RecvClear, RecvRepoll, CancelRecv, DropConsumer, DropConsumerWake,
           wakeVars, WakeProducer
    <2> QED BY <1>0, <1>1, <2>1, <2>2 DEF RestType
  <1>4. RingType'
    <2>1. CASE RecvTake
      <3>1. rcvd' \in Seq(Msg)
        BY <1>0, <2>1, TakeCore
      <3>2. val' \in [0..N-1 -> Msg \cup {Uninit}]
        BY <1>0, <2>1 DEF RingType, RecvTake
      <3> QED BY <1>0, <1>1, <2>1, <3>1, <3>2 DEF RingType, RecvTake, idxVars
    <2>2. CASE RecvRelease
      <3>1. seq' \in [0..N-1 -> Nat]
        BY <1>0, <2>2, ReleaseCore
      <3> QED BY <1>0, <1>1, <2>2, <3>1 DEF RingType, RecvRelease, idxVars, histVars
    <2>3. CASE ~(RecvTake \/ RecvRelease)
      <3>1. UNCHANGED <<tail, seq, val, sent, rcvd>> /\ head' \in Nat
        BY <1>0, <2>3 DEF RingType, RecvStep, ConsumerStep, StartRecv, RecvLoadSeq,
           RecvCheckProducers, RecvRecheckSeq, RecvAdvance, RecvWake,
           RecvRegister, RecvClear, RecvRepoll, CancelRecv, DropConsumer, DropConsumerWake,
           idxVars, slotVars, histVars
      <3> QED BY <1>0, <1>1, <3>1 DEF RingType
    <2> QED BY <2>1, <2>2, <2>3
  <1> QED BY <1>2, <1>3, <1>4, TypeParts

\* The end of the ring keeps the type.
LEMMA DropType ==
    ASSUME TypeOK, CoreInv, RingDrop
    PROVE  TypeOK'
  <1>0. RingType /\ CountOK /\ RestType
    BY TypeParts
  <1>1. /\ UNCHANGED <<tail, head, producers, consumerGone, seq, prod, cpc, ccall, eof, sent, rcvd>>
        /\ UNCHANGED <<consumerWaker, producerWaker, pawake, cawake>> /\ freed' = TRUE
    BY DEF RingDrop, idxVars, consVars, wakeVars, histVars
  <1>2. /\ val' \in [0..N-1 -> Msg \cup {Uninit}]
        /\ DOMAIN dropped' \subseteq Nat /\ dropped' \in [DOMAIN dropped' -> Msg]
    BY <1>0, DropLeavesNothing
  <1>3. CountOK'
    BY <1>0, <1>1, CountStays
  <1> QED BY <1>0, <1>1, <1>2, <1>3, TypeParts DEF RingType, RestType

----------------------------------------------------------------------------
(* The consumer's wakeup, and the end of the stream. *)

\* Producer steps lose no wakeup and close nothing early.
LEMMA HandleWakes ==
    ASSUME TypeOK, WakeInv, ClosedOnlyWhenDrained, NEW p \in Producer, HandleStep(p)
    PROVE  WakeInv' /\ ClosedOnlyWhenDrained'
  <1>0. RingType /\ CountOK /\ producers \in Nat /\ prod \in Handles /\ tail \in Nat
    BY TypeParts, CountFacts DEF RingType
  <1>1. UNCHANGED <<cpc, ccall, eof, head>>
    BY DEF HandleStep, ProducerStep, Clone, DropProducer, LastProducerWake, StartSend,
           SendCheckClosed, SendLoadTail, SendLoadSeq, SendCasOk, Claim, SendCasFail, SendWrite,
           SendPublish, SendWake, SendRegister, SendClear, SendRepoll, CancelSend, idxVars, consVars
  <1>2. \A q \in Producer \ {p} : prod'[q] = prod[q]
    BY <1>0, ProducerMoves DEF HandleStep, ProducerStep, Moves
  <1>3. producers = 0 => producers' = 0 /\ tail' = tail
    <2>1. HandleStep(p) => LastProducerWake(p) \/ producers # 0
      <3>1. \A q \in Producer : prod[q].pc = "idle" => producers # 0
        BY <1>0, CountFacts DEF Uncounted
      <3>2. prod[p].pc \notin Uncounted => producers # 0
        BY <1>0, CountFacts
      <3> QED BY <3>1, <3>2 DEF HandleStep, ProducerStep, Clone, DropProducer, StartSend,
           SendCheckClosed, SendLoadTail, SendLoadSeq, SendCasOk, SendCasFail, SendWrite,
           SendPublish, SendWake, SendRegister, SendClear, SendRepoll, CancelSend, Uncounted
    <2> QED BY <2>1 DEF LastProducerWake, idxVars
  <1>4. ClosedOnlyWhenDrained'
    BY <1>1, <1>3 DEF ClosedOnlyWhenDrained
  <1>5. CASE SendWake(p) \/ LastProducerWake(p)
    <2>1. cawake' = (cawake \/ consumerWaker) /\ producers' = producers
      BY <1>5 DEF SendWake, LastProducerWake, WakeConsumer, idxVars
    <2>2. cpc \in {"load_seq", "check_producers", "recheck_seq", "parked"} /\ ccall = "poll2"
            => cawake'
      BY <2>1 DEF WakeInv
    <2> QED BY <1>1, <1>4, <2>1, <2>2 DEF WakeInv
  <1>6. CASE ~(SendWake(p) \/ LastProducerWake(p))
    <2>1. UNCHANGED <<consumerWaker, cawake>> /\ prod[p].pc # "wake" /\ prod[p].pc # "last_wake"
      BY <1>6 DEF HandleStep, ProducerStep, Clone, DropProducer, StartSend,
           SendCheckClosed, SendLoadTail, SendLoadSeq, SendCasOk, Claim, SendCasFail, SendWrite,
           SendPublish, SendRegister, SendClear, SendRepoll, CancelSend, wakeVars
    <2>2. /\ \A q \in Producer : prod[q].pc = "wake" => prod'[q].pc = "wake"
          /\ \A q \in Producer : prod[q].pc = "last_wake" => prod'[q].pc = "last_wake"
      BY <1>2, <2>1
    <2>3. Ready' => Ready \/ prod'[p].pc = "wake"
      <3>1. CASE SendPublish(p)
        BY <1>0, <3>1, ProducerMoves DEF Moves
      <3>2. CASE ~SendPublish(p)
        <4>1. UNCHANGED <<seq, head>>
          BY <1>6, <3>2 DEF HandleStep, ProducerStep, Clone, DropProducer, StartSend,
             SendCheckClosed, SendLoadTail, SendLoadSeq, SendCasOk, Claim, SendCasFail, SendWrite,
             SendRegister, SendClear, SendRepoll, CancelSend, idxVars, slotVars
        <4> QED BY <4>1 DEF Ready
      <3> QED BY <3>1, <3>2
    <2>4. producers' = 0 => producers = 0 \/ prod'[p].pc = "last_wake"
      <3>1. CASE DropProducer(p)
        BY <1>0, <3>1, DropCount
      <3>2. CASE ~DropProducer(p)
        <4>1. producers' \in {producers, producers + 1}
          BY <1>6, <3>2 DEF HandleStep, ProducerStep, Clone, StartSend,
             SendCheckClosed, SendLoadTail, SendLoadSeq, SendCasOk, Claim, SendCasFail, SendWrite,
             SendPublish, SendRegister, SendClear, SendRepoll, CancelSend, idxVars
        <4> QED BY <1>0, <4>1
      <3> QED BY <3>1, <3>2
    <2>5. /\ cpc' \in {"load_seq", "check_producers", "recheck_seq", "parked"} /\ ccall' = "poll2"
               => cawake' \/ consumerWaker'
          /\ cpc' = "parked" => ccall' = "poll2"
          /\ cpc' = "recheck_seq" => producers' = 0
          /\ eof' => cpc' \in {"idle", "dropping", "gone"}
      BY <1>1, <1>3, <2>1 DEF WakeInv
    <2>6. ( /\ cpc' \in {"check_producers", "recheck_seq", "parked"} /\ ccall' = "poll2"
            /\ ~cawake' /\ Ready' )
            => \E q \in Producer : prod'[q].pc = "wake"
      BY <1>1, <2>1, <2>2, <2>3 DEF WakeInv
    <2>7. cpc' = "parked" /\ ~cawake' /\ producers' = 0
            => \E q \in Producer : prod'[q].pc = "last_wake"
      BY <1>1, <2>1, <2>2, <2>4 DEF WakeInv
    <2> QED BY <1>4, <2>5, <2>6, <2>7 DEF WakeInv
  <1> QED BY <1>5, <1>6

(***************************************************************************)
(* With no producer left, a slot that is not ready is that of the tail.    *)
(***************************************************************************)
LEMMA NothingLeft ==
    ASSUME TypeOK, CoreInv, producers = 0, cpc = "recheck_seq", ~Ready
    PROVE  head = tail
  <1>0. RingType /\ CountOK
    BY TypeParts
  <1>1. \A p \in Producer : prod[p].pc \notin Claiming
    BY <1>0, CountFacts DEF Uncounted, Claiming
  <1>2. Given = head /\ Taken = head /\ head <= tail /\ head \in Nat /\ tail \in Nat
    BY <1>0, Bounds DEF CoreInv, Given, Taken
  <1>3. CASE head < tail
    <2>1. head \in Given..(tail - 1)
      BY <1>2, <1>3
    <2>2. Live(head)
      BY <1>1, <2>1 DEF CoreInv, SeqInv
    <2> QED BY <2>2 DEF Live, Ready
  <1> QED BY <1>2, <1>3

\* Consumer steps lose no wakeup and close nothing early.
LEMMA RecvWakes ==
    ASSUME TypeOK, CoreInv, WakeInv, ClosedOnlyWhenDrained, RecvStep
    PROVE  WakeInv' /\ ClosedOnlyWhenDrained'
  <1>0. CountOK
    BY TypeParts
  <1>1. UNCHANGED <<prod, producers, tail>>
    BY DEF RecvStep, ConsumerStep, StartRecv, RecvLoadSeq, RecvCheckProducers, RecvRecheckSeq,
           RecvTake, RecvAdvance, RecvRelease, RecvWake, RecvRegister, RecvClear, RecvRepoll,
           CancelRecv, DropConsumer, DropConsumerWake, idxVars
  <1>2. CASE RecvLoadSeq
    <2>1. UNCHANGED <<seq, head, cawake, consumerWaker>> /\ eof' = eof /\ cpc = "load_seq"
      BY <1>2 DEF RecvLoadSeq, RecvEmpty, idxVars, slotVars, wakeVars
    <2>2. /\ cpc' \in {"take", "idle", "check_producers"}
          /\ cpc' = "check_producers" => ~Ready /\ ccall' = ccall
      BY <1>2 DEF RecvLoadSeq, RecvEmpty, RecvReturn
    <2> QED BY <1>1, <2>1, <2>2 DEF WakeInv, ClosedOnlyWhenDrained, Ready
  <1>3. CASE RecvCheckProducers
    <2>1. UNCHANGED <<seq, head, cawake, consumerWaker>> /\ eof' = eof /\ cpc = "check_producers"
      BY <1>3 DEF RecvCheckProducers, RecvEmpty, idxVars, slotVars, wakeVars
    <2>2. \/ cpc' = "recheck_seq" /\ producers = 0 /\ ccall' = ccall
          \/ cpc' = "parked" /\ producers # 0 /\ ccall' = ccall /\ ccall = "poll2"
          \/ cpc' \in {"idle", "register"}
      BY <1>3 DEF RecvCheckProducers, RecvEmpty, RecvReturn
    <2> QED BY <1>1, <2>1, <2>2 DEF WakeInv, ClosedOnlyWhenDrained, Ready
  <1>4. CASE RecvRecheckSeq
    <2>1. UNCHANGED <<seq, head, cawake, consumerWaker>> /\ cpc = "recheck_seq" /\ producers = 0
      BY <1>4 DEF RecvRecheckSeq, idxVars, slotVars, wakeVars, WakeInv
    <2>2. \A p \in Producer : prod[p].pc # "wake"
      BY <1>0, <2>1, CountFacts DEF Uncounted
    <2>3. \/ cpc' = "parked" /\ Ready /\ ccall' = ccall /\ ccall = "poll2" /\ eof' = eof
          \/ cpc' \in {"idle", "register"} /\ eof' = eof
          \/ cpc' = "idle" /\ ~Ready /\ eof' = TRUE
      BY <1>4 DEF RecvRecheckSeq, RecvEmpty, RecvReturn, RecvClosed
    <2>4. ~Ready => head = tail
      BY <2>1, NothingLeft
    <2>5. ~eof
      BY <2>1 DEF WakeInv
    <2>6. ClosedOnlyWhenDrained'
      BY <1>1, <2>1, <2>3, <2>4, <2>5 DEF ClosedOnlyWhenDrained
    <2>7. cpc' = "parked" => cawake
      BY <2>1, <2>2, <2>3 DEF WakeInv
    <2> QED BY <1>1, <2>1, <2>3, <2>5, <2>6, <2>7 DEF WakeInv
  <1>5. CASE RecvRegister
    <2>1. cpc' = "load_seq" /\ consumerWaker' = TRUE /\ eof' = eof /\ head' = head /\ cpc = "register"
      BY <1>5 DEF RecvRegister, idxVars
    <2> QED BY <1>1, <2>1 DEF WakeInv, ClosedOnlyWhenDrained
  <1>6. CASE RecvRepoll \/ \E call \in {"try", "pop", "poll1"} : StartRecv(call)
    <2>1. /\ cpc' = "load_seq" /\ ccall' # "poll2" /\ head' = head
          /\ eof' = FALSE \/ (eof' = eof /\ cpc = "parked")
      BY <1>6 DEF RecvRepoll, StartRecv, idxVars
    <2> QED BY <1>1, <2>1 DEF WakeInv, ClosedOnlyWhenDrained
  <1>7. CASE RecvTake \/ RecvAdvance \/ RecvRelease
    <2>1. /\ cpc' \in {"advance", "release", "wake"} /\ eof' = eof
          /\ cpc \in {"take", "advance", "release"}
      BY <1>7 DEF RecvTake, RecvAdvance, RecvRelease
    <2>2. ~eof
      BY <2>1 DEF WakeInv
    <2> QED BY <2>1, <2>2 DEF WakeInv, ClosedOnlyWhenDrained
  <1>8. CASE RecvWake \/ RecvClear \/ CancelRecv \/ DropConsumer \/ DropConsumerWake
    <2>1. /\ cpc' \in {"idle", "clear", "dropping", "gone"} /\ eof' = eof /\ head' = head
          /\ cpc \in {"wake", "clear", "parked", "idle", "dropping"}
          /\ cpc' = "clear" => cpc = "wake"
      BY <1>8 DEF RecvWake, RecvClear, CancelRecv, DropConsumer, DropConsumerWake, RecvReturn,
                  idxVars
    <2> QED BY <1>1, <2>1 DEF WakeInv, ClosedOnlyWhenDrained
  <1> QED BY <1>2, <1>3, <1>4, <1>5, <1>6, <1>7, <1>8 DEF RecvStep, ConsumerStep

----------------------------------------------------------------------------
(* The invariant. *)

\* Nothing follows the end of the ring.
LEMMA NothingAfterDrop ==
    ASSUME EndInv, freed, Next
    PROVE  FALSE
  <1>1. cpc = "gone" /\ \A p \in Producer : prod[p].pc \in {"unborn", "gone"}
    BY DEF EndInv, HandlesGone
  <1>2. ASSUME NEW p \in Producer, HandleStep(p) PROVE FALSE
    BY <1>1, <1>2 DEF HandleStep, ProducerStep, Clone, DropProducer, LastProducerWake, StartSend,
           SendCheckClosed, SendLoadTail, SendLoadSeq, SendCasOk, SendCasFail, SendWrite,
           SendPublish, SendWake, SendRegister, SendClear, SendRepoll, CancelSend
  <1>3. ~RecvStep
    BY <1>1 DEF RecvStep, ConsumerStep, StartRecv, RecvLoadSeq, RecvCheckProducers, RecvRecheckSeq,
           RecvTake, RecvAdvance, RecvRelease, RecvWake, RecvRegister, RecvClear, RecvRepoll,
           CancelRecv, DropConsumer, DropConsumerWake
  <1>4. ~RingDrop
    BY DEF RingDrop
  <1> QED BY <1>2, <1>3, <1>4, NextIs

\* Producer steps keep CoreInv.
LEMMA HandleCore ==
    ASSUME N > 1, RingType, CoreInv, NEW p \in Producer, HandleStep(p)
    PROVE  CoreInv' /\ freed' = freed
  <1>1. freed' = freed
    BY DEF HandleStep, ProducerStep, Clone, DropProducer, LastProducerWake, StartSend,
           SendCheckClosed, SendLoadTail, SendLoadSeq, SendCasOk, Claim, SendCasFail, SendWrite,
           SendPublish, SendWake, SendRegister, SendClear, SendRepoll, CancelSend, endVars
  <1>2. CASE SendCasOk(p)
    BY <1>1, <1>2, ClaimCore
  <1>3. CASE SendWrite(p)
    BY <1>1, <1>3, WriteCore
  <1>4. CASE SendPublish(p)
    BY <1>1, <1>4, PublishCore
  <1>5. CASE ~(SendCasOk(p) \/ SendWrite(p) \/ SendPublish(p))
    <2>1. Quiet
      BY <1>5, QuietProducer DEF HandleStep, ProducerStep
    <2> QED BY <1>1, <2>1, QuietCore
  <1> QED BY <1>1, <1>2, <1>3, <1>4, <1>5

\* Consumer steps keep CoreInv.
LEMMA RecvCore ==
    ASSUME RingType, CoreInv, RecvStep
    PROVE  CoreInv' /\ freed' = freed
  <1>1. freed' = freed
    BY DEF RecvStep, ConsumerStep, StartRecv, RecvLoadSeq, RecvCheckProducers, RecvRecheckSeq,
           RecvTake, RecvAdvance, RecvRelease, RecvWake, RecvRegister, RecvClear, RecvRepoll,
           CancelRecv, DropConsumer, DropConsumerWake, endVars
  <1>2. CASE RecvTake
    BY <1>1, <1>2, TakeCore
  <1>3. CASE RecvRelease
    BY <1>1, <1>3, ReleaseCore
  <1>4. CASE ~(RecvTake \/ RecvRelease)
    <2>1. Quiet
      BY <1>4, QuietConsumer DEF RecvStep, ConsumerStep
    <2> QED BY <1>1, <2>1, QuietCore
  <1> QED BY <1>1, <1>2, <1>3, <1>4

\* The invariant holds at the start.
LEMMA InitInv ==
    Init => RingInv
  <1> SUFFICES ASSUME Init PROVE RingInv
    OBVIOUS
  <1>1. PICK u : u = [IdleProducer EXCEPT !.pc = "unborn"]
    OBVIOUS
  <1>2. /\ u.pc = "unborn" /\ u \in Handle /\ IdleProducer.pc = "idle" /\ IdleProducer \in Handle
    BY <1>1 DEF IdleProducer, Handle, ProducerPCs, SendCalls
  <1>3. /\ prod \in Handles /\ prod[First].pc = "idle"
        /\ \A p \in Producer : p # First => prod[p].pc = "unborn"
    BY <1>1, <1>2, MpscAssumption DEF Init, Handles
  <1>4. CountOK
    <2>1. Counted = {First}
      BY <1>3, MpscAssumption DEF Counted
    <2> QED BY <2>1, FS_Singleton DEF CountOK, Init
  <1>5. RingType
    BY <1>3, MpscAssumption DEF RingType, Init
  <1>6. RestType
    BY MpscAssumption DEF RestType, Init, ConsumerPCs, RecvCalls
  <1>7. WakeInv /\ ClosedOnlyWhenDrained /\ EndInv /\ NoLeak
    BY DEF Init, WakeInv, ClosedOnlyWhenDrained, EndInv, NoLeak
  <1>8. CoreInv
    <2>1. /\ Given = 0 /\ Taken = 0 /\ tail = 0 /\ head = 0 /\ N \in Nat /\ N > 0
          /\ Len(sent) = 0 /\ Len(rcvd) = 0
      BY MpscAssumption DEF Init, Given, Taken
    <2>2. \A i \in 0..N-1 : Slot(i) = i
      BY <2>1 DEF Slot
    <2>3. \A p \in Producer : prod[p].pc \in {"idle", "unborn"}
      BY <1>3
    <2>4. HistInv
      BY <2>1 DEF HistInv, Init
    <2>5. SeqInv
      BY <2>1, <2>2 DEF SeqInv, Init
    <2>6. ValInv
      BY <2>1 DEF ValInv, Init
    <2>7. ClaimInv
      BY <2>3 DEF ClaimInv, Claiming, Sending
    <2> QED BY <2>4, <2>5, <2>6, <2>7 DEF CoreInv
  <1> QED BY <1>4, <1>5, <1>6, <1>7, <1>8, TypeParts DEF RingInv

\* Every step keeps the invariant.
LEMMA StepInv ==
    ASSUME N > 1, RingInv, Next
    PROVE  RingInv'
  <1>1. ~freed
    BY NothingAfterDrop DEF RingInv
  <1>2. TypeOK /\ CoreInv /\ WakeInv /\ ClosedOnlyWhenDrained /\ RingType
    BY <1>1, TypeParts DEF RingInv
  <1>3. ASSUME NEW p \in Producer, HandleStep(p) PROVE RingInv'
    <2>1. CoreInv' /\ freed' = freed
      BY <1>2, <1>3, HandleCore
    <2>2. TypeOK'
      BY <1>2, <1>3, HandleType
    <2>3. WakeInv' /\ ClosedOnlyWhenDrained'
      BY <1>2, <1>3, HandleWakes
    <2>4. EndInv' /\ NoLeak'
      BY <1>1, <2>1 DEF EndInv, NoLeak
    <2> QED BY <2>1, <2>2, <2>3, <2>4 DEF RingInv
  <1>4. CASE RecvStep
    <2>1. CoreInv' /\ freed' = freed
      BY <1>2, <1>4, RecvCore
    <2>2. TypeOK'
      BY <1>2, <1>4, RecvType
    <2>3. WakeInv' /\ ClosedOnlyWhenDrained'
      BY <1>2, <1>4, RecvWakes
    <2>4. EndInv' /\ NoLeak'
      BY <1>1, <2>1 DEF EndInv, NoLeak
    <2> QED BY <2>1, <2>2, <2>3, <2>4 DEF RingInv
  <1>5. CASE RingDrop
    <2>1. TypeOK'
      BY <1>2, <1>5, DropType
    <2>2. EndInv' /\ NoLeak'
      BY <1>2, <1>5, DropLeavesNothing
    <2>3. /\ UNCHANGED <<tail, head, producers, seq, prod, cpc, ccall, eof, consumerWaker, cawake>>
          /\ freed'
      BY <1>5 DEF RingDrop, idxVars, consVars, wakeVars
    <2>4. WakeInv' /\ ClosedOnlyWhenDrained'
      BY <1>2, <2>3 DEF WakeInv, ClosedOnlyWhenDrained, Ready
    <2> QED BY <2>1, <2>2, <2>3, <2>4 DEF RingInv
  <1> QED BY <1>3, <1>4, <1>5, NextIs

\* And so does a stuttering step.
LEMMA StutterInv ==
    ASSUME RingInv, UNCHANGED vars
    PROVE  RingInv'
  BY DEF RingInv, TypeOK, Counted, WakeInv, ClosedOnlyWhenDrained, EndInv, HandlesGone, NoLeak,
         CoreInv, HistInv, SeqInv, ValInv, ClaimInv, Given, Taken, Live, Ready,
         vars, idxVars, slotVars, consVars, wakeVars, endVars, histVars

(***************************************************************************)
(* The invariant holds of every ring of at least two slots.                *)
(***************************************************************************)
THEOREM Invariance ==
    ASSUME N > 1
    PROVE  Spec => []RingInv
  <1>1. Init => RingInv
    BY InitInv
  <1>2. RingInv /\ [Next]_vars => RingInv'
    BY StepInv, StutterInv
  <1> QED BY <1>1, <1>2, PTL DEF Spec

\* Every index, slot, handle and flag stays in its range, and the count of the
\* producers is that of the live handles.
THEOREM TypeCorrect ==
    ASSUME N > 1
    PROVE  Spec => []TypeOK
  <1>1. RingInv => TypeOK
    BY DEF RingInv
  <1> QED BY <1>1, Invariance, PTL

\* No payload is accessed from two sides: two producers never own one slot,
\* none writes over a message, the consumer reads only what is there.
THEOREM SlotExclusiveHolds ==
    ASSUME N > 1
    PROVE  Spec => []SlotExclusive
  <1>1. RingInv => SlotExclusive
    <2> SUFFICES ASSUME RingInv PROVE SlotExclusive
      OBVIOUS
    <2>0. RingType
      BY TypeParts DEF RingInv
    <2>1. CASE freed
      <3>1. cpc = "gone" /\ \A p \in Producer : prod[p].pc \in {"unborn", "gone"}
        BY <2>1 DEF RingInv, EndInv, HandlesGone
      <3> QED BY <3>1 DEF SlotExclusive
    <2>2. CASE ~freed
      <3>0. CoreInv /\ ClaimInv
        BY <2>2 DEF RingInv, CoreInv
      <3>1. ASSUME NEW p \in Producer, NEW q \in Producer, p # q,
                   prod[p].pc \in Claiming, prod[q].pc \in Claiming
            PROVE  Slot(prod[p].pos) # Slot(prod[q].pos)
        <4>1. prod[p].pos # prod[q].pos
          BY <3>0, <3>1 DEF ClaimInv
        <4>2. prod[p].pos \in Taken..(tail - 1) /\ prod[q].pos \in Taken..(tail - 1)
          BY <3>0, <3>1 DEF ClaimInv
        <4>3. Given \in Nat /\ Taken \in Nat /\ Given <= Taken /\ tail <= Given + N /\ tail \in Nat
          BY <2>0, <3>0, Bounds DEF CoreInv
        <4>4. /\ prod[p].pos \in Given..(Given + N - 1)
              /\ prod[q].pos \in Given..(Given + N - 1)
          BY <4>2, <4>3, MpscAssumption
        <4> QED BY <4>1, <4>3, <4>4, SlotDistinct
      <3>2. \A p \in Producer : prod[p].pc = "write" => val[Slot(prod[p].pos)] = Uninit
        BY <3>0 DEF ClaimInv, Claiming
      <3>3. cpc = "take" => val[Slot(head)] # Uninit
        BY <2>0, <3>0, TakeFacts, MpscAssumption
      <3> QED BY <3>1, <3>2, <3>3 DEF SlotExclusive, Claiming
    <2> QED BY <2>1, <2>2
  <1> QED BY <1>1, Invariance, PTL

\* After MpscRing::drop every message was received or dropped, in its place
\* and once.
THEOREM NoLeakHolds ==
    ASSUME N > 1
    PROVE  Spec => []NoLeak
  <1>1. RingInv => NoLeak
    BY DEF RingInv
  <1> QED BY <1>1, Invariance, PTL

\* A parked consumer that nobody has woken still has its waker in the ring, and
\* somebody is on the way to it when there is something to tell it.
THEOREM NoLostConsumerWakeupHolds ==
    ASSUME N > 1
    PROVE  Spec => []NoLostConsumerWakeup
  <1>1. RingInv => NoLostConsumerWakeup
    BY DEF RingInv, WakeInv, NoLostConsumerWakeup
  <1> QED BY <1>1, Invariance, PTL

\* recv() reports Closed only when no producer is left and every message that
\* was ever claimed has been taken.
THEOREM ClosedOnlyWhenDrainedHolds ==
    ASSUME N > 1
    PROVE  Spec => []ClosedOnlyWhenDrained
  <1>1. RingInv => ClosedOnlyWhenDrained
    BY DEF RingInv
  <1> QED BY <1>1, Invariance, PTL

(***************************************************************************)
(* The ring implements the bounded FIFO channel: the successful exchange   *)
(* of tail is Send, RecvTake is Recv, every other step is invisible.       *)
(***************************************************************************)
THEOREM Refinement ==
    ASSUME N > 1
    PROVE  Spec => ImplementsChannel
  <1>1. Init => Channel!Init
    BY DEF Init, Channel!Init
  <1>2. RingInv /\ [Next]_vars => [Channel!Next]_(Channel!chanVars)
    <2> SUFFICES ASSUME RingInv, [Next]_vars PROVE [Channel!Next]_(Channel!chanVars)
      OBVIOUS
    <2>1. CASE UNCHANGED vars
      BY <2>1 DEF vars, histVars, Channel!chanVars
    <2>2. CASE Next
      <3>1. RingType /\ CoreInv
        BY <2>2, NothingAfterDrop, TypeParts DEF RingInv
      <3>2. /\ Len(sent) = tail /\ Len(rcvd) = Taken /\ tail \in Nat /\ Taken \in Nat
            /\ Given <= Taken /\ Given \in Nat /\ N \in Nat
        BY <3>1, Bounds DEF CoreInv
      <3>3. ASSUME NEW p \in Producer, SendCasOk(p) PROVE Channel!Next
        <4>1. prod[p].msg \in Msg
          BY <3>1, <3>3, ClaimCore
        <4>2. tail < Given + N
          BY <3>1, <3>3 DEF CoreInv, ClaimInv, SendCasOk
        <4>3. Len(sent) - Len(rcvd) < N
          BY <3>2, <4>2
        <4>4. Channel!Send(prod[p].msg)
          BY <3>3, <4>3 DEF Channel!Send, SendCasOk, Claim
        <4> QED BY <4>1, <4>4 DEF Channel!Next
      <3>4. CASE RecvTake
        <4>1. head < tail /\ Taken = head /\ val[Slot(head)] = sent[head + 1]
          BY <3>1, <3>4, TakeFacts DEF RecvTake
        <4>2. Channel!Recv
          BY <3>2, <3>4, <4>1 DEF Channel!Recv, RecvTake
        <4> QED BY <4>2 DEF Channel!Next
      <3>5. ASSUME NEW p \in Producer, HandleStep(p), ~SendCasOk(p) PROVE UNCHANGED <<sent, rcvd>>
        BY <3>5 DEF HandleStep, ProducerStep, Clone, DropProducer, LastProducerWake, StartSend,
             SendCheckClosed, SendLoadTail, SendLoadSeq, SendCasFail, SendWrite, SendPublish,
             SendWake, SendRegister, SendClear, SendRepoll, CancelSend, histVars
      <3>6. CASE RecvStep /\ ~RecvTake
        BY <3>6 DEF RecvStep, ConsumerStep, StartRecv, RecvLoadSeq, RecvCheckProducers,
             RecvRecheckSeq, RecvAdvance, RecvRelease, RecvWake, RecvRegister, RecvClear,
             RecvRepoll, CancelRecv, DropConsumer, DropConsumerWake, histVars, Channel!chanVars
      <3>7. CASE RingDrop
        BY <3>7 DEF RingDrop, histVars, Channel!chanVars
      <3> QED BY <2>2, <3>3, <3>4, <3>5, <3>6, <3>7, NextIs DEF Channel!chanVars
    <2> QED BY <2>1, <2>2
  <1> QED BY <1>1, <1>2, Invariance, PTL DEF Spec, ImplementsChannel, Channel!Spec
=============================================================================
