----------------------------- MODULE QsbrProofs -----------------------------
(***************************************************************************)
(* Why a guard on an active CPU keeps what it has loaded, for any number   *)
(* of CPUs, nodes and workers.  Each group of actions keeps ReclaimInv;    *)
(* ReaderProtected follows from its last conjunct.                         *)
(***************************************************************************)
EXTENDS Qsbr, TLAPS

USE QsbrAssumption DEF cellVars, callVars, syncVars, offVars, Contexts, NotRetiring,
    Running, At, Goto, InTask, StartCall, PCs, Ops, SyncOps

(***************************************************************************)
(* A drain or a report returns to a label of its caller, and leaves the    *)
(* other CPUs' calls alone.                                                *)
(***************************************************************************)
LEMMA Returns ==
    ASSUME TypeOK, NEW c \in CPU, ReturnFromCall(c)
    PROVE  /\ pc' \in [CPU -> PCs] /\ op' \in [CPU -> Ops]
           /\ reg' \in [CPU -> 0..MaxEpoch \cup {Inactive}]
           /\ todo' \in [CPU -> SUBSET (CPU \cup Worker)]
           /\ \A d \in CPU \ {c} : /\ pc'[d] = pc[d] /\ op'[d] = op[d]
                                   /\ reg'[d] = reg[d] /\ todo'[d] = todo[d]
           /\ pc'[c] \in {"others", "end", "idle_store", "sync_check", "sync_take"}
           /\ op[c] \in SyncOps <=> op'[c] \in SyncOps
           /\ op[c] = "idle" <=> op'[c] = "idle"
           /\ pc'[c] \in {"sync_check", "sync_take"} <=> op[c] \in SyncOps
           /\ pc'[c] = "idle_store" => op[c] = "idle"
  BY DEF TypeOK, ReturnFromCall, Resume

(***************************************************************************)
(* The epochs a step compares are natural numbers.                         *)
(***************************************************************************)
LEMMA Numbers ==
    ASSUME TypeOK
    PROVE  /\ epoch \in Nat
           /\ \A d \in CPU : lastQ[d] \in Nat /\ reg[d] \in Nat /\ readers[d] \in Nat
           /\ \A n \in Node : stamp[n] \in Nat
  BY DEF TypeOK

(***************************************************************************)
(* The epoch is only ever opened anew.                                     *)
(***************************************************************************)
LEMMA Advances ==
    ASSUME TypeOK, NEW c \in CPU, Advance(c)
    PROVE  epoch' \in 1..MaxEpoch /\ epoch' >= epoch
  BY DEF TypeOK, Advance

(***************************************************************************)
(* Before the first step no CPU is active and nothing is retired.          *)
(***************************************************************************)
LEMMA ReclaimInit ==
    Init => ReclaimInv
  BY DEF Init, StartAt, ReclaimInv, TypeOK, EpochInv, ControlInv, LiveInv, ViewInv, ScanInv,
         FreeInv, Views, Stamped, Released

(***************************************************************************)
(* Readers: a guard loads what is published, which nobody has retired.     *)
(***************************************************************************)
LEMMA ReaderSteps ==
    ASSUME ReclaimInv, NEW c \in CPU, Pin(c) \/ Load(c) \/ Unpin(c)
    PROVE  ReclaimInv'
  <1> USE DEF ReclaimInv, TypeOK, EpochInv, ControlInv, LiveInv, ViewInv, ScanInv, FreeInv,
              Views, Stamped, Released
  <1>1. CASE Pin(c)
    BY <1>1 DEF Pin
  <1>2. CASE Load(c)
    BY <1>2 DEF Load
  <1>3. CASE Unpin(c)
    BY <1>3 DEF Unpin
  <1> QED BY <1>1, <1>2, <1>3

(***************************************************************************)
(* Writers: what is unpublished or was never published is on its way to    *)
(* the bucket, not yet stamped.                                            *)
(***************************************************************************)
LEMMA SwapStep ==
    ASSUME ReclaimInv, NEW c \in CPU, NEW x \in Contexts, NEW new \in fresh \cup {Null},
           retire[c][x].at = "none", x = "irq" => c \in IrqCPUs,
           Swap(c, x, new),
           UNCHANGED view \/ (readers[c] > 0 /\ view' = [view EXCEPT ![c] = new])
    PROVE  ReclaimInv'
  <1>1. \A d \in CPU, y \in Contexts :
           \/ UNCHANGED retire[d][y]
           \/ /\ d = c /\ y = x /\ cell \in Node
              /\ retire'[d][y].at = "epoch" /\ retire'[d][y].node = cell
    BY DEF Swap, StartRetire, ReclaimInv, TypeOK
  <1>2. /\ cell' = new /\ fresh' = fresh \ {new} /\ new # cell
        /\ UNCHANGED <<epoch, readers, lastQ, bucket, stamp, pc, op, reg, todo, list, queue,
                       batch, drops>>
    BY DEF Swap
  <1>3. TypeOK'
    <2>1. retire' \in [CPU -> [Contexts -> [at : {"none", "epoch", "push"}, node : Node \cup {Null}]]]
      BY DEF Swap, StartRetire, ReclaimInv, TypeOK
    <2>2. view' \in [CPU -> Node \cup {Null}]
      BY DEF ReclaimInv, TypeOK
    <2> QED BY <1>2, <2>1, <2>2 DEF Swap, ReclaimInv, TypeOK
  <1>4. EpochInv'
    BY <1>2 DEF ReclaimInv, EpochInv
  <1>5. ControlInv'
    BY <1>1, <1>2 DEF ReclaimInv, ControlInv
  <1>6. LiveInv'
    <2>1. cell \notin fresh
      BY DEF ReclaimInv, LiveInv
    <2> QED BY <1>1, <1>2, <2>1 DEF ReclaimInv, LiveInv
  <1>7. \A m \in Node : Stamped(m)' => Stamped(m)
    BY <1>1, <1>2 DEF ReclaimInv, TypeOK, Stamped
  <1>8. \A d \in CPU, m \in Node : Views(d, m)' => Views(d, m) \/ m = new
    BY <1>2 DEF ReclaimInv, TypeOK, Views
  <1>9. new \in Node => ~Stamped(new) /\ ~Released(new)
    BY DEF ReclaimInv, TypeOK, LiveInv, Stamped, Released
  <1>10. ViewInv'
    <2>1. \A d \in CPU : readers'[d] = 0 => view'[d] = Null
      BY <1>2 DEF ReclaimInv, TypeOK, ViewInv
    <2> QED BY <2>1, <1>2, <1>7, <1>8, <1>9 DEF ReclaimInv, ViewInv
  <1>11. ScanInv'
    <2>1. \A d \in CPU : retire'[d]["irq"].at = "push" =>
               retire[d]["irq"].at = "push" /\ retire[d]["irq"].node = retire'[d]["irq"].node
      BY <1>1
    <2>2. ASSUME NEW d \in CPU, new \in Node
          PROVE  new \notin bucket[d] /\ new \notin list[d] /\ retire[d]["irq"].node # new
      BY <2>2 DEF ReclaimInv, LiveInv
    <2>3. ASSUME NEW d \in CPU, NEW e \in CPU, NEW m \in Node, Views(e, m)'
          PROVE  /\ pc[d] = "scan" /\ m \in bucket[d] /\ e \notin todo[d] => reg[d] <= stamp[m]
                 /\ pc[d] = "scan" /\ retire'[d]["irq"].at = "push" /\ retire'[d]["irq"].node = m
                       => reg[d] <= stamp[m]
                 /\ pc[d] = "split" /\ m \in list[d] => reg[d] <= stamp[m]
      <3>1. CASE m = new
        BY <2>1, <2>2, <3>1
      <3>2. CASE Views(e, m)
        BY <2>1, <3>2 DEF ReclaimInv, ScanInv
      <3> QED BY <1>8, <2>3, <3>1, <3>2
    <2> QED BY <1>2, <2>3 DEF ReclaimInv, ScanInv
  <1>12. FreeInv'
    BY <1>2, <1>8, <1>9 DEF ReclaimInv, FreeInv, Released
  <1> QED BY <1>3, <1>4, <1>5, <1>6, <1>10, <1>11, <1>12 DEF ReclaimInv

\* Every way of writing the cell keeps the invariant.
LEMMA WriterSteps ==
    ASSUME ReclaimInv, NEW c \in CPU, NEW new \in fresh \cup {Null},
           \/ Store(c, new) \/ IrqStore(c, new)
           \/ new # Null /\ (CompareAndSet(c, new) \/ DeferDrop(c, new))
    PROVE  ReclaimInv'
  <1>1. CASE Store(c, new)
    BY <1>1, SwapStep DEF Store, MayWrite
  <1>2. CASE IrqStore(c, new)
    BY <1>2, SwapStep DEF IrqStore
  <1>3. CASE new # Null /\ CompareAndSet(c, new)
    <2>1. CASE cell = view[c]
      BY <1>3, <2>1, SwapStep DEF CompareAndSet, MayWrite
    <2>2. CASE cell # view[c]
      <3>1. Load(c)
        BY <1>3, <2>2 DEF CompareAndSet, MayWrite, Load
      <3> QED BY <3>1, ReaderSteps
    <2> QED BY <2>1, <2>2
  <1>4. CASE new # Null /\ DeferDrop(c, new)
    BY <1>4 DEF DeferDrop, StartRetire, ReclaimInv, TypeOK, EpochInv, ControlInv, LiveInv,
         ViewInv, ScanInv, FreeInv, Views, Stamped, Released
  <1> QED BY <1>1, <1>2, <1>3, <1>4

(***************************************************************************)
(* retire_node: the stamp is the current epoch, so no active CPU has       *)
(* reported a later one; neither has a scan that an interrupt suspends.    *)
(***************************************************************************)
LEMMA RetireSteps ==
    ASSUME IrqCPUs \cap Sleepers = {},
           ReclaimInv, NEW c \in CPU, NEW x \in Contexts,
           DeferLoadEpoch(c, x) \/ DeferPush(c, x)
    PROVE  ReclaimInv'
  <1>1. CASE DeferLoadEpoch(c, x)
    <2>1. PICK n \in Node : retire[c][x].node = n /\ retire[c][x].at = "epoch"
      BY <1>1 DEF DeferLoadEpoch, RetireReady, ReclaimInv, ControlInv
    <2>2. \A d \in CPU, y \in Contexts :
             /\ retire'[d][y].node = retire[d][y].node
             /\ (d # c \/ y # x) => retire'[d][y].at = retire[d][y].at
             /\ retire'[c][x].at = "push"
      BY <1>1 DEF DeferLoadEpoch, ReclaimInv, TypeOK
    <2>3. stamp' = [stamp EXCEPT ![n] = epoch]
      BY <1>1, <2>1 DEF DeferLoadEpoch
    <2>4. UNCHANGED <<epoch, readers, lastQ, bucket, cell, fresh, view, pc, op, reg, todo, list,
                      queue, batch, drops>>
      BY <1>1 DEF DeferLoadEpoch
    <2>5. TypeOK'
      <3>1. stamp' \in [Node -> 0..MaxEpoch]
        BY <2>3 DEF ReclaimInv, TypeOK
      <3>2. retire' \in [CPU -> [Contexts -> [at : {"none", "epoch", "push"}, node : Node \cup {Null}]]]
        <4>1. retire[c][x] \in [at : {"none", "epoch", "push"}, node : Node \cup {Null}]
          BY DEF ReclaimInv, TypeOK
        <4>2. PICK r \in [at : {"none", "epoch", "push"}, node : Node \cup {Null}] :
                 r = [retire[c][x] EXCEPT !.at = "push"]
          BY <4>1
        <4>3. retire' = [retire EXCEPT ![c] = [retire[c] EXCEPT ![x] = r]]
          BY <1>1, <4>2 DEF DeferLoadEpoch
        <4>4. [retire[c] EXCEPT ![x] = r]
                 \in [Contexts -> [at : {"none", "epoch", "push"}, node : Node \cup {Null}]]
          BY DEF ReclaimInv, TypeOK
        <4> QED BY <4>3, <4>4 DEF ReclaimInv, TypeOK
      <3> QED BY <1>1, <3>1, <3>2 DEF DeferLoadEpoch, ReclaimInv, TypeOK
    <2>6. /\ stamp'[n] = epoch
          /\ \A m \in Node : stamp'[m] \in Nat /\ stamp'[m] >= stamp[m] /\ stamp'[m] <= epoch
      BY <2>3, Numbers DEF ReclaimInv, TypeOK, EpochInv
    <2>7. EpochInv'
      BY <2>4, <2>6 DEF ReclaimInv, EpochInv
    <2>8. ControlInv'
      BY <2>1, <2>2, <2>4 DEF ReclaimInv, ControlInv
    <2>9. LiveInv'
      BY <2>2, <2>4 DEF ReclaimInv, LiveInv
    <2>10. \A d \in CPU, m \in Node : Views(d, m)' <=> Views(d, m)
      BY <2>4 DEF Views
    <2>11. ViewInv'
      <3>1. \A m \in Node : Stamped(m)' => Stamped(m) \/ m = n
        BY <2>1, <2>2, <2>4 DEF Stamped
      <3>2. \A d \in CPU, m \in Node : Views(d, m) => lastQ[d] <= epoch
        BY DEF ReclaimInv, EpochInv, Views
      <3>3. \A d \in CPU, m \in Node : Views(d, m) /\ Stamped(m) => lastQ[d] <= stamp'[m]
        BY <2>6, Numbers DEF ReclaimInv, ViewInv
      <3> QED BY <2>4, <2>6, <2>10, <3>1, <3>2, <3>3 DEF ReclaimInv, ViewInv
    <2>12. ScanInv'
      <3>1. \A d \in CPU : pc[d] = "scan" /\ d \in IrqCPUs => reg[d] <= epoch
        BY DEF ReclaimInv, ScanInv
      <3>2. x = "irq" => c \in IrqCPUs
        BY <2>1 DEF ReclaimInv, ControlInv
      <3>3. \A d \in CPU, m \in Node : reg[d] <= stamp[m] => reg[d] <= stamp'[m]
        BY <2>6, Numbers DEF ReclaimInv
      <3>4. \A d, e \in CPU, m \in Node :
              pc[d] = "scan" /\ Views(e, m) /\ retire'[d]["irq"].at = "push"
              /\ retire'[d]["irq"].node = m => reg[d] <= stamp'[m]
        BY <2>1, <2>2, <2>6, <3>1, <3>2, <3>3 DEF ReclaimInv, ScanInv
      <3> QED BY <2>4, <2>10, <3>1, <3>3, <3>4 DEF ReclaimInv, ScanInv
    <2>13. FreeInv'
      BY <2>4 DEF ReclaimInv, FreeInv, Views, Released
    <2> QED BY <2>5, <2>7, <2>8, <2>9, <2>11, <2>12, <2>13 DEF ReclaimInv
  <1>2. CASE DeferPush(c, x)
    BY <1>2 DEF DeferPush, RetireReady, ReclaimInv, TypeOK, EpochInv, ControlInv, LiveInv,
         ViewInv, ScanInv, FreeInv, Views, Stamped, Released
  <1> QED BY <1>1, <1>2

(***************************************************************************)
(* The executor's own steps: rounds, polls, halting.  The drain of a CPU   *)
(* that goes idle may start from no report at all, but no handler retires  *)
(* in the middle of it.                                                    *)
(***************************************************************************)
LEMMA ExecutorSteps ==
    ASSUME IrqCPUs \cap Sleepers = {},
           ReclaimInv, NEW c \in CPU,
           \/ PollTask(c) \/ SkipTask(c) \/ PollReturns(c) \/ PollPreempted(c) \/ PollOther(c)
           \/ NoOthers(c) \/ WakeUp(c) \/ ReportIdle(c) \/ IdleStore(c)
    PROVE  ReclaimInv'
  <1> USE DEF ReclaimInv, TypeOK, EpochInv, ControlInv, LiveInv, ViewInv, ScanInv, FreeInv,
              Views, Stamped, Released
  <1>1. CASE PollTask(c)
    BY <1>1 DEF PollTask
  <1>2. CASE SkipTask(c)
    BY <1>2 DEF SkipTask
  <1>3. CASE PollReturns(c)
    BY <1>3 DEF PollReturns
  <1>4. CASE PollPreempted(c)
    BY <1>4 DEF PollPreempted
  <1>5. CASE PollOther(c)
    BY <1>5 DEF PollOther
  <1>6. CASE NoOthers(c)
    BY <1>6 DEF NoOthers
  <1>7. CASE WakeUp(c)
    BY <1>7 DEF WakeUp
  <1>8. CASE ReportIdle(c)
    BY <1>8 DEF ReportIdle, MayIdle
  <1>9. CASE IdleStore(c)
    BY <1>9 DEF IdleStore
  <1> QED BY <1>1, <1>2, <1>3, <1>4, <1>5, <1>6, <1>7, <1>8, <1>9

(***************************************************************************)
(* Opening an epoch disturbs only what is compared with the current one.   *)
(***************************************************************************)
LEMMA EpochSteps ==
    ASSUME ReclaimInv, NEW c \in CPU, EndRound(c) \/ IdleAdvance(c)
    PROVE  ReclaimInv'
  <1>0. UNCHANGED <<readers, lastQ, bucket, stamp, cell, fresh, view, retire, preempted, op,
                    reg, todo, list, target, blockers, owed, late, queue, batch, drops>>
    BY DEF EndRound, IdleAdvance
  <1>1. /\ pc' \in [CPU -> PCs] /\ \A d \in CPU \ {c} : pc'[d] = pc[d]
        /\ pc[c] \in {"round", "end"} /\ pc'[c] \in {"round", "idle"}
        /\ pc'[c] = "idle" => c \in Sleepers
    <2>1. pc \in [CPU -> PCs]
      BY DEF ReclaimInv, TypeOK
    <2>2. CASE EndRound(c)
      BY <2>1, <2>2 DEF EndRound
    <2>3. CASE IdleAdvance(c)
      BY <2>1, <2>3 DEF IdleAdvance, MayIdle
    <2> QED BY <2>2, <2>3
  <1>2. epoch' \in 1..MaxEpoch /\ epoch' >= epoch
    BY Advances DEF EndRound, IdleAdvance, ReclaimInv
  <1>3. TypeOK'
    BY <1>0, <1>1, <1>2 DEF ReclaimInv, TypeOK
  <1>4. EpochInv'
    BY <1>0, <1>1, <1>2, Numbers DEF ReclaimInv, EpochInv
  <1>5. ControlInv'
    BY <1>0, <1>1 DEF ReclaimInv, ControlInv
  <1>6. LiveInv'
    BY <1>0, <1>1 DEF ReclaimInv, LiveInv
  <1>7. ViewInv' /\ FreeInv'
    BY <1>0, <1>1 DEF ReclaimInv, ViewInv, FreeInv, Views, Stamped, Released
  <1>8. ScanInv'
    BY <1>0, <1>1, <1>2, Numbers DEF ReclaimInv, ScanInv, Views
  <1> QED BY <1>3, <1>4, <1>5, <1>6, <1>7, <1>8 DEF ReclaimInv

(***************************************************************************)
(* report_quiescent: a report is stored without a guard, so it moves no    *)
(* reader past what it views; and it starts a scan at a value no later     *)
(* than the current epoch.                                                 *)
(***************************************************************************)
LEMMA ReportSteps ==
    ASSUME ReclaimInv, NEW c \in CPU, ReportCheck(c) \/ ReportStore(c)
    PROVE  ReclaimInv'
  <1>1. CASE ReportCheck(c) /\ readers[c] # 0
    <2>1. /\ ReturnFromCall(c) /\ pc[c] = "report"
          /\ UNCHANGED <<epoch, readers, lastQ, bucket, stamp, cell, fresh, view, retire,
                         preempted, list, target, blockers, owed, late, queue, batch, drops>>
      BY <1>1 DEF ReportCheck
    <2>2. op[c] \notin SyncOps
      BY <1>1 DEF ReclaimInv, ControlInv
    <2>3. TypeOK'
      BY <2>1, Returns DEF ReclaimInv, TypeOK
    <2>4. EpochInv' /\ ControlInv'
      BY <2>1, <2>2, Returns DEF ReclaimInv, EpochInv, ControlInv
    <2>5. LiveInv'
      BY <2>1 DEF ReclaimInv, LiveInv
    <2>6. ViewInv' /\ FreeInv'
      BY <2>1, Returns DEF ReclaimInv, ViewInv, FreeInv, Views, Stamped, Released
    <2>7. ScanInv'
      BY <2>1, Returns DEF ReclaimInv, ScanInv, Views
    <2> QED BY <2>3, <2>4, <2>5, <2>6, <2>7 DEF ReclaimInv
  <1>2. CASE ReportCheck(c) /\ readers[c] = 0
    <2>1. /\ pc[c] = "report" /\ pc' = [pc EXCEPT ![c] = "report_store"]
          /\ reg' = [reg EXCEPT ![c] = epoch]
          /\ UNCHANGED <<epoch, readers, lastQ, bucket, stamp, cell, fresh, view, retire,
                         preempted, op, todo, list, target, blockers, owed, late, queue, batch, drops>>
      BY <1>2 DEF ReportCheck
    <2>2. TypeOK' /\ EpochInv' /\ ControlInv'
      BY <1>2, <2>1 DEF ReclaimInv, TypeOK, EpochInv, ControlInv
    <2>3. LiveInv'
      BY <2>1 DEF ReclaimInv, LiveInv
    <2>4. ViewInv' /\ FreeInv'
      BY <2>1 DEF ReclaimInv, TypeOK, ViewInv, FreeInv, Views, Stamped, Released
    <2>5. ScanInv'
      BY <2>1 DEF ReclaimInv, TypeOK, ScanInv, Views
    <2> QED BY <2>2, <2>3, <2>4, <2>5 DEF ReclaimInv
  <1>3. CASE ReportStore(c)
    BY <1>3 DEF ReportStore, ReclaimInv, TypeOK, EpochInv, ControlInv, LiveInv, ViewInv,
         ScanInv, FreeInv, Views, Stamped, Released
  <1> QED BY <1>1, <1>2, <1>3 DEF ReportCheck

(***************************************************************************)
(* The scan: once it has read a reader's cell, its minimum is no later     *)
(* than the reader's last report, which is no later than the stamp of      *)
(* anything the reader views.                                              *)
(***************************************************************************)
LEMMA ScanSteps ==
    ASSUME ReclaimInv, NEW c \in CPU, NEW d \in CPU, ScanOne(c, d)
    PROVE  ReclaimInv'
  <1>1. /\ pc[c] = "scan" /\ d \in todo[c]
        /\ UNCHANGED <<epoch, readers, lastQ, bucket, stamp, cell, fresh, view, retire, pc, op,
                       list, preempted, target, blockers, owed, late, queue, batch, drops>>
    BY DEF ScanOne
  <1>2. /\ reg'[c] \in Nat /\ reg'[c] <= reg[c] /\ reg'[c] <= lastQ[d]
        /\ \A e \in CPU \ {c} : reg'[e] = reg[e] /\ todo'[e] = todo[e]
        /\ todo'[c] = todo[c] \ {d}
    BY Numbers DEF ScanOne, ReclaimInv, TypeOK
  <1>3. TypeOK'
    BY <1>1 DEF ScanOne, ReclaimInv, TypeOK
  <1>4. EpochInv' /\ ControlInv' /\ LiveInv'
    BY <1>1, <1>2 DEF ReclaimInv, EpochInv, ControlInv, LiveInv
  <1>5. ViewInv' /\ FreeInv'
    BY <1>1 DEF ReclaimInv, ViewInv, FreeInv, Views, Stamped, Released
  <1>6. ScanInv'
    <2>1. \A e \in CPU : reg'[e] \in Nat /\ reg'[e] <= reg[e]
      BY <1>2, Numbers DEF ReclaimInv
    <2>2. \A e \in CPU : pc[e] = "scan" /\ e \in IrqCPUs => reg'[e] <= epoch
      BY <2>1, Numbers DEF ReclaimInv, ScanInv
    <2>3. ASSUME NEW a \in CPU, NEW b \in CPU, NEW n \in Node, Views(b, n)
          PROVE  /\ pc[a] = "scan" /\ n \in bucket[a] /\ b \notin todo'[a] => reg'[a] <= stamp[n]
                 /\ pc[a] = "scan" /\ retire[a]["irq"].at = "push" /\ retire[a]["irq"].node = n
                       => reg'[a] <= stamp[n]
                 /\ pc[a] = "split" /\ n \in list[a] => reg'[a] <= stamp[n]
      <3>1. reg[a] <= stamp[n] => reg'[a] <= stamp[n]
        BY <2>1, Numbers DEF ReclaimInv
      <3>2. /\ pc[a] = "scan" /\ n \in bucket[a] /\ b \notin todo[a] => reg[a] <= stamp[n]
            /\ pc[a] = "scan" /\ retire[a]["irq"].at = "push" /\ retire[a]["irq"].node = n
                  => reg[a] <= stamp[n]
            /\ pc[a] = "split" /\ n \in list[a] => reg[a] <= stamp[n]
        BY <2>3 DEF ReclaimInv, ScanInv
      <3>3. n \in bucket[a] => lastQ[b] <= stamp[n]
        BY <2>3 DEF ReclaimInv, ViewInv, Stamped
      <3>4. a = c /\ b = d /\ n \in bucket[a] => reg'[a] <= stamp[n]
        BY <1>2, <3>3, Numbers DEF ReclaimInv
      <3> QED BY <1>2, <3>1, <3>2, <3>4
    <2> QED BY <1>1, <2>2, <2>3 DEF ScanInv, Views
  <1> QED BY <1>3, <1>4, <1>5, <1>6 DEF ReclaimInv

(***************************************************************************)
(* A drain detaches only when its scan has passed every CPU.               *)
(***************************************************************************)
LEMMA DetachStep ==
    ASSUME ReclaimInv, NEW c \in CPU, Detach(c)
    PROVE  ReclaimInv'
  BY DEF Detach, ReclaimInv, TypeOK, EpochInv, ControlInv, LiveInv, ViewInv, ScanInv, FreeInv,
         Views, Stamped, Released

(***************************************************************************)
(* What a drain lets go has elapsed, so nobody views it; what it keeps     *)
(* goes back to the bucket as it was.                                      *)
(***************************************************************************)
LEMMA SplitStep ==
    ASSUME ReclaimInv, NEW c \in CPU, Split(c)
    PROVE  ReclaimInv'
  <1> DEFINE ready == {n \in list[c] : stamp[n] < reg[c]}
  <1>1. /\ pc[c] = "split"
        /\ UNCHANGED <<epoch, readers, lastQ, stamp, cell, fresh, view, retire, preempted,
                       target, blockers, owed, late, batch, drops>>
        /\ bucket' = [bucket EXCEPT ![c] = bucket[c] \cup (list[c] \ ready)]
    BY DEF Split, SplitOnto, Elapsed
  <1>2. \/ /\ list' = [list EXCEPT ![c] = ready] /\ pc' = [pc EXCEPT ![c] = "drop"]
           /\ UNCHANGED <<op, reg, todo, queue>>
        \/ /\ list' = [list EXCEPT ![c] = {}] /\ ReturnFromCall(c)
           /\ queue' = [queue EXCEPT ![WorkerOf[c]] = queue[WorkerOf[c]] \cup ready]
    BY DEF Split, SplitOnto, Elapsed, Offload, QueuePush
  <1>3. ready \subseteq list[c] /\ ready \subseteq Node
    BY DEF ReclaimInv, TypeOK
  <1>4. \A d \in CPU, n \in Node : Views(d, n) => n \notin ready
    BY <1>1, Numbers DEF ReclaimInv, ScanInv
  <1> HIDE DEF ready
  <1>5. /\ \A d \in CPU \ {c} : /\ pc'[d] = pc[d] /\ op'[d] = op[d] /\ reg'[d] = reg[d]
                                /\ todo'[d] = todo[d]
                                /\ bucket'[d] = bucket[d] /\ list'[d] = list[d]
        /\ bucket'[c] \subseteq bucket[c] \cup list[c]
        /\ list'[c] \subseteq ready
    <2>1. \A d \in CPU \ {c} : pc'[d] = pc[d] /\ op'[d] = op[d] /\ reg'[d] = reg[d] /\ todo'[d] = todo[d]
      <3>1. CASE pc' = [pc EXCEPT ![c] = "drop"] /\ UNCHANGED <<op, reg, todo>>
        BY <3>1 DEF ReclaimInv, TypeOK
      <3>2. CASE ReturnFromCall(c)
        BY <3>2, Returns DEF ReclaimInv
      <3> QED BY <1>2, <3>1, <3>2
    <2>2. bucket'[c] \subseteq bucket[c] \cup list[c] /\ \A d \in CPU \ {c} : bucket'[d] = bucket[d]
      BY <1>1 DEF ReclaimInv, TypeOK
    <2>3. list'[c] \subseteq ready /\ \A d \in CPU \ {c} : list'[d] = list[d]
      BY <1>2 DEF ReclaimInv, TypeOK
    <2> QED BY <2>1, <2>2, <2>3
  <1>6. \A w \in Worker : queue'[w] \subseteq queue[w] \cup ready
    <2>1. queue \in [Worker -> SUBSET Node]
      BY DEF ReclaimInv, TypeOK
    <2> QED BY <1>2, <2>1
  <1>7. /\ pc'[c] \in {"drop", "others", "end", "idle_store", "sync_check", "sync_take"}
        /\ op[c] \in SyncOps <=> op'[c] \in SyncOps
        /\ op[c] = "idle" <=> op'[c] = "idle"
        /\ pc'[c] \in {"sync_check", "sync_take"} => op[c] \in SyncOps
        /\ pc'[c] \in {"others", "end", "idle_store"} => op[c] \notin SyncOps
        /\ pc'[c] = "idle_store" => op[c] = "idle"
    <2>1. CASE pc' = [pc EXCEPT ![c] = "drop"] /\ UNCHANGED <<op, reg, todo>>
      BY <2>1 DEF ReclaimInv, TypeOK
    <2>2. CASE ReturnFromCall(c)
      BY <2>2, Returns DEF ReclaimInv
    <2> QED BY <1>2, <2>1, <2>2
  <1>8. TypeOK'
    <2>1. bucket' \in [CPU -> SUBSET Node] /\ list' \in [CPU -> SUBSET Node]
      <3>1. bucket \in [CPU -> SUBSET Node] /\ list \in [CPU -> SUBSET Node]
        BY DEF ReclaimInv, TypeOK
      <3>2. list[c] \ ready \subseteq Node
        BY <3>1
      <3>3. bucket' \in [CPU -> SUBSET Node]
        BY <1>1, <3>1, <3>2
      <3>4. list' \in [CPU -> SUBSET Node]
        BY <1>2, <1>3, <3>1
      <3> QED BY <3>3, <3>4
    <2>2. queue' \in [Worker -> SUBSET Node]
      <3>1. queue \in [Worker -> SUBSET Node]
        BY DEF ReclaimInv, TypeOK
      <3> QED BY <1>2, <1>3, <3>1
    <2>3. /\ pc' \in [CPU -> PCs] /\ op' \in [CPU -> Ops]
          /\ reg' \in [CPU -> 0..MaxEpoch \cup {Inactive}]
          /\ todo' \in [CPU -> SUBSET (CPU \cup Worker)]
      <3>1. CASE ReturnFromCall(c)
        BY <3>1, Returns DEF ReclaimInv
      <3>2. CASE pc' = [pc EXCEPT ![c] = "drop"] /\ UNCHANGED <<op, reg, todo>>
        BY <3>2 DEF ReclaimInv, TypeOK
      <3> QED BY <1>2, <3>1, <3>2
    <2> QED BY <1>1, <2>1, <2>2, <2>3 DEF ReclaimInv, TypeOK
  <1>9. EpochInv'
    BY <1>1, <1>5, <1>7 DEF ReclaimInv, EpochInv
  <1>10. ControlInv'
    BY <1>1, <1>5, <1>7 DEF ReclaimInv, ControlInv
  <1>11. LiveInv'
    BY <1>1, <1>3, <1>5, <1>6 DEF ReclaimInv, LiveInv
  <1>12. \A n \in Node : Stamped(n)' => Stamped(n)
    BY <1>1, <1>5, <1>7 DEF Stamped
  <1>13. ViewInv'
    BY <1>1, <1>12 DEF ReclaimInv, ViewInv, Views
  <1>14. ScanInv'
    BY <1>1, <1>5, <1>7 DEF ReclaimInv, ScanInv, Views
  <1>15. FreeInv'
    <2>1. \A n \in Node : Released(n)' => Released(n) \/ n \in ready
      BY <1>1, <1>5, <1>6 DEF Released
    <2> QED BY <1>1, <1>4, <2>1 DEF ReclaimInv, FreeInv, Views
  <1> QED BY <1>8, <1>9, <1>10, <1>11, <1>13, <1>14, <1>15 DEF ReclaimInv

(***************************************************************************)
(* Running a dropper: what it drops had been let go.                       *)
(***************************************************************************)
LEMMA DropperSteps ==
    ASSUME ReclaimInv, NEW n \in Node,
           \/ \E c \in CPU : RunDropper(c, n)
           \/ \E w \in Worker : WorkerRunDropper(w, n)
    PROVE  ReclaimInv'
  <1>1. /\ drops' = [drops EXCEPT ![n] = @ + 1] /\ stamp' = [stamp EXCEPT ![n] = 0]
        /\ UNCHANGED <<epoch, readers, lastQ, bucket, cell, fresh, view, retire, preempted,
                       target, blockers, owed, late, queue>>
    BY DEF RunDropper, WorkerRunDropper, Drop
  <1>2. Released(n)
    BY DEF RunDropper, WorkerRunDropper, Released
  <1>3. \A m \in Node : (m # n => stamp'[m] = stamp[m] /\ drops'[m] = drops[m]) /\ stamp'[n] = 0
    BY <1>1 DEF ReclaimInv, TypeOK
  <1>4. n # cell /\ n \notin fresh
    BY <1>2 DEF ReclaimInv, TypeOK, LiveInv, Released
  <1>5. \A d \in CPU : ~Views(d, n)
    BY <1>2 DEF ReclaimInv, FreeInv
  <1>6. drops' \in [Node -> Nat] /\ stamp' \in [Node -> 0..MaxEpoch]
    BY <1>1 DEF ReclaimInv, TypeOK
  <1>7. /\ pc' \in [CPU -> PCs] /\ op' \in [CPU -> Ops]
        /\ reg' \in [CPU -> 0..MaxEpoch \cup {Inactive}]
        /\ todo' \in [CPU -> SUBSET (CPU \cup Worker)]
        /\ list' \in [CPU -> SUBSET Node] /\ batch' \in [Worker -> SUBSET Node]
        /\ \A d \in CPU : list'[d] \subseteq list[d]
        /\ \A w \in Worker : batch'[w] \subseteq batch[w]
        /\ \A d \in CPU :
              \/ pc'[d] = pc[d] /\ op'[d] = op[d] /\ reg'[d] = reg[d] /\ todo'[d] = todo[d]
              \/ /\ pc[d] = "drop"
                 /\ pc'[d] \in {"others", "end", "idle_store", "sync_check", "sync_take"}
                 /\ op[d] \in SyncOps <=> op'[d] \in SyncOps
                 /\ op[d] = "idle" <=> op'[d] = "idle"
                 /\ pc'[d] \in {"sync_check", "sync_take"} => op[d] \in SyncOps
                 /\ pc'[d] \in {"others", "end", "idle_store"} => op[d] \notin SyncOps
                 /\ pc'[d] = "idle_store" => op[d] = "idle"
    <2>1. CASE \E w \in Worker : WorkerRunDropper(w, n)
      BY <2>1 DEF WorkerRunDropper, ReclaimInv, TypeOK
    <2>2. CASE \E c \in CPU : RunDropper(c, n)
      <3>1. PICK c \in CPU : RunDropper(c, n)
        BY <2>2
      <3>2. pc[c] = "drop" /\ list' = [list EXCEPT ![c] = @ \ {n}] /\ UNCHANGED batch
        BY <3>1 DEF RunDropper
      <3>3. CASE list[c] = {n}
        <4>1. ReturnFromCall(c)
          BY <3>1, <3>3 DEF RunDropper
        <4> QED BY <3>2, <4>1, Returns DEF ReclaimInv, TypeOK
      <3>4. CASE list[c] # {n}
        BY <3>1, <3>2, <3>4 DEF RunDropper, ReclaimInv, TypeOK
      <3> QED BY <3>3, <3>4
    <2> QED BY <2>1, <2>2
  <1>8. TypeOK'
    BY <1>1, <1>6, <1>7 DEF ReclaimInv, TypeOK
  <1>9. EpochInv'
    BY <1>1, <1>3, <1>7, Numbers DEF ReclaimInv, EpochInv
  <1>10. ControlInv'
    BY <1>1, <1>7 DEF ReclaimInv, ControlInv
  <1>11. LiveInv'
    BY <1>1, <1>3, <1>4, <1>7 DEF ReclaimInv, LiveInv
  <1>12. ViewInv'
    <2>1. \A m \in Node : Stamped(m)' => Stamped(m)
      BY <1>1, <1>7 DEF Stamped
    <2> QED BY <1>1, <1>3, <1>5, <2>1 DEF ReclaimInv, ViewInv, Views
  <1>13. ScanInv'
    <2>1. \A a \in CPU : pc'[a] \in {"scan", "split"} =>
             pc[a] = pc'[a] /\ reg'[a] = reg[a] /\ todo'[a] = todo[a]
      BY <1>7
    <2>2. \A a \in CPU : list'[a] \subseteq list[a]
      BY <1>7
    <2>3. \A b \in CPU, m \in Node : Views(b, m)' => Views(b, m) /\ stamp'[m] = stamp[m]
      BY <1>1, <1>3, <1>5 DEF Views
    <2> QED BY <1>1, <2>1, <2>2, <2>3 DEF ReclaimInv, ScanInv
  <1>14. FreeInv'
    <2>1. \A m \in Node : Released(m)' => Released(m) \/ m = n
      BY <1>1, <1>3, <1>7 DEF Released
    <2> QED BY <1>1, <1>5, <2>1 DEF ReclaimInv, FreeInv, Views
  <1> QED BY <1>8, <1>9, <1>10, <1>11, <1>12, <1>13, <1>14 DEF ReclaimInv

(***************************************************************************)
(* sync_until and the workers' hand-over.  A sync runs without a guard,    *)
(* and its last drain starts from a report of its own CPU.                 *)
(***************************************************************************)
LEMMA SyncSteps ==
    ASSUME IrqCPUs \cap Sleepers = {},
           ReclaimInv, NEW c \in CPU,
           \/ SyncStart(c) \/ (\E d \in CPU : SyncCheckOne(c, d)) \/ SyncNotYet(c)
           \/ SyncDeadline(c) \/ SyncElapsed(c) \/ (\E w \in Worker : SyncTake(c, w))
           \/ SyncReturn(c)
    PROVE  ReclaimInv'
  <1>1. CASE SyncStart(c)
    <2>1. /\ pc[c] = "poll" /\ pc' = [pc EXCEPT ![c] = "report"] /\ readers[c] = 0
          /\ op' = [op EXCEPT ![c] = "sync"] /\ epoch < MaxEpoch /\ epoch' = epoch + 1
          /\ UNCHANGED <<readers, lastQ, bucket, stamp, cell, fresh, view, retire, preempted,
                         reg, todo, list, queue, batch, drops>>
      BY <1>1 DEF SyncStart, SyncTo
    <2>2. TypeOK'
      BY <1>1, <2>1 DEF SyncStart, SyncTo, ReclaimInv, TypeOK
    <2>3. \A d \in CPU : /\ d # c => pc'[d] = pc[d] /\ op'[d] = op[d]
                         /\ pc'[c] = "report" /\ op'[c] = "sync"
      BY <2>1 DEF ReclaimInv, TypeOK
    <2>4. EpochInv'
      BY <2>1, <2>3, Numbers DEF ReclaimInv, EpochInv
    <2>5. ControlInv'
      BY <2>1, <2>3 DEF ReclaimInv, ControlInv
    <2>6. LiveInv'
      BY <2>1 DEF ReclaimInv, LiveInv
    <2>7. ViewInv' /\ FreeInv'
      BY <2>1, <2>3 DEF ReclaimInv, ViewInv, FreeInv, Views, Stamped, Released
    <2>8. ScanInv'
      BY <2>1, <2>3, Numbers DEF ReclaimInv, ScanInv, Views
    <2> QED BY <2>2, <2>4, <2>5, <2>6, <2>7, <2>8 DEF ReclaimInv
  <1>2. CASE SyncElapsed(c)
    <2>1. /\ pc[c] = "sync_check" /\ pc' = [pc EXCEPT ![c] = "scan"]
          /\ op' = [op EXCEPT ![c] = "final"] /\ reg' = [reg EXCEPT ![c] = lastQ[c]]
          /\ todo' = [todo EXCEPT ![c] = CPU \ {c}] /\ retire[c]["irq"].at = "none"
          /\ UNCHANGED <<epoch, readers, lastQ, bucket, stamp, cell, fresh, view, retire,
                         preempted, list, target, blockers, owed, late, queue, batch, drops>>
      BY <1>2 DEF SyncElapsed
    <2>2. TypeOK'
      BY <2>1 DEF ReclaimInv, TypeOK
    <2>3. \A d \in CPU : /\ d # c => /\ pc'[d] = pc[d] /\ op'[d] = op[d]
                                     /\ reg'[d] = reg[d] /\ todo'[d] = todo[d]
                         /\ pc'[c] = "scan" /\ op'[c] = "final" /\ reg'[c] = lastQ[c]
                         /\ todo'[c] = CPU \ {c}
      BY <2>1 DEF ReclaimInv, TypeOK
    <2>4. EpochInv' /\ LiveInv'
      BY <2>1, <2>3 DEF ReclaimInv, EpochInv, LiveInv
    <2>5. ControlInv'
      BY <2>1, <2>3 DEF ReclaimInv, ControlInv
    <2>6. ViewInv' /\ FreeInv'
      BY <2>1, <2>3 DEF ReclaimInv, ViewInv, FreeInv, Views, Stamped, Released
    <2>7. ScanInv'
      <3>1. c \in IrqCPUs => lastQ[c] <= epoch
        BY <2>1 DEF ReclaimInv, EpochInv, ControlInv
      <3>2. \A n \in Node : Views(c, n) /\ n \in bucket[c] => lastQ[c] <= stamp[n]
        BY DEF ReclaimInv, ViewInv, Stamped
      <3> QED BY <2>1, <2>3, <3>1, <3>2 DEF ReclaimInv, ScanInv, Views
    <2> QED BY <2>2, <2>4, <2>5, <2>6, <2>7 DEF ReclaimInv
  <1> USE DEF ReclaimInv, TypeOK, EpochInv, ControlInv, LiveInv, ViewInv, ScanInv, FreeInv,
              Views, Stamped, Released
  <1>3. CASE \E d \in CPU : SyncCheckOne(c, d)
    BY <1>3 DEF SyncCheckOne
  <1>4. CASE SyncNotYet(c)
    BY <1>4 DEF SyncNotYet
  <1>5. CASE SyncDeadline(c)
    BY <1>5 DEF SyncDeadline, SyncForget
  <1>6. CASE \E w \in Worker : SyncTake(c, w)
    BY <1>6 DEF SyncTake
  <1>7. CASE SyncReturn(c)
    BY <1>7 DEF SyncReturn, SyncForget
  <1> QED BY <1>1, <1>2, <1>3, <1>4, <1>5, <1>6, <1>7

(***************************************************************************)
(* A worker takes its whole queue off.                                     *)
(***************************************************************************)
LEMMA WorkerTakeStep ==
    ASSUME ReclaimInv, NEW w \in Worker, WorkerTake(w)
    PROVE  ReclaimInv'
  BY DEF WorkerTake, ReclaimInv, TypeOK, EpochInv, ControlInv, LiveInv, ViewInv, ScanInv,
         FreeInv, Views, Stamped, Released

(***************************************************************************)
(* Every step keeps the invariant, where no CPU that sleeps retires nodes  *)
(* from interrupt handlers.                                                *)
(***************************************************************************)
LEMMA ReclaimStep ==
    ASSUME IrqCPUs \cap Sleepers = {}, ReclaimInv, [Next]_vars
    PROVE  ReclaimInv'
  <1>1. CASE UNCHANGED vars
    BY <1>1 DEF vars, ReclaimInv, TypeOK, EpochInv, ControlInv, LiveInv, ViewInv, ScanInv,
         FreeInv, Views, Stamped, Released
  <1>2. ASSUME NEW c \in CPU, TaskMoves(c) PROVE ReclaimInv'
    BY <1>2, ReaderSteps, WriterSteps, RetireSteps, ExecutorSteps, SyncSteps
       DEF TaskMoves, TaskRetires, ReclaimInv, TypeOK
  <1>3. ASSUME NEW c \in CPU, ExecutorStep(c) \/ WakeUp(c) PROVE ReclaimInv'
    BY <1>3, ExecutorSteps, EpochSteps, ReportSteps, ScanSteps, DetachStep, SplitStep,
       DropperSteps DEF ExecutorStep
  <1>4. ASSUME NEW c \in CPU, SyncStep(c) PROVE ReclaimInv'
    BY <1>4, SyncSteps DEF SyncStep
  <1>5. ASSUME NEW c \in CPU, IrqRetires(c) \/ \E n \in fresh \cup {Null} : IrqStore(c, n)
        PROVE  ReclaimInv'
    BY <1>5, WriterSteps, RetireSteps DEF IrqRetires
  <1>6. ASSUME NEW w \in Worker, WorkerStep(w) PROVE ReclaimInv'
    BY <1>6, WorkerTakeStep, DropperSteps DEF WorkerStep
  <1> QED BY <1>1, <1>2, <1>3, <1>4, <1>5, <1>6 DEF Next

(***************************************************************************)
(* The invariant of reclamation: in every reachable state a reader's CPU   *)
(* has reported nothing later than the stamp of what it views, no scan     *)
(* that has passed it has a later minimum, and what is let go is viewed    *)
(* by nobody.                                                              *)
(***************************************************************************)
THEOREM Invariance ==
    ASSUME IrqCPUs \cap Sleepers = {}
    PROVE  Spec => []ReclaimInv
  <1>1. ReclaimInv /\ [Next]_vars => ReclaimInv'
    BY ReclaimStep
  <1> QED BY <1>1, ReclaimInit, PTL DEF Spec

(***************************************************************************)
(* Every variable of the reclamation keeps its type: no CPU reports an     *)
(* epoch that was never opened.                                            *)
(***************************************************************************)
THEOREM TypeCorrect ==
    ASSUME IrqCPUs \cap Sleepers = {}
    PROVE  Spec => []TypeOK
  <1>1. ReclaimInv => TypeOK
    BY DEF ReclaimInv
  <1> QED BY <1>1, Invariance, PTL

(***************************************************************************)
(* Shared::as_ref: what a guard on a CPU that takes part in grace periods  *)
(* has loaded is not dropped while the guard lives, however its task is    *)
(* preempted and whatever other CPUs, handlers and workers drain.          *)
(***************************************************************************)
THEOREM ReaderProtectedHolds ==
    ASSUME IrqCPUs \cap Sleepers = {}
    PROVE  Spec => []ReaderProtected
  <1>1. ReclaimInv => ReaderProtected
    BY DEF ReclaimInv, TypeOK, FreeInv, Views, Released, ReaderProtected
  <1> QED BY <1>1, Invariance, PTL
=============================================================================
