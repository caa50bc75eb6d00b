--------------------------- MODULE QsbrSyncProofs ---------------------------
(***************************************************************************)
(* Why every node has one home until it is dropped, once, and why sync()   *)
(* outlives the readers it found and leaves none of its CPU's nodes in a   *)
(* bucket or a queue, for any number of CPUs, nodes and workers.           *)
(***************************************************************************)
EXTENDS QsbrProofs, FiniteSetTheorems

USE QsbrAssumption DEF cellVars, callVars, syncVars, offVars, Contexts, NotRetiring,
    Running, At, Goto, InTask, StartCall, SyncOps

----------------------------------------------------------------------------
(* Homes. *)

\* One of the places Homes(n) lists, or where a dropped node is; a and x say
\* which one of its kind.
Sits(n, k, a, x) ==
    \/ k = "cell" /\ a = Null /\ x = Null /\ cell = n
    \/ k = "fresh" /\ a = Null /\ x = Null /\ n \in fresh
    \/ k = "gone" /\ a = Null /\ x = Null /\ drops[n] # 0
    \/ k = "retire" /\ a \in CPU /\ x \in Contexts /\ retire[a][x].node = n
    \/ k = "bucket" /\ a \in CPU /\ x = Null /\ n \in bucket[a]
    \/ k = "list" /\ a \in CPU /\ x = Null /\ n \in list[a]
    \/ k = "queue" /\ a \in Worker /\ x = Null /\ n \in queue[a]
    \/ k = "batch" /\ a \in Worker /\ x = Null /\ n \in batch[a]

Only(n, k, a, x) ==
    /\ Sits(n, k, a, x)
    /\ \A k2, a2, x2 : Sits(n, k2, a2, x2) => k2 = k /\ a2 = a /\ x2 = x

OneHome(n) == \E k, a, x : Only(n, k, a, x)
HomeInv == \A n \in Node : OneHome(n) /\ drops[n] <= 1

\* What a step does to a node's home: nothing, or it moves it there.
Stays(n) == \A k, a, x : Sits(n, k, a, x)' <=> Sits(n, k, a, x)
MovesTo(n, k, a, x) == \A k2, a2, x2 : Sits(n, k2, a2, x2)' <=> (k2 = k /\ a2 = a /\ x2 = x)

\* If each node stays or moves to one place, each still has one home.
LEMMA HomesStay ==
    ASSUME HomeInv, \A n \in Node : drops'[n] = drops[n] \/ drops'[n] <= 1,
           \A n \in Node : Stays(n) \/ \E k, a, x : MovesTo(n, k, a, x)
    PROVE  HomeInv'
  <1> SUFFICES ASSUME NEW n \in Node PROVE OneHome(n)'
    BY DEF HomeInv
  <1>1. CASE Stays(n)
    <2>1. PICK k, a, x : Only(n, k, a, x)
      BY DEF HomeInv, OneHome
    <2>2. Only(n, k, a, x)'
      BY <1>1, <2>1 DEF Only, Stays
    <2> QED BY <2>2 DEF OneHome
  <1>2. CASE \E k, a, x : MovesTo(n, k, a, x)
    <2>1. PICK k, a, x : MovesTo(n, k, a, x)
      BY <1>2
    <2>2. Only(n, k, a, x)'
      BY <2>1 DEF Only, MovesTo
    <2> QED BY <2>2 DEF OneHome
  <1> QED BY <1>1, <1>2

(***************************************************************************)
(* A node sits nowhere else.                                               *)
(***************************************************************************)
LEMMA SitsOnce ==
    ASSUME HomeInv, NEW n \in Node, NEW k, NEW a, NEW x, Sits(n, k, a, x)
    PROVE  \A k2, a2, x2 : Sits(n, k2, a2, x2) => k2 = k /\ a2 = a /\ x2 = x
  <1>1. PICK k1, a1, x1 : Only(n, k1, a1, x1)
    BY DEF HomeInv, OneHome
  <1>2. k = k1 /\ a = a1 /\ x = x1
    BY <1>1 DEF Only
  <1> QED BY <1>1, <1>2 DEF Only

----------------------------------------------------------------------------
(* Steps that move no node. *)

SamePlaces ==
    /\ UNCHANGED <<cell, fresh, bucket, list, queue, batch, drops>>
    /\ \A c \in CPU, x \in Contexts : retire'[c][x].node = retire[c][x].node

\* A step that moves no node keeps the homes.
LEMMA SamePlacesHomes ==
    ASSUME HomeInv, SamePlaces
    PROVE  HomeInv'
  <1>1. \A n \in Node : Stays(n)
    BY DEF SamePlaces, Stays, Sits
  <1> QED BY <1>1, HomesStay DEF SamePlaces

----------------------------------------------------------------------------
(* Steps that move nodes. *)

\* A swap takes `new' out of the fresh nodes and the old value to a retirement.
LEMMA SwapHomes ==
    ASSUME TypeOK, LocalInv, HomeInv, NEW c \in CPU, NEW x \in Contexts,
           NEW new \in fresh \cup {Null}, retire[c][x].at = "none", Swap(c, x, new)
    PROVE  HomeInv'
  <1>1. /\ cell' = new /\ fresh' = fresh \ {new} /\ new # cell /\ new \in Node \cup {Null}
        /\ UNCHANGED <<bucket, list, queue, batch, drops>>
    BY DEF Swap, TypeOK
  <1>2. retire[c][x].node = Null
    BY DEF LocalInv
  <1>3. \A d \in CPU, y \in Contexts :
           \/ retire'[d][y].node = retire[d][y].node /\ (d = c /\ y = x => cell \notin Node)
           \/ d = c /\ y = x /\ cell \in Node /\ retire'[d][y].node = cell
    BY <1>2 DEF Swap, StartRetire, TypeOK
  <1>4. ASSUME NEW n \in Node, n # new, n # cell PROVE Stays(n)
    <2>1. \A d \in CPU, y \in Contexts : retire'[d][y].node = n <=> retire[d][y].node = n
      BY <1>2, <1>3, <1>4
    <2> QED BY <1>1, <1>4, <2>1 DEF Stays, Sits
  <1>5. ASSUME new \in Node PROVE MovesTo(new, "cell", Null, Null)
    <2>1. Sits(new, "fresh", Null, Null)
      BY <1>5 DEF Sits
    <2>2. \A k, a, y : Sits(new, k, a, y) => k = "fresh"
      BY <1>5, <2>1, SitsOnce
    <2>3. /\ new \notin fresh' /\ drops[new] = 0
          /\ \A d \in CPU, y \in Contexts : retire[d][y].node # new
          /\ \A d \in CPU : new \notin bucket[d] /\ new \notin list[d]
          /\ \A w \in Worker : new \notin queue[w] /\ new \notin batch[w]
      BY <1>1, <2>2 DEF Sits
    <2>4. \A d \in CPU, y \in Contexts : retire'[d][y].node # new
      BY <1>1, <1>3, <2>3
    <2> QED BY <1>1, <2>3, <2>4 DEF MovesTo, Sits
  <1>6. ASSUME cell \in Node PROVE MovesTo(cell, "retire", c, x)
    <2>1. PICK n \in Node : n = cell
      BY <1>6
    <2>2. Sits(n, "cell", Null, Null)
      BY <2>1 DEF Sits
    <2>3. \A k, a, y : Sits(n, k, a, y) => k = "cell"
      BY <2>1, <2>2, SitsOnce
    <2>4. /\ n \notin fresh /\ drops[n] = 0
          /\ \A d \in CPU, y \in Contexts : retire[d][y].node # n
          /\ \A d \in CPU : n \notin bucket[d] /\ n \notin list[d]
          /\ \A w \in Worker : n \notin queue[w] /\ n \notin batch[w]
      BY <2>3 DEF Sits
    <2>5. \A d \in CPU, y \in Contexts : retire'[d][y].node = n <=> d = c /\ y = x
      BY <1>3, <2>1, <2>4
    <2>6. MovesTo(n, "retire", c, x)
      BY <1>1, <2>1, <2>4, <2>5 DEF MovesTo, Sits
    <2> QED BY <2>1, <2>6
  <1>7. ASSUME NEW n \in Node PROVE Stays(n) \/ \E k, a, y : MovesTo(n, k, a, y)
    BY <1>4, <1>5, <1>6
  <1> QED BY <1>1, <1>7, HomesStay

\* defer_drop takes a fresh node straight to a retirement.
LEMMA DeferDropHomes ==
    ASSUME TypeOK, LocalInv, HomeInv, NEW c \in CPU, NEW n \in fresh, DeferDrop(c, n)
    PROVE  HomeInv'
  <1>1. /\ n \in Node /\ n # Null /\ fresh' = fresh \ {n}
        /\ UNCHANGED <<cell, bucket, list, queue, batch, drops>>
    BY DEF DeferDrop, TypeOK
  <1>2. /\ retire'[c]["task"].node = n /\ retire[c]["task"].node = Null
        /\ \A d \in CPU, y \in Contexts : ~(d = c /\ y = "task") => retire'[d][y] = retire[d][y]
    BY <1>1 DEF DeferDrop, StartRetire, TypeOK, LocalInv
  <1>3. ASSUME NEW m \in Node, m # n PROVE Stays(m)
    BY <1>1, <1>2, <1>3 DEF Stays, Sits
  <1>4. MovesTo(n, "retire", c, "task")
    <2>1. Sits(n, "fresh", Null, Null)
      BY DEF Sits
    <2>2. \A k, a, y : Sits(n, k, a, y) => k = "fresh"
      BY <1>1, <2>1, SitsOnce
    <2>3. /\ cell # n /\ drops[n] = 0
          /\ \A d \in CPU, y \in Contexts : retire[d][y].node # n
          /\ \A d \in CPU : n \notin bucket[d] /\ n \notin list[d]
          /\ \A w \in Worker : n \notin queue[w] /\ n \notin batch[w]
      BY <2>2 DEF Sits
    <2>4. \A d \in CPU, y \in Contexts : retire'[d][y].node = n <=> d = c /\ y = "task"
      BY <1>2, <2>3
    <2> QED BY <1>1, <2>3, <2>4 DEF MovesTo, Sits
  <1> QED BY <1>1, <1>3, <1>4, HomesStay

\* The push takes the retiring node to its CPU's bucket.
LEMMA DeferPushHomes ==
    ASSUME TypeOK, ControlInv, HomeInv, NEW c \in CPU, NEW x \in Contexts, DeferPush(c, x)
    PROVE  HomeInv'
  <1>1. PICK n \in Node : n = retire[c][x].node
    BY DEF DeferPush, RetireReady, ControlInv
  <1>2. /\ retire'[c][x].node = Null /\ bucket'[c] = bucket[c] \cup {n} /\ n # Null
        /\ \A d \in CPU, y \in Contexts : ~(d = c /\ y = x) => retire'[d][y] = retire[d][y]
        /\ \A d \in CPU \ {c} : bucket'[d] = bucket[d]
        /\ UNCHANGED <<cell, fresh, list, queue, batch, drops>>
    BY <1>1 DEF DeferPush, TypeOK
  <1>3. ASSUME NEW m \in Node, m # n PROVE Stays(m)
    BY <1>1, <1>2, <1>3 DEF Stays, Sits
  <1>4. MovesTo(n, "bucket", c, Null)
    <2>1. Sits(n, "retire", c, x)
      BY <1>1 DEF Sits
    <2>2. \A k, a, y : Sits(n, k, a, y) => k = "retire" /\ a = c /\ y = x
      BY <2>1, SitsOnce
    <2>3. /\ cell # n /\ n \notin fresh /\ drops[n] = 0
          /\ \A d \in CPU, y \in Contexts : retire[d][y].node = n => d = c /\ y = x
          /\ \A d \in CPU : n \notin bucket[d] /\ n \notin list[d]
          /\ \A w \in Worker : n \notin queue[w] /\ n \notin batch[w]
      BY <2>2 DEF Sits
    <2>4. \A d \in CPU, y \in Contexts : retire'[d][y].node # n
      BY <1>2, <2>3
    <2> QED BY <1>2, <2>3, <2>4 DEF MovesTo, Sits
  <1> QED BY <1>2, <1>3, <1>4, HomesStay

\* The detach takes the whole bucket to the drain's list.
LEMMA DetachHomes ==
    ASSUME TypeOK, LocalInv, HomeInv, NEW c \in CPU, Detach(c)
    PROVE  HomeInv'
  <1>1. /\ list'[c] = bucket[c] /\ bucket'[c] = {} /\ list[c] = {}
        /\ \A d \in CPU \ {c} : bucket'[d] = bucket[d] /\ list'[d] = list[d]
        /\ UNCHANGED <<cell, fresh, retire, queue, batch, drops>>
    BY DEF Detach, TypeOK, LocalInv
  <1>2. ASSUME NEW m \in Node, m \notin bucket[c] PROVE Stays(m)
    BY <1>1, <1>2 DEF Stays, Sits
  <1>3. ASSUME NEW n \in Node, n \in bucket[c] PROVE MovesTo(n, "list", c, Null)
    <2>1. Sits(n, "bucket", c, Null)
      BY <1>3 DEF Sits
    <2>2. \A k, a, y : Sits(n, k, a, y) => k = "bucket" /\ a = c /\ y = Null
      BY <2>1, SitsOnce
    <2>3. /\ cell # n /\ n \notin fresh /\ drops[n] = 0
          /\ \A d \in CPU, y \in Contexts : retire[d][y].node # n
          /\ \A d \in CPU : n \notin list[d]
          /\ \A w \in Worker : n \notin queue[w] /\ n \notin batch[w]
      <3>1. \A k, a, y : Sits(n, k, a, y) => k = "bucket"
        BY <2>2
      <3>2. cell # n /\ n \notin fresh /\ drops[n] = 0
        BY <3>1 DEF Sits
      <3>3. \A d \in CPU, y \in Contexts : retire[d][y].node # n
        BY <3>1 DEF Sits
      <3>4. \A d \in CPU : n \notin list[d]
        BY <3>1 DEF Sits
      <3>5. \A w \in Worker : n \notin queue[w] /\ n \notin batch[w]
        BY <3>1 DEF Sits
      <3> QED BY <3>2, <3>3, <3>4, <3>5
    <2>4. \A d \in CPU : n \in bucket[d] => d = c
      BY <2>2, Zenon DEF Sits
    <2> QED BY <1>1, <1>3, <2>3, <2>4 DEF MovesTo, Sits
  <1> QED BY <1>1, <1>2, <1>3, HomesStay

(***************************************************************************)
(* What a drain keeps and what it lets go.                                 *)
(***************************************************************************)
LEMMA SplitFacts ==
    ASSUME TypeOK, NEW c \in CPU, Split(c)
    PROVE  \E ready \in SUBSET list[c] :
             /\ \A n \in list[c] : n \in ready <=> stamp[n] < reg[c]
             /\ pc[c] = "split" /\ bucket'[c] = bucket[c] \cup (list[c] \ ready)
             /\ \A d \in CPU \ {c} : bucket'[d] = bucket[d] /\ list'[d] = list[d]
             /\ UNCHANGED <<epoch, readers, lastQ, stamp, cell, fresh, view, retire, preempted,
                            target, blockers, owed, late, batch, drops>>
             /\ \/ /\ list'[c] = ready /\ pc' = [pc EXCEPT ![c] = "drop"]
                   /\ UNCHANGED <<op, reg, todo, queue>>
                \/ /\ list'[c] = {} /\ ReturnFromCall(c)
                   /\ queue'[WorkerOf[c]] = queue[WorkerOf[c]] \cup ready
                   /\ \A w \in Worker : w # WorkerOf[c] => queue'[w] = queue[w]
                   /\ op[c] = "final" => ready = {}
  <1>1. PICK ready : ready = {n \in list[c] : stamp[n] < reg[c]}
    OBVIOUS
  <1>2. ready \in SUBSET list[c] /\ \A n \in list[c] : n \in ready <=> stamp[n] < reg[c]
    BY <1>1
  <1>3. /\ pc[c] = "split" /\ bucket' = [bucket EXCEPT ![c] = bucket[c] \cup (list[c] \ ready)]
        /\ Offload(c, ready)
        /\ UNCHANGED <<epoch, readers, lastQ, stamp, cell, fresh, view, retire, preempted,
                       target, blockers, owed, late, batch, drops>>
    BY <1>1 DEF Split, SplitOnto, Elapsed
  <1>4. \/ /\ list' = [list EXCEPT ![c] = ready] /\ pc' = [pc EXCEPT ![c] = "drop"]
           /\ UNCHANGED <<op, reg, todo, queue>>
        \/ /\ list' = [list EXCEPT ![c] = {}] /\ ReturnFromCall(c)
           /\ queue' = [queue EXCEPT ![WorkerOf[c]] = queue[WorkerOf[c]] \cup ready]
           /\ op[c] = "final" => ready = {}
    BY <1>3 DEF Offload, QueuePush
  <1>5. /\ bucket'[c] = bucket[c] \cup (list[c] \ ready)
        /\ \A d \in CPU \ {c} : bucket'[d] = bucket[d] /\ list'[d] = list[d]
    BY <1>3, <1>4 DEF TypeOK
  <1>6. \/ /\ list'[c] = ready /\ pc' = [pc EXCEPT ![c] = "drop"]
           /\ UNCHANGED <<op, reg, todo, queue>>
        \/ /\ list'[c] = {} /\ ReturnFromCall(c)
           /\ queue'[WorkerOf[c]] = queue[WorkerOf[c]] \cup ready
           /\ \A w \in Worker : w # WorkerOf[c] => queue'[w] = queue[w]
           /\ op[c] = "final" => ready = {}
    BY <1>4 DEF TypeOK
  <1> QED BY <1>2, <1>3, <1>5, <1>6

\* The split takes each listed node back to the bucket, to the droppers or to a queue.
LEMMA SplitHomes ==
    ASSUME TypeOK, HomeInv, NEW c \in CPU, Split(c)
    PROVE  HomeInv'
  <1>1. PICK ready \in SUBSET list[c] :
             /\ bucket'[c] = bucket[c] \cup (list[c] \ ready)
             /\ \A d \in CPU \ {c} : bucket'[d] = bucket[d] /\ list'[d] = list[d]
             /\ UNCHANGED <<cell, fresh, retire, batch, drops>>
             /\ \/ list'[c] = ready /\ UNCHANGED queue
                \/ /\ list'[c] = {}
                   /\ queue'[WorkerOf[c]] = queue[WorkerOf[c]] \cup ready
                   /\ \A w \in Worker : w # WorkerOf[c] => queue'[w] = queue[w]
    BY SplitFacts
  <1>2. ASSUME NEW m \in Node, m \notin list[c] PROVE Stays(m)
    <2>1. /\ \A d \in CPU : (m \in bucket'[d] <=> m \in bucket[d]) /\ (m \in list'[d] <=> m \in list[d])
          /\ \A w \in Worker : m \in queue'[w] <=> m \in queue[w]
      BY <1>1, <1>2
    <2> QED BY <1>1, <2>1 DEF Stays, Sits
  <1>3. ASSUME NEW n \in Node, n \in list[c]
        PROVE  \E k, a : MovesTo(n, k, a, Null)
    <2>1. Sits(n, "list", c, Null)
      BY <1>3 DEF Sits
    <2>2. \A k, a, y : Sits(n, k, a, y) => k = "list" /\ a = c /\ y = Null
      BY <2>1, SitsOnce
    <2>3. /\ cell # n /\ n \notin fresh /\ drops[n] = 0
          /\ \A d \in CPU, y \in Contexts : retire[d][y].node # n
          /\ \A d \in CPU : n \notin bucket[d]
          /\ \A w \in Worker : n \notin queue[w] /\ n \notin batch[w]
      BY <2>2 DEF Sits
    <2>4. \A d \in CPU : n \in list[d] => d = c
      BY <2>2 DEF Sits
    <2>5. CASE n \notin ready
      <3>1. /\ \A d \in CPU : (n \in bucket'[d] <=> d = c) /\ n \notin list'[d]
            /\ \A w \in Worker : n \notin queue'[w]
        BY <1>1, <1>3, <2>3, <2>4, <2>5
      <3>2. MovesTo(n, "bucket", c, Null)
        BY <1>1, <2>3, <3>1 DEF MovesTo, Sits
      <3> QED BY <3>2
    <2>6. CASE n \in ready /\ list'[c] = ready /\ UNCHANGED queue
      <3>1. /\ \A d \in CPU : n \notin bucket'[d] /\ (n \in list'[d] <=> d = c)
            /\ \A w \in Worker : n \notin queue'[w]
        BY <1>1, <1>3, <2>3, <2>4, <2>6
      <3>2. MovesTo(n, "list", c, Null)
        BY <1>1, <2>3, <3>1 DEF MovesTo, Sits
      <3> QED BY <3>2
    <2>7. CASE /\ n \in ready /\ list'[c] = {}
               /\ queue'[WorkerOf[c]] = queue[WorkerOf[c]] \cup ready
               /\ \A w \in Worker : w # WorkerOf[c] => queue'[w] = queue[w]
      <3>1. /\ \A d \in CPU : n \notin bucket'[d] /\ n \notin list'[d]
            /\ \A w \in Worker : n \in queue'[w] <=> w = WorkerOf[c]
        BY <1>1, <1>3, <2>3, <2>4, <2>7
      <3>2. MovesTo(n, "queue", WorkerOf[c], Null)
        BY <1>1, <2>3, <3>1 DEF MovesTo, Sits
      <3> QED BY <3>2
    <2> QED BY <1>1, <2>5, <2>6, <2>7
  <1>4. ASSUME NEW n \in Node PROVE Stays(n) \/ \E k, a, x : MovesTo(n, k, a, x)
    BY <1>2, <1>3
  <1> QED BY <1>1, <1>4, HomesStay

\* A dropper takes its node out of the list or batch for good.
LEMMA DropperHomes ==
    ASSUME TypeOK, HomeInv, NEW n \in Node,
           \/ \E c \in CPU : RunDropper(c, n)
           \/ \E w \in Worker : WorkerRunDropper(w, n)
    PROVE  HomeInv'
  <1>1. /\ drops'[n] = drops[n] + 1 /\ \A m \in Node : m # n => drops'[m] = drops[m]
        /\ UNCHANGED <<cell, fresh, retire, bucket, queue>>
    BY DEF RunDropper, WorkerRunDropper, Drop, TypeOK
  <1>2. PICK k \in {"list", "batch"}, a \in CPU \cup Worker :
          /\ Sits(n, k, a, Null)
          /\ \A d \in CPU : list'[d] = IF k = "list" /\ d = a THEN list[d] \ {n} ELSE list[d]
          /\ \A w \in Worker : batch'[w] = IF k = "batch" /\ w = a THEN batch[w] \ {n} ELSE batch[w]
    <2>1. ASSUME NEW c \in CPU, RunDropper(c, n)
          PROVE  /\ Sits(n, "list", c, Null) /\ UNCHANGED batch
                 /\ \A d \in CPU : list'[d] = IF d = c THEN list[d] \ {n} ELSE list[d]
      BY <2>1 DEF RunDropper, Sits, TypeOK
    <2>2. ASSUME NEW w \in Worker, WorkerRunDropper(w, n)
          PROVE  /\ Sits(n, "batch", w, Null) /\ UNCHANGED list
                 /\ \A v \in Worker : batch'[v] = IF v = w THEN batch[v] \ {n} ELSE batch[v]
      BY <2>2 DEF WorkerRunDropper, Sits, TypeOK
    <2>3. CASE \E c \in CPU : RunDropper(c, n)
      <3>1. PICK c \in CPU : RunDropper(c, n)
        BY <2>3
      <3> QED BY <2>1, <3>1
    <2>4. CASE \E w \in Worker : WorkerRunDropper(w, n)
      <3>1. PICK w \in Worker : WorkerRunDropper(w, n)
        BY <2>4
      <3> QED BY <2>2, <3>1
    <2> QED BY <2>3, <2>4
  <1>3. ASSUME NEW m \in Node, m # n PROVE Stays(m)
    <2>1. /\ \A d \in CPU : m \in list'[d] <=> m \in list[d]
          /\ \A w \in Worker : m \in batch'[w] <=> m \in batch[w]
      BY <1>2, <1>3
    <2> QED BY <1>1, <1>3, <2>1 DEF Stays, Sits
  <1>4. MovesTo(n, "gone", Null, Null) /\ drops'[n] <= 1
    <2>1. \A k2, a2, y : Sits(n, k2, a2, y) => k2 = k /\ a2 = a /\ y = Null
      BY <1>2, SitsOnce
    <2>2. /\ cell # n /\ n \notin fresh /\ drops[n] = 0
          /\ \A d \in CPU, y \in Contexts : retire[d][y].node # n
          /\ \A d \in CPU : n \notin bucket[d]
          /\ \A w \in Worker : n \notin queue[w]
      BY <2>1 DEF Sits
    <2>3. /\ \A d \in CPU : n \in list[d] => k = "list" /\ d = a
          /\ \A w \in Worker : n \in batch[w] => k = "batch" /\ w = a
      BY <2>1 DEF Sits
    <2>4. /\ \A d \in CPU : n \notin list'[d]
          /\ \A w \in Worker : n \notin batch'[w]
      BY <1>2, <2>3
    <2>5. drops'[n] = 1
      BY <1>1, <2>2
    <2> QED BY <1>1, <2>2, <2>4, <2>5 DEF MovesTo, Sits
  <1>5. \A m \in Node : drops'[m] = drops[m] \/ drops'[m] <= 1
    BY <1>1, <1>4
  <1> QED BY <1>3, <1>4, <1>5, HomesStay

(***************************************************************************)
(* Taking a queue off, by a sync or by its worker.                         *)
(***************************************************************************)
LEMMA TakeHomes ==
    ASSUME TypeOK, LocalInv, HomeInv, NEW w \in Worker,
           (\E c \in CPU : SyncTake(c, w)) \/ WorkerTake(w)
    PROVE  HomeInv'
  <1>1. /\ queue'[w] = {} /\ \A v \in Worker : v # w => queue'[v] = queue[v]
        /\ UNCHANGED <<cell, fresh, retire, bucket, drops>>
    BY DEF SyncTake, WorkerTake, TypeOK
  <1>2. PICK k \in {"list", "batch"}, a \in CPU \cup Worker :
          /\ k = "list" => a \in CPU /\ list[a] = {}
          /\ k = "batch" => a \in Worker /\ batch[a] = {}
          /\ \A d \in CPU : list'[d] = IF k = "list" /\ d = a THEN queue[w] ELSE list[d]
          /\ \A v \in Worker : batch'[v] = IF k = "batch" /\ v = a THEN queue[w] ELSE batch[v]
    <2>1. ASSUME NEW c \in CPU, SyncTake(c, w)
          PROVE  /\ list[c] = {} /\ UNCHANGED batch
                 /\ \A d \in CPU : list'[d] = IF d = c THEN queue[w] ELSE list[d]
      BY <2>1 DEF SyncTake, LocalInv, TypeOK
    <2>2. ASSUME WorkerTake(w)
          PROVE  /\ batch[w] = {} /\ UNCHANGED list
                 /\ \A v \in Worker : batch'[v] = IF v = w THEN queue[w] ELSE batch[v]
      BY <2>2 DEF WorkerTake, TypeOK
    <2> QED BY <2>1, <2>2
  <1>3. ASSUME NEW m \in Node, m \notin queue[w] PROVE Stays(m)
    <2>1. /\ \A d \in CPU : m \in list'[d] <=> m \in list[d]
          /\ \A v \in Worker : m \in batch'[v] <=> m \in batch[v]
          /\ \A v \in Worker : m \in queue'[v] <=> m \in queue[v]
      BY <1>1, <1>2, <1>3
    <2> QED BY <1>1, <2>1 DEF Stays, Sits
  <1>4. ASSUME NEW n \in Node, n \in queue[w] PROVE MovesTo(n, k, a, Null)
    <2>1. Sits(n, "queue", w, Null)
      BY <1>4 DEF Sits
    <2>2. \A k2, a2, y : Sits(n, k2, a2, y) => k2 = "queue" /\ a2 = w /\ y = Null
      BY <2>1, SitsOnce
    <2>3. /\ cell # n /\ n \notin fresh /\ drops[n] = 0
          /\ \A d \in CPU, y \in Contexts : retire[d][y].node # n
          /\ \A d \in CPU : n \notin bucket[d] /\ n \notin list[d]
          /\ \A v \in Worker : n \notin batch[v]
      <3>1. \A k2, a2, y : Sits(n, k2, a2, y) => k2 = "queue"
        BY <2>2
      <3>2. cell # n /\ n \notin fresh /\ drops[n] = 0
        BY <3>1 DEF Sits
      <3>3. \A d \in CPU, y \in Contexts : retire[d][y].node # n
        BY <3>1 DEF Sits
      <3>4. \A d \in CPU : n \notin bucket[d] /\ n \notin list[d]
        BY <3>1 DEF Sits
      <3>5. \A v \in Worker : n \notin batch[v]
        BY <3>1 DEF Sits
      <3> QED BY <3>2, <3>3, <3>4, <3>5
    <2>4. \A v \in Worker : n \in queue[v] => v = w
      BY <2>2, Zenon DEF Sits
    <2>5. /\ \A d \in CPU : n \in list'[d] <=> k = "list" /\ d = a
          /\ \A v \in Worker : n \in batch'[v] <=> k = "batch" /\ v = a
          /\ \A v \in Worker : n \notin queue'[v]
      BY <1>1, <1>2, <1>4, <2>3, <2>4
    <2>6. CASE k = "list"
      BY <1>1, <1>2, <2>3, <2>5, <2>6 DEF MovesTo, Sits
    <2>7. CASE k = "batch"
      BY <1>1, <1>2, <2>3, <2>5, <2>7 DEF MovesTo, Sits
    <2> QED BY <2>6, <2>7
  <1> QED BY <1>1, <1>3, <1>4, HomesStay

----------------------------------------------------------------------------
(* Control. *)

\* A step of c that moves no node and leaves no drain.
ControlStep(c) ==
    /\ pc[c] \notin {"split", "drop"}
    /\ \A d \in CPU : d # c => pc'[d] = pc[d]
    /\ UNCHANGED <<cell, fresh, bucket, list, retire, queue, batch, drops>>

\* The executor's own steps move no node and leave no drain.
LEMMA ExecutorControl ==
    ASSUME TypeOK, NEW c \in CPU,
           \/ PollTask(c) \/ SkipTask(c) \/ PollReturns(c) \/ PollPreempted(c) \/ PollOther(c)
           \/ NoOthers(c) \/ WakeUp(c) \/ ReportIdle(c) \/ IdleStore(c)
           \/ EndRound(c) \/ IdleAdvance(c)
    PROVE  ControlStep(c)
  <1> USE DEF TypeOK, ControlStep
  <1>1. CASE PollTask(c) \/ SkipTask(c) \/ PollReturns(c) \/ PollPreempted(c)
    BY <1>1 DEF PollTask, SkipTask, PollReturns, PollPreempted
  <1>2. CASE PollOther(c) \/ NoOthers(c) \/ WakeUp(c)
    BY <1>2 DEF PollOther, NoOthers, WakeUp
  <1>3. CASE ReportIdle(c) \/ IdleStore(c)
    BY <1>3 DEF ReportIdle, IdleStore
  <1>4. CASE EndRound(c) \/ IdleAdvance(c)
    BY <1>4 DEF EndRound, IdleAdvance
  <1> QED BY <1>1, <1>2, <1>3, <1>4

\* Nor do a report and the scan.
LEMMA ReportControl ==
    ASSUME TypeOK, NEW c \in CPU,
           ReportCheck(c) \/ ReportStore(c) \/ \E d \in CPU : ScanOne(c, d)
    PROVE  ControlStep(c)
  <1>1. CASE ReportCheck(c)
    BY <1>1 DEF ReportCheck, ReturnFromCall, TypeOK, ControlStep
  <1>2. CASE ReportStore(c)
    BY <1>2 DEF ReportStore, TypeOK, ControlStep
  <1>3. CASE \E d \in CPU : ScanOne(c, d)
    BY <1>3 DEF ScanOne, ControlStep
  <1> QED BY <1>1, <1>2, <1>3

\* Nor do the steps of a sync, but for its visits to the queues.
LEMMA SyncControl ==
    ASSUME TypeOK, NEW c \in CPU,
           \/ SyncStart(c) \/ (\E d \in CPU : SyncCheckOne(c, d)) \/ SyncNotYet(c)
           \/ SyncDeadline(c) \/ SyncElapsed(c) \/ SyncReturn(c)
    PROVE  ControlStep(c)
  <1> USE DEF TypeOK, ControlStep
  <1>1. CASE SyncStart(c)
    BY <1>1 DEF SyncStart, SyncTo
  <1>2. CASE (\E d \in CPU : SyncCheckOne(c, d)) \/ SyncNotYet(c)
    BY <1>2 DEF SyncCheckOne, SyncNotYet
  <1>3. CASE SyncDeadline(c) \/ SyncElapsed(c) \/ SyncReturn(c)
    BY <1>3 DEF SyncDeadline, SyncElapsed, SyncReturn
  <1> QED BY <1>1, <1>2, <1>3

\* Such a step keeps the lists and the homes.
LEMMA ControlKeeps ==
    ASSUME LocalInv, HomeInv, NEW c \in CPU, ControlStep(c)
    PROVE  LocalInv' /\ HomeInv'
  <1>1. LocalInv'
    BY DEF LocalInv, ControlStep
  <1>2. SamePlaces
    BY DEF ControlStep, SamePlaces
  <1> QED BY <1>1, <1>2, SamePlacesHomes

----------------------------------------------------------------------------
(* Every step keeps the homes. *)

\* Readers move no node.
LEMMA ReaderHomes ==
    ASSUME LocalInv, HomeInv, NEW c \in CPU, Pin(c) \/ Load(c) \/ Unpin(c)
    PROVE  LocalInv' /\ HomeInv'
  <1>1. UNCHANGED <<cell, fresh, bucket, list, retire, queue, batch, drops, pc>>
    BY DEF Pin, Load, Unpin
  <1>2. LocalInv'
    BY <1>1 DEF LocalInv
  <1>3. SamePlaces
    BY <1>1 DEF SamePlaces
  <1> QED BY <1>2, <1>3, SamePlacesHomes

\* A swap leaves no context idle with a node.
LEMMA SwapLocal ==
    ASSUME TypeOK, LocalInv, NEW c \in CPU, NEW x \in Contexts,
           NEW new \in fresh \cup {Null}, Swap(c, x, new)
    PROVE  LocalInv'
  <1>1. UNCHANGED <<pc, list>>
    BY DEF Swap
  <1>2. \A d \in CPU, y \in Contexts : retire'[d][y] = retire[d][y] \/ retire'[d][y].at = "epoch"
    BY DEF Swap, StartRetire, TypeOK
  <1> QED BY <1>1, <1>2 DEF LocalInv

\* Every way of writing the cell keeps the homes.
LEMMA WriterHomes ==
    ASSUME TypeOK, LocalInv, HomeInv, NEW c \in CPU, NEW new \in fresh \cup {Null},
           \/ Store(c, new) \/ IrqStore(c, new)
           \/ new # Null /\ (CompareAndSet(c, new) \/ DeferDrop(c, new))
    PROVE  LocalInv' /\ HomeInv'
  <1>1. CASE Store(c, new)
    <2>1. retire[c]["task"].at = "none" /\ Swap(c, "task", new)
      BY <1>1 DEF Store, MayWrite
    <2> QED BY <2>1, SwapHomes, SwapLocal
  <1>2. CASE IrqStore(c, new)
    <2>1. retire[c]["irq"].at = "none" /\ Swap(c, "irq", new)
      BY <1>2 DEF IrqStore
    <2> QED BY <2>1, SwapHomes, SwapLocal
  <1>3. CASE CompareAndSet(c, new)
    <2>1. CASE cell = view[c]
      <3>1. retire[c]["task"].at = "none" /\ Swap(c, "task", new)
        BY <1>3, <2>1 DEF CompareAndSet, MayWrite
      <3> QED BY <3>1, SwapHomes, SwapLocal
    <2>2. CASE cell # view[c]
      <3>1. UNCHANGED <<cell, fresh, bucket, list, retire, queue, batch, drops, pc>>
        BY <1>3, <2>2 DEF CompareAndSet
      <3>2. LocalInv'
        BY <3>1 DEF LocalInv
      <3>3. SamePlaces
        BY <3>1 DEF SamePlaces
      <3> QED BY <3>2, <3>3, SamePlacesHomes
    <2> QED BY <2>1, <2>2
  <1>4. CASE new # Null /\ DeferDrop(c, new)
    <2>1. UNCHANGED <<pc, list>> /\ new \in fresh
      BY <1>4 DEF DeferDrop
    <2>2. \A d \in CPU, y \in Contexts : retire'[d][y] = retire[d][y] \/ retire'[d][y].at = "epoch"
      BY <1>4 DEF DeferDrop, StartRetire, TypeOK
    <2>3. LocalInv'
      BY <2>1, <2>2 DEF LocalInv
    <2> QED BY <1>4, <2>1, <2>3, DeferDropHomes
  <1> QED BY <1>1, <1>2, <1>3, <1>4

\* Both steps of defer_node keep the homes.
LEMMA RetireHomes ==
    ASSUME TypeOK, ControlInv, LocalInv, HomeInv, NEW c \in CPU, NEW x \in Contexts,
           DeferLoadEpoch(c, x) \/ DeferPush(c, x)
    PROVE  LocalInv' /\ HomeInv'
  <1>1. CASE DeferLoadEpoch(c, x)
    <2>1. /\ UNCHANGED <<cell, fresh, bucket, list, queue, batch, drops, pc>>
          /\ \A d \in CPU, y \in Contexts :
                /\ retire'[d][y].node = retire[d][y].node
                /\ retire'[d][y].at = retire[d][y].at \/ retire'[d][y].at = "push"
      BY <1>1 DEF DeferLoadEpoch, TypeOK
    <2>2. LocalInv'
      BY <2>1 DEF LocalInv
    <2>3. SamePlaces
      BY <2>1 DEF SamePlaces
    <2> QED BY <2>2, <2>3, SamePlacesHomes
  <1>2. CASE DeferPush(c, x)
    <2>1. /\ UNCHANGED <<list, pc>>
          /\ \A d \in CPU, y \in Contexts :
                retire'[d][y] = retire[d][y] \/ retire'[d][y] = NotRetiring
      BY <1>2 DEF DeferPush, TypeOK
    <2>2. LocalInv'
      BY <2>1 DEF LocalInv
    <2> QED BY <1>2, <2>2, DeferPushHomes
  <1> QED BY <1>1, <1>2

\* Every step of a drain keeps the homes.
LEMMA DrainHomes ==
    ASSUME TypeOK, LocalInv, HomeInv, NEW c \in CPU,
           Detach(c) \/ Split(c) \/ \E n \in Node : RunDropper(c, n)
    PROVE  LocalInv' /\ HomeInv'
  <1>1. CASE Detach(c)
    <2>1. LocalInv'
      BY <1>1 DEF Detach, LocalInv, TypeOK
    <2> QED BY <1>1, <2>1, DetachHomes
  <1>2. CASE Split(c)
    <2>1. /\ UNCHANGED retire
          /\ \A d \in CPU : d # c => list'[d] = list[d]
          /\ (pc' = [pc EXCEPT ![c] = "drop"]) \/ (list'[c] = {} /\ ReturnFromCall(c))
      BY <1>2, SplitFacts
    <2>2. (\A d \in CPU : d # c => pc'[d] = pc[d]) /\ (pc'[c] = "drop" \/ list'[c] = {})
      BY <2>1 DEF ReturnFromCall, TypeOK
    <2>3. LocalInv'
      BY <2>1, <2>2 DEF LocalInv
    <2> QED BY <1>2, <2>3, SplitHomes
  <1>3. ASSUME NEW n \in Node, RunDropper(c, n) PROVE LocalInv' /\ HomeInv'
    <2>1. /\ UNCHANGED retire
          /\ \A d \in CPU : d # c => list'[d] = list[d] /\ pc'[d] = pc[d]
          /\ (pc'[c] = "drop") \/ list'[c] = {}
      BY <1>3 DEF RunDropper, ReturnFromCall, TypeOK
    <2>2. LocalInv'
      BY <2>1 DEF LocalInv
    <2> QED BY <1>3, <2>2, DropperHomes
  <1> QED BY <1>1, <1>2, <1>3

\* A sync and a worker that empty a queue keep the homes.
LEMMA QueueHomes ==
    ASSUME TypeOK, LocalInv, HomeInv, NEW w \in Worker,
           (\E c \in CPU : SyncTake(c, w)) \/ WorkerStep(w)
    PROVE  LocalInv' /\ HomeInv'
  <1>1. ASSUME NEW c \in CPU, SyncTake(c, w) PROVE LocalInv' /\ HomeInv'
    <2>1. LocalInv'
      BY <1>1 DEF SyncTake, LocalInv, TypeOK
    <2> QED BY <1>1, <2>1, TakeHomes
  <1>2. CASE WorkerTake(w)
    <2>1. LocalInv'
      BY <1>2 DEF WorkerTake, LocalInv
    <2> QED BY <1>2, <2>1, TakeHomes
  <1>3. ASSUME NEW n \in Node, WorkerRunDropper(w, n) PROVE LocalInv' /\ HomeInv'
    <2>1. LocalInv'
      BY <1>3 DEF WorkerRunDropper, LocalInv
    <2> QED BY <1>3, <2>1, DropperHomes
  <1> QED BY <1>1, <1>2, <1>3 DEF WorkerStep

\* Every step keeps the lists and the homes.
LEMMA HomeStep ==
    ASSUME ReclaimInv, LocalInv, HomeInv, [Next]_vars
    PROVE  LocalInv' /\ HomeInv'
  <1>0. TypeOK /\ ControlInv
    BY DEF ReclaimInv
  <1>1. CASE UNCHANGED vars
    <2>1. LocalInv'
      BY <1>1 DEF vars, LocalInv
    <2>2. SamePlaces
      BY <1>1 DEF vars, SamePlaces
    <2> QED BY <2>1, <2>2, SamePlacesHomes
  <1>2. ASSUME NEW c \in CPU, TaskMoves(c) PROVE LocalInv' /\ HomeInv'
    BY <1>0, <1>2, ReaderHomes, WriterHomes, RetireHomes, ExecutorControl, SyncControl,
       ControlKeeps DEF TaskMoves, TaskRetires, TypeOK
  <1>3. ASSUME NEW c \in CPU, ExecutorStep(c) \/ WakeUp(c) PROVE LocalInv' /\ HomeInv'
    BY <1>0, <1>3, ExecutorControl, ReportControl, ControlKeeps, DrainHomes DEF ExecutorStep
  <1>4. ASSUME NEW c \in CPU, SyncStep(c) PROVE LocalInv' /\ HomeInv'
    BY <1>0, <1>4, SyncControl, ControlKeeps, QueueHomes DEF SyncStep
  <1>5. ASSUME NEW c \in CPU, IrqRetires(c) \/ \E n \in fresh \cup {Null} : IrqStore(c, n)
        PROVE  LocalInv' /\ HomeInv'
    BY <1>0, <1>5, WriterHomes, RetireHomes DEF IrqRetires
  <1>6. ASSUME NEW w \in Worker, WorkerStep(w) PROVE LocalInv' /\ HomeInv'
    BY <1>0, <1>6, QueueHomes
  <1> QED BY <1>1, <1>2, <1>3, <1>4, <1>5, <1>6 DEF Next

\* At the start the first node is in the cell and the others are fresh.
LEMMA HomeInit ==
    ASSUME Init
    PROVE  LocalInv /\ HomeInv
  <1>1. LocalInv
    BY DEF Init, StartAt, LocalInv
  <1>2. Only(FirstNode, "cell", Null, Null)
    BY DEF Init, StartAt, Only, Sits
  <1>3. \A n \in Node : n # FirstNode => Only(n, "fresh", Null, Null)
    BY DEF Init, StartAt, Only, Sits
  <1>4. \A n \in Node : OneHome(n)
    BY <1>2, <1>3 DEF OneHome
  <1> QED BY <1>1, <1>4 DEF Init, StartAt, HomeInv

----------------------------------------------------------------------------
(* From homes to NodesConserved. *)

\* A node at one place is at no place of another kind.
LEMMA HomesApart ==
    ASSUME NEW n, NEW k, NEW a, NEW x, Only(n, k, a, x)
    PROVE  /\ k # "cell" => cell # n
           /\ k # "fresh" => n \notin fresh
           /\ k # "gone" => drops[n] = 0
           /\ k # "retire" => {z \in CPU \X Contexts : retire[z[1]][z[2]].node = n} = {}
           /\ k # "bucket" => {d \in CPU : n \in bucket[d]} = {}
           /\ k # "list" => {d \in CPU : n \in list[d]} = {}
           /\ k # "queue" => {v \in Worker : n \in queue[v]} = {}
           /\ k # "batch" => {v \in Worker : n \in batch[v]} = {}
  <1>1. \A k2, a2, x2 : Sits(n, k2, a2, x2) => k2 = k
    BY DEF Only
  <1>2. k # "cell" => cell # n
    BY <1>1 DEF Sits
  <1>3. k # "fresh" => n \notin fresh
    BY <1>1 DEF Sits
  <1>4. k # "gone" => drops[n] = 0
    BY <1>1 DEF Sits
  <1>5. k # "retire" => {z \in CPU \X Contexts : retire[z[1]][z[2]].node = n} = {}
    <2>1. k # "retire" => \A d \in CPU, y \in Contexts : retire[d][y].node # n
      BY <1>1 DEF Sits
    <2> QED BY <2>1
  <1>6. k # "bucket" => {d \in CPU : n \in bucket[d]} = {}
    BY <1>1 DEF Sits
  <1>7. k # "list" => {d \in CPU : n \in list[d]} = {}
    BY <1>1 DEF Sits
  <1>8. k # "queue" => {v \in Worker : n \in queue[v]} = {}
    BY <1>1 DEF Sits
  <1>9. k # "batch" => {v \in Worker : n \in batch[v]} = {}
    BY <1>1 DEF Sits
  <1> QED BY <1>2, <1>3, <1>4, <1>5, <1>6, <1>7, <1>8, <1>9

SingleHome(n) == \E h : Homes(n) = {h}

\* Homes(n) has one element until n is dropped.
LEMMA HomeIsOne ==
    ASSUME NEW n, NEW k, NEW a, NEW x, Only(n, k, a, x)
    PROVE  /\ k = "gone" => Homes(n) = {} /\ drops[n] # 0
           /\ k # "gone" => SingleHome(n) /\ drops[n] = 0
  <1>0. k \in {"cell", "fresh", "gone", "retire", "bucket", "list", "queue", "batch"}
    BY DEF Only, Sits
  <1>a. \A k2, a2, x2 : Sits(n, k2, a2, x2) => k2 = k /\ a2 = a /\ x2 = x
    BY DEF Only
  <1>b. Sits(n, k, a, x)
    BY DEF Only
  <1>1. CASE k = "gone"
    <2>1. drops[n] # 0
      BY <1>1, <1>b DEF Sits
    <2> QED BY <1>1, <2>1, HomesApart DEF Homes
  <1>2. CASE k = "cell"
    <2>1. cell = n
      BY <1>2, <1>b DEF Sits
    <2>2. Homes(n) = {<<"cell">>}
      BY <1>2, <2>1, HomesApart DEF Homes
    <2> QED BY <1>2, <2>2, HomesApart DEF SingleHome
  <1>3. CASE k = "fresh"
    <2>1. n \in fresh
      BY <1>3, <1>b DEF Sits
    <2>2. Homes(n) = {<<"fresh">>}
      BY <1>3, <2>1, HomesApart DEF Homes
    <2> QED BY <1>3, <2>2, HomesApart DEF SingleHome
  <1>4. CASE k = "retire"
    <2>1. a \in CPU /\ x \in Contexts /\ retire[a][x].node = n
      BY <1>4, <1>b DEF Sits
    <2>2. \A d \in CPU, y \in Contexts : retire[d][y].node = n => d = a /\ y = x
      BY <1>a DEF Sits
    <2>3. {z \in CPU \X Contexts : retire[z[1]][z[2]].node = n} = {<<a, x>>}
      BY <2>1, <2>2
    <2>4. Homes(n) = {<<"retire", <<a, x>> >>}
      BY <1>4, <2>3, HomesApart DEF Homes
    <2> QED BY <1>4, <2>4, HomesApart DEF SingleHome
  <1>5. CASE k = "bucket"
    <2>1. a \in CPU /\ n \in bucket[a] /\ \A d \in CPU : n \in bucket[d] => d = a
      BY <1>5, <1>a, <1>b DEF Sits
    <2>2. {d \in CPU : n \in bucket[d]} = {a}
      BY <2>1
    <2>3. Homes(n) = {<<"bucket", a>>}
      BY <1>5, <2>2, HomesApart DEF Homes
    <2> QED BY <1>5, <2>3, HomesApart DEF SingleHome
  <1>6. CASE k = "list"
    <2>1. a \in CPU /\ n \in list[a] /\ \A d \in CPU : n \in list[d] => d = a
      BY <1>6, <1>a, <1>b DEF Sits
    <2>2. {d \in CPU : n \in list[d]} = {a}
      BY <2>1
    <2>3. Homes(n) = {<<"list", a>>}
      BY <1>6, <2>2, HomesApart DEF Homes
    <2> QED BY <1>6, <2>3, HomesApart DEF SingleHome
  <1>7. CASE k = "queue"
    <2>1. a \in Worker /\ n \in queue[a] /\ \A v \in Worker : n \in queue[v] => v = a
      BY <1>7, <1>a, <1>b DEF Sits
    <2>2. {v \in Worker : n \in queue[v]} = {a}
      BY <2>1
    <2>3. Homes(n) = {<<"queue", a>>}
      BY <1>7, <2>2, HomesApart DEF Homes
    <2> QED BY <1>7, <2>3, HomesApart DEF SingleHome
  <1>8. CASE k = "batch"
    <2>1. a \in Worker /\ n \in batch[a] /\ \A v \in Worker : n \in batch[v] => v = a
      BY <1>8, <1>a, <1>b DEF Sits
    <2>2. {v \in Worker : n \in batch[v]} = {a}
      BY <2>1
    <2>3. Homes(n) = {<<"batch", a>>}
      BY <1>8, <2>2, HomesApart DEF Homes
    <2> QED BY <1>8, <2>3, HomesApart DEF SingleHome
  <1> QED BY <1>0, <1>1, <1>2, <1>3, <1>4, <1>5, <1>6, <1>7, <1>8

\* One home each is what NodesConserved counts.
LEMMA HomesConserve ==
    ASSUME TypeOK, HomeInv
    PROVE  NodesConserved
  <1> SUFFICES ASSUME NEW n \in Node PROVE Cardinality(Homes(n)) + drops[n] = 1
    BY DEF NodesConserved
  <1>1. drops[n] \in Nat /\ drops[n] <= 1
    BY DEF TypeOK, HomeInv
  <1>2. PICK k, a, x : Only(n, k, a, x)
    BY DEF HomeInv, OneHome
  <1>3. CASE k = "gone"
    <2>1. Homes(n) = {} /\ drops[n] = 1
      BY <1>1, <1>2, <1>3, HomeIsOne
    <2> QED BY <2>1, FS_EmptySet
  <1>4. CASE k # "gone"
    <2>1. SingleHome(n) /\ drops[n] = 0
      BY <1>2, <1>4, HomeIsOne
    <2>2. PICK h : Homes(n) = {h}
      BY <2>1 DEF SingleHome
    <2>3. Cardinality({h}) = 1
      BY FS_Singleton
    <2>4. Cardinality(Homes(n)) = 1
      BY <2>2, <2>3
    <2> QED BY <2>1, <2>4
  <1> QED BY <1>3, <1>4

----------------------------------------------------------------------------
(* What sync() waits for. *)

\* What a return leaves, for each caller.
LEMMA Returned ==
    ASSUME TypeOK, NEW c \in CPU, ReturnFromCall(c)
    PROVE  /\ op[c] \in {"report", "other"} => pc'[c] \in {"others", "end"} /\ op'[c] = op[c]
           /\ op[c] = "idle" => pc'[c] = "idle_store" /\ op'[c] = "idle"
           /\ op[c] = "sync" => pc'[c] = "sync_check" /\ op'[c] = "sync" /\ todo'[c] = CPU
           /\ op[c] = "final" => pc'[c] = "sync_take" /\ op'[c] = "take" /\ todo'[c] = Worker
           /\ op[c] = "take" => pc'[c] = "sync_take" /\ op'[c] = "take" /\ todo'[c] = todo[c]
           /\ op[c] \in {"report", "other", "idle", "sync", "final", "take"}
           /\ \A d \in CPU : d # c => /\ pc'[d] = pc[d] /\ op'[d] = op[d]
                                      /\ todo'[d] = todo[d] /\ reg'[d] = reg[d]
  <1>1. op[c] \in {"report", "other", "idle", "sync", "final", "take"}
    BY DEF TypeOK, Ops
  <1>2. \A d \in CPU : d # c => /\ pc'[d] = pc[d] /\ op'[d] = op[d]
                                /\ todo'[d] = todo[d] /\ reg'[d] = reg[d]
    BY DEF TypeOK, ReturnFromCall
  <1>3. pc'[c] = Resume(c) /\ op'[c] = (IF op[c] = "final" THEN "take" ELSE op[c])
    BY DEF TypeOK, ReturnFromCall
  <1>4. todo'[c] = CASE op[c] = "sync"  -> CPU
                     [] op[c] = "final" -> Worker
                     [] OTHER -> todo[c]
    BY DEF TypeOK, ReturnFromCall
  <1> QED BY <1>1, <1>2, <1>3, <1>4 DEF Resume

\* SyncInv is about control, readers, reports and blockers only.
LEMMA SyncQuiet ==
    ASSUME SyncInv, UNCHANGED <<pc, op, readers, lastQ, todo, target, blockers>>
    PROVE  SyncInv'
  BY DEF SyncInv

\* A drain that returns keeps it: a sync goes on to check every CPU.
LEMMA ReturnSync ==
    ASSUME TypeOK, SyncInv, NEW c \in CPU, ReturnFromCall(c), pc[c] \in {"split", "drop"},
           UNCHANGED <<readers, lastQ, target, blockers>>
    PROVE  SyncInv'
  <1>1. blockers[c] \subseteq CPU
    BY DEF TypeOK
  <1>2. \A d \in CPU : d # c => pc'[d] = pc[d] /\ op'[d] = op[d] /\ todo'[d] = todo[d]
    BY Returned
  <1>3. CASE op[c] \in {"report", "other"}
    <2>1. pc'[c] \in {"others", "end"} /\ op'[c] = op[c]
      BY <1>3, Returned
    <2> QED BY <1>2, <1>3, <2>1 DEF SyncInv
  <1>4. CASE op[c] = "idle"
    <2>1. pc'[c] = "idle_store" /\ op'[c] = "idle"
      BY <1>4, Returned
    <2> QED BY <1>2, <1>4, <2>1 DEF SyncInv
  <1>5. CASE op[c] = "sync"
    <2>1. pc'[c] = "sync_check" /\ op'[c] = "sync" /\ todo'[c] = CPU
      BY <1>5, Returned
    <2> QED BY <1>1, <1>2, <1>5, <2>1 DEF SyncInv
  <1>6. CASE op[c] \in {"final", "take"}
    <2>1. pc'[c] = "sync_take" /\ op'[c] = "take"
      BY <1>6, Returned
    <2> QED BY <1>2, <1>6, <2>1 DEF SyncInv
  <1> QED BY <1>3, <1>4, <1>5, <1>6, Returned

\* c goes from one label to another, outside the last part of a sync.
LEMMA MoveSync ==
    ASSUME SyncInv, NEW c \in CPU, UNCHANGED <<readers, lastQ, target, blockers, todo>>,
           \A d \in CPU : d # c => pc'[d] = pc[d] /\ op'[d] = op[d],
           op'[c] \in {"report", "other", "sync"},
           pc'[c] \notin {"sync_check", "sync_take", "idle_store"}
    PROVE  SyncInv'
  BY DEF SyncInv

\* A reader that goes is no blocker any more; a new one blocks no sync.
LEMMA SyncReaders ==
    ASSUME TypeOK, ControlInv, SyncInv, NEW c \in CPU, Pin(c) \/ Load(c) \/ Unpin(c)
    PROVE  SyncInv'
  <1>1. CASE Pin(c)
    <2>1. /\ pc[c] = "poll" /\ readers'[c] > 0 /\ \A d \in CPU : d # c => readers'[d] = readers[d]
          /\ UNCHANGED <<pc, op, lastQ, todo, target, blockers>>
      BY <1>1 DEF Pin, TypeOK
    <2>2. op[c] # "idle"
      BY <2>1 DEF SyncInv
    <2> QED BY <2>1, <2>2 DEF SyncInv
  <1>2. CASE Load(c)
    BY <1>2, SyncQuiet DEF Load
  <1>3. CASE Unpin(c)
    BY <1>3 DEF Unpin, TypeOK, ControlInv, SyncInv
  <1> QED BY <1>1, <1>2, <1>3

\* A CPU that stores its idle report holds no guard, so it blocks no sync.
LEMMA SyncExecutor ==
    ASSUME TypeOK, ControlInv, SyncInv, NEW c \in CPU,
           \/ PollTask(c) \/ SkipTask(c) \/ PollReturns(c) \/ PollPreempted(c) \/ PollOther(c)
           \/ NoOthers(c) \/ WakeUp(c) \/ ReportIdle(c) \/ IdleStore(c)
           \/ EndRound(c) \/ IdleAdvance(c)
    PROVE  SyncInv'
  <1>0. ASSUME pc[c] \in {"round", "idle", "poll", "others", "end", "halted"}
        PROVE  op[c] \in {"report", "other"}
    BY <1>0 DEF TypeOK, ControlInv, SyncInv, Ops
  <1> DEFINE Moves == /\ UNCHANGED <<readers, lastQ, target, blockers, todo>>
                      /\ \A d \in CPU : d # c => pc'[d] = pc[d] /\ op'[d] = op[d]
                      /\ op'[c] \in {"report", "other"}
                      /\ pc'[c] \notin {"sync_check", "sync_take", "idle_store"}
  <1>1. CASE PollTask(c) \/ SkipTask(c)
    <2>1. Moves
      BY <1>0, <1>1 DEF PollTask, SkipTask, TypeOK
    <2> QED BY <2>1, MoveSync
  <1>2. CASE PollReturns(c) \/ PollPreempted(c)
    <2>1. Moves
      BY <1>0, <1>2 DEF PollReturns, PollPreempted, TypeOK
    <2> QED BY <2>1, MoveSync
  <1>3. CASE PollOther(c) \/ NoOthers(c) \/ WakeUp(c)
    <2>1. Moves
      BY <1>0, <1>3 DEF PollOther, NoOthers, WakeUp, TypeOK
    <2> QED BY <2>1, MoveSync
  <1>4. CASE ReportIdle(c)
    BY <1>4 DEF ReportIdle, TypeOK, ControlInv, SyncInv
  <1>5. CASE IdleStore(c)
    BY <1>5 DEF IdleStore, TypeOK, ControlInv, SyncInv
  <1>6. CASE EndRound(c) \/ IdleAdvance(c)
    <2>1. Moves
      BY <1>0, <1>6 DEF EndRound, IdleAdvance, TypeOK
    <2> QED BY <2>1, MoveSync
  <1> QED BY <1>1, <1>2, <1>3, <1>4, <1>5, <1>6

\* Nor does one that stores a report.
LEMMA SyncReports ==
    ASSUME TypeOK, ControlInv, SyncInv, NEW c \in CPU, ReportCheck(c) \/ ReportStore(c)
    PROVE  SyncInv'
  <1>1. CASE ReportCheck(c) /\ readers[c] # 0
    <2>1. /\ ReturnFromCall(c) /\ pc[c] = "report"
          /\ UNCHANGED <<readers, lastQ, target, blockers>>
      BY <1>1 DEF ReportCheck
    <2>2. op[c] \notin SyncOps /\ op[c] # "idle"
      BY <1>1, <2>1 DEF ControlInv, SyncInv
    <2>3. /\ pc'[c] \in {"others", "end"} /\ op'[c] = op[c]
          /\ \A d \in CPU : d # c => pc'[d] = pc[d] /\ op'[d] = op[d] /\ todo'[d] = todo[d]
      BY <2>1, <2>2, Returned
    <2> QED BY <2>1, <2>2, <2>3 DEF SyncInv
  <1>2. CASE ReportCheck(c) /\ readers[c] = 0
    <2>1. /\ UNCHANGED <<readers, lastQ, target, blockers, todo, op>>
          /\ pc[c] = "report" /\ pc'[c] = "report_store" /\ \A d \in CPU : d # c => pc'[d] = pc[d]
      BY <1>2 DEF ReportCheck, TypeOK
    <2>2. op[c] \in {"report", "other", "sync"}
      BY <2>1 DEF SyncInv, TypeOK, Ops
    <2> QED BY <2>1, <2>2, MoveSync
  <1>3. CASE ReportStore(c)
    <2>1. /\ pc[c] = "report_store" /\ pc'[c] = "scan" /\ UNCHANGED <<op, readers, target, blockers>>
          /\ \A d \in CPU : d # c => pc'[d] = pc[d] /\ todo'[d] = todo[d] /\ lastQ'[d] = lastQ[d]
      BY <1>3 DEF ReportStore, TypeOK
    <2>2. readers[c] = 0
      BY <2>1 DEF ControlInv
    <2>3. \A e \in CPU : c \notin blockers[e]
      BY <2>2 DEF SyncInv, TypeOK
    <2>4. \A e, d \in CPU : d \in blockers'[e] => readers'[d] > 0 /\ lastQ'[d] < target'[e]
      BY <2>1, <2>3 DEF SyncInv
    <2> QED BY <2>1, <2>4 DEF SyncInv
  <1> QED BY <1>1, <1>2, <1>3

\* A drain touches nothing a sync waits for.
LEMMA SyncDrains ==
    ASSUME TypeOK, SyncInv, NEW c \in CPU,
           \/ (\E d \in CPU : ScanOne(c, d)) \/ Detach(c) \/ Split(c)
           \/ \E n \in Node : RunDropper(c, n)
    PROVE  SyncInv'
  <1>1. CASE \E d \in CPU : ScanOne(c, d)
    BY <1>1 DEF ScanOne, TypeOK, SyncInv
  <1>2. CASE Detach(c)
    BY <1>2 DEF Detach, TypeOK, SyncInv
  <1>3. CASE Split(c)
    <2>1. /\ pc[c] = "split" /\ UNCHANGED <<readers, lastQ, target, blockers>>
          /\ \/ pc' = [pc EXCEPT ![c] = "drop"] /\ UNCHANGED <<op, todo>>
             \/ ReturnFromCall(c)
      BY <1>3, SplitFacts
    <2>2. CASE pc' = [pc EXCEPT ![c] = "drop"] /\ UNCHANGED <<op, todo>>
      BY <2>1, <2>2 DEF TypeOK, SyncInv
    <2>3. CASE ReturnFromCall(c)
      BY <2>1, <2>3, ReturnSync
    <2> QED BY <2>1, <2>2, <2>3
  <1>4. ASSUME NEW n \in Node, RunDropper(c, n) PROVE SyncInv'
    <2>1. /\ pc[c] = "drop" /\ UNCHANGED <<readers, lastQ, target, blockers>>
          /\ UNCHANGED <<pc, op, todo>> \/ ReturnFromCall(c)
      BY <1>4 DEF RunDropper
    <2> QED BY <2>1, SyncQuiet, ReturnSync
  <1> QED BY <1>1, <1>2, <1>3, <1>4

\* A check passes no CPU with a blocker; a sync goes on when no CPU is left.
LEMMA SyncSyncs ==
    ASSUME TypeOK, EpochInv, ControlInv, SyncInv, NEW c \in CPU, SyncStart(c) \/ SyncStep(c)
    PROVE  SyncInv'
  <1>1. CASE SyncStart(c)
    <2>1. \A d \in CPU : lastQ[d] # Inactive => lastQ[d] < epoch + 1
      BY DEF EpochInv, TypeOK
    <2>2. /\ target'[c] = epoch + 1 /\ pc'[c] = "report" /\ op'[c] = "sync" /\ op[c] # "idle"
          /\ blockers'[c] = {d \in CPU : readers[d] > 0 /\ lastQ[d] # Inactive}
          /\ \A d \in CPU : d # c => /\ pc'[d] = pc[d] /\ op'[d] = op[d] /\ target'[d] = target[d]
                                     /\ blockers'[d] = blockers[d]
          /\ UNCHANGED <<readers, lastQ, todo>>
      <3>1. op[c] # "idle" /\ UNCHANGED <<readers, lastQ, todo>>
        BY <1>1 DEF SyncStart, SyncTo, SyncInv
      <3>2. /\ target'[c] = epoch + 1 /\ pc'[c] = "report" /\ op'[c] = "sync"
            /\ blockers'[c] = {d \in CPU : readers[d] > 0 /\ lastQ[d] # Inactive}
        BY <1>1 DEF SyncStart, SyncTo, TypeOK
      <3>3. \A d \in CPU : d # c => /\ pc'[d] = pc[d] /\ op'[d] = op[d] /\ target'[d] = target[d]
                                     /\ blockers'[d] = blockers[d]
        BY <1>1 DEF SyncStart, SyncTo, TypeOK
      <3> QED BY <3>1, <3>2, <3>3
    <2> QED BY <2>1, <2>2 DEF SyncInv
  <1>2. ASSUME NEW d \in CPU, SyncCheckOne(c, d) PROVE SyncInv'
    <2>1. d \notin blockers[c]
      <3>1. lastQ[d] >= target[c] /\ lastQ[d] \in Int /\ target[c] \in Int
        BY <1>2 DEF SyncCheckOne, TypeOK
      <3> QED BY <3>1 DEF SyncInv
    <2>2. /\ pc[c] = "sync_check" /\ todo'[c] = todo[c] \ {d}
          /\ \A e \in CPU : e # c => todo'[e] = todo[e]
          /\ UNCHANGED <<pc, op, readers, lastQ, target, blockers>>
      BY <1>2 DEF SyncCheckOne, TypeOK
    <2> QED BY <2>1, <2>2 DEF SyncInv
  <1>3. CASE SyncNotYet(c)
    BY <1>3 DEF SyncNotYet, SyncInv, TypeOK
  <1>4. CASE SyncDeadline(c)
    BY <1>4 DEF SyncDeadline, SyncForget, SyncInv, TypeOK
  <1>5. CASE SyncElapsed(c)
    BY <1>5 DEF SyncElapsed, SyncInv, TypeOK
  <1>6. CASE \E w \in Worker : SyncTake(c, w)
    BY <1>6 DEF SyncTake, SyncInv, TypeOK
  <1>7. CASE SyncReturn(c)
    BY <1>7 DEF SyncReturn, SyncForget, SyncInv, TypeOK
  <1> QED BY <1>1, <1>2, <1>3, <1>4, <1>5, <1>6, <1>7 DEF SyncStep

\* Every step keeps what sync() waits for.
LEMMA SyncInvStep ==
    ASSUME ReclaimInv, SyncInv, [Next]_vars
    PROVE  SyncInv'
  <1>0. TypeOK /\ ControlInv /\ EpochInv
    BY DEF ReclaimInv
  <1>1. CASE UNCHANGED vars
    BY <1>1, SyncQuiet DEF vars
  <1>2. ASSUME NEW c \in CPU, NEW n \in fresh \cup {Null},
               \/ Store(c, n) \/ IrqStore(c, n)
               \/ CompareAndSet(c, n) \/ DeferDrop(c, n)
        PROVE  SyncInv'
    BY <1>2, SyncQuiet DEF Store, IrqStore, CompareAndSet, DeferDrop, Swap
  <1>3. ASSUME NEW c \in CPU, NEW x \in Contexts, DeferLoadEpoch(c, x) \/ DeferPush(c, x)
        PROVE  SyncInv'
    BY <1>3, SyncQuiet DEF DeferLoadEpoch, DeferPush
  <1>4. ASSUME NEW c \in CPU, TaskMoves(c) PROVE SyncInv'
    BY <1>0, <1>2, <1>3, <1>4, SyncReaders, SyncExecutor, SyncSyncs DEF TaskMoves, TaskRetires
  <1>5. ASSUME NEW c \in CPU, ExecutorStep(c) \/ WakeUp(c) PROVE SyncInv'
    BY <1>0, <1>5, SyncExecutor, SyncReports, SyncDrains DEF ExecutorStep
  <1>6. ASSUME NEW c \in CPU, SyncStep(c) PROVE SyncInv'
    BY <1>0, <1>6, SyncSyncs
  <1>7. ASSUME NEW c \in CPU, IrqRetires(c) \/ \E n \in fresh \cup {Null} : IrqStore(c, n)
        PROVE  SyncInv'
    BY <1>2, <1>3, <1>7 DEF IrqRetires
  <1>8. ASSUME NEW w \in Worker, WorkerStep(w) PROVE SyncInv'
    BY <1>8, SyncQuiet DEF WorkerStep, WorkerTake, WorkerRunDropper
  <1> QED BY <1>1, <1>4, <1>5, <1>6, <1>7, <1>8 DEF Next

----------------------------------------------------------------------------
(* What sync() leaves behind. *)

\* OwedInv and PastInv for one CPU.
Owed(e) ==
    /\ target[e] <= epoch
    /\ op[e] \notin SyncOps => owed[e] = {}
    /\ \A n \in owed[e] : n \in bucket[e] \/ n \in list[e] \/ Released(n)
    /\ \A n \in owed[e] :
          n \in bucket[e] \/ (pc[e] = "split" /\ n \in list[e]) => stamp[n] < target[e]
    /\ op[e] = "take" => \A n \in owed[e], w \in Worker : n \in queue[w] => w \in todo[e]

Past(e) ==
    ~late[e] =>
       /\ pc[e] = "sync_check" => \A d \in CPU \ todo[e] : lastQ[d] >= target[e]
       /\ op[e] = "final" => \A d \in CPU : lastQ[d] >= target[e]
       /\ op[e] = "final" /\ pc[e] \in {"scan", "split"} => reg[e] >= target[e]
       /\ op[e] = "take" \/ (op[e] = "final" /\ pc[e] \in {"split", "drop"}) =>
             \A n \in owed[e] : n \notin bucket[e]
       /\ op[e] = "take" \/ (op[e] = "final" /\ pc[e] = "drop") =>
             \A n \in owed[e] : Released(n)

\* OwedInv and PastInv, CPU by CPU.
LEMMA OwedAndPast ==
    /\ (OwedInv /\ PastInv) <=> (\A e \in CPU : Owed(e) /\ Past(e))
    /\ (OwedInv /\ PastInv)' <=> (\A e \in CPU : Owed(e)' /\ Past(e)')
  <1>1. OwedInv <=> \A e \in CPU : Owed(e)
    BY DEF OwedInv, Owed
  <1>2. PastInv <=> \A e \in CPU : Past(e)
    BY DEF PastInv, Past
  <1>3. OwedInv' <=> \A e \in CPU : Owed(e)'
    BY DEF OwedInv, Owed
  <1>4. PastInv' <=> \A e \in CPU : Past(e)'
    BY DEF PastInv, Past
  <1> QED BY <1>1, <1>2, <1>3, <1>4

\* What is let go stays let go.
LetGo == \A n \in Node : Released(n) => Released(n)'

\* No CPU falls behind e's target, unless e's sync is told.
NoneBehind(e) ==
    /\ late[e] => late'[e]
    /\ ~late'[e] => \A d \in CPU : lastQ'[d] >= lastQ[d] \/ lastQ'[d] >= target[e]

\* A step that changes nothing of e's own.
Leaves(e) ==
    /\ epoch' >= epoch /\ LetGo /\ NoneBehind(e)
    /\ pc'[e] = pc[e] /\ op'[e] = op[e] /\ todo'[e] = todo[e] /\ reg'[e] = reg[e]
    /\ owed'[e] = owed[e] /\ target'[e] = target[e]
    /\ \A n \in owed[e] : /\ n \in bucket'[e] <=> n \in bucket[e]
                          /\ n \in list'[e] <=> n \in list[e]
                          /\ n \in bucket[e] \/ n \in list[e] => stamp'[n] <= stamp[n]
                          /\ \A w \in Worker : n \in queue'[w] => n \in queue[w]

Typed(e) ==
    /\ epoch \in Int /\ target[e] \in Int /\ owed[e] \subseteq Node /\ reg[e] \in Int
    /\ late[e] \in BOOLEAN
    /\ \A n \in Node : stamp[n] \in Int
    /\ \A d \in CPU : lastQ[d] \in Int

\* The part of TypeOK that the comparisons below need.
LEMMA TypesOf ==
    ASSUME TypeOK, NEW e \in CPU
    PROVE  Typed(e)
  BY DEF TypeOK, Typed

\* The same after a step.
LEMMA TypesOfNext ==
    ASSUME TypeOK', NEW e \in CPU
    PROVE  Typed(e)'
  BY DEF TypeOK, Typed

\* What a sync relies on survives the steps of everybody else.
LEMMA LeavesKeeps ==
    ASSUME NEW e \in CPU, Typed(e), Typed(e)', Owed(e), Past(e), Leaves(e)
    PROVE  Owed(e)' /\ Past(e)'
  <1>1. Owed(e)'
    <2>1. target'[e] <= epoch' /\ (op'[e] \notin SyncOps => owed'[e] = {})
      BY DEF Owed, Leaves, Typed
    <2>2. \A n \in owed'[e] : n \in bucket'[e] \/ n \in list'[e] \/ Released(n)'
      BY DEF Owed, Leaves, Typed, LetGo
    <2>3. \A n \in owed'[e] :
             n \in bucket'[e] \/ (pc'[e] = "split" /\ n \in list'[e]) => stamp'[n] < target'[e]
      BY DEF Owed, Leaves, Typed
    <2>4. op'[e] = "take" => \A n \in owed'[e], w \in Worker : n \in queue'[w] => w \in todo'[e]
      BY DEF Owed, Leaves
    <2> QED BY <2>1, <2>2, <2>3, <2>4 DEF Owed
  <1>2. ASSUME ~late'[e]
        PROVE  /\ pc'[e] = "sync_check" => \A d \in CPU \ todo'[e] : lastQ'[d] >= target'[e]
               /\ op'[e] = "final" => \A d \in CPU : lastQ'[d] >= target'[e]
    <2>1. ~late[e] /\ \A d \in CPU : lastQ'[d] >= lastQ[d] \/ lastQ'[d] >= target[e]
      BY <1>2 DEF Leaves, NoneBehind
    <2>2. \A d \in CPU : lastQ[d] >= target[e] => lastQ'[d] >= target'[e]
      BY <2>1 DEF Leaves, Typed
    <2> QED BY <2>1, <2>2 DEF Past, Leaves
  <1>3. ~late'[e] => ~late[e]
    BY DEF Leaves, NoneBehind
  <1>4. op'[e] = op[e] /\ pc'[e] = pc[e] /\ reg'[e] = reg[e] /\ target'[e] = target[e]
    BY DEF Leaves
  <1>5. owed'[e] = owed[e] /\ \A n \in owed[e] : /\ n \in bucket'[e] <=> n \in bucket[e]
                                                 /\ Released(n) => Released(n)'
    BY DEF Leaves, LetGo, Typed
  <1>6. Past(e)'
    BY <1>2, <1>3, <1>4, <1>5 DEF Past
  <1> QED BY <1>1, <1>6

\* Outside a sync there is nothing to keep.
LEMMA OutOfSync ==
    ASSUME NEW e \in CPU, op'[e] \notin SyncOps, owed'[e] = {}, target'[e] <= epoch',
           pc'[e] # "sync_check"
    PROVE  Owed(e)' /\ Past(e)'
  BY DEF Owed, Past

----------------------------------------------------------------------------
(* Where a sync's nodes are not. *)

\* A node being retired is in no bucket or list, and owed to no sync.
LEMMA RetiringNotOwed ==
    ASSUME TypeOK, HomeInv, NEW c \in CPU, NEW x \in Contexts, NEW n \in Node,
           retire[c][x].node = n
    PROVE  /\ ~Released(n)
           /\ \A e \in CPU : n \notin bucket[e] /\ n \notin list[e]
           /\ \A e \in CPU : Owed(e) => n \notin owed[e]
  <1>1. Sits(n, "retire", c, x)
    BY DEF Sits
  <1>2. \A k, a, y : Sits(n, k, a, y) => k = "retire"
    BY <1>1, SitsOnce
  <1>3. drops[n] = 0
    BY <1>2 DEF Sits
  <1>4. \A e \in CPU : n \notin bucket[e] /\ n \notin list[e]
    BY <1>2 DEF Sits
  <1>5. \A w \in Worker : n \notin queue[w] /\ n \notin batch[w]
    BY <1>2 DEF Sits
  <1>6. ~Released(n)
    BY <1>3, <1>4, <1>5 DEF Released
  <1> QED BY <1>4, <1>6 DEF Owed

\* A node in one CPU's drain is owed to no other CPU's sync.
LEMMA ListedNotOwed ==
    ASSUME TypeOK, HomeInv, NEW c \in CPU, pc[c] = "split", NEW n \in list[c]
    PROVE  \A e \in CPU : e # c /\ Owed(e) => n \notin owed[e]
  <1>0. n \in Node
    BY DEF TypeOK
  <1>1. Sits(n, "list", c, Null)
    BY DEF Sits
  <1>2. \A k, a, y : Sits(n, k, a, y) => k = "list" /\ a = c
    BY <1>0, <1>1, SitsOnce
  <1>3. drops[n] = 0
    BY <1>2 DEF Sits
  <1>4. \A e \in CPU : n \notin bucket[e]
    BY <1>2 DEF Sits
  <1>5. \A e \in CPU : n \in list[e] => e = c
    BY <1>2 DEF Sits
  <1>6. \A w \in Worker : n \notin queue[w] /\ n \notin batch[w]
    BY <1>2 DEF Sits
  <1>7. ~Released(n)
    BY <1>3, <1>5, <1>6 DEF Released
  <1> QED BY <1>4, <1>5, <1>7 DEF Owed

----------------------------------------------------------------------------
(* Each step keeps what a sync relies on. *)

SyncKept == \A e \in CPU : Owed(e)' /\ Past(e)'

\* A step that changes nothing of any CPU's own keeps both.
LEMMA LeavesAll ==
    ASSUME TypeOK, TypeOK', OwedInv, PastInv, \A e \in CPU : Leaves(e)
    PROVE  SyncKept
  <1> SUFFICES ASSUME NEW e \in CPU PROVE Owed(e)' /\ Past(e)'
    BY DEF SyncKept
  <1>1. Typed(e) /\ Typed(e)'
    BY TypesOf, TypesOfNext
  <1>2. Owed(e) /\ Past(e) /\ Leaves(e)
    BY OwedAndPast
  <1> QED BY <1>1, <1>2, LeavesKeeps

\* And so does one of c's that keeps them for c.
LEMMA LeavesOthers ==
    ASSUME TypeOK, TypeOK', OwedInv, PastInv, NEW c \in CPU,
           \A e \in CPU : e # c => Leaves(e), Owed(c)', Past(c)'
    PROVE  SyncKept
  <1> SUFFICES ASSUME NEW e \in CPU, e # c PROVE Owed(e)' /\ Past(e)'
    BY DEF SyncKept
  <1>1. Typed(e) /\ Typed(e)'
    BY TypesOf, TypesOfNext
  <1>2. Owed(e) /\ Past(e) /\ Leaves(e)
    BY OwedAndPast
  <1> QED BY <1>1, <1>2, LeavesKeeps

NodesStill == UNCHANGED <<bucket, list, queue, batch, drops, stamp>>

\* The calls of the other CPUs stay as they are.
OthersSame(c) ==
    \A e \in CPU : e # c => /\ pc'[e] = pc[e] /\ op'[e] = op[e] /\ todo'[e] = todo[e]
                            /\ reg'[e] = reg[e] /\ owed'[e] = owed[e] /\ target'[e] = target[e]

\* While no CPU reports, none falls behind.
LEMMA UnchangedBehind ==
    ASSUME TypeOK, UNCHANGED lastQ, NEW e \in CPU, late'[e] = late[e]
    PROVE  NoneBehind(e)
  <1>1. \A d \in CPU : lastQ'[d] >= lastQ[d]
    BY Numbers
  <1> QED BY <1>1 DEF NoneBehind

\* Steps that touch neither calls nor retired nodes.
LEMMA QuietLeaves ==
    ASSUME TypeOK, NodesStill, UNCHANGED <<epoch, pc, op, todo, reg, owed, target, late, lastQ>>
    PROVE  \A e \in CPU : Leaves(e)
  <1>1. LetGo
    BY DEF LetGo, Released, NodesStill
  <1>2. \A e \in CPU : NoneBehind(e)
    BY UnchangedBehind
  <1>3. epoch' >= epoch /\ \A n \in Node : stamp'[n] <= stamp[n]
    BY DEF NodesStill, TypeOK
  <1>4. \A e \in CPU : \A n \in owed[e] : n \in Node
    BY DEF TypeOK
  <1> QED BY <1>1, <1>2, <1>3, <1>4 DEF Leaves, NodesStill

\* Steps that touch c's call only.
LEMMA ControlLeaves ==
    ASSUME TypeOK, NEW c \in CPU, NodesStill, OthersSame(c), epoch' >= epoch, pc[c] # "drop",
           \A e \in CPU : e # c => NoneBehind(e)
    PROVE  LetGo /\ \A e \in CPU : e # c => Leaves(e)
  <1>1. LetGo
    BY DEF LetGo, Released, NodesStill, OthersSame
  <1>2. \A n \in Node : stamp'[n] <= stamp[n]
    BY DEF NodesStill, TypeOK
  <1>3. \A e \in CPU : \A n \in owed[e] : n \in Node
    BY DEF TypeOK
  <1> QED BY <1>1, <1>2, <1>3 DEF Leaves, NodesStill, OthersSame

\* c's executor, outside a sync.
LEMMA OwedExecutor ==
    ASSUME TypeOK, TypeOK', ControlInv, OwedInv, PastInv, NEW c \in CPU,
           \/ PollTask(c) \/ SkipTask(c) \/ PollReturns(c) \/ PollPreempted(c) \/ PollOther(c)
           \/ NoOthers(c) \/ WakeUp(c) \/ ReportIdle(c) \/ IdleStore(c)
           \/ EndRound(c) \/ IdleAdvance(c)
    PROVE  SyncKept
  <1>1. /\ NodesStill /\ UNCHANGED <<owed, target, late>>
        /\ pc[c] \in {"round", "idle", "poll", "others", "end", "idle_store", "halted"}
    <2>1. CASE PollTask(c) \/ SkipTask(c) \/ PollReturns(c) \/ PollPreempted(c)
      BY <2>1 DEF PollTask, SkipTask, PollReturns, PollPreempted, NodesStill
    <2>2. CASE PollOther(c) \/ NoOthers(c) \/ WakeUp(c) \/ ReportIdle(c) \/ IdleStore(c)
      BY <2>2 DEF PollOther, NoOthers, WakeUp, ReportIdle, IdleStore, NodesStill
    <2>3. CASE EndRound(c) \/ IdleAdvance(c)
      BY <2>3 DEF EndRound, IdleAdvance, NodesStill
    <2> QED BY <2>1, <2>2, <2>3
  <1>2. op[c] \notin SyncOps
    BY <1>1 DEF ControlInv
  <1>3. owed[c] = {} /\ target[c] <= epoch
    BY <1>2 DEF OwedInv
  <1>4. /\ \A e \in CPU : e # c => /\ pc'[e] = pc[e] /\ op'[e] = op[e] /\ todo'[e] = todo[e]
                                   /\ reg'[e] = reg[e]
        /\ op'[c] \notin SyncOps /\ pc'[c] # "sync_check"
    <2>1. CASE PollTask(c) \/ SkipTask(c) \/ PollReturns(c) \/ PollPreempted(c)
      BY <1>2, <2>1 DEF PollTask, SkipTask, PollReturns, PollPreempted, TypeOK
    <2>2. CASE PollOther(c) \/ NoOthers(c) \/ WakeUp(c)
      BY <1>2, <2>2 DEF PollOther, NoOthers, WakeUp, TypeOK
    <2>3. CASE ReportIdle(c)
      BY <1>2, <2>3 DEF ReportIdle, TypeOK
    <2>4. CASE IdleStore(c)
      BY <1>2, <2>4 DEF IdleStore, TypeOK
    <2>5. CASE EndRound(c) \/ IdleAdvance(c)
      BY <1>2, <2>5 DEF EndRound, IdleAdvance, TypeOK
    <2> QED BY <2>1, <2>2, <2>3, <2>4, <2>5
  <1>5. epoch' >= epoch
    <2>1. CASE EndRound(c) \/ IdleAdvance(c)
      <3>1. Advance(c)
        BY <2>1 DEF EndRound, IdleAdvance
      <3> QED BY <3>1, Advances
    <2>2. CASE UNCHANGED epoch
      BY <2>2 DEF TypeOK
    <2> QED BY <2>1, <2>2 DEF PollTask, SkipTask, PollReturns, PollPreempted, PollOther, NoOthers,
                              WakeUp, ReportIdle, IdleStore
  <1>6. \A e \in CPU : NoneBehind(e)
    <2>1. CASE IdleStore(c)
      <3>1. \A d \in CPU : lastQ'[d] >= lastQ[d]
        <4>1. \A d \in CPU : lastQ'[d] = IF d = c THEN Inactive ELSE lastQ[d]
          BY <2>1 DEF IdleStore, TypeOK
        <4>2. lastQ[c] <= Inactive
          <5>1. lastQ[c] \in 1..MaxEpoch \cup {Inactive}
            BY DEF TypeOK
          <5>2. MaxEpoch \in Nat /\ Inactive \in Nat /\ Inactive > MaxEpoch
            BY QsbrAssumption
          <5> QED BY <5>1, <5>2
        <4> QED BY <4>1, <4>2, Numbers
      <3> QED BY <1>1, <3>1 DEF NoneBehind
    <2>2. CASE UNCHANGED lastQ
      BY <1>1, <2>2, UnchangedBehind
    <2> QED BY <2>1, <2>2 DEF PollTask, SkipTask, PollReturns, PollPreempted, PollOther, NoOthers,
                              WakeUp, ReportIdle, EndRound, IdleAdvance
  <1>7. OthersSame(c)
    BY <1>1, <1>4 DEF OthersSame
  <1>8. \A e \in CPU : e # c => Leaves(e)
    BY <1>1, <1>5, <1>6, <1>7, ControlLeaves
  <1>9. Owed(c)' /\ Past(c)'
    <2>1. owed'[c] = {} /\ target'[c] <= epoch'
      BY <1>1, <1>3, <1>5 DEF TypeOK
    <2> QED BY <1>4, <2>1, OutOfSync
  <1> QED BY <1>8, <1>9, LeavesOthers

\* Readers and writers, before the retirement.
LEMMA OwedQuiet ==
    ASSUME TypeOK, TypeOK', OwedInv, PastInv, NodesStill,
           UNCHANGED <<epoch, pc, op, todo, reg, owed, target, late, lastQ>>
    PROVE  SyncKept
  BY QuietLeaves, LeavesAll

\* A node on its way to a bucket is owed to nobody.
LEMMA OwedRetires ==
    ASSUME TypeOK, TypeOK', ControlInv, HomeInv, OwedInv, PastInv, NEW c \in CPU,
           NEW x \in Contexts, DeferLoadEpoch(c, x) \/ DeferPush(c, x)
    PROVE  SyncKept
  <1>1. PICK n \in Node : n = retire[c][x].node
    BY DEF DeferLoadEpoch, DeferPush, RetireReady, ControlInv
  <1>2. /\ ~Released(n)
        /\ \A e \in CPU : n \notin bucket[e] /\ n \notin list[e]
        /\ \A e \in CPU : n \notin owed[e]
    BY <1>1, RetiringNotOwed, OwedAndPast
  <1>3. UNCHANGED <<epoch, pc, op, todo, reg, owed, target, late, lastQ, list, queue, batch, drops>>
    BY DEF DeferLoadEpoch, DeferPush
  <1>4. LetGo
    BY <1>3 DEF LetGo, Released
  <1>5. \A e \in CPU : NoneBehind(e)
    BY <1>3, UnchangedBehind
  <1>6. \A m \in Node \ {n} : stamp'[m] <= stamp[m] /\ \A e \in CPU : m \in bucket'[e] <=> m \in bucket[e]
    <2>1. CASE DeferLoadEpoch(c, x)
      BY <1>1, <2>1 DEF DeferLoadEpoch, TypeOK
    <2>2. CASE DeferPush(c, x)
      BY <1>1, <2>2 DEF DeferPush, TypeOK
    <2> QED BY <2>1, <2>2
  <1>7. \A e \in CPU : \A m \in owed[e] : m \in Node \ {n}
    BY <1>2 DEF TypeOK
  <1>8. epoch' >= epoch
    BY <1>3 DEF TypeOK
  <1>9. \A e \in CPU : Leaves(e)
    BY <1>3, <1>4, <1>5, <1>6, <1>7, <1>8 DEF Leaves
  <1> QED BY <1>9, LeavesAll

----------------------------------------------------------------------------
(* Reports and drains. *)

\* c's own nodes, while they stay where they are.
LEMMA OwnMoves ==
    ASSUME TypeOK, NEW c \in CPU, Owed(c), LetGo, NodesStill, epoch' >= epoch, epoch' \in Int,
           owed'[c] = owed[c], target'[c] = target[c], op'[c] # "take", pc'[c] # "split",
           op[c] \in SyncOps <=> op'[c] \in SyncOps
    PROVE  Owed(c)'
  <1>1. Typed(c)
    BY TypesOf
  <1>2. target'[c] <= epoch'
    BY <1>1 DEF Owed, Typed
  <1>3. \A n \in owed[c] : Released(n) => Released(n)'
    BY <1>1 DEF Typed, LetGo
  <1>4. \A n \in owed'[c] : n \in bucket'[c] \/ n \in list'[c] \/ Released(n)'
    BY <1>3 DEF Owed, NodesStill
  <1>5. \A n \in owed'[c] : n \in bucket'[c] => stamp'[n] < target'[c]
    BY DEF Owed, NodesStill
  <1> QED BY <1>2, <1>4, <1>5 DEF Owed

\* PastInv is about the check and the last part of a sync.
LEMMA NotLast ==
    ASSUME NEW c \in CPU, op'[c] \notin {"final", "take"}, pc'[c] # "sync_check"
    PROVE  Past(c)'
  BY DEF Past

\* Only a CPU that was inactive can come back behind a target, and `late' says so.
LEMMA ReportBehind ==
    ASSUME TypeOK, NEW c \in CPU, ReportStore(c)
    PROVE  \A e \in CPU : NoneBehind(e)
  <1> SUFFICES ASSUME NEW e \in CPU PROVE NoneBehind(e)
    OBVIOUS
  <1>1. late'[e] = (late[e] \/ (lastQ[c] = Inactive /\ reg[c] < target[e]))
    BY DEF ReportStore
  <1>2. PICK q : /\ q = IF lastQ[c] = Inactive \/ reg[c] > lastQ[c] THEN reg[c] ELSE lastQ[c]
                 /\ lastQ' = [lastQ EXCEPT ![c] = q]
    BY DEF ReportStore
  <1>3. lastQ'[c] = q /\ \A d \in CPU : d # c => lastQ'[d] = lastQ[d]
    BY <1>2 DEF TypeOK
  <1>4. lastQ[c] \in Nat /\ reg[c] \in Nat /\ target[e] \in Nat /\ late[e] \in BOOLEAN
    BY DEF TypeOK
  <1>5. ASSUME ~late'[e] PROVE q >= lastQ[c] \/ q >= target[e]
    <2>1. ~(lastQ[c] = Inactive /\ reg[c] < target[e])
      BY <1>1, <1>5
    <2> QED BY <1>2, <1>4, <2>1
  <1>6. late[e] => late'[e]
    BY <1>1, <1>4
  <1> QED BY <1>3, <1>5, <1>6, Numbers DEF NoneBehind

\* Reports: whoever comes back behind a target is noted.
LEMMA OwedReports ==
    ASSUME TypeOK, TypeOK', ControlInv, SyncInv, OwedInv, PastInv, NEW c \in CPU,
           ReportCheck(c) \/ ReportStore(c)
    PROVE  SyncKept
  <1>1. /\ NodesStill /\ UNCHANGED <<epoch, owed, target>> /\ pc[c] \in {"report", "report_store"}
    BY DEF ReportCheck, ReportStore, NodesStill
  <1>2. op[c] \in {"report", "other", "sync"}
    BY <1>1 DEF SyncInv, TypeOK, Ops
  <1>3. \A e \in CPU : NoneBehind(e)
    <2>1. CASE ReportCheck(c)
      BY <2>1, UnchangedBehind DEF ReportCheck
    <2>2. CASE ReportStore(c)
      BY <2>2, ReportBehind
    <2> QED BY <2>1, <2>2
  <1>4. /\ \A e \in CPU : e # c => /\ pc'[e] = pc[e] /\ op'[e] = op[e] /\ todo'[e] = todo[e]
                                   /\ reg'[e] = reg[e]
        /\ op'[c] = op[c] /\ pc'[c] \in {"report_store", "scan", "others", "end"}
    <2>1. CASE ReportCheck(c) /\ readers[c] # 0
      <3>1. ReturnFromCall(c)
        BY <2>1 DEF ReportCheck
      <3>2. op[c] # "sync"
        BY <2>1 DEF ControlInv
      <3> QED BY <1>2, <3>1, <3>2, Returned
    <2>2. CASE ReportCheck(c) /\ readers[c] = 0
      BY <2>2 DEF ReportCheck, TypeOK
    <2>3. CASE ReportStore(c)
      BY <2>3 DEF ReportStore, TypeOK
    <2> QED BY <2>1, <2>2, <2>3
  <1>5. OthersSame(c) /\ epoch' >= epoch /\ epoch' \in Int
    BY <1>1, <1>4 DEF OthersSame, TypeOK
  <1>6. LetGo /\ \A e \in CPU : e # c => Leaves(e)
    BY <1>1, <1>3, <1>5, ControlLeaves
  <1>7. Owed(c)
    BY OwedAndPast
  <1>8. op'[c] # "take" /\ pc'[c] # "split" /\ (op[c] \in SyncOps <=> op'[c] \in SyncOps)
    BY <1>2, <1>4
  <1>9. owed'[c] = owed[c] /\ target'[c] = target[c]
    BY <1>1
  <1>10. Owed(c)'
    BY <1>1, <1>5, <1>6, <1>7, <1>8, <1>9, OwnMoves
  <1>11. Past(c)'
    BY <1>2, <1>4, NotLast
  <1> QED BY <1>6, <1>10, <1>11, LeavesOthers

\* The minimum of the last drain does not fall behind the target.
LEMMA OwedScan ==
    ASSUME TypeOK, TypeOK', SyncInv, OwedInv, PastInv, NEW c \in CPU, NEW d \in CPU, ScanOne(c, d)
    PROVE  SyncKept
  <1>1. /\ NodesStill /\ UNCHANGED <<epoch, owed, target, lastQ, late, pc, op>> /\ pc[c] = "scan"
    BY DEF ScanOne, NodesStill
  <1>2. \A e \in CPU : e # c => todo'[e] = todo[e] /\ reg'[e] = reg[e]
    BY DEF ScanOne, TypeOK
  <1>3. OthersSame(c) /\ epoch' >= epoch /\ epoch' \in Int
    BY <1>1, <1>2 DEF OthersSame, TypeOK
  <1>4. \A e \in CPU : NoneBehind(e)
    BY <1>1, UnchangedBehind
  <1>5. LetGo /\ \A e \in CPU : e # c => Leaves(e)
    BY <1>1, <1>3, <1>4, ControlLeaves
  <1>6. Owed(c) /\ Past(c)
    BY OwedAndPast
  <1>7. op[c] # "take"
    BY <1>1 DEF SyncInv
  <1>8. op'[c] # "take" /\ pc'[c] # "split" /\ (op[c] \in SyncOps <=> op'[c] \in SyncOps)
        /\ owed'[c] = owed[c] /\ target'[c] = target[c]
    BY <1>1, <1>7
  <1>9. Owed(c)'
    BY <1>1, <1>3, <1>5, <1>6, <1>8, OwnMoves
  <1>10. ASSUME ~late[c], op[c] = "final"
         PROVE  reg'[c] >= target[c] /\ \A f \in CPU : lastQ[f] >= target[c]
    <2>1. reg[c] >= target[c] /\ \A f \in CPU : lastQ[f] >= target[c]
      BY <1>1, <1>6, <1>10 DEF Past
    <2>2. reg'[c] = reg[c] \/ reg'[c] = lastQ[d]
      BY DEF ScanOne, TypeOK
    <2> QED BY <2>1, <2>2
  <1>11. Past(c)'
    BY <1>1, <1>7, <1>10 DEF Past
  <1> QED BY <1>5, <1>9, <1>11, LeavesOthers

\* The detach leaves nothing in the bucket.
LEMMA OwedDetach ==
    ASSUME TypeOK, TypeOK', LocalInv, SyncInv, OwedInv, PastInv, NEW c \in CPU, Detach(c)
    PROVE  SyncKept
  <1>1. /\ UNCHANGED <<epoch, owed, target, lastQ, late, op, reg, todo, queue, batch, drops, stamp>>
        /\ pc[c] = "scan" /\ pc'[c] = "split" /\ list'[c] = bucket[c] /\ bucket'[c] = {}
        /\ list[c] = {}
        /\ \A e \in CPU : e # c => pc'[e] = pc[e] /\ list'[e] = list[e] /\ bucket'[e] = bucket[e]
    BY DEF Detach, TypeOK, LocalInv
  <1>2. LetGo
    BY <1>1 DEF LetGo, Released
  <1>3. \A e \in CPU : NoneBehind(e)
    BY <1>1, UnchangedBehind
  <1>4. epoch' >= epoch /\ \A n \in Node : stamp'[n] <= stamp[n]
    BY <1>1 DEF TypeOK
  <1>5. \A e \in CPU : \A n \in owed[e] : n \in Node
    BY DEF TypeOK
  <1>6. \A e \in CPU : e # c => Leaves(e)
    BY <1>1, <1>2, <1>3, <1>4, <1>5 DEF Leaves
  <1>7. Owed(c) /\ Past(c) /\ op[c] # "take"
    <2>1. op[c] # "take"
      BY <1>1 DEF SyncInv
    <2> QED BY <2>1, OwedAndPast
  <1>8. \A n \in owed[c] : Released(n) => Released(n)'
    BY <1>2, <1>5 DEF LetGo
  <1>9. Owed(c)'
    BY <1>1, <1>7, <1>8 DEF Owed
  <1>10. Past(c)'
    BY <1>1, <1>7 DEF Past
  <1> QED BY <1>6, <1>9, <1>10, LeavesOthers

\* The last drain of a sync lets every node go that it owes: each was stamped
\* before the target, and no CPU is behind it.
LEMMA OwedSplit ==
    ASSUME TypeOK, TypeOK', HomeInv, SyncInv, OwedInv, PastInv, NEW c \in CPU, Split(c)
    PROVE  SyncKept
  <1>1. PICK ready \in SUBSET list[c] :
             /\ \A n \in list[c] : n \in ready <=> stamp[n] < reg[c]
             /\ pc[c] = "split" /\ bucket'[c] = bucket[c] \cup (list[c] \ ready)
             /\ \A d \in CPU \ {c} : bucket'[d] = bucket[d] /\ list'[d] = list[d]
             /\ UNCHANGED <<epoch, lastQ, stamp, target, owed, late, batch, drops>>
             /\ \/ /\ list'[c] = ready /\ pc' = [pc EXCEPT ![c] = "drop"]
                   /\ UNCHANGED <<op, reg, todo, queue>>
                \/ /\ list'[c] = {} /\ ReturnFromCall(c)
                   /\ queue'[WorkerOf[c]] = queue[WorkerOf[c]] \cup ready
                   /\ \A w \in Worker : w # WorkerOf[c] => queue'[w] = queue[w]
                   /\ op[c] = "final" => ready = {}
    BY SplitFacts
  <1>2. Owed(c) /\ Past(c) /\ Typed(c)
    BY OwedAndPast, TypesOf
  <1>3. op[c] # "take"
    BY <1>1 DEF SyncInv
  <1>4. \A e \in CPU : e # c => /\ pc'[e] = pc[e] /\ op'[e] = op[e] /\ todo'[e] = todo[e]
                                /\ reg'[e] = reg[e]
    <2>1. CASE pc' = [pc EXCEPT ![c] = "drop"] /\ UNCHANGED <<op, reg, todo>>
      BY <2>1 DEF TypeOK
    <2>2. CASE ReturnFromCall(c)
      BY <2>2, Returned
    <2> QED BY <1>1, <2>1, <2>2
  <1>5. \A w \in Worker : queue[w] \subseteq queue'[w] /\ queue'[w] \subseteq queue[w] \cup ready
    BY <1>1
  <1>6. LetGo
    BY <1>1, <1>4, <1>5 DEF LetGo, Released
  <1>7. \A e \in CPU : NoneBehind(e)
    BY <1>1, UnchangedBehind
  <1>8. \A e \in CPU : e # c => \A n \in owed[e] : n \notin ready
    BY <1>1, ListedNotOwed, OwedAndPast
  <1>9. epoch' >= epoch /\ \A n \in Node : stamp'[n] <= stamp[n]
    BY <1>1 DEF TypeOK
  <1>10. \A e \in CPU : \A n \in owed[e] : n \in Node
    BY DEF TypeOK
  <1>11. \A e \in CPU : e # c => Leaves(e)
    BY <1>1, <1>4, <1>5, <1>6, <1>7, <1>8, <1>9, <1>10 DEF Leaves
  <1>12. \A n \in owed[c] : Released(n) => Released(n)'
    BY <1>6, <1>10 DEF LetGo
  <1>13. \A n \in owed[c] :
            /\ n \in ready => Released(n)'
            /\ n \in list[c] /\ n \notin ready => n \in bucket'[c]
            /\ n \in bucket[c] => n \in bucket'[c]
            /\ n \in bucket'[c] => n \in bucket[c] \/ (n \in list[c] /\ n \notin ready)
    <2>1. ASSUME NEW n \in Node, n \in ready PROVE Released(n)'
      <3>1. CASE list'[c] = ready /\ pc' = [pc EXCEPT ![c] = "drop"]
        <4>1. pc'[c] = "drop" /\ n \in list'[c]
          BY <2>1, <3>1 DEF TypeOK
        <4> QED BY <4>1 DEF Released
      <3>2. CASE queue'[WorkerOf[c]] = queue[WorkerOf[c]] \cup ready
        <4>1. WorkerOf[c] \in Worker /\ n \in queue'[WorkerOf[c]]
          BY <2>1, <3>2
        <4> QED BY <4>1 DEF Released
      <3> QED BY <1>1, <3>1, <3>2
    <2> QED BY <1>1, <1>10, <2>1
  <1>14. pc'[c] # "split" /\ (op[c] \in SyncOps <=> op'[c] \in SyncOps)
    <2>1. CASE pc' = [pc EXCEPT ![c] = "drop"] /\ UNCHANGED op
      BY <2>1 DEF TypeOK
    <2>2. CASE ReturnFromCall(c)
      BY <2>2, Returned
    <2> QED BY <1>1, <2>1, <2>2
  <1>15. op'[c] = "take" => todo'[c] = Worker
    <2>1. CASE UNCHANGED op
      BY <1>3, <2>1
    <2>2. CASE ReturnFromCall(c)
      BY <1>3, <2>2, Returned
    <2> QED BY <1>1, <2>1, <2>2
  <1>16. Owed(c)'
    <2>1. target'[c] <= epoch' /\ (op'[c] \notin SyncOps => owed'[c] = {})
      BY <1>1, <1>2, <1>14 DEF Owed
    <2>2. \A n \in owed'[c] : n \in bucket'[c] \/ n \in list'[c] \/ Released(n)'
      BY <1>1, <1>2, <1>12, <1>13 DEF Owed
    <2>3. \A n \in owed'[c] : n \in bucket'[c] => stamp'[n] < target'[c]
      BY <1>1, <1>2, <1>13 DEF Owed
    <2> QED BY <1>14, <1>15, <2>1, <2>2, <2>3 DEF Owed
  <1>17. ASSUME ~late[c], op[c] = "final"
         PROVE  \A n \in owed[c] : n \notin bucket'[c] /\ Released(n)'
    <2>1. /\ reg[c] >= target[c]
          /\ \A n \in owed[c] : n \notin bucket[c]
      BY <1>1, <1>2, <1>17 DEF Past
    <2>2. \A n \in owed[c] : n \in list[c] => n \in ready
      <3>1. \A n \in owed[c] : n \in list[c] => stamp[n] < target[c]
        BY <1>1, <1>2 DEF Owed
      <3> QED BY <1>1, <1>2, <1>10, <2>1, <3>1 DEF Typed
    <2>3. \A n \in owed[c] : n \in list[c] \/ Released(n)
      BY <1>2, <2>1 DEF Owed
    <2> QED BY <1>12, <1>13, <2>1, <2>2, <2>3
  <1>18. Past(c)'
    <2>1. CASE pc' = [pc EXCEPT ![c] = "drop"] /\ UNCHANGED <<op, reg, todo>>
      <3>1. pc'[c] = "drop" /\ op'[c] = op[c]
        BY <2>1 DEF TypeOK
      <3>2. ~late[c] /\ op[c] = "final" => \A d \in CPU : lastQ[d] >= target[c]
        BY <1>2 DEF Past
      <3> QED BY <1>1, <1>3, <1>17, <3>1, <3>2 DEF Past
    <2>2. CASE ReturnFromCall(c)
      <3>1. CASE op[c] = "sync"
        <4>1. pc'[c] = "sync_check" /\ op'[c] = "sync" /\ todo'[c] = CPU
          BY <2>2, <3>1, Returned
        <4> QED BY <4>1 DEF Past
      <3>2. CASE op[c] = "final"
        <4>1. pc'[c] = "sync_take" /\ op'[c] = "take"
          BY <2>2, <3>2, Returned
        <4> QED BY <1>1, <1>17, <3>2, <4>1 DEF Past
      <3>3. CASE op[c] \notin SyncOps
        <4>1. op'[c] \notin SyncOps /\ pc'[c] # "sync_check"
          BY <2>2, <3>3, Returned
        <4> QED BY <4>1, NotLast
      <3> QED BY <1>3, <3>1, <3>2, <3>3
    <2> QED BY <1>1, <2>1, <2>2
  <1> QED BY <1>11, <1>16, <1>18, LeavesOthers

\* A dropper lets one node go and keeps the others.
LEMMA OwedDropper ==
    ASSUME TypeOK, TypeOK', SyncInv, OwedInv, PastInv, NEW c \in CPU, NEW n \in Node,
           RunDropper(c, n)
    PROVE  SyncKept
  <1>1. /\ pc[c] = "drop" /\ n \in list[c]
        /\ UNCHANGED <<epoch, lastQ, target, owed, late, batch, queue, bucket>>
        /\ \/ list[c] = {n} /\ ReturnFromCall(c)
           \/ list[c] # {n} /\ UNCHANGED <<pc, op, reg, todo>>
    BY DEF RunDropper
  <1>2. /\ drops'[n] > 0 /\ stamp'[n] = 0 /\ list'[c] = list[c] \ {n}
        /\ \A m \in Node : m # n => drops'[m] = drops[m] /\ stamp'[m] = stamp[m]
        /\ \A e \in CPU : e # c => list'[e] = list[e]
    BY DEF RunDropper, Drop, TypeOK
  <1>3. Owed(c) /\ Past(c) /\ Typed(c)
    BY OwedAndPast, TypesOf
  <1>4. \A e \in CPU : e # c => /\ pc'[e] = pc[e] /\ op'[e] = op[e] /\ todo'[e] = todo[e]
                                /\ reg'[e] = reg[e]
    BY <1>1, Returned
  <1>5. LetGo
    <2> SUFFICES ASSUME NEW m \in Node, Released(m) PROVE Released(m)'
      BY DEF LetGo
    <2>1. CASE m = n
      BY <1>2, <2>1 DEF Released
    <2>2. CASE m # n /\ m \in list[c]
      <3>1. pc'[c] = "drop" /\ m \in list'[c]
        BY <1>1, <1>2, <2>2
      <3> QED BY <3>1 DEF Released
    <2>3. CASE m # n /\ m \notin list[c]
      BY <1>1, <1>2, <1>4, <2>3 DEF Released
    <2> QED BY <2>1, <2>2, <2>3
  <1>6. \A e \in CPU : NoneBehind(e)
    BY <1>1, UnchangedBehind
  <1>7. epoch' >= epoch /\ \A m \in Node : stamp'[m] <= stamp[m]
    <2>1. epoch \in Nat /\ \A m \in Node : stamp[m] \in Nat
      BY Numbers
    <2> QED BY <1>1, <1>2, <2>1
  <1>8. \A e \in CPU : \A m \in owed[e] : m \in Node
    BY DEF TypeOK
  <1>9. \A e \in CPU : e # c => Leaves(e)
    BY <1>1, <1>2, <1>4, <1>5, <1>6, <1>7, <1>8 DEF Leaves
  <1>10. /\ pc'[c] # "split" /\ (op[c] \in SyncOps <=> op'[c] \in SyncOps)
         /\ op'[c] = "take" => todo'[c] = Worker \/ (op[c] = "take" /\ todo'[c] = todo[c])
    BY <1>1, Returned
  <1>11. \A m \in owed[c] : Released(m) => Released(m)'
    BY <1>5, <1>8 DEF LetGo
  <1>12. \A m \in owed[c] : m \in list[c] => Released(m)'
    <2>1. \A m \in owed[c] : m \in list[c] => Released(m)
      BY <1>1, <1>8 DEF Released
    <2> QED BY <1>11, <2>1
  <1>13. Owed(c)'
    <2>1. target'[c] <= epoch' /\ (op'[c] \notin SyncOps => owed'[c] = {})
      BY <1>1, <1>3, <1>10 DEF Owed
    <2>2. \A m \in owed'[c] : m \in bucket'[c] \/ m \in list'[c] \/ Released(m)'
      BY <1>1, <1>3, <1>11, <1>12 DEF Owed
    <2>3. \A m \in owed'[c] : m \in bucket'[c] => stamp'[m] < target'[c]
      <3>1. \A m \in owed[c] : m \in bucket[c] => stamp[m] < target[c]
        BY <1>3 DEF Owed
      <3>2. \A m \in owed[c] : stamp'[m] \in Int /\ stamp[m] \in Int /\ stamp'[m] <= stamp[m]
        BY <1>3, <1>7, <1>8, TypesOfNext DEF Typed
      <3> QED BY <1>1, <1>3, <3>1, <3>2 DEF Typed
    <2>4. op'[c] = "take" => \A m \in owed'[c], w \in Worker : m \in queue'[w] => w \in todo'[c]
      BY <1>1, <1>3, <1>10 DEF Owed
    <2> QED BY <1>10, <2>1, <2>2, <2>3, <2>4 DEF Owed
  <1>14. ASSUME ~late[c], op[c] \in {"final", "take"}
         PROVE  \A m \in owed[c] : m \notin bucket'[c] /\ Released(m)'
    BY <1>1, <1>3, <1>11, <1>14 DEF Past
  <1>15. Past(c)'
    <2>1. CASE UNCHANGED <<pc, op, reg, todo>>
      <3>1. ~late[c] /\ op[c] = "final" => \A d \in CPU : lastQ[d] >= target[c]
        BY <1>3 DEF Past
      <3> QED BY <1>1, <1>14, <2>1, <3>1 DEF Past
    <2>2. CASE ReturnFromCall(c)
      <3>1. CASE op[c] = "sync"
        <4>1. pc'[c] = "sync_check" /\ op'[c] = "sync" /\ todo'[c] = CPU
          BY <2>2, <3>1, Returned
        <4> QED BY <4>1 DEF Past
      <3>2. CASE op[c] \in {"final", "take"}
        <4>1. pc'[c] = "sync_take" /\ op'[c] = "take"
          BY <2>2, <3>2, Returned
        <4> QED BY <1>1, <1>14, <3>2, <4>1 DEF Past
      <3>3. CASE op[c] \notin SyncOps
        <4>1. op'[c] \notin SyncOps /\ pc'[c] # "sync_check"
          BY <2>2, <3>3, Returned
        <4> QED BY <4>1, NotLast
      <3> QED BY <3>1, <3>2, <3>3
    <2> QED BY <1>1, <2>1, <2>2
  <1> QED BY <1>9, <1>13, <1>15, LeavesOthers

----------------------------------------------------------------------------
(* The steps of a sync, and of the workers. *)

\* A sync starts with the nodes of its bucket, stamped before its target.
LEMMA OwedStart ==
    ASSUME TypeOK, TypeOK', EpochInv, OwedInv, PastInv, NEW c \in CPU, SyncStart(c)
    PROVE  SyncKept
  <1>1. /\ NodesStill /\ UNCHANGED <<lastQ, todo, reg>> /\ pc[c] = "poll" /\ epoch' = epoch + 1
        /\ target'[c] = epoch + 1 /\ owed'[c] = bucket[c] /\ op'[c] = "sync" /\ pc'[c] = "report"
        /\ \A e \in CPU : e # c => /\ pc'[e] = pc[e] /\ op'[e] = op[e] /\ target'[e] = target[e]
                                   /\ owed'[e] = owed[e] /\ late'[e] = late[e]
    BY DEF SyncStart, SyncTo, NodesStill, TypeOK
  <1>2. OthersSame(c) /\ epoch' >= epoch
    BY <1>1 DEF OthersSame, TypeOK
  <1>3. \A e \in CPU : e # c => NoneBehind(e)
    BY <1>1, UnchangedBehind
  <1>4. \A e \in CPU : e # c => Leaves(e)
    BY <1>1, <1>2, <1>3, ControlLeaves
  <1>5. Owed(c)'
    <2>1. \A n \in bucket[c] : stamp[n] < epoch + 1
      BY DEF EpochInv, TypeOK
    <2>2. target'[c] <= epoch'
      BY <1>1, Numbers
    <2> QED BY <1>1, <2>1, <2>2 DEF Owed, NodesStill
  <1>6. Past(c)'
    BY <1>1, NotLast
  <1> QED BY <1>4, <1>5, <1>6, LeavesOthers

\* The scan of the CPUs, and its end.
LEMMA OwedChecks ==
    ASSUME TypeOK, TypeOK', SyncInv, OwedInv, PastInv, NEW c \in CPU,
           (\E d \in CPU : SyncCheckOne(c, d)) \/ SyncNotYet(c) \/ SyncElapsed(c)
    PROVE  SyncKept
  <1>1. /\ NodesStill /\ UNCHANGED <<epoch, owed, target, lastQ, late>> /\ pc[c] = "sync_check"
    BY DEF SyncCheckOne, SyncNotYet, SyncElapsed, NodesStill
  <1>2. op[c] = "sync" /\ Owed(c) /\ Past(c) /\ Typed(c)
    BY <1>1, OwedAndPast, TypesOf DEF SyncInv
  <1>3. /\ \A e \in CPU : e # c => /\ pc'[e] = pc[e] /\ op'[e] = op[e] /\ todo'[e] = todo[e]
                                   /\ reg'[e] = reg[e]
        /\ op'[c] \in {"sync", "final"} /\ pc'[c] # "split"
    <2>1. CASE \E d \in CPU : SyncCheckOne(c, d)
      BY <1>1, <1>2, <2>1 DEF SyncCheckOne, TypeOK
    <2>2. CASE SyncNotYet(c)
      BY <1>1, <1>2, <2>2 DEF SyncNotYet, TypeOK
    <2>3. CASE SyncElapsed(c)
      BY <1>1, <1>2, <2>3 DEF SyncElapsed, TypeOK
    <2> QED BY <2>1, <2>2, <2>3
  <1>4. OthersSame(c) /\ epoch' >= epoch /\ epoch' \in Int
    BY <1>1, <1>3 DEF OthersSame, TypeOK
  <1>5. \A e \in CPU : NoneBehind(e)
    BY <1>1, UnchangedBehind
  <1>6. LetGo /\ \A e \in CPU : e # c => Leaves(e)
    BY <1>1, <1>4, <1>5, ControlLeaves
  <1>7. owed'[c] = owed[c] /\ target'[c] = target[c] /\ op'[c] # "take"
        /\ (op[c] \in SyncOps <=> op'[c] \in SyncOps)
    BY <1>1, <1>2, <1>3
  <1>8. Owed(c)'
    BY <1>1, <1>2, <1>3, <1>4, <1>6, <1>7, OwnMoves
  <1>9. Past(c)'
    <2>1. ASSUME NEW d \in CPU, SyncCheckOne(c, d) PROVE Past(c)'
      <3>1. /\ lastQ[d] >= target[c] /\ todo'[c] = todo[c] \ {d} /\ UNCHANGED <<pc, op>>
        BY <2>1 DEF SyncCheckOne, TypeOK
      <3>2. ~late[c] => \A f \in CPU \ todo'[c] : lastQ[f] >= target[c]
        BY <1>1, <1>2, <3>1 DEF Past
      <3> QED BY <1>1, <1>2, <3>1, <3>2 DEF Past
    <2>2. CASE SyncNotYet(c)
      <3>1. op'[c] = "sync" /\ pc'[c] = "report"
        BY <1>2, <2>2 DEF SyncNotYet, TypeOK
      <3> QED BY <3>1, NotLast
    <2>3. CASE SyncElapsed(c)
      <3>1. todo[c] = {} /\ op'[c] = "final" /\ pc'[c] = "scan" /\ reg'[c] = lastQ[c]
        BY <2>3 DEF SyncElapsed, TypeOK
      <3>2. ~late[c] => \A f \in CPU : lastQ[f] >= target[c]
        BY <1>1, <1>2, <3>1 DEF Past
      <3> QED BY <1>1, <3>1, <3>2 DEF Past
    <2> QED BY <2>1, <2>2, <2>3
  <1> QED BY <1>6, <1>8, <1>9, LeavesOthers

\* A sync that ends owes nothing.
LEMMA OwedForgets ==
    ASSUME TypeOK, TypeOK', OwedInv, PastInv, NEW c \in CPU, SyncDeadline(c) \/ SyncReturn(c)
    PROVE  SyncKept
  <1>1. /\ NodesStill /\ UNCHANGED <<epoch, lastQ>> /\ pc[c] # "drop"
        /\ op'[c] = "report" /\ pc'[c] = "poll" /\ target'[c] = 0 /\ owed'[c] = {}
        /\ \A e \in CPU : e # c => /\ pc'[e] = pc[e] /\ op'[e] = op[e] /\ todo'[e] = todo[e]
                                   /\ reg'[e] = reg[e] /\ target'[e] = target[e]
                                   /\ owed'[e] = owed[e] /\ late'[e] = late[e]
    <2>1. CASE SyncDeadline(c)
      BY <2>1 DEF SyncDeadline, SyncForget, NodesStill, TypeOK
    <2>2. CASE SyncReturn(c)
      BY <2>2 DEF SyncReturn, SyncForget, NodesStill, TypeOK
    <2> QED BY <2>1, <2>2
  <1>2. OthersSame(c) /\ epoch' >= epoch /\ target'[c] <= epoch'
    BY <1>1 DEF OthersSame, TypeOK
  <1>3. \A e \in CPU : e # c => NoneBehind(e)
    BY <1>1, UnchangedBehind
  <1>4. \A e \in CPU : e # c => Leaves(e)
    BY <1>1, <1>2, <1>3, ControlLeaves
  <1>5. Owed(c)' /\ Past(c)'
    BY <1>1, <1>2, OutOfSync
  <1> QED BY <1>4, <1>5, LeavesOthers

\* A visit to a queue lets nothing go that was not, and ticks the queue off.
LEMMA OwedTake ==
    ASSUME TypeOK, TypeOK', LocalInv, SyncInv, OwedInv, PastInv, NEW c \in CPU, NEW w \in Worker,
           SyncTake(c, w)
    PROVE  SyncKept
  <1>1. /\ UNCHANGED <<epoch, lastQ, target, owed, late, op, reg, bucket, batch, drops, stamp>>
        /\ pc[c] = "sync_take" /\ list[c] = {} /\ list'[c] = queue[w] /\ todo'[c] = todo[c] \ {w}
        /\ pc'[c] = IF queue[w] = {} THEN "sync_take" ELSE "drop"
        /\ queue'[w] = {} /\ \A v \in Worker : v # w => queue'[v] = queue[v]
        /\ \A e \in CPU : e # c => pc'[e] = pc[e] /\ list'[e] = list[e] /\ todo'[e] = todo[e]
    <2>1. pc[c] = "sync_take" /\ list[c] = {}
      BY DEF SyncTake, LocalInv
    <2>2. UNCHANGED <<epoch, lastQ, target, owed, late, op, reg, bucket, batch, drops, stamp>>
      BY DEF SyncTake
    <2>3. /\ list'[c] = queue[w] /\ todo'[c] = todo[c] \ {w}
          /\ pc'[c] = IF queue[w] = {} THEN "sync_take" ELSE "drop"
      BY <2>1 DEF SyncTake, TypeOK
    <2>4. queue'[w] = {} /\ \A v \in Worker : v # w => queue'[v] = queue[v]
      BY DEF SyncTake, TypeOK
    <2>5. \A e \in CPU : e # c => pc'[e] = pc[e] /\ list'[e] = list[e] /\ todo'[e] = todo[e]
      BY DEF SyncTake, TypeOK
    <2> QED BY <2>1, <2>2, <2>3, <2>4, <2>5
  <1>2. op[c] = "take" /\ Owed(c) /\ Past(c)
    BY <1>1, OwedAndPast DEF SyncInv
  <1>3. LetGo
    <2> SUFFICES ASSUME NEW m \in Node, Released(m) PROVE Released(m)'
      BY DEF LetGo
    <2>1. CASE m \in queue[w]
      <3>1. pc'[c] = "drop" /\ m \in list'[c]
        BY <1>1, <2>1
      <3> QED BY <3>1 DEF Released
    <2>2. CASE m \notin queue[w]
      BY <1>1, <2>2 DEF Released
    <2> QED BY <2>1, <2>2
  <1>4. \A e \in CPU : NoneBehind(e)
    BY <1>1, UnchangedBehind
  <1>5. epoch' >= epoch /\ \A n \in Node : stamp'[n] <= stamp[n]
    BY <1>1 DEF TypeOK
  <1>6. \A e \in CPU : \A n \in owed[e] : n \in Node
    BY DEF TypeOK
  <1>7. \A v \in Worker : queue'[v] \subseteq queue[v]
    BY <1>1
  <1>8. \A e \in CPU : e # c => Leaves(e)
    BY <1>1, <1>3, <1>4, <1>5, <1>6, <1>7 DEF Leaves
  <1>9. \A n \in owed[c] : Released(n) => Released(n)'
    BY <1>3, <1>6 DEF LetGo
  <1>10. Owed(c)'
    BY <1>1, <1>2, <1>9 DEF Owed
  <1>11. Past(c)'
    BY <1>1, <1>2, <1>9 DEF Past
  <1> QED BY <1>8, <1>10, <1>11, LeavesOthers

\* Workers only move what has been let go.
LEMMA OwedWorkers ==
    ASSUME TypeOK, TypeOK', OwedInv, PastInv, NEW w \in Worker, WorkerStep(w)
    PROVE  SyncKept
  <1>1. UNCHANGED <<epoch, lastQ, target, owed, late, pc, op, reg, todo, list, bucket>>
    BY DEF WorkerStep, WorkerTake, WorkerRunDropper
  <1>2. /\ LetGo /\ \A v \in Worker : queue'[v] \subseteq queue[v]
        /\ \A n \in Node : stamp'[n] <= stamp[n]
    <2>1. CASE WorkerTake(w)
      <3>1. /\ UNCHANGED <<pc, list, drops, stamp>> /\ batch'[w] = queue[w] /\ batch[w] = {}
            /\ queue'[w] = {}
            /\ \A v \in Worker : v # w => batch'[v] = batch[v] /\ queue'[v] = queue[v]
        BY <2>1 DEF WorkerTake, TypeOK
      <3>2. LetGo
        BY <3>1 DEF LetGo, Released
      <3> QED BY <3>1, <3>2, Numbers
    <2>2. ASSUME NEW n \in Node, WorkerRunDropper(w, n)
          PROVE  /\ LetGo /\ \A v \in Worker : queue'[v] \subseteq queue[v]
                 /\ \A m \in Node : stamp'[m] <= stamp[m]
      <3>1. /\ UNCHANGED <<pc, list, queue>> /\ drops'[n] > 0 /\ stamp'[n] = 0
            /\ \A m \in Node : m # n => drops'[m] = drops[m] /\ stamp'[m] = stamp[m]
            /\ \A v \in Worker : \A m \in Node : m # n /\ m \in batch[v] => m \in batch'[v]
        BY <2>2 DEF WorkerRunDropper, Drop, TypeOK
      <3>2. LetGo
        BY <3>1 DEF LetGo, Released
      <3>3. \A m \in Node : stamp[m] \in Nat
        BY Numbers
      <3> QED BY <3>1, <3>2, <3>3
    <2> QED BY <2>1, <2>2 DEF WorkerStep
  <1>3. \A e \in CPU : NoneBehind(e)
    BY <1>1, UnchangedBehind
  <1>4. epoch' >= epoch
    BY <1>1 DEF TypeOK
  <1>5. \A e \in CPU : \A n \in owed[e] : n \in Node
    BY DEF TypeOK
  <1>6. \A e \in CPU : Leaves(e)
    BY <1>1, <1>2, <1>3, <1>4, <1>5 DEF Leaves
  <1> QED BY <1>6, LeavesAll

----------------------------------------------------------------------------
(* All of it. *)

\* The inductive invariant: ReclaimInv, one home for each node, and what a sync
\* may rely on.
GraceInv == ReclaimInv /\ LocalInv /\ HomeInv /\ SyncInv /\ OwedInv /\ PastInv

\* Every step keeps OwedInv and PastInv.
LEMMA OwedStep ==
    ASSUME GraceInv, TypeOK', [Next]_vars
    PROVE  SyncKept
  <1>0. TypeOK /\ ControlInv /\ EpochInv /\ LocalInv /\ HomeInv /\ SyncInv /\ OwedInv /\ PastInv
    BY DEF GraceInv, ReclaimInv
  <1>1. CASE UNCHANGED vars
    <2>1. NodesStill /\ UNCHANGED <<epoch, pc, op, todo, reg, owed, target, late, lastQ>>
      BY <1>1 DEF vars, NodesStill
    <2> QED BY <1>0, <2>1, OwedQuiet
  <1>2. ASSUME NEW c \in CPU, NEW n \in fresh \cup {Null},
               \/ Store(c, n) \/ IrqStore(c, n)
               \/ CompareAndSet(c, n) \/ DeferDrop(c, n)
        PROVE  SyncKept
    <2>1. NodesStill /\ UNCHANGED <<epoch, pc, op, todo, reg, owed, target, late, lastQ>>
      BY <1>2 DEF Store, IrqStore, CompareAndSet, DeferDrop, Swap, NodesStill
    <2> QED BY <1>0, <2>1, OwedQuiet
  <1>3. ASSUME NEW c \in CPU, Pin(c) \/ Load(c) \/ Unpin(c) PROVE SyncKept
    <2>1. NodesStill /\ UNCHANGED <<epoch, pc, op, todo, reg, owed, target, late, lastQ>>
      BY <1>3 DEF Pin, Load, Unpin, NodesStill
    <2> QED BY <1>0, <2>1, OwedQuiet
  <1>4. ASSUME NEW c \in CPU, TaskMoves(c) PROVE SyncKept
    BY <1>0, <1>2, <1>3, <1>4, OwedRetires, OwedExecutor, OwedStart DEF TaskMoves, TaskRetires
  <1>5. ASSUME NEW c \in CPU, ExecutorStep(c) \/ WakeUp(c) PROVE SyncKept
    BY <1>0, <1>5, OwedExecutor, OwedReports, OwedScan, OwedDetach, OwedSplit, OwedDropper
       DEF ExecutorStep
  <1>6. ASSUME NEW c \in CPU, SyncStep(c) PROVE SyncKept
    BY <1>0, <1>6, OwedChecks, OwedForgets, OwedTake DEF SyncStep
  <1>7. ASSUME NEW c \in CPU, IrqRetires(c) \/ \E n \in fresh \cup {Null} : IrqStore(c, n)
        PROVE  SyncKept
    BY <1>0, <1>2, <1>7, OwedRetires DEF IrqRetires
  <1>8. ASSUME NEW w \in Worker, WorkerStep(w) PROVE SyncKept
    BY <1>0, <1>8, OwedWorkers
  <1> QED BY <1>1, <1>4, <1>5, <1>6, <1>7, <1>8 DEF Next

\* The initial state satisfies all of it.
LEMMA GraceInit ==
    ASSUME Init
    PROVE  GraceInv
  <1>1. ReclaimInv /\ LocalInv /\ HomeInv
    BY ReclaimInit, HomeInit
  <1>2. SyncInv
    BY DEF Init, StartAt, SyncInv
  <1>3. OwedInv
    BY DEF Init, StartAt, OwedInv
  <1>4. PastInv
    BY DEF Init, StartAt, PastInv
  <1> QED BY <1>1, <1>2, <1>3, <1>4 DEF GraceInv

\* Every step keeps all of it.
LEMMA GraceStep ==
    ASSUME IrqCPUs \cap Sleepers = {}, GraceInv, [Next]_vars
    PROVE  GraceInv'
  <1>1. ReclaimInv' /\ TypeOK'
    <2>1. ReclaimInv'
      BY ReclaimStep DEF GraceInv
    <2> QED BY <2>1 DEF ReclaimInv
  <1>2. LocalInv' /\ HomeInv'
    BY HomeStep DEF GraceInv
  <1>3. SyncInv'
    BY SyncInvStep DEF GraceInv
  <1>4. SyncKept
    BY <1>1, OwedStep
  <1>5. OwedInv' /\ PastInv'
    BY <1>4, OwedAndPast DEF SyncKept
  <1> QED BY <1>1, <1>2, <1>3, <1>5 DEF GraceInv

(***************************************************************************)
(* In every reachable state each node has one home, a reader that a sync   *)
(* waits for keeps its CPU behind the target, and the nodes a sync owes    *)
(* are in its bucket with an earlier stamp, in its drain, or let go.       *)
(***************************************************************************)
THEOREM GraceInvariance ==
    ASSUME IrqCPUs \cap Sleepers = {}
    PROVE  Spec => []GraceInv
  <1>1. Init => GraceInv
    BY GraceInit
  <1>2. GraceInv /\ [Next]_vars => GraceInv'
    BY GraceStep
  <1> QED BY <1>1, <1>2, PTL DEF Spec

(***************************************************************************)
(* No node is lost or dropped twice: what is swapped out of the cell goes  *)
(* through a bucket, a drain and, with the workers installed, a queue to   *)
(* one dropper, whatever an interrupt pushes in the middle of a drain.     *)
(***************************************************************************)
THEOREM NodesConservedHolds ==
    ASSUME IrqCPUs \cap Sleepers = {}
    PROVE  Spec => []NodesConserved
  <1>1. GraceInv => NodesConserved
    BY HomesConserve DEF GraceInv, ReclaimInv
  <1> QED BY <1>1, GraceInvariance, PTL

(***************************************************************************)
(* sync_until returns true only when every guard that was live on an       *)
(* active CPU at the call has been dropped.                                *)
(***************************************************************************)
THEOREM SyncWaitsForReadersHolds ==
    ASSUME IrqCPUs \cap Sleepers = {}
    PROVE  Spec => []SyncWaitsForReaders
  <1>1. GraceInv => SyncWaitsForReaders
    BY DEF GraceInv, SyncInv, SyncWaitsForReaders, SyncReturning
  <1> QED BY <1>1, GraceInvariance, PTL

(***************************************************************************)
(* A sync that returns true leaves none of the nodes its CPU had retired   *)
(* before it in a bucket or a queue, unless a CPU came back behind its     *)
(* target after the check had passed it.                                   *)
(***************************************************************************)
THEOREM SyncLeavesNothingQueuedHolds ==
    ASSUME IrqCPUs \cap Sleepers = {}
    PROVE  Spec => []SyncLeavesNothingQueued
  <1>1. ASSUME GraceInv PROVE SyncLeavesNothingQueued
    <2> SUFFICES ASSUME NEW c \in CPU, SyncReturning(c), ~late[c], NEW n \in owed[c]
                 PROVE  DroppedFor(c, n)
      BY DEF SyncLeavesNothingQueued
    <2>0. n \in Node /\ drops[n] \in Nat /\ drops[n] <= 1
      BY <1>1 DEF GraceInv, ReclaimInv, TypeOK, HomeInv
    <2>1. pc[c] = "sync_take" /\ todo[c] = {} /\ op[c] = "take"
      BY <1>1 DEF SyncReturning, GraceInv, SyncInv
    <2>2. Released(n)
      BY <1>1, <2>1 DEF GraceInv, PastInv
    <2>3. \A w \in Worker : n \notin queue[w]
      BY <1>1, <2>1 DEF GraceInv, OwedInv
    <2>4. CASE drops[n] > 0
      BY <2>0, <2>4 DEF DroppedFor
    <2>5. CASE \E d \in CPU : pc[d] = "drop" /\ n \in list[d]
      BY <2>1, <2>5 DEF DroppedFor
    <2>6. CASE \E w \in Worker : n \in queue[w] \/ n \in batch[w]
      BY <2>3, <2>6 DEF DroppedFor
    <2> QED BY <2>2, <2>4, <2>5, <2>6 DEF Released
  <1> QED BY <1>1, GraceInvariance, PTL
=============================================================================
