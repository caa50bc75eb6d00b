------------------------ MODULE ReclaimOffloadProofs ------------------------
(***************************************************************************)
(* What holds of the offload queue for every number of nodes, producers    *)
(* and grace-period waits.  The first part is about linked lists: what a   *)
(* pointer reaches, and what a write to one link leaves alone.  The second *)
(* moves ownership of nodes, one action at a time; the third is about the  *)
(* coalescing bit, the work bit and the waker; the last puts them together *)
(* and adds the steps of CallbackQueue that the actions implement.         *)
(***************************************************************************)
EXTENDS ReclaimOffload, TLAPS

Links == [Node -> Ptr]

----------------------------------------------------------------------------
(* Linked lists. *)

(***************************************************************************)
(* What a pointer reaches is the least closed set: it has the pointer's    *)
(* target, it is closed, and it is inside every set like it.               *)
(***************************************************************************)
LEMMA ReachClosed ==
    ASSUME NEW f \in Links, NEW ptr \in Ptr
    PROVE  /\ ReachIn(f, ptr) \subseteq Node
           /\ ptr \in ReachIn(f, ptr) \cup {Null}
           /\ \A n \in ReachIn(f, ptr) : f[n] \in ReachIn(f, ptr) \cup {Null}
  BY OffloadAssumption DEF ReachIn, Links, Ptr

\* A closed set with the pointer in it holds the whole list.
LEMMA ReachLeast ==
    ASSUME NEW f \in Links, NEW ptr \in Ptr, NEW S \in SUBSET Node,
           ptr \in S \cup {Null}, \A n \in S : f[n] \in S \cup {Null}
    PROVE  ReachIn(f, ptr) \subseteq S
  BY DEF ReachIn

\* The empty list has no nodes.
LEMMA ReachNull ==
    ASSUME NEW f \in Links
    PROVE  ReachIn(f, Null) = {}
  <1>1. Null \in Ptr /\ {} \in SUBSET Node /\ Null \in {} \cup {Null}
    BY DEF Ptr
  <1> DEFINE S == {}
  <1>2. S \in SUBSET Node /\ Null \in S \cup {Null} /\ \A n \in S : f[n] \in S \cup {Null}
    OBVIOUS
  <1> HIDE DEF S
  <1>3. ReachIn(f, Null) \subseteq S
    BY <1>1, <1>2, ReachLeast
  <1> QED BY <1>3 DEF S

\* A list has nodes unless its pointer is null.
LEMMA ReachNode ==
    ASSUME NEW f \in Links, NEW ptr \in Ptr
    PROVE  ptr \in Node <=> ReachIn(f, ptr) # {}
  BY ReachNull, ReachClosed, OffloadAssumption DEF Ptr

(***************************************************************************)
(* What comes after a reached node is reached too.                         *)
(***************************************************************************)
LEMMA ReachAfter ==
    ASSUME NEW f \in Links, NEW ptr \in Ptr, NEW n \in ReachIn(f, ptr)
    PROVE  ReachIn(f, f[n]) \subseteq ReachIn(f, ptr)
  <1>1. n \in Node /\ f[n] \in Ptr
    BY ReachClosed DEF Links
  <1>2. f[n] \in ReachIn(f, ptr) \cup {Null}
    BY ReachClosed
  <1> QED BY <1>1, <1>2, ReachClosed, ReachLeast

(***************************************************************************)
(* A list is its first node and the list after it.                         *)
(***************************************************************************)
LEMMA ReachCons ==
    ASSUME NEW f \in Links, NEW n \in Node
    PROVE  ReachIn(f, n) = {n} \cup ReachIn(f, f[n])
  <1>1. n \in Ptr /\ f[n] \in Ptr
    BY DEF Links, Ptr
  <1>2. n \in ReachIn(f, n)
    BY <1>1, ReachClosed, OffloadAssumption
  <1>3. ReachIn(f, f[n]) \subseteq ReachIn(f, n)
    BY <1>1, <1>2, ReachAfter
  <1> DEFINE S == {n} \cup ReachIn(f, f[n])
  <1>4. S \in SUBSET Node /\ n \in S \cup {Null} /\ \A m \in S : f[m] \in S \cup {Null}
    BY <1>1, ReachClosed
  <1>5. ReachIn(f, n) \subseteq S
    <2> HIDE DEF S
    <2> QED BY <1>1, <1>4, ReachLeast
  <1> QED BY <1>2, <1>3, <1>5

(***************************************************************************)
(* Two sets of links that agree on what a pointer reaches through the one  *)
(* make it reach the same through the other.                               *)
(***************************************************************************)
LEMMA ReachFrame ==
    ASSUME NEW f \in Links, NEW g \in Links, NEW ptr \in Ptr,
           \A n \in ReachIn(f, ptr) : g[n] = f[n]
    PROVE  ReachIn(g, ptr) = ReachIn(f, ptr)
  <1>1. ReachIn(g, ptr) \subseteq ReachIn(f, ptr)
    BY ReachClosed, ReachLeast
  <1>2. \A n \in ReachIn(g, ptr) : f[n] \in ReachIn(g, ptr) \cup {Null}
    BY <1>1, ReachClosed
  <1>3. ReachIn(f, ptr) \subseteq ReachIn(g, ptr)
    BY <1>2, ReachClosed, ReachLeast
  <1> QED BY <1>1, <1>3

\* Links outside a list do not matter to it.
LEMMA AcyclicFrame ==
    ASSUME NEW f \in Links, NEW g \in Links, NEW ptr \in Ptr,
           \A n \in ReachIn(f, ptr) : g[n] = f[n], Acyclic(f, ptr)
    PROVE  Acyclic(g, ptr)
  <1> SUFFICES ASSUME NEW n \in ReachIn(g, ptr)
               PROVE  n \notin ReachIn(g, g[n])
    BY DEF Acyclic
  <1>1. n \in ReachIn(f, ptr)
    BY ReachFrame
  <1>2. n \in Node /\ g[n] = f[n] /\ f[n] \in Ptr
    BY <1>1, ReachClosed DEF Links
  <1>3. \A m \in ReachIn(f, f[n]) : g[m] = f[m]
    BY <1>1, ReachAfter
  <1>4. ReachIn(g, g[n]) = ReachIn(f, f[n])
    BY <1>2, <1>3, ReachFrame
  <1> QED BY <1>1, <1>4 DEF Acyclic

(***************************************************************************)
(* A node in front of a list makes it a list when it is not in it, and     *)
(* only then.                                                              *)
(***************************************************************************)
LEMMA AcyclicCons ==
    ASSUME NEW f \in Links, NEW n \in Node
    PROVE  Acyclic(f, n) <=> n \notin ReachIn(f, f[n]) /\ Acyclic(f, f[n])
  BY ReachCons DEF Acyclic

\* The empty list has no cycle.
LEMMA AcyclicNull ==
    ASSUME NEW f \in Links
    PROVE  Acyclic(f, Null)
  BY ReachNull DEF Acyclic

----------------------------------------------------------------------------
(* Ownership. *)

Free == <<"free", Null>>
Queue == <<"queue", Null>>
Chain(p) == <<"chain", p>>
Taken(t) == <<"taken", t>>

\* The owners a node can have.
LEMMA OwnerIs ==
    /\ Free \in Owner /\ Queue \in Owner
    /\ \A p \in Producer : Chain(p) \in Owner
    /\ \A t \in Taker : Taken(t) \in Owner
    /\ \A o \in Owner : \/ o = Free \/ o = Queue
                        \/ \E p \in Producer : o = Chain(p)
                        \/ \E t \in Taker : o = Taken(t)
  BY DEF Owner, Free, Queue, Chain, Taken

\* No two of them are the same.
LEMMA OwnersDiffer ==
    /\ Free # Queue
    /\ \A p : Chain(p) # Free /\ Chain(p) # Queue
    /\ \A t : Taken(t) # Free /\ Taken(t) # Queue
    /\ \A p, t : Chain(p) # Taken(t)
    /\ \A p, r : Chain(p) = Chain(r) => p = r
    /\ \A t, u : Taken(t) = Taken(u) => t = u
  BY DEF Free, Queue, Chain, Taken

\* What each owner holds.
LEMMA OwnedIs ==
    /\ Owned(Free) = free /\ Owned(Queue) = ReachIn(next, head)
    /\ \A p \in Producer : Owned(Chain(p)) = push[p].cells
    /\ \A t \in Taker : Owned(Taken(t)) = ReachIn(next, list[t])
  BY DEF Owned, Free, Queue, Chain, Taken, Reach

\* The same after a step.
LEMMA OwnedIsNext ==
    /\ Owned(Free)' = free' /\ Owned(Queue)' = ReachIn(next', head')
    /\ \A p \in Producer : Owned(Chain(p))' = push'[p].cells
    /\ \A t \in Taker : Owned(Taken(t))' = ReachIn(next', list'[t])
  BY DEF Owned, Free, Queue, Chain, Taken, Reach

(***************************************************************************)
(* Nodes that move from one owner to another, all else left in place, are  *)
(* still owned once; and so are nodes that do not move.                    *)
(***************************************************************************)
Moves(M, o1, o2) ==
    /\ o1 \in Owner /\ o2 \in Owner /\ o1 # o2 /\ M \subseteq Owned(o1)
    /\ Owned(o1)' = Owned(o1) \ M /\ Owned(o2)' = Owned(o2) \cup M
    /\ \A o \in Owner \ {o1, o2} : Owned(o)' = Owned(o)

\* Nodes that move from one owner to another still have one.
LEMMA MoveKeepsOnce ==
    ASSUME OwnedOnce, NEW M, NEW o1, NEW o2, Moves(M, o1, o2)
    PROVE  OwnedOnce'
  <1> SUFFICES ASSUME NEW n \in Node
               PROVE  \E o \in Owner : \A q \in Owner : n \in Owned(q)' <=> q = o
    BY DEF OwnedOnce
  <1>1. PICK o \in Owner : \A q \in Owner : n \in Owned(q) <=> q = o
    BY DEF OwnedOnce
  <1>2. CASE n \in M
    <2>1. o = o1
      BY <1>1, <1>2 DEF Moves
    <2>2. \A q \in Owner : n \in Owned(q)' <=> q = o2
      BY <1>1, <1>2, <2>1 DEF Moves
    <2> QED BY <2>2 DEF Moves
  <1>3. CASE n \notin M
    BY <1>1, <1>3 DEF Moves
  <1> QED BY <1>2, <1>3

\* Where nobody's nodes change, each still has one owner.
LEMMA StillOnce ==
    ASSUME OwnedOnce, \A o \in Owner : Owned(o)' = Owned(o)
    PROVE  OwnedOnce'
  BY DEF OwnedOnce

(***************************************************************************)
(* Different owners have nothing in common.                                *)
(***************************************************************************)
LEMMA Disjoint ==
    ASSUME OwnedOnce, NEW o1 \in Owner, NEW o2 \in Owner, o1 # o2,
           NEW n \in Node, n \in Owned(o1)
    PROVE  n \notin Owned(o2)
  BY DEF OwnedOnce

----------------------------------------------------------------------------
(* Types. *)

Place == {"idle", "load", "cas", "swap", "work", "clone", "wake"}
Push == [at : Place, first : Ptr, tail : Ptr, seen : Ptr, cells : SUBSET Node]

\* A push that moves to another place.
LEMMA PushAt ==
    ASSUME NEW c \in Push, NEW place \in Place
    PROVE  /\ [c EXCEPT !.at = place] \in Push
           /\ \A v \in Ptr : /\ [c EXCEPT !.at = place, !.seen = v] \in Push
                             /\ [c EXCEPT !.seen = v] \in Push
           /\ [NoPush EXCEPT !.at = place] \in Push
  BY DEF Push, NoPush, Ptr

\* The types hold at the start.
LEMMA InitType ==
    Init => TypeOK
  <1>1. NoPush \in Push /\ Null \in Ptr
    BY DEF NoPush, Push, Place, Ptr
  <1> SUFFICES ASSUME Init PROVE TypeOK
    OBVIOUS
  <1>2. push \in [Producer -> Push]
    BY <1>1 DEF Init
  <1>3. push \in [Producer -> [at : {"idle", "load", "cas", "swap", "work", "clone", "wake"},
                              first : Ptr, tail : Ptr, seen : Ptr, cells : SUBSET Node]]
    BY <1>2 DEF Push, Place
  <1> QED BY <1>1, <1>3 DEF Init, TypeOK

\* Every step keeps the types.
LEMMA StepType ==
    TypeOK /\ [Next]_vars => TypeOK'
  <1> SUFFICES ASSUME TypeOK, [Next]_vars PROVE TypeOK'
    OBVIOUS
  <1> USE DEF TypeOK
  <1>0. /\ push \in [Producer -> Push] /\ Null \in Ptr
        /\ \A n \in Node : next[n] \in Ptr
        /\ \A t \in Taker : list[t] \in Ptr
        /\ (push' \in [Producer -> Push]) =
           (push' \in [Producer -> [at : {"idle", "load", "cas", "swap", "work", "clone", "wake"},
                              first : Ptr, tail : Ptr, seen : Ptr, cells : SUBSET Node]])
    BY DEF Push, Place, Ptr
  <1>1. ASSUME NEW p \in Producer, Offload(p) PROVE TypeOK'
    <2>1. PICK a \in free, b \in free :
            /\ push' = [push EXCEPT ![p] = [at |-> "load", first |-> a, tail |-> b,
                                            seen |-> Null, cells |-> {a, b}]]
            /\ next' = IF a = b THEN next ELSE [next EXCEPT ![a] = b]
            /\ free' = free \ {a, b}
      BY <1>1 DEF Offload
    <2>2. [at |-> "load", first |-> a, tail |-> b, seen |-> Null, cells |-> {a, b}] \in Push
      BY DEF Push, Place, Ptr
    <2>3. push' \in [Producer -> Push]
      BY <2>1, <2>2, <1>0
    <2>4. next' \in [Node -> Ptr] /\ free' \subseteq Node
      BY <2>1 DEF Ptr
    <2> QED BY <2>3, <2>4, <1>0, <1>1 DEF Offload, wakeVars
  <1>2. ASSUME NEW p \in Producer, LoadHead(p) PROVE TypeOK'
    <2>1. push' = [push EXCEPT ![p] = [push[p] EXCEPT !.at = "cas", !.seen = head]]
      BY <1>2, <1>0 DEF LoadHead, Push
    <2>2. push' \in [Producer -> Push]
      BY <2>1, <1>0, PushAt DEF Place
    <2> QED BY <2>2, <1>0, <1>2 DEF LoadHead, wakeVars
  <1>3. ASSUME NEW p \in Producer, CasHead(p) PROVE TypeOK'
    <2>1. \E c \in Push : push' = [push EXCEPT ![p] = c]
      <3>1. push[p] \in Push /\ "swap" \in Place
        BY <1>0 DEF Place
      <3>2. CASE head = push[p].seen
        BY <3>1, <3>2, <1>3, PushAt DEF CasHead
      <3>3. CASE head # push[p].seen
        <4>1. push' = [push EXCEPT ![p] = [push[p] EXCEPT !.seen = head]]
          BY <1>3, <3>3 DEF CasHead
        <4> QED BY <4>1, <3>1, PushAt
      <3> QED BY <3>2, <3>3
    <2>2. push' \in [Producer -> Push]
      BY <2>1, <1>0
    <2>3. push[p].first \in Ptr
      BY <1>0 DEF Push
    <2> QED BY <2>2, <2>3, <1>0, <1>3 DEF CasHead, wakeVars
  <1>4. ASSUME NEW p \in Producer, NEW place \in Place, Step(p, place)
        PROVE  push' \in [Producer -> Push]
    <2>1. push' = [push EXCEPT ![p] = [push[p] EXCEPT !.at = place]]
      BY <1>4 DEF Step
    <2> QED BY <2>1, <1>0, PushAt
  <1>5. ASSUME NEW p \in Producer, SwapKicked(p) \/ KickWork(p) \/ KickClone(p) \/ KickWake(p)
        PROVE  TypeOK'
    <2>1. \E place \in Place : Step(p, place)
      BY <1>5 DEF SwapKicked, KickWork, KickClone, KickWake, Place
    <2>2. push' \in [Producer -> Push]
      BY <2>1, <1>4
    <2> QED BY <2>2, <1>0, <1>5
            DEF SwapKicked, KickWork, KickClone, KickWake, queueVars, wakeVars
  <1>6. ASSUME NEW t \in Taker, TakerStep(t) PROVE TypeOK'
    <2>1. CASE ClearKicked(t)
      BY <2>1 DEF ClearKicked, wakeVars
    <2>2. CASE DetachList(t)
      BY <2>2, <1>0 DEF DetachList, wakeVars
    <2>3. CASE RunDropper(t)
      BY <2>3, <1>0 DEF RunDropper, wakeVars, Ptr
    <2>4. CASE BatchDone(t)
      BY <2>4 DEF BatchDone, queueVars
    <2> QED BY <1>6, <2>1, <2>2, <2>3, <2>4 DEF TakerStep
  <1>7. ASSUME NEW s \in Syncer, SyncTakes(s) PROVE TypeOK'
    BY <1>7 DEF SyncTakes, queueVars, wakeVars, Taker
  <1>8. CASE WorkerStep
    BY <1>8 DEF WorkerStep, PollWorker, CheckWork, InstallWaker, RecheckWork, queueVars,
                wakeVars, Taker
  <1>9. CASE UNCHANGED vars
    BY <1>9 DEF vars, queueVars, wakeVars
  <1> QED BY <1>1, <1>2, <1>3, <1>5, <1>6, <1>7, <1>8, <1>9 DEF Next, ProducerStep

----------------------------------------------------------------------------
(* How each action moves the nodes. *)

\* No node enters or leaves the queue or a taker's list.
SameLists ==
    /\ ReachIn(next', head') = ReachIn(next, head)
    /\ \A t \in Taker : ReachIn(next', list'[t]) = ReachIn(next, list[t])

(***************************************************************************)
(* Writing the link of one node leaves every list without it alone.        *)
(***************************************************************************)
LEMMA LinkFrame ==
    ASSUME next \in Links, next' \in Links, NEW x, NEW ptr \in Ptr,
           \A n \in Node \ {x} : next'[n] = next[n], x \notin ReachIn(next, ptr)
    PROVE  /\ ReachIn(next', ptr) = ReachIn(next, ptr)
           /\ Acyclic(next, ptr) => Acyclic(next', ptr)
  BY ReachClosed, ReachFrame, AcyclicFrame

(***************************************************************************)
(* Two producers' chains have nothing in common, nor has a chain anything  *)
(* in common with a list or with the free nodes.                           *)
(***************************************************************************)
LEMMA ChainsApart ==
    ASSUME TypeOK, OwnedOnce, NEW p \in Producer, NEW n \in push[p].cells
    PROVE  /\ n \in Node /\ n \notin free /\ n \notin ReachIn(next, head)
           /\ \A t \in Taker : n \notin ReachIn(next, list[t])
           /\ \A r \in Producer \ {p} : n \notin push[r].cells
  <1>1. n \in Node
    BY DEF TypeOK
  <1>2. n \in Owned(Chain(p)) /\ Chain(p) \in Owner
    BY OwnedIs, OwnerIs
  <1>3. \A o \in Owner : o # Chain(p) => n \notin Owned(o)
    BY <1>1, <1>2, Disjoint
  <1> QED BY <1>1, <1>3, OwnedIs, OwnerIs, OwnersDiffer

\* A free node is on no list and in no chain.
LEMMA FreeApart ==
    ASSUME TypeOK, OwnedOnce, NEW n \in free
    PROVE  /\ n \in Node /\ n \notin ReachIn(next, head)
           /\ \A t \in Taker : n \notin ReachIn(next, list[t])
           /\ \A r \in Producer : n \notin push[r].cells
  <1>1. n \in Node
    BY DEF TypeOK
  <1>2. \A o \in Owner : o # Free => n \notin Owned(o)
    BY <1>1, Disjoint, OwnedIs, OwnerIs
  <1> QED BY <1>1, <1>2, OwnedIs, OwnerIs, OwnersDiffer

\* A node a taker holds is nowhere else.
LEMMA TakenApart ==
    ASSUME TypeOK, OwnedOnce, NEW t \in Taker, NEW n \in ReachIn(next, list[t])
    PROVE  /\ n \in Node /\ n \notin free /\ n \notin ReachIn(next, head)
           /\ \A u \in Taker \ {t} : n \notin ReachIn(next, list[u])
           /\ \A r \in Producer : n \notin push[r].cells
  <1>1. n \in Node
    BY DEF ReachIn
  <1>2. \A o \in Owner : o # Taken(t) => n \notin Owned(o)
    BY <1>1, Disjoint, OwnedIs, OwnerIs
  <1> QED BY <1>1, <1>2, OwnedIs, OwnerIs, OwnersDiffer

(***************************************************************************)
(* Steps that touch neither pointers nor chains.                           *)
(***************************************************************************)
LEMMA QuietNodes ==
    ASSUME NodesInv, UNCHANGED <<head, next, free, list>>,
           \A p \in Producer :
              \/ push'[p] = push[p]
              \/ /\ push'[p].cells = push[p].cells
                 /\ {push[p].at, push'[p].at} \cap {"load", "cas"} = {}
    PROVE  NodesInv'
  <1>1. ListInv'
    BY DEF NodesInv, ListInv
  <1>2. ChainInv'
    <2> SUFFICES ASSUME NEW p \in Producer
                 PROVE  LET c == push'[p] IN
                        IF c.at \in {"load", "cas"}
                        THEN /\ c.first \in Node /\ c.tail \in Node
                             /\ c.cells = {c.first, c.tail}
                             /\ c.first # c.tail => next'[c.first] = c.tail
                             /\ c.at = "cas" => next'[c.tail] = c.seen
                        ELSE c.cells = {}
      BY DEF ChainInv
    <2> QED BY DEF NodesInv, ChainInv
  <1>3. \A o \in Owner : Owned(o)' = Owned(o)
    <2> SUFFICES ASSUME NEW o \in Owner PROVE Owned(o)' = Owned(o)
      OBVIOUS
    <2>1. CASE o = Free \/ o = Queue
      BY <2>1, OwnedIs, OwnedIsNext
    <2>2. ASSUME NEW p \in Producer, o = Chain(p) PROVE Owned(o)' = Owned(o)
      BY <2>2, OwnedIs, OwnedIsNext
    <2>3. ASSUME NEW t \in Taker, o = Taken(t) PROVE Owned(o)' = Owned(o)
      BY <2>3, OwnedIs, OwnedIsNext
    <2> QED BY <2>1, <2>2, <2>3, OwnerIs
  <1> QED BY <1>1, <1>2, <1>3, StillOnce DEF NodesInv

(***************************************************************************)
(* A producer's chain after a step: what the other chains rely on stands   *)
(* when only links of nodes outside them are written.                      *)
(***************************************************************************)
ChainOf(c, f) ==
    IF c.at \in {"load", "cas"}
    THEN /\ c.first \in Node /\ c.tail \in Node /\ c.cells = {c.first, c.tail}
         /\ c.first # c.tail => f[c.first] = c.tail
         /\ c.at = "cas" => f[c.tail] = c.seen
    ELSE c.cells = {}

\* ChainInv, producer by producer.
LEMMA ChainInvIs ==
    /\ ChainInv <=> \A p \in Producer : ChainOf(push[p], next)
    /\ ChainInv' <=> \A p \in Producer : ChainOf(push'[p], next')
  BY DEF ChainInv, ChainOf

\* The chains of the other producers stay as they are.
LEMMA OtherChains ==
    ASSUME TypeOK, NodesInv, NEW p \in Producer, NEW x,
           \A r \in Producer \ {p} : x \notin push[r].cells /\ push'[r] = push[r],
           \A n \in Node \ {x} : next'[n] = next[n],
           ChainOf(push'[p], next')
    PROVE  ChainInv'
  <1> SUFFICES ASSUME NEW r \in Producer, r # p PROVE ChainOf(push'[r], next')
    BY ChainInvIs
  <1>1. ChainOf(push[r], next)
    BY ChainInvIs DEF NodesInv
  <1> QED BY <1>1 DEF ChainOf

\* A drain hands its chain over.
LEMMA OffloadNodes ==
    ASSUME TypeOK, TypeOK', NodesInv, NEW p \in Producer, Offload(p)
    PROVE  NodesInv' /\ SameLists
  <1>1. PICK a \in free, b \in free :
          /\ push' = [push EXCEPT ![p] = [at |-> "load", first |-> a, tail |-> b,
                                          seen |-> Null, cells |-> {a, b}]]
          /\ next' = IF a = b THEN next ELSE [next EXCEPT ![a] = b]
          /\ free' = free \ {a, b}
    BY DEF Offload
  <1>2. /\ next \in Links /\ next' \in Links /\ a \in Node /\ b \in Node
        /\ \A n \in Node \ {a} : next'[n] = next[n]
        /\ head' = head /\ list' = list /\ head \in Ptr /\ \A t \in Taker : list[t] \in Ptr
        /\ a # b => next'[a] = b
    BY <1>1 DEF Offload, TypeOK, Links
  <1>3. OwnedOnce /\ ListInv
    BY DEF NodesInv
  <1>4. /\ ReachIn(next', head) = ReachIn(next, head) /\ Acyclic(next', head)
        /\ \A t \in Taker : /\ ReachIn(next', list[t]) = ReachIn(next, list[t])
                            /\ Acyclic(next', list[t])
    BY <1>2, <1>3, FreeApart, LinkFrame DEF ListInv
  <1>5. /\ push'[p] = [at |-> "load", first |-> a, tail |-> b, seen |-> Null, cells |-> {a, b}]
        /\ \A r \in Producer \ {p} : push'[r] = push[r]
    BY <1>1 DEF TypeOK
  <1>6. ChainInv'
    <2>1. \A r \in Producer \ {p} : a \notin push[r].cells
      BY <1>3, FreeApart
    <2>2. ChainOf(push'[p], next')
      BY <1>2, <1>5 DEF ChainOf
    <2> QED BY <1>2, <1>5, <2>1, <2>2, OtherChains
  <1>7. ListInv'
    BY <1>2, <1>4 DEF ListInv
  <1>8. push[p].cells = {}
    <2>1. ChainOf(push[p], next)
      BY ChainInvIs DEF NodesInv
    <2> QED BY <2>1 DEF ChainOf, Offload
  <1>9. Moves({a, b}, Free, Chain(p))
    <2>1. Free \in Owner /\ Chain(p) \in Owner /\ Free # Chain(p)
      BY OwnerIs, OwnersDiffer
    <2>2. /\ {a, b} \subseteq Owned(Free) /\ Owned(Free)' = Owned(Free) \ {a, b}
          /\ Owned(Chain(p))' = Owned(Chain(p)) \cup {a, b}
      BY <1>1, <1>5, <1>8, OwnedIs, OwnedIsNext
    <2>3. ASSUME NEW o \in Owner, o # Free, o # Chain(p) PROVE Owned(o)' = Owned(o)
      <3>1. CASE o = Queue
        BY <3>1, <1>2, <1>4, OwnedIs, OwnedIsNext
      <3>2. ASSUME NEW r \in Producer, o = Chain(r) PROVE Owned(o)' = Owned(o)
        BY <3>2, <2>3, <1>5, OwnedIs, OwnedIsNext
      <3>3. ASSUME NEW t \in Taker, o = Taken(t) PROVE Owned(o)' = Owned(o)
        BY <3>3, <1>2, <1>4, OwnedIs, OwnedIsNext
      <3> QED BY <2>3, <3>1, <3>2, <3>3, OwnerIs
    <2> QED BY <2>1, <2>2, <2>3 DEF Moves
  <1>10. OwnedOnce'
    BY <1>3, <1>9, MoveKeepsOnce
  <1>11. SameLists
    BY <1>2, <1>4 DEF SameLists
  <1> QED BY <1>6, <1>7, <1>10, <1>11 DEF NodesInv

(***************************************************************************)
(* Linking the tail of a chain to the head moves no node, even when the    *)
(* head has moved since and the link leads to another's nodes.             *)
(***************************************************************************)
LinksToHead(p) ==
    /\ push[p].at \in {"load", "cas"} /\ next' = [next EXCEPT ![push[p].tail] = head]
    /\ push'[p].at = "cas" /\ push'[p].seen = head /\ push'[p].cells = push[p].cells
    /\ push'[p].first = push[p].first /\ push'[p].tail = push[p].tail
    /\ \A r \in Producer \ {p} : push'[r] = push[r]
    /\ UNCHANGED <<head, free, list>>

\* The tail is linked to the head that was read.
LEMMA LinkNodes ==
    ASSUME TypeOK, TypeOK', NodesInv, NEW p \in Producer, LinksToHead(p)
    PROVE  NodesInv' /\ SameLists
  <1>0. PICK x : x = push[p].tail
    OBVIOUS
  <1>1. OwnedOnce /\ ListInv /\ ChainOf(push[p], next)
    BY ChainInvIs DEF NodesInv
  <1>2. x \in push[p].cells /\ x \in Node
    BY <1>0, <1>1 DEF ChainOf, LinksToHead
  <1>3. /\ next \in Links /\ next' \in Links
        /\ next'[x] = head /\ \A n \in Node \ {x} : next'[n] = next[n]
        /\ head \in Ptr /\ \A t \in Taker : list[t] \in Ptr
    BY <1>0, <1>2 DEF TypeOK, Links, LinksToHead
  <1>4. /\ ReachIn(next', head) = ReachIn(next, head) /\ Acyclic(next', head)
        /\ \A t \in Taker : /\ ReachIn(next', list[t]) = ReachIn(next, list[t])
                            /\ Acyclic(next', list[t])
    BY <1>1, <1>2, <1>3, ChainsApart, LinkFrame DEF ListInv
  <1>5. /\ push'[p].at = "cas" /\ push'[p].seen = head /\ push'[p].first = push[p].first
        /\ push'[p].tail = x /\ push'[p].cells = push[p].cells
        /\ \A r \in Producer \ {p} : push'[r] = push[r]
    BY <1>0 DEF LinksToHead
  <1>6. ChainInv'
    <2>1. \A r \in Producer \ {p} : x \notin push[r].cells
      BY <1>1, <1>2, ChainsApart
    <2>2. ChainOf(push'[p], next')
      BY <1>0, <1>1, <1>3, <1>5 DEF ChainOf, LinksToHead
    <2>3. /\ \A r \in Producer \ {p} : x \notin push[r].cells /\ push'[r] = push[r]
          /\ \A n \in Node \ {x} : next'[n] = next[n]
      BY <1>3, <1>5, <2>1
    <2> QED BY ONLY <2>2, <2>3, OtherChains, TypeOK, NodesInv, p \in Producer
  <1>7. ListInv'
    BY <1>4 DEF ListInv, LinksToHead
  <1>8. ASSUME NEW o \in Owner PROVE Owned(o)' = Owned(o)
    <2>1. CASE o = Free \/ o = Queue
      BY <2>1, <1>4, OwnedIs, OwnedIsNext DEF LinksToHead
    <2>2. ASSUME NEW r \in Producer, o = Chain(r) PROVE Owned(o)' = Owned(o)
      BY <2>2, <1>5, OwnedIs, OwnedIsNext
    <2>3. ASSUME NEW t \in Taker, o = Taken(t) PROVE Owned(o)' = Owned(o)
      BY <2>3, <1>4, OwnedIs, OwnedIsNext DEF LinksToHead
    <2> QED BY <2>1, <2>2, <2>3, OwnerIs
  <1>9. OwnedOnce'
    BY <1>1, <1>8, StillOnce
  <1>10. SameLists
    BY <1>4 DEF SameLists, LinksToHead
  <1> QED BY <1>6, <1>7, <1>9, <1>10 DEF NodesInv

(***************************************************************************)
(* The exchange that finds the head it linked to puts exactly the chain in *)
(* front of exactly the queue, whatever became of the head in between.     *)
(***************************************************************************)
LEMMA PushNodes ==
    ASSUME TypeOK, NodesInv, NEW p \in Producer, CasHead(p), head = push[p].seen
    PROVE  /\ NodesInv' /\ UNCHANGED <<next, list>>
           /\ push[p].cells # {}
           /\ ReachIn(next', head') = ReachIn(next, head) \cup push[p].cells
  <1>1. OwnedOnce /\ ListInv /\ ChainOf(push[p], next)
    BY ChainInvIs DEF NodesInv
  <1>2. PICK a, b : a = push[p].first /\ b = push[p].tail
    OBVIOUS
  <1>3. /\ head' = a /\ next' = next /\ free' = free /\ list' = list
        /\ push' = [push EXCEPT ![p] = [NoPush EXCEPT !.at = "swap"]]
    BY <1>2 DEF CasHead
  <1>4. /\ a \in Node /\ b \in Node /\ push[p].cells = {a, b}
        /\ a # b => next[a] = b
        /\ next[b] = head
    BY <1>1, <1>2 DEF ChainOf, CasHead
  <1>5. /\ a \notin ReachIn(next, head) /\ b \notin ReachIn(next, head)
        /\ next \in Links /\ Acyclic(next, head)
    BY <1>1, <1>4, ChainsApart DEF TypeOK, Links, ListInv
  <1>6. ReachIn(next, b) = {b} \cup ReachIn(next, head) /\ Acyclic(next, b)
    BY <1>4, <1>5, ReachCons, AcyclicCons
  <1>7. ReachIn(next, a) = ReachIn(next, head) \cup {a, b} /\ Acyclic(next, a)
    <2>1. CASE a = b
      BY <1>6, <2>1
    <2>2. CASE a # b
      BY <1>4, <1>5, <1>6, <2>2, ReachCons, AcyclicCons
    <2> QED BY <2>1, <2>2
  <1>8. ListInv'
    BY <1>1, <1>3, <1>7 DEF ListInv
  <1>9. /\ push'[p].at = "swap" /\ push'[p].cells = {}
        /\ \A r \in Producer \ {p} : push'[r] = push[r]
    BY <1>3 DEF TypeOK, NoPush
  <1>10. ChainInv'
    <2>1. \A r \in Producer \ {p} : a \notin push[r].cells
      BY <1>1, <1>4, ChainsApart
    <2>2. ChainOf(push'[p], next')
      BY <1>9 DEF ChainOf
    <2> QED BY <1>3, <1>9, <2>1, <2>2, OtherChains
  <1>11. Moves({a, b}, Chain(p), Queue)
    <2>1. Queue \in Owner /\ Chain(p) \in Owner /\ Queue # Chain(p)
      BY OwnerIs, OwnersDiffer
    <2>2. /\ {a, b} \subseteq Owned(Chain(p)) /\ Owned(Chain(p))' = Owned(Chain(p)) \ {a, b}
          /\ Owned(Queue)' = Owned(Queue) \cup {a, b}
      BY <1>3, <1>4, <1>7, <1>9, OwnedIs, OwnedIsNext
    <2>3. ASSUME NEW o \in Owner, o # Queue, o # Chain(p) PROVE Owned(o)' = Owned(o)
      <3>1. CASE o = Free
        BY <3>1, <1>3, OwnedIs, OwnedIsNext
      <3>2. ASSUME NEW r \in Producer, o = Chain(r) PROVE Owned(o)' = Owned(o)
        BY <3>2, <2>3, <1>9, OwnedIs, OwnedIsNext
      <3>3. ASSUME NEW t \in Taker, o = Taken(t) PROVE Owned(o)' = Owned(o)
        BY <3>3, <1>3, OwnedIs, OwnedIsNext
      <3> QED BY <2>3, <3>1, <3>2, <3>3, OwnerIs
    <2> QED BY <2>1, <2>2, <2>3 DEF Moves
  <1>12. OwnedOnce'
    BY <1>1, <1>11, MoveKeepsOnce
  <1> QED BY <1>3, <1>4, <1>7, <1>8, <1>10, <1>12 DEF NodesInv

(***************************************************************************)
(* Detaching gives the taker the whole queue and leaves it empty.          *)
(***************************************************************************)
LEMMA DetachNodes ==
    ASSUME TypeOK, TypeOK', NodesInv, NEW t \in Taker, DetachList(t)
    PROVE  /\ NodesInv' /\ ReachIn(next, list[t]) = {} /\ ReachIn(next', head') = {}
           /\ ReachIn(next', list'[t]) = ReachIn(next, head)
           /\ \A u \in Taker \ {t} : list'[u] = list[u]
           /\ next' = next
  <1>1. OwnedOnce /\ ListInv /\ ChainInv /\ next \in Links
    BY DEF NodesInv, TypeOK, Links
  <1>2. /\ list[t] = Null /\ list'[t] = head /\ head' = Null
        /\ \A u \in Taker \ {t} : list'[u] = list[u]
        /\ next' = next /\ free' = free /\ push' = push
    BY DEF DetachList, TypeOK
  <1>3. ReachIn(next, Null) = {} /\ Acyclic(next, Null)
    BY <1>1, ReachNull, AcyclicNull
  <1>4. ListInv' /\ ChainInv'
    BY <1>1, <1>2, <1>3 DEF ListInv, ChainInv
  <1>5. Moves(ReachIn(next, head), Queue, Taken(t))
    <2>1. Queue \in Owner /\ Taken(t) \in Owner /\ Queue # Taken(t)
      BY OwnerIs, OwnersDiffer
    <2>2. /\ ReachIn(next, head) \subseteq Owned(Queue)
          /\ Owned(Queue)' = Owned(Queue) \ ReachIn(next, head)
          /\ Owned(Taken(t))' = Owned(Taken(t)) \cup ReachIn(next, head)
      BY <1>2, <1>3, OwnedIs, OwnedIsNext
    <2>3. ASSUME NEW o \in Owner, o # Queue, o # Taken(t) PROVE Owned(o)' = Owned(o)
      <3>1. CASE o = Free
        BY <3>1, <1>2, OwnedIs, OwnedIsNext
      <3>2. ASSUME NEW r \in Producer, o = Chain(r) PROVE Owned(o)' = Owned(o)
        BY <3>2, <1>2, OwnedIs, OwnedIsNext
      <3>3. ASSUME NEW u \in Taker, o = Taken(u) PROVE Owned(o)' = Owned(o)
        BY <3>3, <2>3, <1>2, OwnedIs, OwnedIsNext
      <3> QED BY <2>3, <3>1, <3>2, <3>3, OwnerIs
    <2> QED BY <2>1, <2>2, <2>3 DEF Moves
  <1>6. OwnedOnce'
    BY <1>1, <1>5, MoveKeepsOnce
  <1> QED BY <1>2, <1>3, <1>4, <1>6 DEF NodesInv

(***************************************************************************)
(* Running a dropper takes one node off the taker's list and no other.     *)
(***************************************************************************)
LEMMA DropperNodes ==
    ASSUME TypeOK, TypeOK', NodesInv, NEW t \in Taker, RunDropper(t)
    PROVE  /\ NodesInv' /\ head' = head
           /\ ReachIn(next', head') = ReachIn(next, head)
           /\ list[t] \in ReachIn(next, list[t])
           /\ ReachIn(next', list'[t]) = ReachIn(next, list[t]) \ {list[t]}
           /\ \A u \in Taker \ {t} : ReachIn(next', list'[u]) = ReachIn(next, list[u])
  <1>1. OwnedOnce /\ ListInv /\ ChainInv /\ next \in Links /\ next' \in Links
    BY DEF NodesInv, TypeOK, Links
  <1>2. PICK x \in Node : x = list[t]
    BY DEF RunDropper, TypeOK, Ptr
  <1>3. /\ list'[t] = next[x] /\ \A u \in Taker \ {t} : list'[u] = list[u]
        /\ head' = head /\ free' = free \cup {x} /\ push' = push
        /\ \A n \in Node \ {x} : next'[n] = next[n]
        /\ next[x] \in Ptr /\ head \in Ptr /\ \A u \in Taker : list[u] \in Ptr
    BY <1>2 DEF RunDropper, TypeOK
  <1>4. ReachIn(next, x) = {x} \cup ReachIn(next, next[x])
    BY <1>1, ReachCons
  <1>5. x \notin ReachIn(next, next[x]) /\ Acyclic(next, next[x])
    BY <1>1, <1>2, AcyclicCons DEF ListInv
  <1>6. /\ x \notin ReachIn(next, head) /\ \A u \in Taker \ {t} : x \notin ReachIn(next, list[u])
        /\ x \notin free /\ \A r \in Producer : x \notin push[r].cells
    <2>1. x \in ReachIn(next, list[t])
      BY <1>2, <1>4
    <2> QED BY <1>1, <2>1, TakenApart
  <1>7. /\ ReachIn(next', head) = ReachIn(next, head) /\ Acyclic(next', head)
        /\ \A u \in Taker \ {t} : /\ ReachIn(next', list[u]) = ReachIn(next, list[u])
                                  /\ Acyclic(next', list[u])
    BY <1>1, <1>3, <1>6, LinkFrame DEF ListInv
  <1>8. ReachIn(next', next[x]) = ReachIn(next, next[x]) /\ Acyclic(next', next[x])
    BY <1>1, <1>3, <1>5, LinkFrame
  <1>9. ListInv'
    BY <1>3, <1>7, <1>8 DEF ListInv
  <1>10. ChainInv'
    <2> SUFFICES ASSUME NEW r \in Producer PROVE ChainOf(push'[r], next')
      BY ChainInvIs
    <2>1. ChainOf(push[r], next)
      BY <1>1, ChainInvIs
    <2> QED BY <2>1, <1>3, <1>6 DEF ChainOf
  <1>11. Moves({x}, Taken(t), Free)
    <2>1. Free \in Owner /\ Taken(t) \in Owner /\ Free # Taken(t)
      BY OwnerIs, OwnersDiffer
    <2>2. /\ {x} \subseteq Owned(Taken(t)) /\ Owned(Taken(t))' = Owned(Taken(t)) \ {x}
          /\ Owned(Free)' = Owned(Free) \cup {x}
      BY <1>2, <1>3, <1>4, <1>5, <1>8, OwnedIs, OwnedIsNext
    <2>3. ASSUME NEW o \in Owner, o # Free, o # Taken(t) PROVE Owned(o)' = Owned(o)
      <3>1. CASE o = Queue
        BY <3>1, <1>3, <1>7, OwnedIs, OwnedIsNext
      <3>2. ASSUME NEW r \in Producer, o = Chain(r) PROVE Owned(o)' = Owned(o)
        BY <3>2, <1>3, OwnedIs, OwnedIsNext
      <3>3. ASSUME NEW u \in Taker, o = Taken(u) PROVE Owned(o)' = Owned(o)
        BY <3>3, <2>3, <1>3, <1>7, OwnedIs, OwnedIsNext
      <3> QED BY <2>3, <3>1, <3>2, <3>3, OwnerIs
    <2> QED BY <2>1, <2>2, <2>3 DEF Moves
  <1>12. OwnedOnce'
    BY <1>1, <1>11, MoveKeepsOnce
  <1> QED BY <1>2, <1>3, <1>4, <1>5, <1>7, <1>8, <1>9, <1>10, <1>12 DEF NodesInv

(***************************************************************************)
(* Every step leaves every node with exactly one owner.                    *)
(***************************************************************************)
LEMMA StepMoves ==
    ASSUME TypeOK, NEW p \in Producer, NEW place, Step(p, place)
    PROVE  /\ push'[p].at = place /\ push'[p].cells = push[p].cells
           /\ \A r \in Producer \ {p} : push'[r] = push[r]
  BY DEF Step, TypeOK

\* Every step keeps the ownership of nodes.
LEMMA StepNodes ==
    TypeOK /\ NodesInv /\ [Next]_vars => NodesInv'
  <1> SUFFICES ASSUME TypeOK, NodesInv, [Next]_vars PROVE NodesInv'
    OBVIOUS
  <1>0. TypeOK'
    BY StepType
  <1>1. ASSUME NEW p \in Producer, Offload(p) PROVE NodesInv'
    BY <1>0, <1>1, OffloadNodes
  <1>2. ASSUME NEW p \in Producer, LoadHead(p) PROVE NodesInv'
    <2>1. LinksToHead(p)
      BY <1>2 DEF LoadHead, LinksToHead, TypeOK
    <2> QED BY <1>0, <2>1, LinkNodes
  <1>3. ASSUME NEW p \in Producer, CasHead(p) PROVE NodesInv'
    <2>1. CASE head = push[p].seen
      BY <1>3, <2>1, PushNodes
    <2>2. CASE head # push[p].seen
      <3>1. LinksToHead(p)
        BY <1>3, <2>2 DEF CasHead, LinksToHead, TypeOK
      <3> QED BY <1>0, <3>1, LinkNodes
    <2> QED BY <2>1, <2>2
  <1>4. ASSUME NEW p \in Producer, SwapKicked(p) \/ KickWork(p) \/ KickClone(p) \/ KickWake(p)
        PROVE  NodesInv'
    <2>1. push[p].at \in {"swap", "work", "clone", "wake"} /\ UNCHANGED <<head, next, free, list>>
      BY <1>4 DEF SwapKicked, KickWork, KickClone, KickWake, queueVars
    <2>2. PICK place \in {"idle", "work", "clone", "wake"} : Step(p, place)
      BY <1>4 DEF SwapKicked, KickWork, KickClone, KickWake
    <2> QED BY <2>1, <2>2, StepMoves, QuietNodes
  <1>5. ASSUME NEW t \in Taker, TakerStep(t) PROVE NodesInv'
    <2>1. CASE ClearKicked(t) \/ BatchDone(t)
      BY <2>1, QuietNodes DEF ClearKicked, BatchDone, queueVars
    <2>2. CASE DetachList(t)
      BY <2>2, <1>0, DetachNodes
    <2>3. CASE RunDropper(t)
      BY <2>3, <1>0, DropperNodes
    <2> QED BY <1>5, <2>1, <2>2, <2>3 DEF TakerStep
  <1>6. ASSUME NEW s \in Syncer, SyncTakes(s) PROVE NodesInv'
    BY <1>6, QuietNodes DEF SyncTakes, queueVars
  <1>7. CASE WorkerStep
    BY <1>7, QuietNodes
       DEF WorkerStep, PollWorker, CheckWork, InstallWaker, RecheckWork, queueVars
  <1>8. CASE UNCHANGED vars
    BY <1>8, QuietNodes DEF vars, queueVars
  <1> QED BY <1>1, <1>2, <1>3, <1>4, <1>5, <1>6, <1>7, <1>8 DEF Next, ProducerStep

\* At the start every node is free.
LEMMA InitNodes ==
    Init => NodesInv
  <1> SUFFICES ASSUME Init PROVE NodesInv
    OBVIOUS
  <1>1. next \in Links /\ head = Null /\ \A t \in Taker : list[t] = Null
    BY DEF Init, Links, Ptr
  <1>2. ListInv
    BY <1>1, AcyclicNull DEF ListInv
  <1>3. ChainInv
    BY DEF Init, ChainInv, NoPush
  <1>4. \A o \in Owner : Owned(o) = IF o = Free THEN Node ELSE {}
    <2> SUFFICES ASSUME NEW o \in Owner PROVE Owned(o) = IF o = Free THEN Node ELSE {}
      OBVIOUS
    <2>1. CASE o = Free
      BY <2>1, OwnedIs DEF Init
    <2>2. CASE o = Queue
      BY <2>2, <1>1, OwnedIs, OwnersDiffer, ReachNull
    <2>3. ASSUME NEW p \in Producer, o = Chain(p) PROVE Owned(o) = {} /\ o # Free
      BY <2>3, OwnedIs, OwnersDiffer DEF Init, NoPush
    <2>4. ASSUME NEW t \in Taker, o = Taken(t) PROVE Owned(o) = {} /\ o # Free
      BY <2>4, <1>1, OwnedIs, OwnersDiffer, ReachNull
    <2> QED BY <2>1, <2>2, <2>3, <2>4, OwnerIs
  <1>5. OwnedOnce
    BY <1>4, OwnerIs DEF OwnedOnce
  <1> QED BY <1>2, <1>3, <1>5 DEF NodesInv

----------------------------------------------------------------------------
(* The coalescing bit, the work bit and the waker. *)

\* At the start nobody is parked or kicking.
LEMMA InitBits ==
    Init => BitsInv
  BY DEF Init, BitsInv, NodesHaveTaker, ParkedWorkerIsWoken, KickInv, ParkInv, Taker

(***************************************************************************)
(* No kick is lost between a producer, the takers and the worker's park.   *)
(***************************************************************************)
LEMMA StepBits ==
    TypeOK /\ BitsInv /\ [Next]_vars => BitsInv'
  <1> SUFFICES ASSUME TypeOK, BitsInv, [Next]_vars PROVE BitsInv'
    OBVIOUS
  <1> USE DEF BitsInv, NodesHaveTaker, ParkedWorkerIsWoken, KickInv, ParkInv, KickComing,
              WorkerComing
  <1>0. Worker \in Taker /\ \A s \in Syncer : s \in Taker /\ s # Worker
    BY OffloadAssumption DEF Taker
  <1>1. ASSUME NEW p \in Producer, Offload(p) \/ LoadHead(p) \/ CasHead(p) PROVE BitsInv'
    <2>1. /\ UNCHANGED <<kicked, work, waker, runnable, pc>>
          /\ push[p].at \in {"idle", "load", "cas"}
      BY <1>1 DEF Offload, LoadHead, CasHead, wakeVars
    <2>2. \A r \in Producer \ {p} : push'[r] = push[r]
      BY <1>1 DEF Offload, LoadHead, CasHead, TypeOK
    <2>3. head' = head \/ push'[p].at = "swap"
      BY <1>1 DEF Offload, LoadHead, CasHead, TypeOK, NoPush
    <2> QED BY <2>1, <2>2, <2>3
  <1>2. ASSUME NEW p \in Producer, SwapKicked(p) PROVE BitsInv'
    <2>1. /\ UNCHANGED <<head, work, waker, runnable, pc>> /\ push[p].at = "swap"
          /\ Step(p, IF kicked THEN "idle" ELSE "work")
      BY <1>2 DEF SwapKicked, wakeVars
    <2>2. /\ push'[p].at = IF kicked THEN "idle" ELSE "work"
          /\ \A r \in Producer \ {p} : push'[r] = push[r]
      BY <2>1, StepMoves
    <2> QED BY <2>1, <2>2
  <1>3. ASSUME NEW p \in Producer, KickWork(p) PROVE BitsInv'
    <2>1. /\ UNCHANGED <<head, kicked, waker, runnable, pc>> /\ work' /\ Step(p, "clone")
      BY <1>3 DEF KickWork, queueVars
    <2>2. push'[p].at = "clone"
      BY <2>1, StepMoves
    <2> QED BY <2>1, <2>2
  <1>4. ASSUME NEW p \in Producer, KickClone(p) PROVE BitsInv'
    <2>1. /\ UNCHANGED <<head, kicked, work, waker, runnable, pc>> /\ push[p].at = "clone"
          /\ Step(p, IF waker THEN "wake" ELSE "idle")
      BY <1>4 DEF KickClone, queueVars, wakeVars
    <2>2. /\ push'[p].at = IF waker THEN "wake" ELSE "idle"
          /\ \A r \in Producer \ {p} : push'[r] = push[r]
      BY <2>1, StepMoves
    <2> QED BY <2>1, <2>2
  <1>5. ASSUME NEW p \in Producer, KickWake(p) PROVE BitsInv'
    <2>1. /\ UNCHANGED <<head, kicked, work, waker, pc>> /\ push[p].at = "wake"
          /\ runnable' /\ Step(p, "idle")
      BY <1>5 DEF KickWake, queueVars
    <2>2. \A r \in Producer \ {p} : push'[r] = push[r]
      BY <2>1, StepMoves
    <2> QED BY <2>1, <2>2
  <1>6. ASSUME NEW t \in Taker, TakerStep(t) PROVE BitsInv'
    <2>1. CASE ClearKicked(t)
      BY <2>1, <1>0 DEF ClearKicked, wakeVars, TypeOK
    <2>2. CASE DetachList(t)
      BY <2>2, <1>0 DEF DetachList, wakeVars, TypeOK
    <2>3. CASE RunDropper(t)
      BY <2>3 DEF RunDropper, wakeVars
    <2>4. CASE BatchDone(t)
      BY <2>4, <1>0 DEF BatchDone, queueVars, TypeOK
    <2> QED BY <1>6, <2>1, <2>2, <2>3, <2>4 DEF TakerStep
  <1>7. ASSUME NEW s \in Syncer, SyncTakes(s) PROVE BitsInv'
    BY <1>7, <1>0 DEF SyncTakes, queueVars, wakeVars, TypeOK
  <1>8. CASE WorkerStep
    <2>1. CASE PollWorker
      BY <2>1, <1>0 DEF PollWorker, queueVars, TypeOK
    <2>2. CASE CheckWork
      BY <2>2, <1>0 DEF CheckWork, queueVars, TypeOK
    <2>3. CASE InstallWaker
      BY <2>3, <1>0 DEF InstallWaker, queueVars, TypeOK
    <2>4. CASE RecheckWork
      BY <2>4, <1>0 DEF RecheckWork, queueVars, TypeOK
    <2> QED BY <1>8, <2>1, <2>2, <2>3, <2>4 DEF WorkerStep
  <1>9. CASE UNCHANGED vars
    BY <1>9 DEF vars, queueVars, wakeVars
  <1> QED BY <1>1, <1>2, <1>3, <1>4, <1>5, <1>6, <1>7, <1>8, <1>9 DEF Next, ProducerStep

----------------------------------------------------------------------------
(* The theorems. *)

(***************************************************************************)
(* OffloadInv is an inductive invariant of the offload queue.              *)
(***************************************************************************)
THEOREM Invariance == Spec => []OffloadInv
  <1>1. Init => OffloadInv
    BY InitType, InitBits, InitNodes DEF OffloadInv
  <1>2. OffloadInv /\ [Next]_vars => OffloadInv'
    BY StepType, StepBits, StepNodes DEF OffloadInv
  <1> QED BY <1>1, <1>2, PTL DEF Spec

(***************************************************************************)
(* The pointers of OffloadQueue, the takers and the producers keep their   *)
(* types, and only a taker that runs droppers holds a list.                *)
(***************************************************************************)
THEOREM TypeCorrect == Spec => []TypeOK
  <1>1. OffloadInv => TypeOK
    BY DEF OffloadInv
  <1> QED BY <1>1, Invariance, PTL

(***************************************************************************)
(* Every node belongs to exactly one of the allocator, the queue, a        *)
(* producer's chain or a taker, although addresses are used again between  *)
(* a producer's load of the head and its exchange (OffloadQueue::push).    *)
(***************************************************************************)
THEOREM OwnedOnceHolds == Spec => []OwnedOnce
  <1>1. OffloadInv => OwnedOnce
    BY DEF OffloadInv, NodesInv
  <1> QED BY <1>1, Invariance, PTL

(***************************************************************************)
(* While nodes queue, somebody is still to take them: the coalescing bit   *)
(* never swallows the kick that would have woken the worker.               *)
(***************************************************************************)
THEOREM NodesHaveTakerHolds == Spec => []NodesHaveTaker
  <1>1. OffloadInv => NodesHaveTaker
    BY DEF OffloadInv, BitsInv
  <1> QED BY <1>1, Invariance, PTL

(***************************************************************************)
(* The worker does not stay parked over its work bit (rcu_reclaim_kick     *)
(* against the poll_fn that installs the waker and looks again).           *)
(***************************************************************************)
THEOREM ParkedWorkerIsWokenHolds == Spec => []ParkedWorkerIsWoken
  <1>1. OffloadInv => ParkedWorkerIsWoken
    BY DEF OffloadInv, BitsInv
  <1> QED BY <1>1, Invariance, PTL

----------------------------------------------------------------------------
(* CallbackQueue. *)

(***************************************************************************)
(* Every step publishes a chain, detaches the queue, runs one callback of  *)
(* one batch, or leaves the abstract state alone.                          *)
(***************************************************************************)
LEMMA QuietAbstract ==
    ASSUME SameLists
    PROVE  UNCHANGED Abstract!vars
  BY DEF SameLists, Abstract!vars, Reach

\* Every step is a step of the callback queue, or a stutter.
LEMMA StepAbstract ==
    OffloadInv /\ [Next]_vars => [Abstract!Next]_(Abstract!vars)
  <1> SUFFICES ASSUME TypeOK, NodesInv, [Next]_vars PROVE [Abstract!Next]_(Abstract!vars)
    BY DEF OffloadInv
  <1>0. TypeOK'
    BY StepType
  <1>1. CASE UNCHANGED <<head, next, list>>
    <2>1. SameLists
      BY <1>1 DEF SameLists
    <2> QED BY <2>1, QuietAbstract
  <1>2. ASSUME NEW p \in Producer, Offload(p) PROVE UNCHANGED Abstract!vars
    BY <1>0, <1>2, OffloadNodes, QuietAbstract
  <1>3. ASSUME NEW p \in Producer, LoadHead(p) PROVE UNCHANGED Abstract!vars
    <2>1. LinksToHead(p)
      BY <1>3 DEF LoadHead, LinksToHead, TypeOK
    <2> QED BY <1>0, <2>1, LinkNodes, QuietAbstract
  <1>4. ASSUME NEW p \in Producer, CasHead(p) PROVE [Abstract!Next]_(Abstract!vars)
    <2>1. CASE head = push[p].seen
      <3>1. /\ UNCHANGED <<next, list>> /\ push[p].cells # {}
            /\ ReachIn(next', head') = ReachIn(next, head) \cup push[p].cells
        BY <1>4, <2>1, PushNodes
      <3>2. push[p].cells \in SUBSET (Node \ Abstract!InUse)
        BY ChainsApart DEF Abstract!InUse, NodesInv, Reach
      <3>3. Abstract!Publish
        BY <3>1, <3>2 DEF Abstract!Publish, Reach
      <3> QED BY <3>3 DEF Abstract!Next
    <2>2. CASE head # push[p].seen
      <3>1. LinksToHead(p)
        BY <1>4, <2>2 DEF CasHead, LinksToHead, TypeOK
      <3> QED BY <1>0, <3>1, LinkNodes, QuietAbstract
    <2> QED BY <2>1, <2>2
  <1>5. ASSUME NEW t \in Taker, DetachList(t) PROVE Abstract!Next
    <2>1. /\ ReachIn(next, list[t]) = {} /\ ReachIn(next', head') = {}
          /\ ReachIn(next', list'[t]) = ReachIn(next, head)
          /\ \A u \in Taker \ {t} : list'[u] = list[u]
          /\ next' = next
      BY <1>0, <1>5, DetachNodes
    <2>2. Abstract!Detach(t)
      BY <2>1 DEF Abstract!Detach, Reach
    <2> QED BY <2>2 DEF Abstract!Next
  <1>6. ASSUME NEW t \in Taker, RunDropper(t) PROVE Abstract!Next
    <2>1. /\ ReachIn(next', head') = ReachIn(next, head)
          /\ list[t] \in ReachIn(next, list[t])
          /\ ReachIn(next', list'[t]) = ReachIn(next, list[t]) \ {list[t]}
          /\ \A u \in Taker \ {t} : ReachIn(next', list'[u]) = ReachIn(next, list[u])
      BY <1>0, <1>6, DropperNodes
    <2>2. Abstract!Run(t)
      BY <2>1 DEF Abstract!Run, Reach
    <2> QED BY <2>2 DEF Abstract!Next
  <1>7. ASSUME NEW p \in Producer, SwapKicked(p) \/ KickWork(p) \/ KickClone(p) \/ KickWake(p)
        PROVE  UNCHANGED <<head, next, list>>
    BY <1>7 DEF SwapKicked, KickWork, KickClone, KickWake, queueVars
  <1>8. ASSUME NEW t \in Taker, ClearKicked(t) \/ BatchDone(t) \/ SyncTakes(t)
        PROVE  UNCHANGED <<head, next, list>>
    BY <1>8 DEF ClearKicked, BatchDone, SyncTakes, queueVars
  <1>9. CASE WorkerStep
    BY <1>9, <1>1 DEF WorkerStep, PollWorker, CheckWork, InstallWaker, RecheckWork, queueVars
  <1>10. CASE UNCHANGED vars
    BY <1>10, <1>1 DEF vars, queueVars
  <1>11. ASSUME NEW p \in Producer, Offload(p) \/ ProducerStep(p)
         PROVE  [Abstract!Next]_(Abstract!vars)
    BY <1>11, <1>1, <1>2, <1>3, <1>4, <1>7 DEF ProducerStep
  <1>12. ASSUME NEW t \in Taker, TakerStep(t) PROVE [Abstract!Next]_(Abstract!vars)
    BY <1>12, <1>1, <1>5, <1>6, <1>8 DEF TakerStep
  <1>13. ASSUME NEW s \in Syncer, SyncTakes(s) PROVE [Abstract!Next]_(Abstract!vars)
    BY <1>13, <1>1, <1>8 DEF Taker
  <1> QED BY <1>9, <1>10, <1>11, <1>12, <1>13 DEF Next

(***************************************************************************)
(* The safety part of ImplementsCallbackQueue: what the linked list, the   *)
(* coalescing bit and the worker's park do with the nodes is what a set of *)
(* callbacks does that are each taken once and run once.                   *)
(***************************************************************************)
THEOREM ImplementsQueueSafely == Spec => Abstract!Init /\ [][Abstract!Next]_(Abstract!vars)
  <1>1. Init => Abstract!Init
    <2> SUFFICES ASSUME Init PROVE Abstract!Init
      OBVIOUS
    <2>1. next \in Links /\ head = Null /\ \A t \in Taker : list[t] = Null
      BY DEF Init, Links, Ptr
    <2> QED BY <2>1, ReachNull DEF Abstract!Init, Reach
  <1>2. OffloadInv /\ [Next]_vars => [Abstract!Next]_(Abstract!vars)
    BY StepAbstract
  <1> QED BY <1>1, <1>2, Invariance, PTL DEF Spec

=============================================================================
