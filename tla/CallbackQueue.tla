--------------------------- MODULE CallbackQueue ---------------------------
(***************************************************************************)
(* What the reclaim offload of rcu/src/qsbr.rs promises: callbacks that    *)
(* are handed over are run by exactly one taker, once each, and none is    *)
(* left behind.  A callback node may be used again once it has run.        *)
(***************************************************************************)
EXTENDS FiniteSets

CONSTANTS Node, Taker

VARIABLES pending,  \* handed over and not yet taken
          batch     \* taken by each taker and not yet run

vars == <<pending, batch>>

InUse == pending \cup UNION {batch[t] : t \in Taker}

Init == pending = {} /\ batch = [t \in Taker |-> {}]

Publish ==
    /\ \E S \in SUBSET (Node \ InUse) : S # {} /\ pending' = pending \cup S
    /\ UNCHANGED batch

Detach(t) ==
    /\ batch[t] = {}
    /\ batch' = [batch EXCEPT ![t] = pending] /\ pending' = {}

Run(t) ==
    /\ \E n \in batch[t] : batch' = [batch EXCEPT ![t] = @ \ {n}]
    /\ UNCHANGED pending

Next == Publish \/ \E t \in Taker : Detach(t) \/ Run(t)

Fairness ==
    /\ WF_vars(\E t \in Taker : pending # {} /\ Detach(t))
    /\ \A t \in Taker : WF_vars(Run(t))

Spec == Init /\ [][Next]_vars /\ Fairness

=============================================================================
