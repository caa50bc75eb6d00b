------------------------------- MODULE MCQsbr -------------------------------
(* Qsbr on two CPUs with one reclaim worker. *)
EXTENDS Qsbr

CONSTANTS c1, c2, w1, n1, n2

OneWorker == [c \in CPU |-> w1]
=============================================================================
