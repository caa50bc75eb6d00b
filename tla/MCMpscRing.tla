---------------------------- MODULE MCMpscRing ------------------------------
(* Two producers, each with a payload of its own, so that a message out of    *)
(* place shows; the ring treats all payloads alike.                           *)
EXTENDS MpscRing, TLC

CONSTANTS p1, p2, m1, m2

TwoProducers == {p1, p2}
TwoPayloads == p1 :> {m1} @@ p2 :> {m2}
=============================================================================
