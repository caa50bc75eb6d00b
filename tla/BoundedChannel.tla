--------------------------- MODULE BoundedChannel ---------------------------
(***************************************************************************)
(* What every Narf-Ring promises its users: a bounded, loss-free,          *)
(* duplicate-free first-in first-out channel.  The lock-free rings of      *)
(* ipc/src are shown to implement this module.                             *)
(***************************************************************************)
EXTENDS Naturals, Sequences

CONSTANTS Msg,      \* the payloads
          Capacity  \* how many messages may be in flight

VARIABLES sent,     \* every message accepted, in the order it was accepted
          rcvd      \* every message delivered, in the order it was delivered

chanVars == <<sent, rcvd>>

Init == sent = <<>> /\ rcvd = <<>>

Send(m) ==
    /\ Len(sent) - Len(rcvd) < Capacity
    /\ sent' = Append(sent, m)
    /\ rcvd' = rcvd

Recv ==
    /\ Len(rcvd) < Len(sent)
    /\ rcvd' = Append(rcvd, sent[Len(rcvd) + 1])
    /\ sent' = sent

Next == (\E m \in Msg : Send(m)) \/ Recv

Spec == Init /\ [][Next]_chanVars
=============================================================================
