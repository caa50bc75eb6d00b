\* Two slots, two producers that may both be parked behind a full ring.
SPECIFICATION Spec
CONSTANTS
  p1 = p1
  p2 = p2
  m1 = m1
  m2 = m2
  Producer <- TwoProducers
  Payload <- TwoPayloads
  First = p1
  Msg = {m1, m2}
  Uninit = Uninit
  NoWaker = NoWaker
  N = 2
  MaxSend = 4
INVARIANT NoLostProducerWakeup
CHECK_DEADLOCK FALSE
