\* Two producer handles racing for a ring of two slots that wraps.  The system
\* stops when the ring is freed.
SPECIFICATION FairSpec
CONSTANTS
  p1 = p1
  p2 = p2
  m1 = m1
  m2 = m2
  Producer <- TwoProducers
  Payload <- TwoPayloads
  First = p1
  Msg = {m1, m2}
  Uninit = Uninit
  NoWaker = NoWaker
  N = 2
  MaxSend = 3
INVARIANTS TypeOK SlotExclusive NoLeak NoLostConsumerWakeup ClosedOnlyWhenDrained
PROPERTIES ImplementsChannel ConsumerResumes
CHECK_DEADLOCK FALSE
