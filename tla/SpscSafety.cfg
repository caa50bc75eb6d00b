\* A ring of two slots and three messages: the indices pass the capacity, the
\* ring fills, drains and wraps.  The system stops when the ring is freed.
SPECIFICATION FairSpec
CONSTANTS
  Msg = {m1, m2}
  Uninit = Uninit
  N = 2
  MaxSend = 3
INVARIANTS TypeOK SlotSafety NoLeak NoLostWakeup
PROPERTIES ImplementsChannel ConsumerResumes ProducerResumes
CHECK_DEADLOCK FALSE
