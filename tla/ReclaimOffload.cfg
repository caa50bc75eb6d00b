SPECIFICATION Spec
CONSTANTS
    Node = {n1, n2}
    Null = null
    Producer = {p1, p2}
    Syncer = {s1}
    Worker = worker
INVARIANTS TypeOK OwnedOnce NodesHaveTaker ParkedWorkerIsWoken
PROPERTY ImplementsCallbackQueue
