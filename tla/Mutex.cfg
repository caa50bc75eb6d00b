SPECIFICATION Spec
CONSTANTS
    Attempt = {a1, a2, a3, a4}
    Waker = {w1, w2}
    None = none
INVARIANTS TypeOK MutualExclusion QueueIsAccurate
PROPERTY RegisteredIsServed
