SPECIFICATION Spec
CONSTANTS
    Obj = {o1, o2}
    NoObj = NoObj
    Task = {t1, t2}
    Actor = {a1}
    Right = {"Read", "Grant", "Create"}
    EpochMod = 2
    Reserved = 1
    Initial = 1
    MaxSlots = 2
    MaxRevs = 2
INVARIANTS TypeOK NoAmplification RevokedUntilWrap
PROPERTIES SlotsNeverReused
CHECK_DEADLOCK FALSE
SYMMETRY Symmetry
