SPECIFICATION Spec
CONSTANTS
    a1 = a1
    s1 = s1
    s2 = s2
    Apps = {a1}
    SlotsOf <- mcSlotsOf
    AppInfos <- mcAppInfos
    Moving = {}
    offlineSlots = {}
    Requests = {r1}
    Disk = "full"
    Stores = {x1, x2, x3}
    Nil = Nil
SYMMETRY mcSymmetry
INVARIANT ClosedAppAnswersClosed
