SPECIFICATION FairSpec
CONSTANTS
    a1 = a1
    s1 = s1
    s2 = s2
    Apps = {a1}
    SlotsOf <- mcSlotsOf
    AppInfos <- mcAppInfos
    Moving = {}
    offlineSlots = {}
    Requests = {r1}
    Disk = "ok"
    Stores = {x1, x2}
    Nil = Nil
INVARIANTS
    TypeOK
    SlotsBeforeApps
    AtMostOneRoundOld
PROPERTY Settles
