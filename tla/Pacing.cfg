SPECIFICATION Spec
CONSTANTS
    r1 = r1
    r2 = r2
    Requests = {r1, r2}
    Wugan = {r1}
    Country <- mcCountry
    GlobalPacing = 1
    Fleets = {2}
    DefaultFleet = 2
    Manual <- mcNone
    Ctrls = {p1, p2, p3}
    Minutes = 2
    Nil = Nil
SYMMETRY mcSymmetry
INVARIANTS
    TypeOK
    OvershootBounded
    FuyuOvershootBounded
    FuyuCountedApart
