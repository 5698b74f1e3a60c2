SPECIFICATION Spec
CONSTANTS
    s1 = s1
    s2 = s2
    r1 = r1
    r2 = r2
    Serves <- mcServes
    Requests = {r1}
    Pkgs = {p1}
    Slots = {s1, s2}
    ClientTypes = {"other", "wugan", "7"}
    VideoFreqCap <- mcVideoFreqCap
    Day = 2
    HalfDay = 1
    MaxBlind = 1
    MaxLost = 1
    MaxComplete = 1
    None = None
    NoSlot = NoSlot
INVARIANTS
    CompletesCapped
