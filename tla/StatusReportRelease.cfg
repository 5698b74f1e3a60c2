SPECIFICATION ReportSpec
CONSTANTS
    AdHandlers = {h1, h2}
    Viewers = {v1}
    Cleaner = Cleaner
    Nobody = Nobody
    NumSlots = 3
    MaxDelay = 1
    MaxMinute = 4
    MaxReqs = 4
INVARIANT ReleasedNotUsed
