SPECIFICATION QueueSpec
CONSTANTS
    Items = {i1, i2, i3}
    NoItem = NoItem
    Retry = 2
    MaxArrival = 2
    MaxTime = 11
PROPERTY NoSleepOnDue
