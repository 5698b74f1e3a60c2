SPECIFICATION FairSpec
CONSTANTS
    Samplers = {g1, g2, g3}
    Clients = {c1, c2}
    NoSampler = NoSampler
    ReadySecs <- MCReadySecs
    DoingSec = 2
    DoneSec = 2
INVARIANTS
    TypeOK
    NoPanic
    StatusHasOneSampler
    SenderHasReceiver
PROPERTIES
    SamplingCompletes
    OnlyResetCycleHangs
\* The system may really stop: a handler and the sampler can wait for each other.
CHECK_DEADLOCK FALSE
