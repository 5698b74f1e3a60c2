SPECIFICATION FairSpec
CONSTANTS
    Samplers = {g1, g2, g3}
    Clients = {c1, c2}
    NoSampler = NoSampler
    ReadySecs = {1}
    DoingSec = 1
    DoneSec = 2
PROPERTIES
    DoneEnds
\* The system may really stop: a handler and the sampler can wait for each other.
CHECK_DEADLOCK FALSE
