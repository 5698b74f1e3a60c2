SPECIFICATION mcSpec
CONSTANTS
  c1 = c1
  c2 = c2
  k1 = k1
  k2 = k2
  t1 = t1
  t2 = t2
  good = good
  held = held
  cheap = cheap
  test = test
  Channels <- mcChannels
  Keys <- mcKeys
  TmpKeys <- mcTmpKeys
  ChannelOf <- mcChannelOf
  Offers <- mcOffers
  Content <- mcContent
  Raw <- mcRaw
  Nil = Nil
  Handlers = {h1, h2}
  Requests = {r1}
  Volatile = {good}
  Items = {i1, i2, i3}
  NoItem = NoItem
  Retry = 1
  MaxArrival = 0
  MaxTime = 5
INVARIANTS
  TypesOK
  HeapConsistent
  PublishesTheBucket
  ServedAsSearched
PROPERTIES
  KeepsPromise
  FinishedIndexFrozen
  RemovedLeaves
  StayingArrives
