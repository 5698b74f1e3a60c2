SPECIFICATION mcSpec
CONSTANTS
  r1 = r1
  r2 = r2
  o1 = o1
  o2 = o2
  Offers = {o1, o2}
  MaxClicks = 3
  Requests = {r1, r2}
  Clients <- mcClients
  MaxContents = 2
  Countries = {c1, c2}
  Channels <- mcChannels
  Readers = {r1}
  Configs <- mcConfigs
  Draws = 12
  MaxRounds = 2
  c1 = c1
  c2 = c2
  AdRequests = {r1, r2}
  Asked <- mcAsked
  RawAds = {o1, o2}
  Material <- mcMaterial
  White <- mcWhite
  Affiliated <- mcAffiliated
  Adapters <- mcAdapters
  Wants <- mcWants
  MaxReply <- mcMaxReply
INVARIANTS TypesOK AnswersAreSound ClicksConserved ProvidersByWeight OldSdkSafe
PROPERTY VideoAnswered
CHECK_DEADLOCK FALSE
