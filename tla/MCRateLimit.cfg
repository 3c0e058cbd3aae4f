\* Two requests at a time, windows of different lengths, clients that never stop.
SPECIFICATION FairSpec
CONSTANTS
  Ips = {i1, i2}
  Names = {n1}
  Handlers = {h1, h2}
  Ids = {1, 2, 3, 4, 5, 6}
  MaxIp = 2
  MaxPair = 1
  MaxName = 3
  IpWindow = 2
  PairWindow = 1
  NameWindow = 1
INVARIANTS
  TypeOK
  LimitsUpToRequestsInFlight
PROPERTIES
  CountedFailuresStay
  LocksOnlyDrain
  LocksHeal
