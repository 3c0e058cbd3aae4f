\* Requests that interleave and crash.
SPECIFICATION AloneSpec
CONSTANTS
  Users = {u1}
  Sessions = {s1, s2}
  Tokens = {l1, t1, t2, t3}
  Handlers = {h1, h2}
  Legacy = {l1}
  NoRow = NoRow
  NoSession = NoSession
  IdleTimeout = 2
  MaxSession = 3
  JwtLife = 1
  MaxTime = 3
  MaxPassword = 1
SYMMETRY Symmetry
CHECK_DEADLOCK FALSE
INVARIANTS
  TypeOK
  OneHardEndPerSession
  LiveWithinLimits
  OnlyLoginsOpenSessions
  PromisesKeptAlone
PROPERTIES
  RotationKeepsSessionsLive
  SuspensionSettles
  RefinesLifecycle
