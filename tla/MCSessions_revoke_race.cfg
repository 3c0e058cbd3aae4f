\* A refresh overtaken by the end of its session.
SPECIFICATION CrashFreeSpec
CONSTANTS
  Users = {u1}
  Sessions = {s1}
  Tokens = {t1, t2, t3}
  Handlers = {h1, h2}
  Legacy = {}
  NoRow = NoRow
  NoSession = NoSession
  IdleTimeout = 2
  MaxSession = 3
  JwtLife = 1
  MaxTime = 4
  MaxPassword = 0
SYMMETRY Symmetry
CHECK_DEADLOCK FALSE
PROPERTY EndedStaysEnded
