\* One request at a time, over roles and projects.
SPECIFICATION Spec
CONSTANTS
  Users = {u1}
  Groups = {g1, g2}
  Roles = {r1}
  Projects = {p1}
  Services = {documents}
  RoleNames = {Editor}
  Handlers = {h1}
  NoGroup = NoGroup
  NoRole = NoRole
  Editor = Editor
  Viewer = Viewer
SYMMETRY Symmetry
CHECK_DEADLOCK FALSE
INVARIANTS
  TypeOK
  ReferencesHold
  HoldingsRestOnMembership
PROPERTIES
  CoveredGrantsStay
  OutsidersGainNoRole
