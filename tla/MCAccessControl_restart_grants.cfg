\* A start after members of Operation were given grants.
SPECIFICATION Spec
CONSTANTS
  Users = {u1}
  Groups = {g1, g2}
  Roles = {}
  Projects = {p1}
  Services = {}
  RoleNames = {}
  Handlers = {h1}
  NoGroup = NoGroup
  NoRole = NoRole
  Editor = Editor
  Viewer = Viewer
SYMMETRY Symmetry
CHECK_DEADLOCK FALSE
PROPERTY RestartKeepsGrants
