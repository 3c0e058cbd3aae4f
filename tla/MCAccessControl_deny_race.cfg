\* A denial and an approval of one registration, side by side.
SPECIFICATION Spec
CONSTANTS
  Users = {u1}
  Groups = {g1}
  Roles = {}
  Projects = {}
  Services = {}
  RoleNames = {}
  Handlers = {h1, h2}
  NoGroup = NoGroup
  NoRole = NoRole
  Editor = Editor
  Viewer = Viewer
SYMMETRY Symmetry
CHECK_DEADLOCK FALSE
PROPERTY ApprovedAccountsStay
