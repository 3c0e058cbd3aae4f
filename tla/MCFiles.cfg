\* Two requests at a time, and any of them may fail.
SPECIFICATION Spec
CONSTANTS
  Docs = {d1, d2}
  Products = {p1, p2}
  Owners = {co1}
  Handlers = {h1, h2}
  MaxNumber = 2
  NotYet = NotYet
  Purged = Purged
  Nothing = Nothing
SYMMETRY Symmetry
CHECK_DEADLOCK FALSE
INVARIANTS
  TypeOK
  FileIsOwn
