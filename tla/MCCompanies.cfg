\* Two requests at a time, and any of them may fail.
SPECIFICATION Spec
CONSTANTS
  Companies = {co1, co2, co3}
  Directors = {di1}
  Docs = {doc1}
  Handlers = {h1, h2}
  DirectorOf <- DirectorOfOne
  Null = Null
  NotYet = NotYet
  Purged = Purged
  co1 = co1
SYMMETRY Symmetry
CHECK_DEADLOCK FALSE
INVARIANTS
  TypeOK
  OnePrimary
  ReferencesHold
PROPERTIES
  PrimaryLostByChoice
