\* One request that edits and one that reads at a time, any of which may fail.
\* The index accepts nothing: what is read here is the tables.
SPECIFICATION ReadSpec
CONSTANTS
  Docs = {doc1}
  Customers = {cu1}
  Projects = {pr1, pr2}
  Companies = {co1}
  Directors = {di1}
  Handlers = {h1}
  EndUsers = {eu1}
  Readers = {r1}
  Statuses = {draft}
  Draft = draft
  Currencies = {USD}
  MaxTasks = 0
  DirectorOf <- DirectorOfOne
  Batches = {1, 2}
  Products = {pd1}
  ProductsOf <- ProductsOfBatch
  Amount <- AmountOf
  Null = Null
  NoDoc = NoDoc
  Purged = Purged
  co1 = co1
SYMMETRY Symmetry
CHECK_DEADLOCK FALSE
INVARIANTS
  TypeOK
  RowsConsistent
  ShownInBounds
