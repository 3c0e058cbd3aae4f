\* Two requests on one document, any of which may fail, and an index that
\* carries out what it accepts later.  Nothing is read but the index.
SPECIFICATION ReadSpec
CONSTANTS
  Docs = {doc1}
  Customers = {}
  Projects = {pr1, pr2}
  Companies = {}
  Directors = {}
  Handlers = {h1, h2}
  EndUsers = {}
  Readers = {}
  Statuses = {draft}
  Draft = draft
  Currencies = {USD}
  MaxTasks = 2
  DirectorOf <- DirectorOfOne
  Batches = {}
  Products = {}
  ProductsOf <- ProductsOfBatch
  Amount <- AmountOf
  Null = Null
  NoDoc = NoDoc
  Purged = Purged
  co1 = co1
SYMMETRY Symmetry
CHECK_DEADLOCK FALSE
INVARIANTS
  ReferencesHold
  IndexFollows
  SearchAgrees
PROPERTY
  VanishedStaysVanished
