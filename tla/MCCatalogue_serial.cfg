\* One request at a time, with the index available.
SPECIFICATION ReliableSpec
CONSTANTS
  Products = {p1, p2}
  Categories = {c1}
  Handlers = {h1}
  SubItems = {1, 2, 3}
  MaxNumber = 4
  Names = {desk, DESK, lamp}
  Descriptions = {oak}
  CategoryNames = {n1, n2}
  Norm <- NormOf
  Sheets <- OneSheet
  Null = Null
  NoProduct = NoProduct
  Purged = Purged
  desk = desk
  DESK = DESK
  lamp = lamp
  oak = oak
SYMMETRY Symmetry
CHECK_DEADLOCK FALSE
INVARIANTS
  TypeOK
  FiledProductsFollow
  IndexFollows
  ReferencesHold
PROPERTIES
  NoNewTwins
  AdditionOrderKept
