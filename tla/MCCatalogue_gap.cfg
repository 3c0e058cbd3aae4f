\* The components of two products, one request at a time.
SPECIFICATION ReliableSpec
CONSTANTS
  Products = {p1, p2}
  Categories = {}
  Handlers = {h1}
  SubItems = {1, 2, 3}
  MaxNumber = 3
  Names = {desk, lamp}
  Descriptions = {oak}
  CategoryNames = {}
  Norm <- NormOf
  Sheets <- NoSheets
  Null = Null
  NoProduct = NoProduct
  Purged = Purged
  desk = desk
  DESK = DESK
  lamp = lamp
  oak = oak
SYMMETRY Symmetry
CHECK_DEADLOCK FALSE
INVARIANT NumbersContiguous
