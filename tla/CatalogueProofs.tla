--------------------------- MODULE CatalogueProofs ---------------------------
(***************************************************************************)
(* Proofs about Catalogue, for any products, categories, sub-items,        *)
(* spellings, files to import and number of requests in flight.            *)
(*                                                                         *)
(* CatalogueInv holds however requests interleave, fail or crash.  What    *)
(* the rules promise of the whole holds of one request at a time: ReadsInv *)
(* adds that its reads are current, which no crash disturbs.  What the     *)
(* index and a renamed category promise holds while nothing crashes and    *)
(* the index answers: AloneInv adds what the request still has to write.   *)
(***************************************************************************)
EXTENDS Catalogue, FiniteSetTheorems, TLAPS

Column == [name |-> Names, description |-> Descriptions,
           category |-> CategoryNames \cup {Null}, trashed |-> BOOLEAN]

IsChange(c) == /\ DOMAIN c \subseteq {"name", "description", "category"}
               /\ \A f \in DOMAIN c : c[f] \in Column[f]

\* A category that a request is about has a name.
Named(r) == r.step \in {"rename", "reread", "carry"} => category[r.category] # Null

RequestOK(r) ==
  /\ IsRequest(r)
  /\ r.step = "update" => IsChange(r.changes)
  /\ r.step \in {"rename", "carry"} => r.name \in CategoryNames
  /\ r.step = "renumber" => \A i \in DOMAIN r.numbers : r.numbers[i] \in 1 .. MaxNumber

TablesOK ==
  /\ product \in [Products -> Row \cup {NoProduct, Purged}]
  /\ category \in [Categories -> CategoryNames \cup {Null}]
  /\ item \in [SubItems -> Item \cup {Null}]
  /\ index \in [Products -> Text \cup {Null}]
  /\ filed \in [Products -> Categories \cup {Null}]

RequestsOK == DOMAIN req = Handlers /\ \A h \in Handlers : RequestOK(req[h]) /\ Named(req[h])

\* The unique constraint of the components of a product.
NumbersUnique ==
  \A i, j \in SubItems :
    /\ item[i] # Null /\ item[j] # Null
    /\ item[i].parent = item[j].parent
    /\ item[i].number = item[j].number
    => i = j

\* The unique constraint of categories.
NamesUnique ==
  \A c, e \in Categories : category[c] # Null /\ category[c] = category[e] => c = e

CatalogueInv == TablesOK /\ RequestsOK /\ NumbersUnique /\ NamesUnique /\ ReferencesHold

LEMMA InvTyped == CatalogueInv => TypeOK
  BY DEF CatalogueInv, TablesOK, RequestsOK, RequestOK, TypeOK

-----------------------------------------------------------------------------
(***************************************************************************)
(* Rows and what is written of them.                                       *)
(***************************************************************************)
LEMMA ExistingRows ==
  ASSUME TablesOK
  PROVE  \A p \in Products : p \in Existing <=> product[p] \in Row
  BY CatalogueAssumption DEF TablesOK, Existing

LEMMA RowColumns ==
  ASSUME NEW r \in Row
  PROVE  DOMAIN r = DOMAIN Column /\ \A f \in DOMAIN Column : r[f] \in Column[f]
  BY DEF Row, Column

LEMMA LineColumns ==
  ASSUME NEW l \in Line
  PROVE  /\ DOMAIN l = {"name", "description", "category"}
         /\ \A f \in DOMAIN l : l[f] \in Column[f]
  BY DEF Line, Column

LEMMA ColumnsRow ==
  ASSUME NEW v, \A f \in DOMAIN Column : v[f] \in Column[f],
         NEW r, r = [f \in DOMAIN Column |-> v[f]]
  PROVE  r \in Row
<1>1. r = [name |-> v["name"], description |-> v["description"], category |-> v["category"],
           trashed |-> v["trashed"]]
  BY DEF Column
<1>2. QED
  BY <1>1 DEF Row, Column

\* An UPDATE gives a row, and writes the columns it names and no other.
LEMMA OverRow ==
  ASSUME NEW r \in Row, NEW c, IsChange(c)
  PROVE  /\ Over(r, c) \in Row
         /\ DOMAIN c \subseteq DOMAIN Column
         /\ \A f \in DOMAIN Column : Over(r, c)[f] = IF f \in DOMAIN c THEN c[f] ELSE r[f]
<1>1. DOMAIN r = DOMAIN Column /\ \A f \in DOMAIN Column : r[f] \in Column[f]
  BY RowColumns
<1>2. PICK v : v = [f \in DOMAIN Column |-> IF f \in DOMAIN c THEN c[f] ELSE r[f]]
  OBVIOUS
<1>3. Over(r, c) = v
  BY <1>1, <1>2 DEF Over
<1>4. \A f \in DOMAIN Column : v[f] \in Column[f]
  BY <1>1, <1>2 DEF IsChange
<1>5. v = [f \in DOMAIN Column |-> v[f]]
  BY <1>2
<1>6. DOMAIN c \subseteq DOMAIN Column
  BY DEF IsChange, Column
<1>7. QED
  BY <1>2, <1>3, <1>4, <1>5, <1>6, ColumnsRow

LEMMA ChangesFit ==
  ASSUME NEW q \in Row, NEW l \in Line
  PROVE  /\ IsChange(Changed(q, l))
         /\ \A f \in {"name", "description", "category"} : f \in DOMAIN Changed(q, l) <=> l[f] # q[f]
         /\ \A f \in DOMAIN Changed(q, l) : Changed(q, l)[f] = l[f]
<1>1. PICK F : F = {f \in DOMAIN l : l[f] # q[f]}
  OBVIOUS
<1>2. Changed(q, l) = [f \in F |-> l[f]]
  BY <1>1 DEF Changed
<1>3. QED
  BY <1>1, <1>2, LineColumns DEF IsChange

\* The keys that an import has seen are keys of lines.
LEMMA RowKeys ==
  ASSUME NEW r \in Row
  PROVE  Key(r) \in {Key(l) : l \in Line}
<1>1. PICK l : l = [name |-> r.name, description |-> r.description, category |-> r.category]
  OBVIOUS
<1>2. l \in Line /\ Key(l) = Key(r)
  BY <1>1 DEF Row, Line, Key
<1>3. QED
  BY <1>2

LEMMA FiledType ==
  ASSUME NEW n
  PROVE  /\ CategoryNamed(n) \in Categories \cup {Null}
         /\ CategoryNamed(n) # Null => category[CategoryNamed(n)] = n /\ n # Null
  BY CatalogueAssumption DEF CategoryNamed

-----------------------------------------------------------------------------
(***************************************************************************)
(* Positions: among different numbers from 1 on, the position of each is   *)
(* no higher than the number.                                              *)
(***************************************************************************)
Before(p, i) == {j \in ItemsOf(p) : item[j].number <= item[i].number}

LEMMA ItemsTyped ==
  ASSUME TablesOK
  PROVE  /\ \A i \in SubItems : item[i] # Null =>
              /\ item[i] \in Item /\ item[i].parent \in Products /\ item[i].product \in Products
              /\ item[i].number \in 1 .. MaxNumber
         /\ SubItems \subseteq Nat /\ MaxNumber \in Nat
         /\ \A x \in Item : x # Null
  BY CatalogueAssumption DEF TablesOK, Item

LEMMA PositionInRange ==
  ASSUME TablesOK, NumbersUnique, NEW p \in Products, NEW i \in ItemsOf(p)
  PROVE  /\ IsFiniteSet(Before(p, i))
         /\ Cardinality(Before(p, i)) \in 1 .. item[i].number
         /\ Cardinality(Before(p, i)) \in 1 .. MaxNumber
<1>1. /\ \A j \in ItemsOf(p) : item[j].number \in 1 .. MaxNumber
      /\ MaxNumber \in Nat
  BY ItemsTyped DEF ItemsOf
<1>2. PICK n : n = item[i].number
  OBVIOUS
<1>3. n \in 1 .. MaxNumber /\ n \in Int /\ n >= 1
  BY <1>1, <1>2
<1>4. PICK S : S = Before(p, i)
  OBVIOUS
<1>5. \A j \in S : j \in ItemsOf(p) /\ item[j].number \in 1 .. n
  BY <1>1, <1>2, <1>4 DEF Before
<1>6. PICK f : f = [j \in S |-> item[j].number]
  OBVIOUS
<1>7. f \in [S -> 1 .. n]
  BY <1>5, <1>6
<1>8. \A j, k \in S : f[j] = f[k] => j = k
  BY <1>5, <1>6 DEF NumbersUnique, ItemsOf
<1>9. f \in Injection(S, 1 .. n)
  BY <1>7, <1>8 DEF Injection, IsInjective
<1>10. IsFiniteSet(1 .. n) /\ Cardinality(1 .. n) = n
  BY <1>3, FS_Interval
<1>11. IsFiniteSet(S) /\ Cardinality(S) <= n
  BY <1>9, <1>10, FS_Injection
<1>12. i \in S
  BY <1>1, <1>4 DEF Before
<1>13. Cardinality(S) \in Nat /\ Cardinality(S) # 0
  BY <1>11, <1>12, FS_CardinalityType, FS_EmptySet
<1>14. PICK k : k = Cardinality(S)
  OBVIOUS
<1>15. k \in 1 .. n /\ k \in 1 .. MaxNumber
  BY <1>1, <1>3, <1>11, <1>13, <1>14
<1>16. QED
  BY <1>2, <1>4, <1>11, <1>14, <1>15

LEMMA PositionsOf ==
  ASSUME NEW p
  PROVE  /\ DOMAIN Positions(p) = {i \in ItemsOf(p) : Cardinality(Before(p, i)) # item[i].number}
         /\ \A i \in DOMAIN Positions(p) : Positions(p)[i] = Cardinality(Before(p, i))
  BY DEF Positions, Before
-----------------------------------------------------------------------------
(***************************************************************************)
(* Requests.                                                               *)
(***************************************************************************)
LEMMA IdleOK == RequestOK(Idle) /\ Named(Idle)
  BY DEF RequestOK, Named, IsRequest, IsImport, Idle

LEMMA RequestsKept ==
  ASSUME CatalogueInv, NEW h \in Handlers, NEW r, RequestOK(r), Named(r)',
         req' = [req EXCEPT ![h] = r] \/ req' = req,
         \A c \in Categories : category[c] # Null => category'[c] # Null
  PROVE  RequestsOK'
<1>1. /\ DOMAIN req' = Handlers
      /\ \A s \in Handlers : req'[s] = req[s] \/ (s = h /\ req'[s] = r)
  BY DEF CatalogueInv, RequestsOK
<1>2. \A s \in Handlers : RequestOK(req[s]) /\ Named(req[s])
  BY DEF CatalogueInv, RequestsOK
<1>3. ASSUME NEW s \in Handlers, req'[s] = req[s], req[s].step \in {"rename", "reread", "carry"}
      PROVE  category'[req'[s].category] # Null
  <2>1. req[s].category \in Categories
    BY <1>2, <1>3 DEF RequestOK, IsRequest, IsImport, Idle
  <2>2. QED
    BY <1>2, <1>3, <2>1 DEF Named
<1>4. \A s \in Handlers : RequestOK(req'[s]) /\ Named(req[s])'
  BY <1>1, <1>2, <1>3 DEF Named
<1>5. QED
  BY <1>1, <1>4 DEF RequestsOK

\* A step of a request that writes no table.
LEMMA RequestStep ==
  ASSUME CatalogueInv, NEW h \in Handlers, NEW r, RequestOK(r), Named(r),
         req' = [req EXCEPT ![h] = r], UNCHANGED <<product, category, item, filed>>,
         index' \in [Products -> Text \cup {Null}]
  PROVE  CatalogueInv'
<1>1. RequestsOK'
  BY RequestsKept DEF Named
<1>2. TablesOK' /\ NumbersUnique' /\ NamesUnique' /\ ReferencesHold'
  BY DEF CatalogueInv, TablesOK, NumbersUnique, NamesUnique, ReferencesHold, Existing
<1>3. QED
  BY <1>1, <1>2 DEF CatalogueInv

\* A step that writes rows of products and loses none.
LEMMA ProductStep ==
  ASSUME CatalogueInv, NEW h \in Handlers, NEW r, RequestOK(r), Named(r),
         req' = [req EXCEPT ![h] = r] \/ req' = req, UNCHANGED <<category, item, index>>,
         product' \in [Products -> Row \cup {NoProduct, Purged}],
         filed' \in [Products -> Categories \cup {Null}],
         \A p \in Existing : product'[p] \in Row
  PROVE  CatalogueInv'
<1>1. RequestsOK'
  BY RequestsKept DEF Named
<1>2. TablesOK' /\ NumbersUnique' /\ NamesUnique'
  BY DEF CatalogueInv, TablesOK, NumbersUnique, NamesUnique
<1>3. \A p \in Existing : p \in Existing'
  BY <1>2, CatalogueAssumption DEF Existing, TablesOK
<1>4. ReferencesHold'
  BY <1>3 DEF CatalogueInv, ReferencesHold
<1>5. QED
  BY <1>1, <1>2, <1>4 DEF CatalogueInv

LEMMA RowUpdated ==
  ASSUME CatalogueInv, NEW p \in Existing, NEW r \in Row, product' = [product EXCEPT ![p] = r]
  PROVE  /\ product' \in [Products -> Row \cup {NoProduct, Purged}]
         /\ \A q \in Existing : product'[q] \in Row
<1>1. p \in Products /\ \A q \in Existing : q \in Products /\ product[q] \in Row
  BY ExistingRows DEF Existing, CatalogueInv
<1>2. QED
  BY <1>1 DEF CatalogueInv, TablesOK

\* Line by line, what a request remembers is well formed.
LEMMA ImportingOK ==
  ASSUME NEW rows \in Seq(Line), NEW seen, seen \subseteq {Key(l) : l \in Line}
  PROVE  /\ IsImport(Importing(rows, seen))
         /\ RequestOK(Importing(rows, seen)) /\ Named(Importing(rows, seen))
  BY DEF IsImport, Importing, RequestOK, IsRequest, Named

LEMMA InsertStep ==
  ASSUME CatalogueInv, NEW h \in Handlers, NEW p \in Products, NEW line \in Line, NEW next,
         next = Idle \/ IsImport(next), Insert(h, p, line, next)
  PROVE  CatalogueInv'
<1>1. PICK r : r = [name |-> line.name, description |-> line.description,
                    category |-> line.category, trashed |-> FALSE]
  OBVIOUS
<1>2. r \in Row
  BY <1>1 DEF Line, Row
<1>3. PICK n : n = [step |-> "refresh", product |-> p, next |-> next]
  OBVIOUS
<1>4. RequestOK(n) /\ Named(n)
  BY <1>3 DEF RequestOK, IsRequest, Named
<1>5. PICK c : c = CategoryNamed(line.category)
  OBVIOUS
<1>6. c \in Categories \cup {Null}
  BY <1>5, FiledType
<1>7. /\ product[p] = NoProduct
      /\ product' = [product EXCEPT ![p] = r] /\ filed' = [filed EXCEPT ![p] = c]
      /\ req' = [req EXCEPT ![h] = n] /\ UNCHANGED <<category, item, index>>
  BY <1>1, <1>3, <1>5 DEF Insert, Proceed
<1>8. /\ product' \in [Products -> Row \cup {NoProduct, Purged}]
      /\ filed' \in [Products -> Categories \cup {Null}]
  BY <1>2, <1>6, <1>7 DEF CatalogueInv, TablesOK
<1>9. ASSUME NEW q \in Existing
      PROVE  product'[q] \in Row
  <2>1. q \in Products /\ q # p /\ product[q] \in Row
    BY <1>7, ExistingRows DEF Existing, CatalogueInv
  <2>2. QED
    BY <1>7, <2>1 DEF CatalogueInv, TablesOK
<1>10. QED
  BY <1>4, <1>7, <1>8, <1>9, ProductStep

-----------------------------------------------------------------------------
(***************************************************************************)
(* Products.                                                               *)
(***************************************************************************)
LEMMA CreateCheckKeeps ==
  ASSUME CatalogueInv, NEW h \in Handlers, NEW line \in Line, CreateCheck(h, line)
  PROVE  CatalogueInv'
<1>1. PICK r : r = [step |-> "create", line |-> line]
  OBVIOUS
<1>2. RequestOK(r) /\ Named(r)
  BY <1>1 DEF RequestOK, IsRequest, Named
<1>3. /\ req' = [req EXCEPT ![h] = r] /\ UNCHANGED <<product, category, item, filed>>
      /\ index' \in [Products -> Text \cup {Null}]
  BY <1>1 DEF CreateCheck, Begin, CatalogueInv, TablesOK
<1>4. QED
  BY <1>2, <1>3, RequestStep

LEMMA CreateCommitKeeps ==
  ASSUME CatalogueInv, NEW h \in Handlers, NEW p \in Products, CreateCommit(h, p)
  PROVE  CatalogueInv'
<1>1. req[h].line \in Line
  BY DEF CatalogueInv, RequestsOK, RequestOK, IsRequest, IsImport, Idle, CreateCommit
<1>2. Insert(h, p, req[h].line, Idle)
  BY DEF CreateCommit
<1>3. QED
  BY <1>1, <1>2, InsertStep

LEMMA UpdateReadKeeps ==
  ASSUME CatalogueInv, NEW h \in Handlers, NEW p \in Products, NEW line \in Line,
         UpdateRead(h, p, line)
  PROVE  CatalogueInv'
<1>1. PICK c : c = Changed(product[p], line)
  OBVIOUS
<1>2. product[p] \in Row
  BY ExistingRows DEF CatalogueInv, UpdateRead
<1>3. IsChange(c)
  BY <1>1, <1>2, ChangesFit
<1>4. PICK r : r = [step |-> "update", product |-> p, changes |-> c]
  OBVIOUS
<1>5. RequestOK(r) /\ Named(r)
  BY <1>3, <1>4 DEF RequestOK, IsRequest, Named, IsChange
<1>6. /\ req' = [req EXCEPT ![h] = r] /\ UNCHANGED <<product, category, item, filed>>
      /\ index' \in [Products -> Text \cup {Null}]
  BY <1>1, <1>4 DEF UpdateRead, Begin, CatalogueInv, TablesOK
<1>7. QED
  BY <1>5, <1>6, RequestStep

LEMMA UpdateCommitKeeps ==
  ASSUME CatalogueInv, NEW h \in Handlers, UpdateCommit(h)
  PROVE  CatalogueInv'
<1>1. PICK p, c : p = req[h].product /\ c = req[h].changes
  OBVIOUS
<1>2. p \in Products /\ IsChange(c)
  BY <1>1 DEF CatalogueInv, RequestsOK, RequestOK, IsRequest, IsImport, Idle, UpdateCommit
<1>3. CASE p \in Existing
  <2>1. PICK r : r = Over(product[p], c)
    OBVIOUS
  <2>2. product[p] \in Row
    BY <1>2, <1>3, ExistingRows DEF CatalogueInv
  <2>3. r \in Row
    BY <1>2, <2>1, <2>2, OverRow
  <2>4. PICK n : n = [step |-> "refresh", product |-> p, next |-> Idle]
    OBVIOUS
  <2>5. RequestOK(n) /\ Named(n)
    BY <1>2, <2>4 DEF RequestOK, IsRequest, Named
  <2>6. /\ product' = [product EXCEPT ![p] = r] /\ req' = [req EXCEPT ![h] = n]
        /\ UNCHANGED <<category, item, index>>
    BY <1>1, <1>3, <2>1, <2>4 DEF UpdateCommit, Proceed
  <2>7. filed' = filed \/ filed' = [filed EXCEPT ![p] = CategoryNamed(c["category"])]
    BY <1>1, <1>3 DEF UpdateCommit
  <2>8. filed' \in [Products -> Categories \cup {Null}]
    BY <1>2, <2>7, FiledType DEF CatalogueInv, TablesOK
  <2>9. QED
    BY <1>3, <2>3, <2>5, <2>6, <2>8, RowUpdated, ProductStep
<1>4. CASE p \notin Existing
  <2>1. /\ req' = [req EXCEPT ![h] = Idle] /\ UNCHANGED <<product, category, item, index, filed>>
    BY <1>1, <1>4 DEF UpdateCommit, End, Proceed
  <2>2. index' \in [Products -> Text \cup {Null}]
    BY <2>1 DEF CatalogueInv, TablesOK
  <2>3. QED
    BY <2>1, <2>2, IdleOK, RequestStep
<1>5. QED
  BY <1>3, <1>4

LEMMA RefreshKeeps ==
  ASSUME CatalogueInv, NEW h \in Handlers, Refresh(h)
  PROVE  CatalogueInv'
<1>1. PICK p, next : p = req[h].product /\ next = req[h].next
  OBVIOUS
<1>2. p \in Products /\ (next = Idle \/ IsImport(next))
  BY <1>1 DEF CatalogueInv, RequestsOK, RequestOK, IsRequest, IsImport, Idle, Refresh
<1>3. /\ UNCHANGED <<product, category, item, filed>>
      /\ index' \in [Products -> Text \cup {Null}]
  BY DEF Refresh, CatalogueInv, TablesOK
<1>4. CASE p \in Existing
  <2>1. PICK t : t = TextOf(product[p])
    OBVIOUS
  <2>2. product[p] \in Row
    BY <1>2, <1>4, ExistingRows DEF CatalogueInv
  <2>3. t \in Text
    BY <2>1, <2>2 DEF TextOf, Text, Row
  <2>4. PICK r : r = [step |-> "push", product |-> p, text |-> t, next |-> next]
    OBVIOUS
  <2>5. RequestOK(r) /\ Named(r)
    BY <1>2, <2>3, <2>4 DEF RequestOK, IsRequest, Named
  <2>6. req' = [req EXCEPT ![h] = r]
    BY <1>1, <1>4, <2>1, <2>4 DEF Refresh, Proceed
  <2>7. QED
    BY <1>3, <2>5, <2>6, RequestStep
<1>5. CASE p \notin Existing
  <2>1. req' = [req EXCEPT ![h] = Idle]
    BY <1>1, <1>5 DEF Refresh, Proceed
  <2>2. QED
    BY <1>3, <2>1, IdleOK, RequestStep
<1>6. QED
  BY <1>4, <1>5

LEMMA NextOK ==
  ASSUME NEW r, r = Idle \/ IsImport(r)
  PROVE  RequestOK(r) /\ Named(r)
<1>1. CASE r = Idle
  BY <1>1, IdleOK
<1>2. CASE IsImport(r)
  BY <1>2 DEF IsImport, RequestOK, IsRequest, Named
<1>3. QED
  BY <1>1, <1>2

LEMMA PushKeeps ==
  ASSUME CatalogueInv, NEW h \in Handlers, Push(h) \/ PushFails(h)
  PROVE  CatalogueInv'
<1>1. PICK next : next = req[h].next
  OBVIOUS
<1>2. /\ req[h].product \in Products /\ req[h].text \in Text
      /\ (next = Idle \/ IsImport(next))
  BY <1>1 DEF CatalogueInv, RequestsOK, RequestOK, IsRequest, IsImport, Idle, Push, PushFails
<1>3. RequestOK(next) /\ Named(next)
  BY <1>2, NextOK
<1>4. /\ UNCHANGED <<product, category, item, filed>> /\ req' = [req EXCEPT ![h] = next]
      /\ index' \in [Products -> Text \cup {Null}]
  BY <1>1, <1>2 DEF Push, PushFails, Proceed, CatalogueInv, TablesOK
<1>5. QED
  BY <1>3, <1>4, RequestStep

LEMMA TrashKeeps ==
  ASSUME CatalogueInv, FreeSlot, NEW p \in Products, Trash(p)
  PROVE  CatalogueInv'
<1>1. PICK h \in Handlers : req[h] = Idle
  BY DEF FreeSlot
<1>2. req' = req
  BY DEF Trash
<1>3. PICK r : r = [product[p] EXCEPT !.trashed = TRUE]
  OBVIOUS
<1>4. product[p] \in Row /\ p \in Existing
  BY ExistingRows DEF CatalogueInv, Trash
<1>5. r \in Row
  BY <1>3, <1>4 DEF Row
<1>6. product' = [product EXCEPT ![p] = r] /\ UNCHANGED <<category, item, index, filed>>
  BY <1>3 DEF Trash
<1>7. filed' \in [Products -> Categories \cup {Null}]
  BY <1>6 DEF CatalogueInv, TablesOK
<1>8. QED
  BY <1>2, <1>4, <1>5, <1>6, <1>7, IdleOK, RowUpdated, ProductStep

LEMMA RestoreCheckKeeps ==
  ASSUME CatalogueInv, NEW h \in Handlers, NEW p \in Products, RestoreCheck(h, p)
  PROVE  CatalogueInv'
<1>1. PICK r : r = [step |-> "restore", product |-> p]
  OBVIOUS
<1>2. RequestOK(r) /\ Named(r)
  BY <1>1 DEF RequestOK, IsRequest, Named
<1>3. /\ req' = [req EXCEPT ![h] = r] /\ UNCHANGED <<product, category, item, filed>>
      /\ index' \in [Products -> Text \cup {Null}]
  BY <1>1 DEF RestoreCheck, Begin, CatalogueInv, TablesOK
<1>4. QED
  BY <1>2, <1>3, RequestStep

LEMMA RestoreCommitKeeps ==
  ASSUME CatalogueInv, NEW h \in Handlers, RestoreCommit(h)
  PROVE  CatalogueInv'
<1>1. PICK p : p = req[h].product
  OBVIOUS
<1>2. p \in Products
  BY <1>1 DEF CatalogueInv, RequestsOK, RequestOK, IsRequest, IsImport, Idle, RestoreCommit
<1>3. /\ req' = [req EXCEPT ![h] = Idle] /\ UNCHANGED <<category, item, index, filed>>
      /\ index' \in [Products -> Text \cup {Null}]
      /\ filed' \in [Products -> Categories \cup {Null}]
  BY DEF RestoreCommit, End, Proceed, CatalogueInv, TablesOK
<1>4. CASE p \in Existing
  <2>1. PICK r : r = [product[p] EXCEPT !.trashed = FALSE]
    OBVIOUS
  <2>2. product[p] \in Row
    BY <1>2, <1>4, ExistingRows DEF CatalogueInv
  <2>3. r \in Row
    BY <2>1, <2>2 DEF Row
  <2>4. product' = [product EXCEPT ![p] = r]
    BY <1>1, <1>4, <2>1 DEF RestoreCommit
  <2>5. QED
    BY <1>3, <1>4, <2>3, <2>4, IdleOK, RowUpdated, ProductStep
<1>5. CASE p \notin Existing
  <2>1. product' = product
    BY <1>1, <1>5 DEF RestoreCommit
  <2>2. QED
    BY <1>3, <2>1, IdleOK, RequestStep
<1>6. QED
  BY <1>4, <1>5

LEMMA UnindexKeeps ==
  ASSUME CatalogueInv, NEW h \in Handlers, Unindex(h)
  PROVE  CatalogueInv'
<1>1. /\ UNCHANGED <<product, category, item, filed>> /\ req' = [req EXCEPT ![h] = Idle]
      /\ index' \in [Products -> Text \cup {Null}]
  BY DEF Unindex, End, Proceed, CatalogueInv, TablesOK
<1>2. QED
  BY <1>1, IdleOK, RequestStep

\* A product goes with its own list, and is in nobody else's.
LEMMA PurgeKeeps ==
  ASSUME CatalogueInv, NEW h \in Handlers, NEW p \in Products, Purge(h, p)
  PROVE  CatalogueInv'
<1>1. PICK r : r = [step |-> "unindex", product |-> p]
  OBVIOUS
<1>2. RequestOK(r) /\ Named(r)
  BY <1>1 DEF RequestOK, IsRequest, Named
<1>3. /\ req' = [req EXCEPT ![h] = r] /\ UNCHANGED <<category, index, filed>>
      /\ product' = [product EXCEPT ![p] = Purged]
      /\ item' = [i \in SubItems |-> IF i \in ItemsOf(p) THEN Null ELSE item[i]]
      /\ \A i \in SubItems : item[i] # Null => item[i].product # p
  BY <1>1 DEF Purge, Begin
<1>4. RequestsOK'
  BY <1>2, <1>3, RequestsKept DEF Named
<1>5. \A i \in SubItems : item'[i] # Null => item'[i] = item[i] /\ item[i].parent # p
  BY <1>3 DEF ItemsOf
<1>6. \A q \in Existing : q # p => q \in Existing'
  BY <1>3 DEF CatalogueInv, TablesOK, Existing
<1>7. TablesOK' /\ NamesUnique'
  BY <1>3 DEF CatalogueInv, TablesOK, NamesUnique
<1>8. NumbersUnique'
  BY <1>5 DEF CatalogueInv, NumbersUnique
<1>9. ReferencesHold'
  BY <1>3, <1>5, <1>6 DEF CatalogueInv, ReferencesHold
<1>10. QED
  BY <1>4, <1>7, <1>8, <1>9 DEF CatalogueInv
-----------------------------------------------------------------------------
(***************************************************************************)
(* Import, and categories.                                                 *)
(***************************************************************************)
LEMMA ImportBeginKeeps ==
  ASSUME CatalogueInv, NEW h \in Handlers, NEW sheet \in Sheets, ImportBegin(h, sheet)
  PROVE  CatalogueInv'
<1>1. PICK seen : seen = {Key(product[p]) : p \in Active}
  OBVIOUS
<1>2. \A p \in Active : product[p] \in Row
  BY ExistingRows DEF CatalogueInv, Active, Existing
<1>3. seen \subseteq {Key(l) : l \in Line}
  BY <1>1, <1>2, RowKeys
<1>4. sheet \in Seq(Line)
  BY CatalogueAssumption
<1>5. PICK r : r = Importing(sheet, seen)
  OBVIOUS
<1>6. RequestOK(r) /\ Named(r)
  BY <1>3, <1>4, <1>5, ImportingOK
<1>7. /\ req' = [req EXCEPT ![h] = r] /\ UNCHANGED <<product, category, item, filed>>
      /\ index' \in [Products -> Text \cup {Null}]
  BY <1>1, <1>5 DEF ImportBegin, Begin, CatalogueInv, TablesOK
<1>8. QED
  BY <1>6, <1>7, RequestStep

LEMMA ImportRowKeeps ==
  ASSUME CatalogueInv, NEW h \in Handlers, NEW p \in Products, ImportRow(h, p)
  PROVE  CatalogueInv'
<1>1. PICK rows, seen : rows = req[h].rows /\ seen = req[h].seen
  OBVIOUS
<1>2. rows \in Seq(Line) /\ rows # <<>> /\ seen \subseteq {Key(l) : l \in Line}
  BY <1>1 DEF CatalogueInv, RequestsOK, RequestOK, IsRequest, IsImport, Idle, ImportRow
<1>3. PICK line, rest : line = Head(rows) /\ rest = Tail(rows)
  OBVIOUS
<1>4. line \in Line /\ rest \in Seq(Line)
  BY <1>2, <1>3
<1>5. CASE Key(line) \in seen
  <2>1. PICK r : r = Importing(rest, seen)
    OBVIOUS
  <2>2. RequestOK(r) /\ Named(r)
    BY <1>2, <1>4, <2>1, ImportingOK
  <2>3. /\ req' = [req EXCEPT ![h] = r] /\ UNCHANGED <<product, category, item, filed>>
        /\ index' \in [Products -> Text \cup {Null}]
    BY <1>1, <1>3, <1>5, <2>1 DEF ImportRow, Proceed, CatalogueInv, TablesOK
  <2>4. QED
    BY <2>2, <2>3, RequestStep
<1>6. CASE Key(line) \notin seen
  <2>1. PICK next : next = Importing(rest, seen \cup {Key(line)})
    OBVIOUS
  <2>2. IsImport(next)
    BY <1>2, <1>4, <2>1, ImportingOK
  <2>3. Insert(h, p, line, next)
    BY <1>1, <1>3, <1>6, <2>1 DEF ImportRow
  <2>4. QED
    BY <1>4, <2>2, <2>3, InsertStep
<1>7. QED
  BY <1>5, <1>6

LEMMA EndsKeep ==
  ASSUME CatalogueInv, NEW h \in Handlers, ImportEnd(h) \/ Crash(h)
  PROVE  CatalogueInv'
<1>1. /\ UNCHANGED <<product, category, item, filed>> /\ req' = [req EXCEPT ![h] = Idle]
      /\ index' \in [Products -> Text \cup {Null}]
  BY DEF ImportEnd, Crash, End, Proceed, CatalogueInv, TablesOK
<1>2. QED
  BY <1>1, IdleOK, RequestStep

\* A name is given to one category when no other has it.
LEMMA NameGiven ==
  ASSUME CatalogueInv, NEW c \in Categories, NEW n \in CategoryNames,
         CategoryNamed(n) \in {Null, c}, category' = [category EXCEPT ![c] = n],
         UNCHANGED <<product, item, index, filed>>, RequestsOK'
  PROVE  CatalogueInv'
<1>1. n # Null /\ Null \notin Categories
  BY CatalogueAssumption
<1>2. \A e \in Categories : category[e] = n => e = c
  <2>1. ASSUME NEW e \in Categories, category[e] = n, e # c
        PROVE  FALSE
    <3>1. CategoryNamed(n) \in Categories /\ category[CategoryNamed(n)] = n
      BY <1>1, <2>1 DEF CategoryNamed
    <3>2. CategoryNamed(n) = c
      BY <1>1, <3>1
    <3>3. QED
      BY <1>1, <2>1, <3>1, <3>2 DEF CatalogueInv, NamesUnique
  <2>2. QED
    BY <2>1
<1>3. /\ category' \in [Categories -> CategoryNames \cup {Null}] /\ category'[c] = n
      /\ \A e \in Categories \ {c} : category'[e] = category[e]
  BY DEF CatalogueInv, TablesOK
<1>4. NamesUnique'
  BY <1>1, <1>2, <1>3 DEF CatalogueInv, NamesUnique
<1>5. TablesOK' /\ NumbersUnique' /\ ReferencesHold'
  BY <1>3 DEF CatalogueInv, TablesOK, NumbersUnique, ReferencesHold, Existing
<1>6. QED
  BY <1>4, <1>5 DEF CatalogueInv

LEMMA CreateCategoryKeeps ==
  ASSUME CatalogueInv, FreeSlot, NEW c \in Categories, NEW n \in CategoryNames,
         CreateCategory(c, n)
  PROVE  CatalogueInv'
<1>1. PICK h \in Handlers : TRUE
  BY DEF FreeSlot
<1>2. \A e \in Categories : category[e] # Null => category'[e] # Null
  BY CatalogueAssumption DEF CreateCategory, CatalogueInv, TablesOK
<1>3. RequestsOK'
  <2>1. Named(Idle)'
    BY DEF Named, Idle
  <2>2. req' = req
    BY DEF CreateCategory
  <2>3. QED
    BY <1>1, <1>2, <2>1, <2>2, IdleOK, RequestsKept
<1>4. QED
  BY <1>3, NameGiven DEF CreateCategory

LEMMA RenameReadKeeps ==
  ASSUME CatalogueInv, NEW h \in Handlers, NEW c \in Categories, NEW n \in CategoryNames,
         RenameRead(h, c, n)
  PROVE  CatalogueInv'
<1>1. PICK r : r = [step |-> "rename", category |-> c, old |-> category[c], name |-> n]
  OBVIOUS
<1>2. category[c] \in CategoryNames /\ category[c] # Null
  BY DEF RenameRead, CatalogueInv, TablesOK
<1>3. RequestOK(r) /\ Named(r)
  BY <1>1, <1>2 DEF RequestOK, IsRequest, Named
<1>4. /\ req' = [req EXCEPT ![h] = r] /\ UNCHANGED <<product, category, item, filed>>
      /\ index' \in [Products -> Text \cup {Null}]
  BY <1>1 DEF RenameRead, Begin, CatalogueInv, TablesOK
<1>5. QED
  BY <1>3, <1>4, RequestStep

LEMMA RenameCommitKeeps ==
  ASSUME CatalogueInv, NEW h \in Handlers, RenameCommit(h)
  PROVE  CatalogueInv'
<1>1. PICK c, n, old : c = req[h].category /\ n = req[h].name /\ old = req[h].old
  OBVIOUS
<1>2. c \in Categories /\ n \in CategoryNames /\ old \in CategoryNames
  BY <1>1 DEF CatalogueInv, RequestsOK, RequestOK, IsRequest, IsImport, Idle, RenameCommit
<1>3. CASE CategoryNamed(n) \in {Null, c}
  <2>1. PICK r : r = [step |-> "reread", category |-> c, old |-> old]
    OBVIOUS
  <2>2. /\ category' = [category EXCEPT ![c] = n] /\ UNCHANGED <<product, item, index, filed>>
        /\ req' = [req EXCEPT ![h] = r]
    BY <1>1, <1>3, <2>1 DEF RenameCommit, Proceed
  <2>3. category'[c] = n /\ n # Null /\ \A e \in Categories \ {c} : category'[e] = category[e]
    BY <1>2, <2>2, CatalogueAssumption DEF CatalogueInv, TablesOK
  <2>4. RequestOK(r) /\ Named(r)'
    BY <1>2, <2>1, <2>3 DEF RequestOK, IsRequest, Named
  <2>5. RequestsOK'
    BY <2>2, <2>3, <2>4, RequestsKept
  <2>6. QED
    BY <1>2, <1>3, <2>2, <2>5, NameGiven
<1>4. CASE CategoryNamed(n) \notin {Null, c}
  <2>1. /\ UNCHANGED <<product, category, item, filed>> /\ req' = [req EXCEPT ![h] = Idle]
        /\ index' \in [Products -> Text \cup {Null}]
    BY <1>1, <1>4 DEF RenameCommit, Proceed, CatalogueInv, TablesOK
  <2>2. QED
    BY <2>1, IdleOK, RequestStep
<1>5. QED
  BY <1>3, <1>4

LEMMA RenameRereadKeeps ==
  ASSUME CatalogueInv, NEW h \in Handlers, RenameReread(h)
  PROVE  CatalogueInv'
<1>1. PICK c, old : c = req[h].category /\ old = req[h].old
  OBVIOUS
<1>2. c \in Categories /\ old \in CategoryNames
  BY <1>1 DEF CatalogueInv, RequestsOK, RequestOK, IsRequest, IsImport, Idle, RenameReread
<1>3. category[c] # Null
  BY <1>1 DEF CatalogueInv, RequestsOK, Named, RenameReread
<1>4. category[c] \in CategoryNames
  BY <1>2, <1>3 DEF CatalogueInv, TablesOK
<1>5. /\ UNCHANGED <<product, category, item, filed>>
      /\ index' \in [Products -> Text \cup {Null}]
  BY DEF RenameReread, CatalogueInv, TablesOK
<1>6. PICK r : r = [step |-> "carry", category |-> c, old |-> old, name |-> category[c]]
  OBVIOUS
<1>7. RequestOK(r) /\ Named(r)
  BY <1>2, <1>3, <1>4, <1>6 DEF RequestOK, IsRequest, Named
<1>8. req' = [req EXCEPT ![h] = r] \/ req' = [req EXCEPT ![h] = Idle]
  BY <1>1, <1>6 DEF RenameReread, Proceed
<1>9. QED
  BY <1>5, <1>7, <1>8, IdleOK, RequestStep

LEMMA CarryKeeps ==
  ASSUME CatalogueInv, NEW h \in Handlers, Carry(h)
  PROVE  CatalogueInv'
<1>1. PICK n, old : n = req[h].name /\ old = req[h].old
  OBVIOUS
<1>2. n \in CategoryNames
  BY <1>1 DEF CatalogueInv, RequestsOK, RequestOK, Carry
<1>3. ASSUME NEW p \in Products
      PROVE  /\ p \in Existing => product'[p] \in Row
             /\ product'[p] \in Row \cup {NoProduct, Purged}
  <2>1. product'[p] = IF p \in Existing /\ product[p].category = old
                        THEN [product[p] EXCEPT !.category = n]
                        ELSE product[p]
    BY <1>1 DEF Carry
  <2>2. p \in Existing <=> product[p] \in Row
    BY ExistingRows DEF CatalogueInv
  <2>3. product[p] \in Row => [product[p] EXCEPT !.category = n] \in Row
    BY <1>2 DEF Row
  <2>4. QED
    BY <2>1, <2>2, <2>3 DEF CatalogueInv, TablesOK
<1>4. /\ req' = [req EXCEPT ![h] = Idle] /\ UNCHANGED <<category, item, index, filed>>
      /\ product' \in [Products -> Row \cup {NoProduct, Purged}]
      /\ filed' \in [Products -> Categories \cup {Null}]
  BY <1>3 DEF Carry, End, Proceed, CatalogueInv, TablesOK
<1>5. \A p \in Existing : product'[p] \in Row
  BY <1>3 DEF Existing
<1>6. QED
  BY <1>4, <1>5, IdleOK, ProductStep

-----------------------------------------------------------------------------
(***************************************************************************)
(* Sub-items.                                                              *)
(***************************************************************************)
\* A step that writes sub-items only.
LEMMA ItemStep ==
  ASSUME CatalogueInv, NEW h \in Handlers, NEW r, RequestOK(r), Named(r),
         req' = [req EXCEPT ![h] = r], UNCHANGED <<product, category, index, filed>>,
         item' \in [SubItems -> Item \cup {Null}], NumbersUnique', ReferencesHold'
  PROVE  CatalogueInv'
<1>1. RequestsOK'
  BY RequestsKept DEF Named
<1>2. TablesOK' /\ NamesUnique'
  BY DEF CatalogueInv, TablesOK, NamesUnique
<1>3. QED
  BY <1>1, <1>2 DEF CatalogueInv

LEMMA LeastNumber ==
  ASSUME NEW T \in SUBSET Nat, T # {}
  PROVE  \E n \in T : \A m \in T : n <= m
<1>1. PICK n \in T : \A m \in T : ~(<<m, n>> \in OpToRel(<, Nat))
  BY WFMin, NatLessThanWellFounded
<1>2. ASSUME NEW m \in T, m < n
      PROVE  FALSE
  <2> DEFINE ss == <<m, n>>
  <2>1. ss \in Nat \X Nat /\ ss[1] < ss[2]
    BY <1>2
  <2>2. ss \in OpToRel(<, Nat)
    <3> HIDE DEF ss
    <3>1. QED
      BY <2>1, Zenon DEF OpToRel
  <2>3. QED
    BY <1>1, <2>2
<1>3. QED
  BY <1>2

LEMMA HighestOf ==
  ASSUME NEW T \in SUBSET (1 .. MaxNumber)
  PROVE  /\ Highest(T) \in 0 .. MaxNumber
         /\ \A n \in T : n <= Highest(T)
<1>1. MaxNumber \in Nat
  BY CatalogueAssumption
<1>2. \A n \in T : n \in Nat /\ MaxNumber - n \in Nat
  BY <1>1
<1>3. CASE T = {}
  BY <1>1, <1>3 DEF Highest
<1>4. CASE T # {}
  <2> DEFINE D == {MaxNumber - n : n \in T}
  <2>1. D \in SUBSET Nat /\ D # {}
    BY <1>2, <1>4
  <2>2. PICK k \in D : \A j \in D : k <= j
    BY <2>1, LeastNumber
  <2>3. PICK n \in T : k = MaxNumber - n
    BY <2>2
  <2>4. \A m \in T : m <= n
    BY <1>1, <1>2, <2>2, <2>3
  <2>5. PICK top : top = Highest(T)
    OBVIOUS
  <2>6. top \in T /\ \A m \in T : m <= top
    BY <1>4, <2>4, <2>5 DEF Highest
  <2> HIDE DEF D
  <2>7. top \in 0 .. MaxNumber
    BY <1>1, <2>6
  <2>8. QED
    BY <2>5, <2>6, <2>7
<1>5. QED
  BY <1>3, <1>4

LEMMA NumbersTyped ==
  ASSUME TablesOK, NEW p
  PROVE  NumbersOf(p) \in SUBSET (1 .. MaxNumber)
  BY ItemsTyped DEF NumbersOf, ItemsOf

LEMMA AddReadKeeps ==
  ASSUME CatalogueInv, NEW h \in Handlers, NEW p \in Products, NEW q \in Products,
         AddRead(h, p, q)
  PROVE  CatalogueInv'
<1>1. PICK n : n = Highest(NumbersOf(p))
  OBVIOUS
<1>2. n \in 0 .. MaxNumber /\ n < MaxNumber
  BY <1>1, NumbersTyped, HighestOf DEF CatalogueInv, AddRead
<1>3. n + 1 \in 1 .. MaxNumber
  BY <1>2, CatalogueAssumption
<1>4. PICK r : r = [step |-> "add", parent |-> p, product |-> q, number |-> n + 1]
  OBVIOUS
<1>5. RequestOK(r) /\ Named(r)
  BY <1>3, <1>4 DEF RequestOK, IsRequest, Named
<1>6. /\ req' = [req EXCEPT ![h] = r] /\ UNCHANGED <<product, category, item, filed>>
      /\ index' \in [Products -> Text \cup {Null}]
  BY <1>1, <1>4 DEF AddRead, Begin, CatalogueInv, TablesOK
<1>7. QED
  BY <1>5, <1>6, RequestStep

LEMMA AddCommitKeeps ==
  ASSUME CatalogueInv, NEW h \in Handlers, NEW i \in SubItems, AddCommit(h, i)
  PROVE  CatalogueInv'
<1>1. PICK p, q, n : p = req[h].parent /\ q = req[h].product /\ n = req[h].number
  OBVIOUS
<1>2. p \in Products /\ q \in Products /\ n \in 1 .. MaxNumber
  BY <1>1 DEF CatalogueInv, RequestsOK, RequestOK, IsRequest, IsImport, Idle, AddCommit
<1>3. PICK new : new = [parent |-> p, product |-> q, number |-> n]
  OBVIOUS
<1>4. new \in Item /\ new # Null
  BY <1>2, <1>3, CatalogueAssumption DEF Item
<1>5. /\ req' = [req EXCEPT ![h] = Idle] /\ UNCHANGED <<product, category, index, filed>>
      /\ item' = IF {p, q} \subseteq Existing /\ n \notin NumbersOf(p)
                   THEN [item EXCEPT ![i] = new]
                   ELSE item
  BY <1>1, <1>3 DEF AddCommit, End, Proceed
<1>6. item' \in [SubItems -> Item \cup {Null}]
  BY <1>4, <1>5 DEF CatalogueInv, TablesOK
<1>7. NumbersUnique' /\ ReferencesHold'
  <2>1. CASE item' = item
    BY <1>5, <2>1 DEF CatalogueInv, NumbersUnique, ReferencesHold, Existing
  <2>2. CASE {p, q} \subseteq Existing /\ n \notin NumbersOf(p)
    <3>1. item'[i] = new /\ \A j \in SubItems \ {i} : item'[j] = item[j]
      BY <1>5, <2>2 DEF CatalogueInv, TablesOK
    <3>2. \A j \in SubItems : item[j] # Null /\ item[j].parent = p => item[j].number # n
      BY <2>2 DEF NumbersOf, ItemsOf
    <3>3. Existing' = Existing
      BY <1>5 DEF Existing
    <3>4. NumbersUnique'
      BY <1>3, <3>1, <3>2 DEF CatalogueInv, NumbersUnique
    <3>5. ReferencesHold'
      BY <1>3, <2>2, <3>1, <3>3 DEF CatalogueInv, ReferencesHold
    <3>6. QED
      BY <3>4, <3>5
  <2>3. QED
    BY <1>5, <2>1, <2>2
<1>8. QED
  BY <1>5, <1>6, <1>7, IdleOK, ItemStep

LEMMA RemoveReadKeeps ==
  ASSUME CatalogueInv, NEW h \in Handlers, NEW i \in SubItems, RemoveRead(h, i)
  PROVE  CatalogueInv'
<1>1. PICK r : r = [step |-> "remove", item |-> i, parent |-> item[i].parent]
  OBVIOUS
<1>2. item[i].parent \in Products
  BY ItemsTyped DEF CatalogueInv, RemoveRead
<1>3. RequestOK(r) /\ Named(r)
  BY <1>1, <1>2 DEF RequestOK, IsRequest, Named
<1>4. /\ req' = [req EXCEPT ![h] = r] /\ UNCHANGED <<product, category, item, filed>>
      /\ index' \in [Products -> Text \cup {Null}]
  BY <1>1 DEF RemoveRead, Begin, CatalogueInv, TablesOK
<1>5. QED
  BY <1>3, <1>4, RequestStep

LEMMA RemoveCommitKeeps ==
  ASSUME CatalogueInv, NEW h \in Handlers, RemoveCommit(h)
  PROVE  CatalogueInv'
<1>1. PICK i, p : i = req[h].item /\ p = req[h].parent
  OBVIOUS
<1>2. i \in SubItems /\ p \in Products
  BY <1>1 DEF CatalogueInv, RequestsOK, RequestOK, IsRequest, IsImport, Idle, RemoveCommit
<1>3. PICK r : r = [step |-> "sort", parent |-> p]
  OBVIOUS
<1>4. RequestOK(r) /\ Named(r)
  BY <1>2, <1>3 DEF RequestOK, IsRequest, Named
<1>5. /\ req' = [req EXCEPT ![h] = r] /\ UNCHANGED <<product, category, index, filed>>
      /\ item' = [item EXCEPT ![i] = Null]
  BY <1>1, <1>3 DEF RemoveCommit, Proceed
<1>6. /\ item' \in [SubItems -> Item \cup {Null}] /\ item'[i] = Null
      /\ \A j \in SubItems \ {i} : item'[j] = item[j]
  BY <1>2, <1>5 DEF CatalogueInv, TablesOK
<1>7. NumbersUnique' /\ ReferencesHold'
  BY <1>5, <1>6 DEF CatalogueInv, NumbersUnique, ReferencesHold, Existing
<1>8. QED
  BY <1>4, <1>5, <1>6, <1>7, ItemStep

LEMMA SortKeeps ==
  ASSUME CatalogueInv, NEW h \in Handlers, Sort(h)
  PROVE  CatalogueInv'
<1>1. PICK p : p = req[h].parent
  OBVIOUS
<1>2. p \in Products
  BY <1>1 DEF CatalogueInv, RequestsOK, RequestOK, IsRequest, IsImport, Idle, Sort
<1>3. PICK numbers : numbers = Positions(p)
  OBVIOUS
<1>4. DOMAIN numbers \subseteq SubItems /\ \A i \in DOMAIN numbers : numbers[i] \in 1 .. MaxNumber
  <2>1. DOMAIN numbers \subseteq ItemsOf(p)
    BY <1>3, PositionsOf
  <2>2. \A i \in DOMAIN numbers : numbers[i] = Cardinality(Before(p, i))
    BY <1>3, PositionsOf
  <2>3. \A i \in ItemsOf(p) : Cardinality(Before(p, i)) \in 1 .. MaxNumber
    BY <1>2, PositionInRange DEF CatalogueInv
  <2>4. QED
    BY <2>1, <2>2, <2>3 DEF ItemsOf
<1>5. PICK r : r = [step |-> "renumber", parent |-> p, numbers |-> numbers]
  OBVIOUS
<1>6. RequestOK(r) /\ Named(r)
  BY <1>2, <1>4, <1>5 DEF RequestOK, IsRequest, Named
<1>7. /\ req' = [req EXCEPT ![h] = r] /\ UNCHANGED <<product, category, item, filed>>
      /\ index' \in [Products -> Text \cup {Null}]
  BY <1>1, <1>3, <1>5 DEF Sort, Proceed, CatalogueInv, TablesOK
<1>8. QED
  BY <1>6, <1>7, RequestStep

\* What a renumbering that goes through leaves.
LEMMA RenumberedItems ==
  ASSUME CatalogueInv, NEW p, NEW numbers, Sendable(p, numbers),
         item' = [i \in SubItems |-> IF i \in DOMAIN numbers
                                       THEN [item[i] EXCEPT !.number = numbers[i]]
                                       ELSE item[i]]
  PROVE  \A i \in SubItems :
           /\ item'[i] # Null => item[i] # Null
           /\ item[i] # Null =>
                /\ item'[i].parent = item[i].parent /\ item'[i].product = item[i].product
                /\ item'[i].number = IF i \in DOMAIN numbers THEN numbers[i] ELSE item[i].number
<1> SUFFICES ASSUME NEW i \in SubItems
             PROVE  /\ item'[i] # Null => item[i] # Null
                    /\ item[i] # Null =>
                         /\ item'[i].parent = item[i].parent
                         /\ item'[i].product = item[i].product
                         /\ item'[i].number = IF i \in DOMAIN numbers
                                                THEN numbers[i] ELSE item[i].number
  OBVIOUS
<1>1. CASE i \in DOMAIN numbers
  <2>1. item[i] # Null
    BY <1>1 DEF Sendable, ItemsOf
  <2>2. item[i] \in Item
    BY <2>1 DEF CatalogueInv, TablesOK
  <2>3. item'[i] = [item[i] EXCEPT !.number = numbers[i]]
    BY <1>1
  <2>4. QED
    BY <1>1, <2>1, <2>2, <2>3 DEF Item
<1>2. CASE i \notin DOMAIN numbers
  BY <1>2
<1>3. QED
  BY <1>1, <1>2

LEMMA RenumberKeeps ==
  ASSUME CatalogueInv, NEW h \in Handlers, Renumber(h)
  PROVE  CatalogueInv'
<1>1. PICK p, numbers : p = req[h].parent /\ numbers = req[h].numbers
  OBVIOUS
<1>2. p \in Products /\ \A i \in DOMAIN numbers : numbers[i] \in 1 .. MaxNumber
  BY <1>1 DEF CatalogueInv, RequestsOK, RequestOK, IsRequest, IsImport, Idle, Renumber
<1>3. /\ req' = [req EXCEPT ![h] = Idle] /\ UNCHANGED <<product, category, index, filed>>
      /\ item' = IF Sendable(p, numbers)
                   THEN [i \in SubItems |-> IF i \in DOMAIN numbers
                                              THEN [item[i] EXCEPT !.number = numbers[i]]
                                              ELSE item[i]]
                   ELSE item
  BY <1>1 DEF Renumber, End, Proceed
<1>4. CASE ~Sendable(p, numbers)
  <2>1. item' = item
    BY <1>3, <1>4
  <2>2. UNCHANGED <<product, category, item, filed>> /\ index' \in [Products -> Text \cup {Null}]
    BY <1>3, <2>1 DEF CatalogueInv, TablesOK
  <2>3. QED
    BY <1>3, <2>2, IdleOK, RequestStep
<1>5. CASE Sendable(p, numbers)
  <2>1. \A i \in SubItems :
           /\ item'[i] # Null => item[i] # Null
           /\ item[i] # Null =>
                /\ item'[i].parent = item[i].parent /\ item'[i].product = item[i].product
                /\ item'[i].number = IF i \in DOMAIN numbers THEN numbers[i] ELSE item[i].number
    BY <1>3, <1>5, RenumberedItems
  <2>2. item' \in [SubItems -> Item \cup {Null}]
    <3>1. ASSUME NEW i \in DOMAIN numbers
          PROVE  [item[i] EXCEPT !.number = numbers[i]] \in Item
      <4>1. item[i] \in Item
        BY <1>5 DEF Sendable, ItemsOf, CatalogueInv, TablesOK
      <4>2. QED
        BY <1>2, <4>1 DEF Item
    <3>2. QED
      BY <1>3, <1>5, <3>1 DEF CatalogueInv, TablesOK
  <2>3. ReferencesHold'
    <3>1. Existing' = Existing
      BY <1>3 DEF Existing
    <3>2. QED
      BY <2>1, <3>1 DEF CatalogueInv, ReferencesHold
  <2>4. NumbersUnique'
    <3>1. ASSUME NEW i \in SubItems, NEW j \in SubItems, j < i,
                 item[i] # Null, item[j] # Null, item[i].parent = item[j].parent,
                 item'[i].number = item'[j].number
          PROVE  FALSE
      <4>1. i # j /\ ~(i < j)
        BY <3>1, CatalogueAssumption
      <4>2. item[i].number # item[j].number
        BY <3>1, <4>1 DEF CatalogueInv, NumbersUnique
      <4>3. \A k \in DOMAIN numbers : k \in ItemsOf(p)
        BY <1>5 DEF Sendable
      <4>4. i \in DOMAIN numbers \/ j \in DOMAIN numbers => i \in ItemsOf(p) /\ j \in ItemsOf(p)
        BY <3>1, <4>3 DEF ItemsOf
      <4>5. i \in DOMAIN numbers =>
              (IF j \in DOMAIN numbers THEN numbers[j] ELSE item[j].number) # numbers[i]
        BY <1>5, <3>1, <4>1, <4>4 DEF Sendable
      <4>6. j \in DOMAIN numbers => item[i].number # numbers[j]
        BY <1>5, <3>1, <4>1, <4>4 DEF Sendable
      <4>7. QED
        BY <2>1, <3>1, <4>2, <4>5, <4>6
    <3>2. \A i, j \in SubItems : i = j \/ i < j \/ j < i
      BY CatalogueAssumption
    <3>3. QED
      BY <2>1, <3>1, <3>2 DEF NumbersUnique
  <2>5. QED
    BY <1>3, <2>2, <2>3, <2>4, IdleOK, ItemStep
<1>6. QED
  BY <1>4, <1>5

-----------------------------------------------------------------------------
LEMMA CatalogueInit == Init => CatalogueInv
<1> SUFFICES ASSUME Init PROVE CatalogueInv
  OBVIOUS
<1>1. \A p \in Products : product[p] \in Row \cup {NoProduct}
  BY CatalogueAssumption DEF Init, Row
<1>2. ASSUME NEW p \in Products
      PROVE  index[p] \in Text \cup {Null}
  <2>1. product[p] # NoProduct => TextOf(product[p]) \in Text
    BY <1>1 DEF TextOf, Text, Row
  <2>2. QED
    BY <2>1 DEF Init
<1>3. product \in [Products -> Row \cup {NoProduct, Purged}]
  BY <1>1 DEF Init
<1>4. index \in [Products -> Text \cup {Null}]
  BY <1>2 DEF Init
<1>5. TablesOK
  BY <1>3, <1>4 DEF Init, TablesOK
<1>6. RequestsOK
  BY IdleOK DEF Init, RequestsOK
<1>7. NumbersUnique /\ NamesUnique /\ ReferencesHold
  BY DEF Init, NumbersUnique, NamesUnique, ReferencesHold
<1>8. QED
  BY <1>5, <1>6, <1>7 DEF CatalogueInv

LEMMA CatalogueStep == CatalogueInv /\ [Next]_vars => CatalogueInv'
<1> SUFFICES ASSUME CatalogueInv, [Next]_vars PROVE CatalogueInv'
  OBVIOUS
<1>1. CASE UNCHANGED vars
  BY <1>1 DEF vars, CatalogueInv, TablesOK, RequestsOK, Named, NumbersUnique, NamesUnique,
              ReferencesHold, Existing
<1>2. CASE ManageProducts
  BY <1>2, CreateCheckKeeps, CreateCommitKeeps, RestoreCheckKeeps, PurgeKeeps, UpdateReadKeeps,
     UpdateCommitKeeps, RefreshKeeps, PushKeeps, RestoreCommitKeeps, UnindexKeeps, TrashKeeps
     DEF ManageProducts
<1>3. CASE Import
  BY <1>3, ImportBeginKeeps, ImportRowKeeps, EndsKeep DEF Import
<1>4. CASE ManageCategories
  BY <1>4, RenameReadKeeps, RenameCommitKeeps, RenameRereadKeeps, CarryKeeps, CreateCategoryKeeps
     DEF ManageCategories
<1>5. CASE ManageSubItems
  BY <1>5, AddReadKeeps, AddCommitKeeps, RemoveReadKeeps, RemoveCommitKeeps, SortKeeps,
     RenumberKeeps DEF ManageSubItems
<1>6. CASE \E h \in Handlers : PushFails(h) \/ Crash(h)
  BY <1>6, PushKeeps, EndsKeep
<1>7. QED
  BY <1>1, <1>2, <1>3, <1>4, <1>5, <1>6 DEF Next, Service

\* Every state is well typed, however requests interleave, fail or crash.
THEOREM CatalogueTyped == Spec => []TypeOK
<1>1. CatalogueInv /\ [Next]_vars => CatalogueInv'
  BY CatalogueStep
<1>2. QED
  BY CatalogueInit, InvTyped, <1>1, PTL DEF Spec

\* No product is a component, or has components, after its purge
\* (delete_product, add_sub_item and the foreign keys of models.py).
THEOREM ComponentsExist == Spec => []ReferencesHold
<1>1. CatalogueInv /\ [Next]_vars => CatalogueInv'
  BY CatalogueStep
<1>2. CatalogueInv => ReferencesHold
  BY DEF CatalogueInv
<1>3. QED
  BY CatalogueInit, <1>1, <1>2, PTL DEF Spec
-----------------------------------------------------------------------------
(***************************************************************************)
(* One request at a time.  What relates products and components to one     *)
(* another then holds whatever crashes (ReadsInv); what the index and the  *)
(* carried category names need is that the second commit of a request      *)
(* follows the first (AloneInv).                                           *)
(***************************************************************************)
OneAtATime == \A g, h \in Handlers : g = h

\* A file being imported knows the key of every active product.
SeenAll(r) == r.step = "import" => \A p \in Active : Key(product[p]) \in r.seen

\* What a request has read of the tables is what they have.
Current(r) ==
  /\ SeenAll(r)
  /\ r.step = "create" => ~HasDuplicate(r.line, Null)
  /\ r.step = "update" =>
       /\ r.product \in Existing
       /\ DOMAIN r.changes \cap {"name", "description"} # {} =>
            ~HasDuplicate(Over(product[r.product], r.changes), r.product)
  /\ r.step = "restore" => r.product \in Existing /\ ~HasDuplicate(product[r.product], r.product)
  /\ r.step \in {"refresh", "push"} => r.product \in Existing /\ SeenAll(r.next)
  /\ r.step = "push" => r.text = TextOf(product[r.product])
  /\ r.step = "unindex" => r.product \notin Existing
  /\ r.step = "rename" => r.old = category[r.category] /\ r.name # r.old
  /\ r.step \in {"reread", "carry"} => \A c \in Categories : category[c] # r.old
  /\ r.step = "carry" => r.name = category[r.category]
  /\ r.step = "add" => r.number = Highest(NumbersOf(r.parent)) + 1
  /\ r.step = "renumber" => r.numbers = Positions(r.parent)

RequestsCurrent == \A h \in Handlers : Current(req[h])

IndexOK(p) == index[p] = IF p \in Existing THEN TextOf(product[p]) ELSE Null

Pending(r) == r.step \in {"refresh", "push", "unindex"}

\* The index is right about a product, or its request is about to set it.
IndexPending ==
  \A p \in Products : IndexOK(p) \/ \E h \in Handlers : Pending(req[h]) /\ req[h].product = p

Carrying(r) == r.step \in {"reread", "carry"}

\* A product is where it was filed, or its request is about to carry it there.
FiledPending ==
  \A p \in Existing : filed[p] # Null =>
    /\ category[filed[p]] # Null
    /\ \/ product[p].category = category[filed[p]]
       \/ \E h \in Handlers : /\ Carrying(req[h])
                              /\ req[h].category = filed[p]
                              /\ product[p].category = req[h].old

\* What holds even when requests crash and the index does not answer, and
\* what holds besides when they do not.
ReadsInv == CatalogueInv /\ RequestsCurrent

AloneInv == ReadsInv /\ IndexPending /\ FiledPending

\* What a step owes besides: no new twins, and the order of the components.
TwinsOld == \A p, q \in Products : Twins(p, q)' => Twins(p, q)

OrderOld ==
  \A i, j \in SubItems :
    /\ item[i] # Null /\ item'[i] # Null /\ item'[j] # Null
    /\ item'[i].parent = item'[j].parent
    /\ IF item[j] = Null THEN i # j ELSE item[i].number < item[j].number
    => item'[i].number < item'[j].number

Kept ==
  /\ RequestsCurrent' /\ TwinsOld /\ OrderOld
  /\ IndexPending => IndexPending'
  /\ FiledPending => FiledPending'

-----------------------------------------------------------------------------
LEMMA IdleCurrent ==
  /\ Current(Idle) /\ Current(Idle)' /\ ~Pending(Idle) /\ ~Carrying(Idle)
  /\ SeenAll(Idle) /\ SeenAll(Idle)'
  BY DEF Current, SeenAll, Idle, Pending, Carrying

LEMMA ExistingTyped ==
  ASSUME CatalogueInv
  PROVE  \A p \in Existing : p \in Products /\ product[p] \in Row
  BY ExistingRows DEF CatalogueInv, Existing

\* The only request is the one that takes the step.
LEMMA OnlyRequest ==
  ASSUME OneAtATime, CatalogueInv, NEW h \in Handlers, NEW r, req' = [req EXCEPT ![h] = r]
  PROVE  \A s \in Handlers : s = h /\ req'[s] = r
  BY DEF OneAtATime, CatalogueInv, RequestsOK

LEMMA SameProducts ==
  ASSUME UNCHANGED product
  PROVE  /\ Existing' = Existing /\ Active' = Active /\ TwinsOld
         /\ \A r : SeenAll(r)' <=> SeenAll(r)
         /\ \A r, x : HasDuplicate(r, x)' <=> HasDuplicate(r, x)
  BY DEF Existing, Active, TwinsOld, Twins, SeenAll, HasDuplicate, Key

LEMMA SameItems ==
  ASSUME UNCHANGED item
  PROVE  /\ OrderOld
         /\ \A p : ItemsOf(p)' = ItemsOf(p) /\ NumbersOf(p)' = NumbersOf(p)
         /\ \A p : Positions(p)' = Positions(p)
<1>1. OrderOld
  BY DEF OrderOld
<1>2. \A p : ItemsOf(p)' = ItemsOf(p)
  BY DEF ItemsOf
<1>3. \A p : NumbersOf(p)' = NumbersOf(p)
  BY <1>2 DEF NumbersOf
<1>4. \A p : Positions(p)' = Positions(p)
  BY <1>2 DEF Positions
<1>5. QED
  BY <1>1, <1>2, <1>3, <1>4

\* A step that leaves the tables and the index as they are.
LEMMA QuietKeeps ==
  ASSUME OneAtATime, ReadsInv, NEW h \in Handlers, NEW r, req' = [req EXCEPT ![h] = r],
         UNCHANGED <<product, category, item, index, filed>>,
         Current(r),
         Pending(req[h]) => Pending(r) /\ r.product = req[h].product,
         Carrying(req[h]) => /\ Carrying(r) /\ r.category = req[h].category
                             /\ r.old = req[h].old
  PROVE  Kept
<1>1. \A s \in Handlers : s = h /\ req'[s] = r
  BY OnlyRequest DEF ReadsInv
<1>2. Existing' = Existing /\ TwinsOld
  BY SameProducts
<1>3. OrderOld
  BY SameItems
<1>4. Current(r)'
  BY <1>2, SameProducts, SameItems DEF Current
<1>5. RequestsCurrent'
  <2>1. \A s \in Handlers : Current(req[s])'
    BY <1>1, <1>4 DEF Current, SeenAll
  <2>2. QED
    BY <2>1 DEF RequestsCurrent
<1>6. ASSUME IndexPending PROVE IndexPending'
  BY <1>1, <1>2, <1>6 DEF IndexPending, IndexOK
<1>7. ASSUME FiledPending PROVE FiledPending'
  BY <1>1, <1>2, <1>7 DEF FiledPending
<1>8. QED
  BY <1>2, <1>3, <1>5, <1>6, <1>7 DEF Kept
-----------------------------------------------------------------------------
(***************************************************************************)
(* Reads.                                                                  *)
(***************************************************************************)
LEMMA CreateCheckAlone ==
  ASSUME OneAtATime, ReadsInv, NEW h \in Handlers, NEW line \in Line, CreateCheck(h, line)
  PROVE  Kept
<1>1. PICK r : r = [step |-> "create", line |-> line]
  OBVIOUS
<1>2. Current(r)
  BY <1>1 DEF Current, SeenAll, CreateCheck
<1>3. /\ req' = [req EXCEPT ![h] = r] /\ req[h] = Idle
      /\ UNCHANGED <<product, category, item, index, filed>>
  BY <1>1 DEF CreateCheck, Begin
<1>4. QED
  BY <1>2, <1>3, QuietKeeps, IdleCurrent

LEMMA UpdateReadAlone ==
  ASSUME OneAtATime, ReadsInv, NEW h \in Handlers, NEW p \in Products, NEW line \in Line,
         UpdateRead(h, p, line)
  PROVE  Kept
<1>1. PICK q, c : q = product[p] /\ c = Changed(q, line)
  OBVIOUS
<1>2. q \in Row /\ p \in Existing
  BY <1>1, ExistingTyped DEF ReadsInv, UpdateRead
<1>3. /\ IsChange(c)
      /\ \A f \in {"name", "description", "category"} : f \in DOMAIN c <=> line[f] # q[f]
      /\ \A f \in DOMAIN c : c[f] = line[f]
  BY <1>1, <1>2, ChangesFit
<1>4. PICK w : w = Over(q, c)
  OBVIOUS
<1>5. \A f \in {"name", "description"} : w[f] = line[f]
  BY <1>2, <1>3, <1>4, OverRow DEF Column
<1>6. Key(w) = Key(line)
  BY <1>5 DEF Key
<1>7. DOMAIN c \cap {"name", "description"} # {} => ~HasDuplicate(w, p)
  <2>1. ASSUME DOMAIN c \cap {"name", "description"} # {}
        PROVE  ~HasDuplicate(line, p)
    BY <1>1, <1>3, <2>1 DEF UpdateRead
  <2>2. QED
    BY <1>6, <2>1 DEF HasDuplicate
<1>8. PICK r : r = [step |-> "update", product |-> p, changes |-> c]
  OBVIOUS
<1>9. Current(r)
  BY <1>1, <1>2, <1>4, <1>7, <1>8 DEF Current, SeenAll
<1>10. /\ req' = [req EXCEPT ![h] = r] /\ req[h] = Idle
       /\ UNCHANGED <<product, category, item, index, filed>>
  BY <1>1, <1>8 DEF UpdateRead, Begin
<1>11. QED
  BY <1>9, <1>10, QuietKeeps, IdleCurrent

LEMMA RefreshAlone ==
  ASSUME OneAtATime, ReadsInv, NEW h \in Handlers, Refresh(h)
  PROVE  Kept
<1>1. PICK p, next : p = req[h].product /\ next = req[h].next
  OBVIOUS
<1>2. req[h].step = "refresh" /\ p \in Existing /\ SeenAll(next)
  BY <1>1 DEF ReadsInv, RequestsCurrent, Current, Refresh
<1>3. PICK r : r = [step |-> "push", product |-> p, text |-> TextOf(product[p]), next |-> next]
  OBVIOUS
<1>4. Current(r) /\ Pending(r) /\ r.product = p
  BY <1>2, <1>3 DEF Current, Pending, SeenAll
<1>5. req' = [req EXCEPT ![h] = r] /\ UNCHANGED <<product, category, item, index, filed>>
  BY <1>1, <1>2, <1>3 DEF Refresh, Proceed
<1>6. QED
  BY <1>1, <1>2, <1>4, <1>5, QuietKeeps DEF Carrying

LEMMA RestoreCheckAlone ==
  ASSUME OneAtATime, ReadsInv, NEW h \in Handlers, NEW p \in Products, RestoreCheck(h, p)
  PROVE  Kept
<1>1. PICK r : r = [step |-> "restore", product |-> p]
  OBVIOUS
<1>2. Current(r)
  BY <1>1 DEF Current, SeenAll, RestoreCheck
<1>3. /\ req' = [req EXCEPT ![h] = r] /\ req[h] = Idle
      /\ UNCHANGED <<product, category, item, index, filed>>
  BY <1>1 DEF RestoreCheck, Begin
<1>4. QED
  BY <1>2, <1>3, QuietKeeps, IdleCurrent

LEMMA ImportBeginAlone ==
  ASSUME OneAtATime, ReadsInv, NEW h \in Handlers, NEW sheet \in Sheets, ImportBegin(h, sheet)
  PROVE  Kept
<1>1. PICK r : r = Importing(sheet, {Key(product[p]) : p \in Active})
  OBVIOUS
<1>2. Current(r)
  BY <1>1 DEF Current, SeenAll, Importing
<1>3. /\ req' = [req EXCEPT ![h] = r] /\ req[h] = Idle
      /\ UNCHANGED <<product, category, item, index, filed>>
  BY <1>1 DEF ImportBegin, Begin
<1>4. QED
  BY <1>2, <1>3, QuietKeeps, IdleCurrent

LEMMA ImportEndAlone ==
  ASSUME OneAtATime, ReadsInv, NEW h \in Handlers, ImportEnd(h)
  PROVE  Kept
<1>1. /\ req' = [req EXCEPT ![h] = Idle] /\ ~Pending(req[h]) /\ ~Carrying(req[h])
      /\ UNCHANGED <<product, category, item, index, filed>>
  BY DEF ImportEnd, End, Proceed, Pending, Carrying
<1>2. QED
  BY <1>1, QuietKeeps, IdleCurrent

LEMMA RenameReadAlone ==
  ASSUME OneAtATime, ReadsInv, NEW h \in Handlers, NEW c \in Categories, NEW n \in CategoryNames,
         RenameRead(h, c, n)
  PROVE  Kept
<1>1. PICK r : r = [step |-> "rename", category |-> c, old |-> category[c], name |-> n]
  OBVIOUS
<1>2. Current(r)
  BY <1>1 DEF Current, SeenAll, RenameRead
<1>3. /\ req' = [req EXCEPT ![h] = r] /\ req[h] = Idle
      /\ UNCHANGED <<product, category, item, index, filed>>
  BY <1>1 DEF RenameRead, Begin
<1>4. QED
  BY <1>2, <1>3, QuietKeeps, IdleCurrent

LEMMA RenameRereadAlone ==
  ASSUME OneAtATime, ReadsInv, NEW h \in Handlers, RenameReread(h)
  PROVE  Kept
<1>1. PICK c, old : c = req[h].category /\ old = req[h].old
  OBVIOUS
<1>2. req[h].step = "reread" /\ \A e \in Categories : category[e] # old
  BY <1>1 DEF ReadsInv, RequestsCurrent, Current, RenameReread
<1>3. c \in Categories
  BY <1>1, <1>2 DEF ReadsInv, CatalogueInv, RequestsOK, RequestOK, IsRequest, IsImport, Idle
<1>4. PICK r : r = [step |-> "carry", category |-> c, old |-> old, name |-> category[c]]
  OBVIOUS
<1>5. Current(r) /\ Carrying(r) /\ r.category = c /\ r.old = old
  BY <1>2, <1>4 DEF Current, SeenAll, Carrying
<1>6. req' = [req EXCEPT ![h] = r] /\ UNCHANGED <<product, category, item, index, filed>>
  BY <1>1, <1>2, <1>3, <1>4 DEF RenameReread, Proceed
<1>7. QED
  BY <1>1, <1>2, <1>5, <1>6, QuietKeeps DEF Pending

LEMMA AddReadAlone ==
  ASSUME OneAtATime, ReadsInv, NEW h \in Handlers, NEW p \in Products, NEW q \in Products,
         AddRead(h, p, q)
  PROVE  Kept
<1>1. PICK r : r = [step |-> "add", parent |-> p, product |-> q,
                    number |-> Highest(NumbersOf(p)) + 1]
  OBVIOUS
<1>2. Current(r)
  BY <1>1 DEF Current, SeenAll
<1>3. /\ req' = [req EXCEPT ![h] = r] /\ req[h] = Idle
      /\ UNCHANGED <<product, category, item, index, filed>>
  BY <1>1 DEF AddRead, Begin
<1>4. QED
  BY <1>2, <1>3, QuietKeeps, IdleCurrent

LEMMA RemoveReadAlone ==
  ASSUME OneAtATime, ReadsInv, NEW h \in Handlers, NEW i \in SubItems, RemoveRead(h, i)
  PROVE  Kept
<1>1. PICK r : r = [step |-> "remove", item |-> i, parent |-> item[i].parent]
  OBVIOUS
<1>2. Current(r)
  BY <1>1 DEF Current, SeenAll
<1>3. /\ req' = [req EXCEPT ![h] = r] /\ req[h] = Idle
      /\ UNCHANGED <<product, category, item, index, filed>>
  BY <1>1 DEF RemoveRead, Begin
<1>4. QED
  BY <1>2, <1>3, QuietKeeps, IdleCurrent

LEMMA SortAlone ==
  ASSUME OneAtATime, ReadsInv, NEW h \in Handlers, Sort(h)
  PROVE  Kept
<1>1. PICK r : r = [step |-> "renumber", parent |-> req[h].parent,
                    numbers |-> Positions(req[h].parent)]
  OBVIOUS
<1>2. Current(r)
  BY <1>1 DEF Current, SeenAll
<1>3. /\ req' = [req EXCEPT ![h] = r] /\ ~Pending(req[h]) /\ ~Carrying(req[h])
      /\ UNCHANGED <<product, category, item, index, filed>>
  BY <1>1 DEF Sort, Proceed, Pending, Carrying
<1>4. QED
  BY <1>2, <1>3, QuietKeeps

-----------------------------------------------------------------------------
(***************************************************************************)
(* Writes of products.                                                     *)
(***************************************************************************)
\* Writing one row, in whose text no twin is hidden.
LEMMA RowWritten ==
  ASSUME ReadsInv, NEW p \in Products, NEW r \in Row, product' = [product EXCEPT ![p] = r],
         \A q \in Active \ {p} :
           ~r.trashed /\ Key(product[q]) = Key(r) => p \in Active /\ Key(product[p]) = Key(r)
  PROVE  /\ product'[p] = r /\ \A q \in Products \ {p} : product'[q] = product[q]
         /\ p \in Existing' /\ \A q \in Products \ {p} : q \in Existing' <=> q \in Existing
         /\ p \in Active' <=> ~r.trashed
         /\ \A q \in Products \ {p} : q \in Active' <=> q \in Active
         /\ TwinsOld
<1>1. product'[p] = r /\ \A q \in Products \ {p} : product'[q] = product[q]
  BY DEF ReadsInv, CatalogueInv, TablesOK
<1>2. r # NoProduct /\ r # Purged
  BY CatalogueAssumption
<1>3. p \in Existing' /\ \A q \in Products \ {p} : q \in Existing' <=> q \in Existing
  BY <1>1, <1>2 DEF Existing
<1>4. /\ p \in Active' <=> ~r.trashed
      /\ \A q \in Products \ {p} : q \in Active' <=> q \in Active
  BY <1>1, <1>3 DEF Active, Existing
<1>5. TwinsOld
  <2>1. ASSUME NEW a \in Products, NEW b \in Products, Twins(a, b)'
        PROVE  Twins(a, b)
    <3>1. a # b /\ a \in Active' /\ b \in Active' /\ Key(product'[a]) = Key(product'[b])
      BY <2>1 DEF Twins, Key
    <3>2. CASE a # p /\ b # p
      BY <1>1, <1>4, <3>1, <3>2 DEF Twins
    <3>3. CASE a = p
      <4>1. b \in Active \ {p} /\ Key(product[b]) = Key(r) /\ ~r.trashed
        BY <1>1, <1>4, <3>1, <3>3
      <4>2. QED
        BY <3>1, <3>3, <4>1 DEF Twins
    <3>4. CASE b = p
      <4>1. a \in Active \ {p} /\ Key(product[a]) = Key(r) /\ ~r.trashed
        BY <1>1, <1>4, <3>1, <3>4
      <4>2. QED
        BY <3>1, <3>4, <4>1 DEF Twins
    <3>5. QED
      BY <3>2, <3>3, <3>4
  <2>2. QED
    BY <2>1 DEF TwinsOld
<1>6. QED
  BY <1>1, <1>3, <1>4, <1>5

LEMMA InsertAlone ==
  ASSUME OneAtATime, ReadsInv, NEW h \in Handlers, NEW p \in Products, NEW line \in Line,
         NEW next, Insert(h, p, line, next),
         \A q \in Active : Key(product[q]) # Key(line),
         SeenAll(next), next.step = "import" => Key(line) \in next.seen,
         ~Pending(req[h]), ~Carrying(req[h])
  PROVE  Kept
<1>1. PICK r : r = [name |-> line.name, description |-> line.description,
                    category |-> line.category, trashed |-> FALSE]
  OBVIOUS
<1>2. r \in Row /\ Key(r) = Key(line) /\ ~r.trashed /\ r.category = line.category
  BY <1>1 DEF Line, Row, Key
<1>3. PICK n, c : n = [step |-> "refresh", product |-> p, next |-> next]
                  /\ c = CategoryNamed(line.category)
  OBVIOUS
<1>4. /\ product[p] = NoProduct
      /\ product' = [product EXCEPT ![p] = r] /\ filed' = [filed EXCEPT ![p] = c]
      /\ req' = [req EXCEPT ![h] = n] /\ UNCHANGED <<category, item, index>>
  BY <1>1, <1>3 DEF Insert, Proceed
<1>5. /\ product'[p] = r /\ \A q \in Products \ {p} : product'[q] = product[q]
      /\ p \in Existing' /\ \A q \in Products \ {p} : q \in Existing' <=> q \in Existing
      /\ \A q \in Products \ {p} : q \in Active' <=> q \in Active
      /\ TwinsOld
  <2>1. product' = [product EXCEPT ![p] = r]
    BY <1>4
  <2>2. \A q \in Active \ {p} :
          ~r.trashed /\ Key(product[q]) = Key(r) => p \in Active /\ Key(product[p]) = Key(r)
    BY <1>2
  <2>3. r \in Row
    BY <1>2
  <2>4. QED
    BY <2>1, <2>2, <2>3, RowWritten
<1>6. \A s \in Handlers : s = h /\ req'[s] = n
  BY <1>4, OnlyRequest DEF ReadsInv
<1>7. Active' \subseteq Products /\ Existing' \subseteq Products
  BY DEF Active, Existing
<1>8. RequestsCurrent'
  <2>1. next.step = "import" => \A q \in Active' : Key(product'[q]) \in next.seen
    BY <1>2, <1>5, <1>7 DEF SeenAll
  <2>2. SeenAll(next)'
    BY <2>1 DEF SeenAll, Key
  <2>3. Current(n)'
    BY <1>3, <1>5, <2>2 DEF Current, SeenAll
  <2>4. \A s \in Handlers : Current(req[s])'
    BY <1>6, <2>3 DEF Current, SeenAll
  <2>5. QED
    BY <2>4 DEF RequestsCurrent
<1>9. ASSUME IndexPending PROVE IndexPending'
  <2>1. \A q \in Products \ {p} : IndexOK(q)'
    BY <1>4, <1>5, <1>6, <1>9 DEF IndexPending, IndexOK
  <2>2. Pending(req'[h]) /\ req'[h].product = p
    BY <1>3, <1>6 DEF Pending
  <2>3. QED
    BY <2>1, <2>2 DEF IndexPending, Pending
<1>10. ASSUME FiledPending PROVE FiledPending'
  <2>1. /\ filed'[p] = c /\ \A q \in Products \ {p} : filed'[q] = filed[q]
    BY <1>4 DEF ReadsInv, CatalogueInv, TablesOK
  <2>2. c # Null => category[c] = line.category /\ category[c] # Null
    BY <1>3, FiledType
  <2>3. \A q \in Existing : filed[q] # Null =>
          category[filed[q]] # Null /\ product[q].category = category[filed[q]]
    BY <1>6, <1>10 DEF FiledPending
  <2>4. \A q \in Existing' : filed'[q] # Null =>
          category'[filed'[q]] # Null /\ product'[q].category = category'[filed'[q]]
    BY <1>2, <1>4, <1>5, <1>7, <2>1, <2>2, <2>3
  <2>5. QED
    BY <2>4 DEF FiledPending
<1>11. QED
  BY <1>4, <1>5, <1>8, <1>9, <1>10, SameItems DEF Kept

LEMMA CreateCommitAlone ==
  ASSUME OneAtATime, ReadsInv, NEW h \in Handlers, NEW p \in Products, CreateCommit(h, p)
  PROVE  Kept
<1>1. PICK line : line = req[h].line
  OBVIOUS
<1>2. req[h].step = "create" /\ Insert(h, p, line, Idle)
  BY <1>1 DEF CreateCommit
<1>3. line \in Line
  BY <1>1, <1>2 DEF ReadsInv, CatalogueInv, RequestsOK, RequestOK, IsRequest, IsImport, Idle
<1>4. ~HasDuplicate(line, Null)
  BY <1>1, <1>2 DEF ReadsInv, RequestsCurrent, Current
<1>5. \A q \in Active : Key(product[q]) # Key(line)
  BY <1>4, CatalogueAssumption DEF HasDuplicate, Active, Existing
<1>6. ~Pending(req[h]) /\ ~Carrying(req[h]) /\ Idle.step # "import"
  BY <1>2 DEF Pending, Carrying, Idle
<1>7. QED
  BY <1>2, <1>3, <1>5, <1>6, InsertAlone, IdleCurrent

LEMMA ImportRowAlone ==
  ASSUME OneAtATime, ReadsInv, NEW h \in Handlers, NEW p \in Products, ImportRow(h, p)
  PROVE  Kept
<1>1. PICK rows, seen : rows = req[h].rows /\ seen = req[h].seen
  OBVIOUS
<1>2. req[h].step = "import" /\ rows \in Seq(Line) /\ rows # <<>>
  BY <1>1 DEF ReadsInv, CatalogueInv, RequestsOK, RequestOK, IsRequest, IsImport, Idle, ImportRow
<1>3. \A q \in Active : Key(product[q]) \in seen
  BY <1>1, <1>2 DEF ReadsInv, RequestsCurrent, Current, SeenAll
<1>4. PICK line, rest : line = Head(rows) /\ rest = Tail(rows)
  OBVIOUS
<1>5. line \in Line
  BY <1>2, <1>4
<1>6. ~Pending(req[h]) /\ ~Carrying(req[h])
  BY <1>2 DEF Pending, Carrying
<1>7. CASE Key(line) \in seen
  <2>1. PICK r : r = Importing(rest, seen)
    OBVIOUS
  <2>2. Current(r)
    BY <1>3, <2>1 DEF Current, SeenAll, Importing
  <2>3. req' = [req EXCEPT ![h] = r] /\ UNCHANGED <<product, category, item, index, filed>>
    BY <1>1, <1>4, <1>7, <2>1 DEF ImportRow, Proceed
  <2>4. QED
    BY <1>6, <2>2, <2>3, QuietKeeps
<1>8. CASE Key(line) \notin seen
  <2>1. PICK next : next = Importing(rest, seen \cup {Key(line)})
    OBVIOUS
  <2>2. SeenAll(next) /\ Key(line) \in next.seen
    BY <1>3, <2>1 DEF SeenAll, Importing
  <2>3. Insert(h, p, line, next)
    BY <1>1, <1>4, <1>8, <2>1 DEF ImportRow
  <2>4. QED
    BY <1>3, <1>5, <1>6, <1>8, <2>2, <2>3, InsertAlone
<1>9. QED
  BY <1>7, <1>8
\* Trashed and restored, a product keeps its text and its category.
LEMMA TrashedAlone ==
  ASSUME OneAtATime, ReadsInv, NEW p \in Existing, NEW r \in Row,
         product' = [product EXCEPT ![p] = r], UNCHANGED <<category, item, index, filed>>,
         r.name = product[p].name, r.description = product[p].description,
         r.category = product[p].category,
         r.trashed \/ ~HasDuplicate(product[p], p),
         \A s \in Handlers : req'[s] = Idle /\ ~Pending(req[s]) /\ ~Carrying(req[s])
  PROVE  Kept
<1>1. p \in Products
  BY DEF Existing
<1>2. Key(r) = Key(product[p]) /\ TextOf(r) = TextOf(product[p])
  BY DEF Key, TextOf
<1>3. /\ product'[p] = r /\ \A q \in Products \ {p} : product'[q] = product[q]
      /\ p \in Existing' /\ \A q \in Products \ {p} : q \in Existing' <=> q \in Existing
      /\ TwinsOld
  <2>1. \A q \in Active \ {p} :
          ~r.trashed /\ Key(product[q]) = Key(r) => p \in Active /\ Key(product[p]) = Key(r)
    BY <1>2 DEF HasDuplicate
  <2>2. product' = [product EXCEPT ![p] = r]
    OBVIOUS
  <2>3. QED
    BY <1>1, <2>1, <2>2, RowWritten
<1>4. RequestsCurrent'
  <2>1. \A s \in Handlers : Current(req[s])'
    BY IdleCurrent DEF Current, SeenAll
  <2>2. QED
    BY <2>1 DEF RequestsCurrent
<1>5. ASSUME IndexPending PROVE IndexPending'
  <2>1. \A q \in Products : IndexOK(q)
    BY <1>5 DEF IndexPending
  <2>2. index'[p] = TextOf(product'[p])
    BY <1>1, <1>2, <1>3, <2>1 DEF IndexOK
  <2>3. \A q \in Products \ {p} : IndexOK(q)'
    BY <1>3, <2>1 DEF IndexOK
  <2>4. QED
    BY <1>3, <2>2, <2>3 DEF IndexPending, IndexOK
<1>6. ASSUME FiledPending PROVE FiledPending'
  <2>1. \A q \in Existing : filed[q] # Null =>
          category[filed[q]] # Null /\ product[q].category = category[filed[q]]
    BY <1>6 DEF FiledPending
  <2>2. \A q \in Existing' : q \in Existing /\ product'[q].category = product[q].category
    BY <1>3 DEF Existing
  <2>3. QED
    BY <2>1, <2>2 DEF FiledPending
<1>7. QED
  BY <1>3, <1>4, <1>5, <1>6, SameItems DEF Kept

LEMMA TrashAlone ==
  ASSUME OneAtATime, ReadsInv, FreeSlot, NEW p \in Products, Trash(p)
  PROVE  Kept
<1>1. \A s \in Handlers : req[s] = Idle
  BY DEF FreeSlot, OneAtATime
<1>2. PICK r : r = [product[p] EXCEPT !.trashed = TRUE]
  OBVIOUS
<1>3. p \in Existing /\ product[p] \in Row
  BY ExistingTyped DEF ReadsInv, Trash
<1>4. /\ r \in Row /\ r.trashed
      /\ r.name = product[p].name /\ r.description = product[p].description
      /\ r.category = product[p].category
  BY <1>2, <1>3 DEF Row
<1>5. /\ product' = [product EXCEPT ![p] = r]
      /\ UNCHANGED <<category, item, index, filed>> /\ req' = req
  BY <1>2 DEF Trash
<1>6. \A s \in Handlers : req'[s] = Idle /\ ~Pending(req[s]) /\ ~Carrying(req[s])
  BY <1>1, <1>5, IdleCurrent
<1>7. QED
  BY <1>3, <1>4, <1>5, <1>6, TrashedAlone

LEMMA RestoreCommitAlone ==
  ASSUME OneAtATime, ReadsInv, NEW h \in Handlers, RestoreCommit(h)
  PROVE  Kept
<1>1. PICK p : p = req[h].product
  OBVIOUS
<1>2. req[h].step = "restore" /\ p \in Existing /\ ~HasDuplicate(product[p], p)
  BY <1>1 DEF ReadsInv, RequestsCurrent, Current, RestoreCommit
<1>3. PICK r : r = [product[p] EXCEPT !.trashed = FALSE]
  OBVIOUS
<1>4. product[p] \in Row
  BY <1>2, ExistingTyped DEF ReadsInv
<1>5. /\ r \in Row
      /\ r.name = product[p].name /\ r.description = product[p].description
      /\ r.category = product[p].category
  BY <1>3, <1>4 DEF Row
<1>6. /\ product' = [product EXCEPT ![p] = r] /\ req' = [req EXCEPT ![h] = Idle]
      /\ UNCHANGED <<category, item, index, filed>>
  BY <1>1, <1>2, <1>3 DEF RestoreCommit, End, Proceed
<1>7. \A s \in Handlers : s = h /\ req'[s] = Idle
  BY <1>6, OnlyRequest DEF ReadsInv
<1>8. \A s \in Handlers : req'[s] = Idle /\ ~Pending(req[s]) /\ ~Carrying(req[s])
  BY <1>2, <1>7 DEF Pending, Carrying
<1>9. QED
  BY <1>2, <1>5, <1>6, <1>8, TrashedAlone

LEMMA UpdateCommitAlone ==
  ASSUME OneAtATime, ReadsInv, NEW h \in Handlers, UpdateCommit(h)
  PROVE  Kept
<1>1. PICK p, c : p = req[h].product /\ c = req[h].changes
  OBVIOUS
<1>2. req[h].step = "update" /\ IsChange(c)
  BY <1>1 DEF ReadsInv, CatalogueInv, RequestsOK, RequestOK, UpdateCommit
<1>3. PICK r : r = Over(product[p], c)
  OBVIOUS
<1>4. /\ p \in Existing
      /\ DOMAIN c \cap {"name", "description"} # {} => ~HasDuplicate(r, p)
  BY <1>1, <1>2, <1>3 DEF ReadsInv, RequestsCurrent, Current
<1>5. p \in Products /\ product[p] \in Row
  BY <1>4, ExistingTyped DEF ReadsInv
<1>6. /\ r \in Row
      /\ \A f \in DOMAIN Column : r[f] = IF f \in DOMAIN c THEN c[f] ELSE product[p][f]
  BY <1>2, <1>3, <1>5, OverRow
<1>7. r.trashed = product[p].trashed
  BY <1>2, <1>6 DEF Column, IsChange
<1>8. DOMAIN c \cap {"name", "description"} = {} => Key(r) = Key(product[p])
  <2>1. ASSUME DOMAIN c \cap {"name", "description"} = {}
        PROVE  r.name = product[p].name /\ r.description = product[p].description
    BY <1>6, <2>1 DEF Column
  <2>2. QED
    BY <2>1 DEF Key
<1>9. PICK n : n = [step |-> "refresh", product |-> p, next |-> Idle]
  OBVIOUS
<1>10. /\ product' = [product EXCEPT ![p] = r] /\ req' = [req EXCEPT ![h] = n]
       /\ filed' = IF "category" \in DOMAIN c
                     THEN [filed EXCEPT ![p] = CategoryNamed(c["category"])]
                     ELSE filed
       /\ UNCHANGED <<category, item, index>>
  BY <1>1, <1>3, <1>4, <1>9 DEF UpdateCommit, Proceed
<1>11. \A s \in Handlers : s = h /\ req'[s] = n
  BY <1>10, OnlyRequest DEF ReadsInv
<1>12. /\ product'[p] = r /\ \A q \in Products \ {p} : product'[q] = product[q]
       /\ p \in Existing' /\ \A q \in Products \ {p} : q \in Existing' <=> q \in Existing
       /\ TwinsOld
  <2>1. \A q \in Active \ {p} :
          ~r.trashed /\ Key(product[q]) = Key(r) => p \in Active /\ Key(product[p]) = Key(r)
    BY <1>4, <1>7, <1>8 DEF HasDuplicate, Active
  <2>2. product' = [product EXCEPT ![p] = r]
    BY <1>10
  <2>3. QED
    BY <1>5, <1>6, <2>1, <2>2, RowWritten
<1>13. RequestsCurrent'
  <2>1. Current(n)'
    BY <1>9, <1>12, IdleCurrent DEF Current, SeenAll
  <2>2. \A s \in Handlers : Current(req[s])'
    BY <1>11, <2>1 DEF Current, SeenAll
  <2>3. QED
    BY <2>2 DEF RequestsCurrent
<1>14. ASSUME IndexPending PROVE IndexPending'
  <2>1. \A q \in Products : IndexOK(q)
    BY <1>2, <1>11, <1>14 DEF IndexPending, Pending
  <2>2. \A q \in Products \ {p} : IndexOK(q)'
    BY <1>10, <1>12, <2>1 DEF IndexOK
  <2>3. Pending(req'[h]) /\ req'[h].product = p
    BY <1>9, <1>11 DEF Pending
  <2>4. QED
    BY <2>2, <2>3 DEF IndexPending, Pending
<1>15. ASSUME FiledPending PROVE FiledPending'
  <2>1. \A q \in Existing : filed[q] # Null =>
          category[filed[q]] # Null /\ product[q].category = category[filed[q]]
    BY <1>2, <1>11, <1>15 DEF FiledPending, Carrying
  <2>2. \A q \in Products \ {p} : filed'[q] = filed[q]
    BY <1>10 DEF ReadsInv, CatalogueInv, TablesOK
  <2>3. filed'[p] # Null =>
          category[filed'[p]] # Null /\ r.category = category[filed'[p]]
    <3>1. CASE "category" \in DOMAIN c
      <4>1. filed'[p] = CategoryNamed(c["category"])
        BY <1>5, <1>10, <3>1 DEF ReadsInv, CatalogueInv, TablesOK
      <4>2. r.category = c["category"]
        BY <1>6, <3>1 DEF Column
      <4>3. QED
        BY <4>1, <4>2, FiledType
    <3>2. CASE "category" \notin DOMAIN c
      <4>1. filed' = filed /\ r.category = product[p].category
        BY <1>6, <1>10, <3>2 DEF Column
      <4>2. QED
        BY <1>4, <2>1, <4>1
    <3>3. QED
      BY <3>1, <3>2
  <2>4. \A q \in Existing' : q \in Products
    BY DEF Existing
  <2>5. \A q \in Existing' : filed'[q] # Null =>
          category'[filed'[q]] # Null /\ product'[q].category = category'[filed'[q]]
    BY <1>10, <1>12, <2>1, <2>2, <2>3, <2>4
  <2>6. QED
    BY <2>5 DEF FiledPending
<1>16. QED
  BY <1>10, <1>12, <1>13, <1>14, <1>15, SameItems DEF Kept
\* A record is written that is right, and the request goes on.
LEMMA IndexedAlone ==
  ASSUME OneAtATime, ReadsInv, NEW h \in Handlers, NEW p \in Products, NEW t, NEW r,
         index' = [index EXCEPT ![p] = t], t = IF p \in Existing THEN TextOf(product[p]) ELSE Null,
         req' = [req EXCEPT ![h] = r], Current(r), Pending(req[h]), req[h].product = p,
         UNCHANGED <<product, category, item, filed>>
  PROVE  Kept
<1>1. \A s \in Handlers : s = h /\ req'[s] = r
  BY OnlyRequest DEF ReadsInv
<1>2. Existing' = Existing /\ TwinsOld
  BY SameProducts
<1>3. RequestsCurrent'
  <2>1. Current(r)'
    BY <1>2, SameProducts, SameItems DEF Current
  <2>2. \A s \in Handlers : Current(req[s])'
    BY <1>1, <2>1 DEF Current, SeenAll
  <2>3. QED
    BY <2>2 DEF RequestsCurrent
<1>4. ASSUME IndexPending PROVE IndexPending'
  <2>1. index'[p] = t /\ \A q \in Products \ {p} : index'[q] = index[q]
    BY DEF ReadsInv, CatalogueInv, TablesOK
  <2>2. \A q \in Products \ {p} : IndexOK(q)
    BY <1>1, <1>4 DEF IndexPending
  <2>3. \A q \in Products : IndexOK(q)'
    BY <1>2, <2>1, <2>2 DEF IndexOK
  <2>4. QED
    BY <2>3 DEF IndexPending, IndexOK
<1>5. ASSUME FiledPending PROVE FiledPending'
  <2>1. \A s \in Handlers : ~Carrying(req[s])
    BY <1>1 DEF Pending, Carrying
  <2>2. QED
    BY <1>2, <2>1, <1>5 DEF FiledPending
<1>6. QED
  BY <1>2, <1>3, <1>4, <1>5, SameItems DEF Kept

LEMMA PushAlone ==
  ASSUME OneAtATime, ReadsInv, NEW h \in Handlers, Push(h)
  PROVE  Kept
<1>1. PICK p, t, next : p = req[h].product /\ t = req[h].text /\ next = req[h].next
  OBVIOUS
<1>2. req[h].step = "push" /\ p \in Existing /\ SeenAll(next) /\ t = TextOf(product[p])
  BY <1>1 DEF ReadsInv, RequestsCurrent, Current, Push
<1>3. next = Idle \/ IsImport(next)
  BY <1>1, <1>2 DEF ReadsInv, CatalogueInv, RequestsOK, RequestOK, IsRequest, IsImport, Idle
<1>4. Current(next)
  BY <1>2, <1>3, IdleCurrent DEF Current, IsImport
<1>5. /\ index' = [index EXCEPT ![p] = t] /\ req' = [req EXCEPT ![h] = next]
      /\ UNCHANGED <<product, category, item, filed>>
  BY <1>1 DEF Push, Proceed
<1>6. Pending(req[h]) /\ p \in Products
  BY <1>2 DEF Pending, Existing
<1>7. t = IF p \in Existing THEN TextOf(product[p]) ELSE Null
  BY <1>2
<1>8. QED
  BY <1>1, <1>4, <1>5, <1>6, <1>7, IndexedAlone

LEMMA UnindexAlone ==
  ASSUME OneAtATime, ReadsInv, NEW h \in Handlers, Unindex(h)
  PROVE  Kept
<1>1. PICK p : p = req[h].product
  OBVIOUS
<1>2. req[h].step = "unindex" /\ p \notin Existing
  BY <1>1 DEF ReadsInv, RequestsCurrent, Current, Unindex
<1>3. p \in Products
  BY <1>1, <1>2 DEF ReadsInv, CatalogueInv, RequestsOK, RequestOK, IsRequest, IsImport, Idle
<1>4. /\ index' = [index EXCEPT ![p] = Null] /\ req' = [req EXCEPT ![h] = Idle]
      /\ UNCHANGED <<product, category, item, filed>>
  BY <1>1 DEF Unindex, End, Proceed
<1>5. Pending(req[h])
  BY <1>2 DEF Pending
<1>6. Null = IF p \in Existing THEN TextOf(product[p]) ELSE Null
  BY <1>2
<1>7. QED
  BY <1>1, <1>3, <1>4, <1>5, <1>6, IdleCurrent, IndexedAlone

LEMMA PurgeAlone ==
  ASSUME OneAtATime, ReadsInv, NEW h \in Handlers, NEW p \in Products, Purge(h, p)
  PROVE  Kept
<1>1. PICK r : r = [step |-> "unindex", product |-> p]
  OBVIOUS
<1>2. /\ req' = [req EXCEPT ![h] = r] /\ req[h] = Idle /\ UNCHANGED <<category, index, filed>>
      /\ product' = [product EXCEPT ![p] = Purged]
      /\ item' = [i \in SubItems |-> IF i \in ItemsOf(p) THEN Null ELSE item[i]]
  BY <1>1 DEF Purge, Begin
<1>3. \A s \in Handlers : s = h /\ req'[s] = r
  BY <1>2, OnlyRequest DEF ReadsInv
<1>4. product'[p] = Purged /\ \A q \in Products \ {p} : product'[q] = product[q]
  BY <1>2 DEF ReadsInv, CatalogueInv, TablesOK
<1>5. p \notin Existing' /\ \A q \in Products \ {p} : q \in Existing' <=> q \in Existing
  BY <1>4 DEF Existing
<1>6. TwinsOld
  <2>1. p \notin Active' /\ \A q \in Products \ {p} : q \in Active' <=> q \in Active
    BY <1>4, <1>5 DEF Active, Existing
  <2>2. QED
    BY <1>4, <2>1 DEF TwinsOld, Twins, Key
<1>7. OrderOld
  <2>1. \A i \in SubItems : item'[i] # Null => item'[i] = item[i]
    BY <1>2
  <2>2. QED
    BY <2>1 DEF OrderOld
<1>8. RequestsCurrent'
  <2>1. Current(r)'
    BY <1>1, <1>5 DEF Current, SeenAll
  <2>2. \A s \in Handlers : Current(req[s])'
    BY <1>3, <2>1 DEF Current, SeenAll
  <2>3. QED
    BY <2>2 DEF RequestsCurrent
<1>9. ASSUME IndexPending PROVE IndexPending'
  <2>1. \A q \in Products : IndexOK(q)
    BY <1>2, <1>3, IdleCurrent, <1>9 DEF IndexPending
  <2>2. \A q \in Products \ {p} : IndexOK(q)'
    BY <1>2, <1>4, <1>5, <2>1 DEF IndexOK
  <2>3. Pending(req'[h]) /\ req'[h].product = p
    BY <1>1, <1>3 DEF Pending
  <2>4. QED
    BY <2>2, <2>3 DEF IndexPending, Pending
<1>10. ASSUME FiledPending PROVE FiledPending'
  <2>1. \A q \in Existing : filed[q] # Null =>
          category[filed[q]] # Null /\ product[q].category = category[filed[q]]
    BY <1>2, <1>3, IdleCurrent, <1>10 DEF FiledPending
  <2>2. \A q \in Existing' : q \in Existing /\ product'[q] = product[q]
    BY <1>4, <1>5 DEF Existing
  <2>3. QED
    BY <1>2, <2>1, <2>2 DEF FiledPending
<1>11. QED
  BY <1>6, <1>7, <1>8, <1>9, <1>10 DEF Kept

-----------------------------------------------------------------------------
(***************************************************************************)
(* Writes of categories, and the products that follow.                     *)
(***************************************************************************)
LEMMA CreateCategoryAlone ==
  ASSUME OneAtATime, ReadsInv, FreeSlot, NEW c \in Categories, NEW n \in CategoryNames,
         CreateCategory(c, n)
  PROVE  Kept
<1>1. \A s \in Handlers : req[s] = Idle
  BY DEF FreeSlot, OneAtATime
<1>2. /\ category[c] = Null /\ category' = [category EXCEPT ![c] = n]
      /\ UNCHANGED <<product, item, index, filed, req>>
  BY DEF CreateCategory
<1>3. \A e \in Categories \ {c} : category'[e] = category[e]
  BY <1>2 DEF ReadsInv, CatalogueInv, TablesOK
<1>4. Existing' = Existing /\ TwinsOld
  BY <1>2, SameProducts
<1>5. RequestsCurrent'
  <2>1. \A s \in Handlers : req'[s] = Idle
    BY <1>1, <1>2
  <2>2. \A s \in Handlers : Current(req[s])'
    BY <2>1, IdleCurrent DEF Current, SeenAll
  <2>3. QED
    BY <2>2 DEF RequestsCurrent
<1>6. ASSUME IndexPending PROVE IndexPending'
  <2>1. \A q \in Products : IndexOK(q)
    BY <1>1, IdleCurrent, <1>6 DEF IndexPending
  <2>2. QED
    BY <1>2, <1>4, <2>1 DEF IndexPending, IndexOK
<1>7. ASSUME FiledPending PROVE FiledPending'
  <2>1. \A q \in Existing : filed[q] # Null =>
          category[filed[q]] # Null /\ product[q].category = category[filed[q]]
    BY <1>1, IdleCurrent, <1>7 DEF FiledPending
  <2>2. \A q \in Existing : filed[q] # Null => filed[q] \in Categories \ {c}
    BY <1>2, <2>1 DEF ReadsInv, CatalogueInv, TablesOK, Existing
  <2>3. QED
    BY <1>2, <1>3, <1>4, <2>1, <2>2 DEF FiledPending
<1>8. QED
  BY <1>2, <1>4, <1>5, <1>6, <1>7, SameItems DEF Kept

LEMMA RenameCommitAlone ==
  ASSUME OneAtATime, ReadsInv, NEW h \in Handlers, RenameCommit(h)
  PROVE  Kept
<1>1. PICK c, n, old : c = req[h].category /\ n = req[h].name /\ old = req[h].old
  OBVIOUS
<1>2. /\ req[h].step = "rename" /\ old = category[c] /\ n # old
      /\ ~Pending(req[h]) /\ ~Carrying(req[h])
  BY <1>1 DEF ReadsInv, RequestsCurrent, Current, RenameCommit, Pending, Carrying
<1>3. c \in Categories /\ n \in CategoryNames /\ category[c] # Null
  BY <1>1, <1>2 DEF ReadsInv, CatalogueInv, RequestsOK, RequestOK, Named, IsRequest, IsImport, Idle
<1>4. CASE CategoryNamed(n) \in {Null, c}
  <2>1. PICK r : r = [step |-> "reread", category |-> c, old |-> old]
    OBVIOUS
  <2>2. /\ category' = [category EXCEPT ![c] = n] /\ UNCHANGED <<product, item, index, filed>>
        /\ req' = [req EXCEPT ![h] = r]
    BY <1>1, <1>4, <2>1 DEF RenameCommit, Proceed
  <2>3. category'[c] = n /\ \A e \in Categories \ {c} : category'[e] = category[e]
    BY <1>3, <2>2 DEF ReadsInv, CatalogueInv, TablesOK
  <2>4. \A s \in Handlers : s = h /\ req'[s] = r
    BY <2>2, OnlyRequest DEF ReadsInv
  <2>5. Existing' = Existing /\ TwinsOld
    BY <2>2, SameProducts
  <2>6. RequestsCurrent'
    <3>1. \A e \in Categories : category'[e] # old
      BY <1>2, <1>3, <2>3 DEF ReadsInv, CatalogueInv, NamesUnique
    <3>2. Current(r)'
      BY <2>1, <3>1 DEF Current, SeenAll
    <3>3. \A s \in Handlers : Current(req[s])'
      BY <2>4, <3>2 DEF Current, SeenAll
    <3>4. QED
      BY <3>3 DEF RequestsCurrent
  <2>7. ASSUME IndexPending PROVE IndexPending'
    <3>1. \A q \in Products : IndexOK(q)
      BY <1>2, <2>4, <2>7 DEF IndexPending
    <3>2. QED
      BY <2>2, <2>5, <3>1 DEF IndexPending, IndexOK
  <2>8. ASSUME FiledPending PROVE FiledPending'
    <3>1. \A q \in Existing : filed[q] # Null =>
            category[filed[q]] # Null /\ product[q].category = category[filed[q]]
      BY <1>2, <2>4, <2>8 DEF FiledPending
    <3>2. \A q \in Existing : filed[q] # Null => filed[q] \in Categories
      BY DEF ReadsInv, CatalogueInv, TablesOK, Existing
    <3>3. req'[h] = r /\ Carrying(req'[h]) /\ req'[h].category = c /\ req'[h].old = old
      BY <2>1, <2>4 DEF Carrying
    <3>4. n # Null
      BY <1>3, CatalogueAssumption
    <3>5. \A q \in Existing : filed[q] # Null =>
            /\ category'[filed[q]] # Null
            /\ product[q].category = category'[filed[q]] \/ (filed[q] = c /\ product[q].category = old)
      BY <1>2, <2>3, <3>1, <3>2, <3>4
    <3>6. QED
      BY <2>2, <2>5, <3>3, <3>5 DEF FiledPending, Carrying
  <2>9. QED
    BY <2>2, <2>5, <2>6, <2>7, <2>8, SameItems DEF Kept
<1>5. CASE CategoryNamed(n) \notin {Null, c}
  <2>1. req' = [req EXCEPT ![h] = Idle] /\ UNCHANGED <<product, category, item, index, filed>>
    BY <1>1, <1>5 DEF RenameCommit, Proceed
  <2>2. QED
    BY <1>2, <2>1, QuietKeeps, IdleCurrent
<1>6. QED
  BY <1>4, <1>5

LEMMA CarryAlone ==
  ASSUME OneAtATime, ReadsInv, NEW h \in Handlers, Carry(h)
  PROVE  Kept
<1>1. PICK c, n, old : c = req[h].category /\ n = req[h].name /\ old = req[h].old
  OBVIOUS
<1>2. req[h].step = "carry" /\ n = category[c] /\ \A e \in Categories : category[e] # old
  BY <1>1 DEF ReadsInv, RequestsCurrent, Current, Carry
<1>3. n \in CategoryNames
  BY <1>1, <1>2 DEF ReadsInv, CatalogueInv, RequestsOK, RequestOK
<1>4. req' = [req EXCEPT ![h] = Idle] /\ UNCHANGED <<category, item, index, filed>>
  BY DEF Carry, End, Proceed
<1>5. \A s \in Handlers : s = h /\ req'[s] = Idle
  BY <1>4, OnlyRequest DEF ReadsInv
<1>6. ASSUME NEW p \in Products
      PROVE  /\ p \notin Existing => product'[p] = product[p]
             /\ p \in Existing =>
                  /\ product'[p] \in Row
                  /\ product'[p].name = product[p].name
                  /\ product'[p].description = product[p].description
                  /\ product'[p].trashed = product[p].trashed
                  /\ product'[p].category = IF product[p].category = old
                                              THEN n ELSE product[p].category
  <2>1. product'[p] = IF p \in Existing /\ product[p].category = old
                        THEN [product[p] EXCEPT !.category = n]
                        ELSE product[p]
    BY <1>1 DEF Carry
  <2>2. p \in Existing => product[p] \in Row
    BY ExistingTyped DEF ReadsInv
  <2>3. QED
    BY <1>3, <2>1, <2>2 DEF Row
<1>7. \A p \in Products : (p \in Existing' <=> p \in Existing) /\ (p \in Active' <=> p \in Active)
  BY <1>6, CatalogueAssumption DEF Active, Existing
<1>8. \A p \in Existing : /\ TextOf(product'[p]) = TextOf(product[p])
                          /\ Key(product'[p]) = Key(product[p])
  BY <1>6 DEF TextOf, Key, Existing
<1>9. TwinsOld
  BY <1>7, <1>8 DEF TwinsOld, Twins, Key, Active, Existing
<1>10. RequestsCurrent'
  <2>1. \A s \in Handlers : Current(req[s])'
    BY <1>5, IdleCurrent DEF Current, SeenAll
  <2>2. QED
    BY <2>1 DEF RequestsCurrent
<1>11. ASSUME IndexPending PROVE IndexPending'
  <2>1. \A q \in Products : IndexOK(q)
    BY <1>2, <1>5, <1>11 DEF IndexPending, Pending
  <2>2. QED
    BY <1>4, <1>7, <1>8, <2>1 DEF IndexPending, IndexOK
<1>12. ASSUME FiledPending PROVE FiledPending'
  <2>1. \A p \in Existing : filed[p] # Null =>
          /\ filed[p] \in Categories /\ category[filed[p]] # Null
          /\ \/ product[p].category = category[filed[p]]
             \/ filed[p] = c /\ product[p].category = old
    BY <1>1, <1>5, <1>12 DEF ReadsInv, CatalogueInv, TablesOK, FiledPending, Existing
  <2>2. \A p \in Existing' : p \in Existing /\ p \in Products
    BY <1>7 DEF Existing
  <2>3. \A p \in Existing' : filed'[p] # Null =>
          category'[filed'[p]] # Null /\ product'[p].category = category'[filed'[p]]
    BY <1>2, <1>4, <1>6, <2>1, <2>2
  <2>4. QED
    BY <2>3 DEF FiledPending
<1>13. QED
  BY <1>4, <1>9, <1>10, <1>11, <1>12, SameItems DEF Kept
-----------------------------------------------------------------------------
(***************************************************************************)
(* Writes of sub-items.                                                    *)
(***************************************************************************)
LEMMA ItemsAlone ==
  ASSUME OneAtATime, ReadsInv, NEW h \in Handlers, NEW r, req' = [req EXCEPT ![h] = r],
         UNCHANGED <<product, category, index, filed>>, OrderOld, Current(r)',
         ~Pending(req[h]), ~Carrying(req[h])
  PROVE  Kept
<1>1. \A s \in Handlers : s = h /\ req'[s] = r
  BY OnlyRequest DEF ReadsInv
<1>2. Existing' = Existing /\ TwinsOld
  BY SameProducts
<1>3. RequestsCurrent'
  <2>1. \A s \in Handlers : Current(req[s])'
    BY <1>1 DEF Current, SeenAll
  <2>2. QED
    BY <2>1 DEF RequestsCurrent
<1>4. ASSUME IndexPending PROVE IndexPending'
  BY <1>1, <1>2, <1>4 DEF IndexPending, IndexOK
<1>5. ASSUME FiledPending PROVE FiledPending'
  BY <1>1, <1>2, <1>5 DEF FiledPending
<1>6. QED
  BY <1>2, <1>3, <1>4, <1>5 DEF Kept

LEMMA AddCommitAlone ==
  ASSUME OneAtATime, ReadsInv, NEW h \in Handlers, NEW i \in SubItems, AddCommit(h, i)
  PROVE  Kept
<1>1. PICK p, q, n : p = req[h].parent /\ q = req[h].product /\ n = req[h].number
  OBVIOUS
<1>2. PICK new : new = [parent |-> p, product |-> q, number |-> n]
  OBVIOUS
<1>3. req[h].step = "add" /\ n = Highest(NumbersOf(p)) + 1
  BY <1>1 DEF ReadsInv, RequestsCurrent, Current, AddCommit
<1>4. /\ req' = [req EXCEPT ![h] = Idle] /\ UNCHANGED <<product, category, index, filed>>
      /\ ~Pending(req[h]) /\ ~Carrying(req[h])
  BY <1>3 DEF AddCommit, End, Proceed, Pending, Carrying
<1>5. item[i] = Null /\ (item' = item \/ item' = [item EXCEPT ![i] = new])
  BY <1>1, <1>2 DEF AddCommit
<1>6. OrderOld
  <2>1. CASE item' = item
    BY <2>1, SameItems
  <2>2. CASE item' = [item EXCEPT ![i] = new]
    <3>1. item'[i] = new /\ \A j \in SubItems \ {i} : item'[j] = item[j]
      BY <2>2 DEF ReadsInv, CatalogueInv, TablesOK
    <3>2. PICK top : top = Highest(NumbersOf(p))
      OBVIOUS
    <3>3. TablesOK
      BY DEF ReadsInv, CatalogueInv
    <3>4. NumbersOf(p) \in SUBSET (1 .. MaxNumber)
      BY <3>3, NumbersTyped
    <3>5. top \in Nat /\ n = top + 1 /\ \A m \in NumbersOf(p) : m \in Nat /\ m <= top
      BY <1>3, <3>2, <3>4, HighestOf, CatalogueAssumption
    <3>6. \A j \in SubItems : item[j] # Null /\ item[j].parent = p =>
             item[j].number \in Nat /\ item[j].number < n
      BY <3>5 DEF NumbersOf, ItemsOf
    <3>7. QED
      BY <1>2, <1>5, <3>1, <3>6 DEF OrderOld
  <2>3. QED
    BY <1>5, <2>1, <2>2
<1>7. QED
  BY <1>4, <1>6, IdleCurrent, ItemsAlone

LEMMA RemoveCommitAlone ==
  ASSUME OneAtATime, ReadsInv, NEW h \in Handlers, RemoveCommit(h)
  PROVE  Kept
<1>1. PICK i, p : i = req[h].item /\ p = req[h].parent
  OBVIOUS
<1>2. PICK r : r = [step |-> "sort", parent |-> p]
  OBVIOUS
<1>3. /\ req[h].step = "remove" /\ req' = [req EXCEPT ![h] = r]
      /\ UNCHANGED <<product, category, index, filed>> /\ item' = [item EXCEPT ![i] = Null]
  BY <1>1, <1>2 DEF RemoveCommit, Proceed
<1>4. ~Pending(req[h]) /\ ~Carrying(req[h])
  BY <1>3 DEF Pending, Carrying
<1>5. Current(r)'
  BY <1>2 DEF Current, SeenAll
<1>6. OrderOld
  <2>1. \A j \in SubItems : item'[j] # Null => item'[j] = item[j]
    BY <1>3 DEF ReadsInv, CatalogueInv, TablesOK
  <2>2. QED
    BY <2>1 DEF OrderOld
<1>7. QED
  BY <1>3, <1>4, <1>5, <1>6, ItemsAlone

\* A row of a higher number has a higher position.
LEMMA PositionsRise ==
  ASSUME TablesOK, NumbersUnique, NEW p \in Products, NEW i \in ItemsOf(p), NEW j \in ItemsOf(p),
         item[i].number < item[j].number
  PROVE  Cardinality(Before(p, i)) < Cardinality(Before(p, j))
<1>1. \A k \in ItemsOf(p) : item[k].number \in Nat
  BY ItemsTyped DEF ItemsOf
<1>2. PICK S, T : S = Before(p, i) /\ T = Before(p, j)
  OBVIOUS
<1>3. S \subseteq T /\ j \in T /\ j \notin S
  BY <1>1, <1>2 DEF Before
<1>4. IsFiniteSet(T)
  BY <1>2, PositionInRange
<1>5. Cardinality(S) < Cardinality(T)
  <2>1. S \in SUBSET T /\ S # T
    BY <1>3
  <2>2. /\ IsFiniteSet(S) /\ Cardinality(S) <= Cardinality(T)
        /\ Cardinality(S) # Cardinality(T)
    BY <1>4, <2>1, FS_Subset
  <2>3. Cardinality(S) \in Nat /\ Cardinality(T) \in Nat
    BY <1>4, <2>2, FS_CardinalityType
  <2>4. QED
    BY <2>2, <2>3
<1>6. QED
  BY <1>2, <1>5

LEMMA RenumberAlone ==
  ASSUME OneAtATime, ReadsInv, NEW h \in Handlers, Renumber(h)
  PROVE  Kept
<1>1. PICK p, numbers : p = req[h].parent /\ numbers = req[h].numbers
  OBVIOUS
<1>2. req[h].step = "renumber" /\ numbers = Positions(p)
  BY <1>1 DEF ReadsInv, RequestsCurrent, Current, Renumber
<1>3. p \in Products
  BY <1>1, <1>2 DEF ReadsInv, CatalogueInv, RequestsOK, RequestOK, IsRequest, IsImport, Idle
<1>4. /\ req' = [req EXCEPT ![h] = Idle] /\ UNCHANGED <<product, category, index, filed>>
      /\ item' = IF Sendable(p, numbers)
                   THEN [i \in SubItems |-> IF i \in DOMAIN numbers
                                              THEN [item[i] EXCEPT !.number = numbers[i]]
                                              ELSE item[i]]
                   ELSE item
      /\ ~Pending(req[h]) /\ ~Carrying(req[h])
  BY <1>1, <1>2 DEF Renumber, End, Proceed, Pending, Carrying
<1>5. OrderOld
  <2>1. CASE ~Sendable(p, numbers)
    <3>1. item' = item
      BY <1>4, <2>1
    <3>2. QED
      BY <3>1, SameItems
  <2>2. CASE Sendable(p, numbers)
    <3>1. CatalogueInv /\ TablesOK /\ NumbersUnique
      BY DEF ReadsInv, CatalogueInv
    <3>2. \A i \in SubItems :
             /\ item'[i] # Null => item[i] # Null
             /\ item[i] # Null =>
                  /\ item'[i].parent = item[i].parent /\ item'[i].product = item[i].product
                  /\ item'[i].number = IF i \in DOMAIN numbers THEN numbers[i] ELSE item[i].number
      BY <1>4, <2>2, <3>1, RenumberedItems
    <3>3. \A i \in ItemsOf(p) : item'[i].number = Cardinality(Before(p, i))
      <4>1. /\ DOMAIN numbers = {i \in ItemsOf(p) : Cardinality(Before(p, i)) # item[i].number}
            /\ \A i \in DOMAIN numbers : numbers[i] = Cardinality(Before(p, i))
        BY <1>2, PositionsOf
      <4>2. QED
        BY <3>2, <4>1 DEF ItemsOf
    <3>4. \A i \in SubItems : item[i] # Null /\ i \notin ItemsOf(p) => item'[i].number = item[i].number
      <4>1. DOMAIN numbers \subseteq ItemsOf(p)
        BY <2>2 DEF Sendable
      <4>2. QED
        BY <3>2, <4>1
    <3>5. ASSUME NEW i \in SubItems, NEW j \in SubItems, item[i] # Null, item[j] # Null,
                 item[i].parent = item[j].parent, item[i].number < item[j].number
          PROVE  item'[i].number < item'[j].number
      <4>1. CASE item[i].parent = p
        <5>1. i \in ItemsOf(p) /\ j \in ItemsOf(p)
          BY <3>5, <4>1 DEF ItemsOf
        <5>2. Cardinality(Before(p, i)) < Cardinality(Before(p, j))
          BY <1>3, <3>1, <3>5, <5>1, PositionsRise
        <5>3. QED
          BY <3>3, <5>1, <5>2
      <4>2. CASE item[i].parent # p
        BY <3>4, <3>5, <4>2 DEF ItemsOf
      <4>3. QED
        BY <4>1, <4>2
    <3>6. QED
      BY <3>2, <3>5 DEF OrderOld
  <2>3. QED
    BY <2>1, <2>2
<1>6. QED
  BY <1>4, <1>5, IdleCurrent, ItemsAlone

-----------------------------------------------------------------------------
LEMMA AloneInit == Init => AloneInv
<1> SUFFICES ASSUME Init PROVE AloneInv
  OBVIOUS
<1>1. CatalogueInv
  BY CatalogueInit
<1>2. RequestsCurrent
  BY IdleCurrent DEF Init, RequestsCurrent
<1>3. IndexPending
  <2>1. \A p \in Products : product[p] # NoProduct => product[p] # Purged
    BY CatalogueAssumption DEF Init, Row
  <2>2. \A p \in Products : IndexOK(p)
    BY <2>1 DEF Init, IndexOK, Existing
  <2>3. QED
    BY <2>2 DEF IndexPending
<1>4. FiledPending
  BY DEF Init, FiledPending, Existing
<1>5. QED
  BY <1>1, <1>2, <1>3, <1>4 DEF AloneInv, ReadsInv

LEMMA ServiceKeeps ==
  ASSUME OneAtATime, ReadsInv, Service
  PROVE  Kept
<1>1. CASE ManageProducts
  BY <1>1, CreateCheckAlone, CreateCommitAlone, RestoreCheckAlone, PurgeAlone, UpdateReadAlone,
     UpdateCommitAlone, RefreshAlone, PushAlone, RestoreCommitAlone, UnindexAlone, TrashAlone
     DEF ManageProducts
<1>2. CASE Import
  BY <1>2, ImportBeginAlone, ImportRowAlone, ImportEndAlone DEF Import
<1>3. CASE ManageCategories
  BY <1>3, RenameReadAlone, RenameCommitAlone, RenameRereadAlone, CarryAlone, CreateCategoryAlone
     DEF ManageCategories
<1>4. CASE ManageSubItems
  BY <1>4, AddReadAlone, AddCommitAlone, RemoveReadAlone, RemoveCommitAlone, SortAlone,
     RenumberAlone DEF ManageSubItems
<1>5. QED
  BY <1>1, <1>2, <1>3, <1>4 DEF Service

\* An index that does not answer, or a crash, leaves the tables alone; what the
\* request knew of them is still true, or forgotten.
LEMMA FailuresKeepReads ==
  ASSUME OneAtATime, ReadsInv, NEW h \in Handlers, PushFails(h) \/ Crash(h)
  PROVE  RequestsCurrent' /\ TwinsOld /\ OrderOld
<1>1. UNCHANGED <<product, category, item, index, filed>>
  BY DEF PushFails, Crash
<1>2. PICK r : req' = [req EXCEPT ![h] = r] /\ Current(r)
  <2>1. CASE Crash(h)
    BY <2>1, IdleCurrent DEF Crash, End, Proceed
  <2>2. CASE PushFails(h)
    <3>1. PICK next : next = req[h].next
      OBVIOUS
    <3>2. req[h].step = "push" /\ SeenAll(next)
      BY <2>2, <3>1 DEF ReadsInv, RequestsCurrent, Current, PushFails
    <3>3. next = Idle \/ IsImport(next)
      BY <3>1, <3>2 DEF ReadsInv, CatalogueInv, RequestsOK, RequestOK, IsRequest, IsImport, Idle
    <3>4. Current(next)
      BY <3>2, <3>3, IdleCurrent DEF Current, IsImport
    <3>5. QED
      BY <2>2, <3>1, <3>4 DEF PushFails, Proceed
  <2>3. QED
    BY <2>1, <2>2
<1>3. \A s \in Handlers : req'[s] = r
  BY <1>2, OnlyRequest DEF ReadsInv
<1>4. Current(r)'
  BY <1>1, <1>2, SameProducts, SameItems DEF Current
<1>5. RequestsCurrent'
  <2>1. \A s \in Handlers : Current(req[s])'
    BY <1>3, <1>4 DEF Current, SeenAll
  <2>2. QED
    BY <2>1 DEF RequestsCurrent
<1>6. QED
  BY <1>1, <1>5, SameProducts, SameItems

LEMMA StutterKeeps ==
  ASSUME ReadsInv, UNCHANGED vars
  PROVE  Kept
<1>1. UNCHANGED <<product, category, item, index, filed, req>>
  BY DEF vars
<1>2. Existing' = Existing
  BY <1>1, SameProducts
<1>3. \A s \in Handlers : Current(req[s])'
  BY <1>1, SameProducts, SameItems DEF ReadsInv, RequestsCurrent, Current
<1>4. RequestsCurrent'
  BY <1>1, <1>3 DEF RequestsCurrent
<1>5. (IndexPending => IndexPending') /\ (FiledPending => FiledPending')
  BY <1>1, <1>2 DEF IndexPending, IndexOK, FiledPending
<1>6. QED
  BY <1>1, <1>4, <1>5, SameProducts, SameItems DEF Kept

LEMMA ReadsStep ==
  ASSUME OneAtATime, ReadsInv, [Next]_vars
  PROVE  ReadsInv' /\ TwinsOld /\ OrderOld
<1>1. CatalogueInv'
  BY CatalogueStep DEF ReadsInv
<1>2. RequestsCurrent' /\ TwinsOld /\ OrderOld
  BY ServiceKeeps, FailuresKeepReads, StutterKeeps DEF Kept, Next
<1>3. QED
  BY <1>1, <1>2 DEF ReadsInv

LEMMA AloneStep ==
  ASSUME OneAtATime, AloneInv, [Service]_vars
  PROVE  AloneInv'
<1>1. ReadsInv /\ [Next]_vars
  BY DEF AloneInv, Next
<1>2. ReadsInv'
  BY <1>1, ReadsStep
<1>3. Kept
  BY <1>1, ServiceKeeps, StutterKeeps
<1>4. QED
  BY <1>2, <1>3 DEF AloneInv, Kept

LEMMA AloneSettled ==
  ASSUME AloneInv
  PROVE  FiledProductsFollow /\ IndexFollows
<1> SUFFICES ASSUME AllIdle PROVE FiledProductsFollow /\ IndexFollows
  BY DEF FiledProductsFollow, IndexFollows
<1>1. \A s \in Handlers : ~Pending(req[s]) /\ ~Carrying(req[s])
  BY IdleCurrent DEF AllIdle
<1>2. QED
  BY <1>1 DEF AloneInv, IndexPending, IndexOK, FiledPending, FiledProductsFollow, IndexFollows

\* With one request at a time no creation, edit, restore or import makes two
\* active products alike, even if requests crash, an import between two rows
\* among them, and pushes fail (_raise_if_exact_duplicate,
\* bulk_import_products).
THEOREM NoTwinsAlone == OneAtATime /\ Spec => NoNewTwins
<1> SUFFICES ASSUME OneAtATime PROVE Spec => NoNewTwins
  OBVIOUS
<1>1. Init => ReadsInv
  BY AloneInit DEF AloneInv
<1>2. ReadsInv /\ [Next]_vars => ReadsInv' /\ (\A p, q \in Products : Twins(p, q)' => Twins(p, q))
  BY ReadsStep DEF TwinsOld
<1>3. QED
  BY <1>1, <1>2, PTL DEF Spec, NoNewTwins

\* With one request at a time, and nothing crashing, a rename of a category
\* strands no product that was filed under it (update_category).
THEOREM FiledFollowAlone == OneAtATime /\ ReliableSpec => []FiledProductsFollow
<1> SUFFICES ASSUME OneAtATime PROVE ReliableSpec => []FiledProductsFollow
  OBVIOUS
<1>1. AloneInv /\ [Service]_vars => AloneInv'
  BY AloneStep
<1>2. AloneInv => FiledProductsFollow
  BY AloneSettled
<1>3. QED
  BY AloneInit, <1>1, <1>2, PTL DEF ReliableSpec

\* With one request at a time, and an index that answers, the index has the
\* text of every product between requests (index_product,
\* remove_product_from_index).
THEOREM IndexFollowsAlone == OneAtATime /\ ReliableSpec => []IndexFollows
<1> SUFFICES ASSUME OneAtATime PROVE ReliableSpec => []IndexFollows
  OBVIOUS
<1>1. AloneInv /\ [Service]_vars => AloneInv'
  BY AloneStep
<1>2. AloneInv => IndexFollows
  BY AloneSettled
<1>3. QED
  BY AloneInit, <1>1, <1>2, PTL DEF ReliableSpec

\* With one request at a time the components of a product keep the order in
\* which they were added, even if a removal crashes before its renumbering or
\* the renumbering is refused (add_sub_item, _renumber_sub_items).
THEOREM OrderKeptAlone == OneAtATime /\ Spec => AdditionOrderKept
<1> SUFFICES ASSUME OneAtATime PROVE Spec => AdditionOrderKept
  OBVIOUS
<1>1. Init => ReadsInv
  BY AloneInit DEF AloneInv
<1>2. ReadsInv /\ [Next]_vars => ReadsInv' /\ OrderOld
  BY ReadsStep
<1>3. OrderOld => \A i, j \in SubItems :
        /\ item[i] # Null /\ item'[i] # Null /\ item'[j] # Null
        /\ item'[i].parent = item'[j].parent
        /\ IF item[j] = Null THEN i # j ELSE item[i].number < item[j].number
        => item'[i].number < item'[j].number
  BY DEF OrderOld
<1>4. QED
  BY <1>1, <1>2, <1>3, PTL DEF Spec, AdditionOrderKept
=============================================================================
