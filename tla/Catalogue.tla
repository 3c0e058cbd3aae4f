------------------------------ MODULE Catalogue ------------------------------
(***************************************************************************)
(* Products of catalogue-service: the products, categories and             *)
(* product_sub_items tables, the search index of products, and the         *)
(* requests in flight.                                                     *)
(*                                                                         *)
(* As in module Documents a request is its reads, its commits, and what    *)
(* follows each commit.  That a caller may see and edit a product has been *)
(* decided before any of it.  Prices, files and item numbers (SKUs) are    *)
(* left out: no rule below is about them, and a SKU that was taken         *)
(* meanwhile only makes a request fail, as an import may at every row.     *)
(***************************************************************************)
EXTENDS Naturals, Sequences, FiniteSets, Columns

CONSTANTS Products, Categories, Handlers,
          SubItems,        \* product_sub_items.id: numbers, for their order
          MaxNumber,       \* bound on sequence numbers
          Names, Descriptions, CategoryNames,
          Norm,            \* what duplicates.norm makes of a name or description
          Sheets,          \* spreadsheets to import: sequences of Lines
          Null, NoProduct, Purged

Row == [name : Names, description : Descriptions, category : CategoryNames \cup {Null},
        trashed : BOOLEAN]

Line == [name : Names, description : Descriptions, category : CategoryNames \cup {Null}]

\* The part of a search record that the rules are about.
Text == [name : Names, description : Descriptions]

Item == [parent : Products, product : Products, number : 1 .. MaxNumber]

ASSUME CatalogueAssumption ==
  /\ SubItems \subseteq Nat
  /\ MaxNumber \in Nat
  /\ Names \cup Descriptions \subseteq DOMAIN Norm
  /\ Sheets \subseteq Seq(Line)
  /\ Null \notin Products \cup CategoryNames \cup Item \cup Text \cup Categories
  /\ NoProduct # Purged
  /\ NoProduct \notin Row /\ Purged \notin Row

VARIABLES product,   \* products
          category,  \* the name of each category, or Null
          item,      \* product_sub_items, or Null
          index,     \* the record of each product in the search index, once it
                     \* has carried out the tasks it accepted
          filed,     \* history: the category a product was filed under
          req        \* requests in flight

vars == <<product, category, item, index, filed, req>>

Existing == {p \in Products : product[p] \notin {NoProduct, Purged}}

Active == {p \in Existing : ~product[p].trashed}

Key(r) == <<Norm[r.name], Norm[r.description]>>

\* find_exact, among all active products but one
HasDuplicate(r, excluded) == \E p \in Active \ {excluded} : Key(product[p]) = Key(r)

ItemsOf(p) == {i \in SubItems : item[i] # Null /\ item[i].parent = p}

NumbersOf(p) == {item[i].number : i \in ItemsOf(p)}

Highest(S) == IF S = {} THEN 0 ELSE CHOOSE n \in S : \A m \in S : m <= n

CategoryNamed(n) == IF \E c \in Categories : category[c] = n /\ n # Null
                      THEN CHOOSE c \in Categories : category[c] = n
                      ELSE Null

TextOf(r) == [name |-> r.name, description |-> r.description]

Idle == [step |-> "idle"]

\* A file being imported goes on after the push of the row it created.
Importing(rows, seen) == [step |-> "import", rows |-> rows, seen |-> seen]

IsImport(r) == /\ r.step = "import"
               /\ r.rows \in Seq(Line)
               /\ r.seen \subseteq {Key(l) : l \in Line}

IsRequest(r) ==
  \/ r = Idle
  \/ r.step = "create" /\ r.line \in Line
  \/ /\ r.step = "update"
     /\ r.product \in Products
     /\ DOMAIN r.changes \subseteq {"name", "description", "category"}
  \/ r.step \in {"restore", "unindex"} /\ r.product \in Products
  \/ /\ r.step \in {"refresh", "push"}
     /\ r.product \in Products
     /\ r.step = "push" => r.text \in Text
     /\ r.next = Idle \/ IsImport(r.next)
  \/ IsImport(r)
  \/ r.step \in {"rename", "reread", "carry"} /\ r.category \in Categories /\ r.old \in CategoryNames
  \/ r.step = "add" /\ {r.parent, r.product} \subseteq Products /\ r.number \in 1 .. MaxNumber
  \/ r.step = "remove" /\ r.item \in SubItems /\ r.parent \in Products
  \/ r.step = "sort" /\ r.parent \in Products
  \/ r.step = "renumber" /\ r.parent \in Products /\ DOMAIN r.numbers \subseteq SubItems

TypeOK ==
  /\ product \in [Products -> Row \cup {NoProduct, Purged}]
  /\ category \in [Categories -> CategoryNames \cup {Null}]
  /\ item \in [SubItems -> Item \cup {Null}]
  /\ index \in [Products -> Text \cup {Null}]
  /\ filed \in [Products -> Categories \cup {Null}]
  /\ DOMAIN req = Handlers /\ \A h \in Handlers : IsRequest(req[h])

-----------------------------------------------------------------------------
Begin(h, r) == req[h] = Idle /\ req' = [req EXCEPT ![h] = r]

Proceed(h, r) == req' = [req EXCEPT ![h] = r]

End(h) == Proceed(h, Idle)

\* Some products are older than the duplicate rule.
Init ==
  /\ product \in [Products -> {NoProduct} \cup
       [name : Names, description : Descriptions, category : {Null}, trashed : {FALSE}]]
  /\ category = [c \in Categories |-> Null]
  /\ item = [i \in SubItems |-> Null]
  /\ index = [p \in Products |-> IF product[p] = NoProduct THEN Null ELSE TextOf(product[p])]
  /\ filed = [p \in Products |-> Null]
  /\ req = [h \in Handlers |-> Idle]

-----------------------------------------------------------------------------
(***************************************************************************)
(* Creating, editing and restoring a product: the duplicate rule is a      *)
(* query, and no constraint repeats it at the commit.                      *)
(***************************************************************************)
\* INSERT of a product, after which it is pushed to the index.
Insert(h, p, line, next) ==
  /\ product[p] = NoProduct
  /\ product' = [product EXCEPT ![p] = [name |-> line.name, description |-> line.description,
                                        category |-> line.category, trashed |-> FALSE]]
  /\ filed' = [filed EXCEPT ![p] = CategoryNamed(line.category)]
  /\ Proceed(h, [step |-> "refresh", product |-> p, next |-> next])
  /\ UNCHANGED <<category, item, index>>

\* POST /products
CreateCheck(h, line) ==
  /\ ~HasDuplicate(line, Null)
  /\ Begin(h, [step |-> "create", line |-> line])
  /\ UNCHANGED <<product, category, item, index, filed>>

CreateCommit(h, p) == req[h].step = "create" /\ Insert(h, p, req[h].line, Idle)

\* PATCH /products/{id}: the rule is looked at only when the text changes,
\* and the commit will write the columns that differ from what was loaded.
UpdateRead(h, p, line) ==
  /\ p \in Existing
  /\ <<line.name, line.description>> # <<product[p].name, product[p].description>>
       => ~HasDuplicate(line, p)
  /\ Begin(h, [step |-> "update", product |-> p,
               changes |-> Changed(product[p], line)])
  /\ UNCHANGED <<product, category, item, index, filed>>

\* faulty: the index is not told
UpdateCommitUnindexed(h) ==
  LET p == req[h].product
      changes == req[h].changes
  IN  /\ req[h].step = "update"
      /\ IF p \in Existing
           THEN /\ product' = [product EXCEPT ![p] = Over(@, changes)]
                /\ filed' = IF "category" \in DOMAIN changes
                              THEN [filed EXCEPT ![p] = CategoryNamed(changes["category"])]
                              ELSE filed
           ELSE UNCHANGED <<product, filed>>
      /\ End(h)
      /\ UNCHANGED <<category, item, index>>

UpdateCommit(h) ==
  LET p == req[h].product
      changes == req[h].changes
  IN  /\ req[h].step = "update"
      /\ IF p \in Existing
           THEN /\ product' = [product EXCEPT ![p] = Over(@, changes)]
                /\ filed' = IF "category" \in DOMAIN changes
                              THEN [filed EXCEPT ![p] = CategoryNamed(changes["category"])]
                              ELSE filed
                /\ Proceed(h, [step |-> "refresh", product |-> p, next |-> Idle])
           ELSE End(h) /\ UNCHANGED <<product, filed>>
      /\ UNCHANGED <<category, item, index>>

\* db.refresh, and the record is made...
Refresh(h) ==
  LET p == req[h].product
  IN  /\ req[h].step = "refresh"
      /\ Proceed(h, IF p \in Existing
                      THEN [step |-> "push", product |-> p, text |-> TextOf(product[p]),
                            next |-> req[h].next]
                      ELSE Idle)
      /\ UNCHANGED <<product, category, item, index, filed>>

\* ... and sent to the index, ...
Push(h) ==
  /\ req[h].step = "push"
  /\ index' = [index EXCEPT ![req[h].product] = req[h].text]
  /\ Proceed(h, req[h].next)
  /\ UNCHANGED <<product, category, item, filed>>

\* ... which may not answer; only the log tells.
PushFails(h) ==
  /\ req[h].step = "push"
  /\ Proceed(h, req[h].next)
  /\ UNCHANGED <<product, category, item, index, filed>>

\* PATCH /products/{id}/trash
Trash(p) ==
  /\ p \in Existing
  /\ product' = [product EXCEPT ![p].trashed = TRUE]
  /\ UNCHANGED <<category, item, index, filed, req>>

\* PATCH /products/{id}/restore
RestoreCheck(h, p) ==
  /\ p \in Existing
  /\ ~HasDuplicate(product[p], p)
  /\ product[p].trashed
  /\ Begin(h, [step |-> "restore", product |-> p])
  /\ UNCHANGED <<product, category, item, index, filed>>

RestoreCommit(h) ==
  LET p == req[h].product
  IN  /\ req[h].step = "restore"
      /\ product' = IF p \in Existing THEN [product EXCEPT ![p].trashed = FALSE] ELSE product
      /\ End(h)
      /\ UNCHANGED <<category, item, index, filed>>

\* faulty: no foreign key to the component
PurgeUnchecked(h, p) ==
  /\ p \in Existing
  /\ product' = [product EXCEPT ![p] = Purged]
  /\ item' = [i \in SubItems |-> IF i \in ItemsOf(p) THEN Null ELSE item[i]]
  /\ Begin(h, [step |-> "unindex", product |-> p])
  /\ UNCHANGED <<category, index, filed>>

\* DELETE /products/{id}: its own list of sub-items goes with it; a product
\* that is a sub-item of another is kept by the foreign key.
Purge(h, p) ==
  /\ p \in Existing
  /\ \A i \in SubItems : item[i] # Null => item[i].product # p
  /\ product' = [product EXCEPT ![p] = Purged]
  /\ item' = [i \in SubItems |-> IF i \in ItemsOf(p) THEN Null ELSE item[i]]
  /\ Begin(h, [step |-> "unindex", product |-> p])
  /\ UNCHANGED <<category, index, filed>>

Unindex(h) ==
  /\ req[h].step = "unindex"
  /\ index' = [index EXCEPT ![req[h].product] = Null]
  /\ End(h)
  /\ UNCHANGED <<product, category, item, filed>>

-----------------------------------------------------------------------------
(***************************************************************************)
(* POST /products/bulk-import: the keys of active products are read once,  *)
(* each row commits for itself.                                            *)
(***************************************************************************)
ImportBegin(h, sheet) ==
  /\ Begin(h, Importing(sheet, {Key(product[p]) : p \in Active}))
  /\ UNCHANGED <<product, category, item, index, filed>>

\* faulty: rows are not compared with earlier ones of the same file
ImportRowForgetful(h, p) ==
  /\ req[h].step = "import"
  /\ req[h].rows # <<>>
  /\ LET line == Head(req[h].rows)
     IN  IF Key(line) \in req[h].seen
           THEN /\ Proceed(h, Importing(Tail(req[h].rows), req[h].seen))
                /\ UNCHANGED <<product, category, item, index, filed>>
           ELSE Insert(h, p, line, Importing(Tail(req[h].rows), req[h].seen))

\* A row that repeats an active product or an earlier row is skipped.
ImportRow(h, p) ==
  /\ req[h].step = "import"
  /\ req[h].rows # <<>>
  /\ LET line == Head(req[h].rows)
     IN  IF Key(line) \in req[h].seen
           THEN /\ Proceed(h, Importing(Tail(req[h].rows), req[h].seen))
                /\ UNCHANGED <<product, category, item, index, filed>>
           ELSE Insert(h, p, line, Importing(Tail(req[h].rows), req[h].seen \cup {Key(line)}))

\* The file is done, or given up: an item number was taken meanwhile, or the
\* storage refuses a catalogue file.
ImportEnd(h) ==
  /\ req[h].step = "import"
  /\ End(h)
  /\ UNCHANGED <<product, category, item, index, filed>>

-----------------------------------------------------------------------------
(***************************************************************************)
(* Categories.  A product names its category by a string.                  *)
(***************************************************************************)
\* POST /categories, and each row of bulk-import and sync-from-products
CreateCategory(c, n) ==
  /\ category[c] = Null
  /\ CategoryNamed(n) = Null
  /\ category' = [category EXCEPT ![c] = n]
  /\ UNCHANGED <<product, item, index, filed, req>>

\* PATCH /categories/{id} with another name...
RenameRead(h, c, n) ==
  /\ category[c] \notin {Null, n}
  /\ CategoryNamed(n) = Null
  /\ Begin(h, [step |-> "rename", category |-> c, old |-> category[c], name |-> n])
  /\ UNCHANGED <<product, category, item, index, filed>>

\* ... is committed, unless the name was taken meanwhile, ...
RenameCommit(h) ==
  LET c == req[h].category
      free == CategoryNamed(req[h].name) \in {Null, c}
  IN  /\ req[h].step = "rename"
      /\ category' = IF free THEN [category EXCEPT ![c] = req[h].name] ELSE category
      /\ Proceed(h, IF free THEN [step |-> "reread", category |-> c, old |-> req[h].old] ELSE Idle)
      /\ UNCHANGED <<product, item, index, filed>>

\* ... read again ...
RenameReread(h) ==
  LET c == req[h].category
  IN  /\ req[h].step = "reread"
      /\ Proceed(h, IF category[c] = req[h].old THEN Idle
                    ELSE [step |-> "carry", category |-> c, old |-> req[h].old,
                          name |-> category[c]])
      /\ UNCHANGED <<product, category, item, index, filed>>

\* faulty: products in the recycle bin are left out
CarryActive(h) ==
  /\ req[h].step = "carry"
  /\ product' = [p \in Products |->
                   IF p \in Active /\ product[p].category = req[h].old
                     THEN [product[p] EXCEPT !.category = req[h].name]
                     ELSE product[p]]
  /\ End(h)
  /\ UNCHANGED <<category, item, index, filed>>

\* ... and its products follow in a commit of their own, not the index.
Carry(h) ==
  /\ req[h].step = "carry"
  /\ product' = [p \in Products |->
                   IF p \in Existing /\ product[p].category = req[h].old
                     THEN [product[p] EXCEPT !.category = req[h].name]
                     ELSE product[p]]
  /\ End(h)
  /\ UNCHANGED <<category, item, index, filed>>

-----------------------------------------------------------------------------
(***************************************************************************)
(* Sub-items: the numbered components of a product.                        *)
(***************************************************************************)
\* faulty: the first free number
AddReadFirstFree(h, p, q) ==
  /\ p # q
  /\ {p, q} \subseteq Existing
  /\ \E n \in 1 .. MaxNumber :
       /\ n \notin NumbersOf(p)
       /\ \A m \in 1 .. n - 1 : m \in NumbersOf(p)
       /\ Begin(h, [step |-> "add", parent |-> p, product |-> q, number |-> n])
  /\ UNCHANGED <<product, category, item, index, filed>>

\* POST /products/{id}/sub-items: the next number is read...
AddRead(h, p, q) ==
  /\ p # q
  /\ {p, q} \subseteq Existing
  /\ Highest(NumbersOf(p)) < MaxNumber
  /\ Begin(h, [step |-> "add", parent |-> p, product |-> q, number |-> Highest(NumbersOf(p)) + 1])
  /\ UNCHANGED <<product, category, item, index, filed>>

\* ... and used, unless it was taken or a product purged meanwhile.
AddCommit(h, i) ==
  LET p == req[h].parent
      new == [parent |-> p, product |-> req[h].product, number |-> req[h].number]
  IN  /\ req[h].step = "add"
      /\ item[i] = Null
      /\ item' = IF {p, req[h].product} \subseteq Existing /\ req[h].number \notin NumbersOf(p)
                   THEN [item EXCEPT ![i] = new]
                   ELSE item
      /\ End(h)
      /\ UNCHANGED <<product, category, index, filed>>

\* DELETE /products/{id}/sub-items/{item}: the row is read...
RemoveRead(h, i) ==
  /\ item[i] # Null
  /\ Begin(h, [step |-> "remove", item |-> i, parent |-> item[i].parent])
  /\ UNCHANGED <<product, category, item, index, filed>>

\* ... and deleted (if it is still there); ...
RemoveCommit(h) ==
  /\ req[h].step = "remove"
  /\ item' = [item EXCEPT ![req[h].item] = Null]
  /\ Proceed(h, [step |-> "sort", parent |-> req[h].parent])
  /\ UNCHANGED <<product, category, index, filed>>

\* faulty: counted from zero
PositionsFromZero(p) ==
  LET position(i) == Cardinality({j \in ItemsOf(p) : item[j].number < item[i].number})
      moved == {i \in ItemsOf(p) : position(i) # item[i].number}
  IN  [i \in moved |-> position(i)]

\* The position of each row that it does not have as its number yet.
Positions(p) ==
  LET position(i) == Cardinality({j \in ItemsOf(p) : item[j].number <= item[i].number})
      moved == {i \in ItemsOf(p) : position(i) # item[i].number}
  IN  [i \in moved |-> position(i)]

\* ... the remaining rows are read in order...
Sort(h) ==
  /\ req[h].step = "sort"
  /\ Proceed(h, [step |-> "renumber", parent |-> req[h].parent,
                 numbers |-> Positions(req[h].parent)])
  /\ UNCHANGED <<product, category, item, index, filed>>

\* The UPDATEs are sent in the order of their primary keys, and the unique
\* constraint is looked at after each: a row may not take a number that
\* another row still has.
Sendable(p, numbers) ==
  /\ DOMAIN numbers \subseteq ItemsOf(p)
  /\ \A i \in DOMAIN numbers : \A j \in ItemsOf(p) \ {i} :
       (IF j \in DOMAIN numbers /\ j < i THEN numbers[j] ELSE item[j].number) # numbers[i]

\* ... and renumbered in a second commit, or none of them is.
Renumber(h) ==
  LET numbers == req[h].numbers
  IN  /\ req[h].step = "renumber"
      /\ item' = IF Sendable(req[h].parent, numbers)
                   THEN [i \in SubItems |-> IF i \in DOMAIN numbers
                                              THEN [item[i] EXCEPT !.number = numbers[i]]
                                              ELSE item[i]]
                   ELSE item
      /\ End(h)
      /\ UNCHANGED <<product, category, index, filed>>

\* The process or its connection dies.
Crash(h) ==
  /\ req[h] # Idle
  /\ End(h)
  /\ UNCHANGED <<product, category, item, index, filed>>

-----------------------------------------------------------------------------
FreeSlot == \E h \in Handlers : req[h] = Idle

ManageProducts ==
  \/ \E h \in Handlers :
       \/ \E line \in Line : CreateCheck(h, line)
       \/ \E p \in Products : \/ CreateCommit(h, p)
                              \/ RestoreCheck(h, p)
                              \/ Purge(h, p)
                              \/ \E line \in Line : UpdateRead(h, p, line)
       \/ UpdateCommit(h) \/ Refresh(h) \/ Push(h) \/ RestoreCommit(h) \/ Unindex(h)
  \/ FreeSlot /\ \E p \in Products : Trash(p)

Import == \E h \in Handlers :
            \/ \E sheet \in Sheets : ImportBegin(h, sheet)
            \/ \E p \in Products : ImportRow(h, p)
            \/ ImportEnd(h)

ManageCategories ==
  \/ \E h \in Handlers :
       \/ \E c \in Categories, n \in CategoryNames : RenameRead(h, c, n)
       \/ RenameCommit(h) \/ RenameReread(h) \/ Carry(h)
  \/ FreeSlot /\ \E c \in Categories, n \in CategoryNames : CreateCategory(c, n)

ManageSubItems ==
  \E h \in Handlers :
    \/ \E p, q \in Products : AddRead(h, p, q)
    \/ \E i \in SubItems : AddCommit(h, i) \/ RemoveRead(h, i)
    \/ RemoveCommit(h) \/ Sort(h) \/ Renumber(h)

Service == ManageProducts \/ Import \/ ManageCategories \/ ManageSubItems

Next == Service \/ \E h \in Handlers : PushFails(h) \/ Crash(h)

Spec == Init /\ [][Next]_vars

\* The service while nothing crashes and the index answers.
ReliableSpec == Init /\ [][Service]_vars

-----------------------------------------------------------------------------
(***************************************************************************)
(* Properties.                                                             *)
(***************************************************************************)
AllIdle == \A h \in Handlers : req[h] = Idle

Twins(p, q) == p # q /\ {p, q} \subseteq Active /\ Key(product[p]) = Key(product[q])

\* No creation, edit, restore or import makes two active products of the
\* same normalized name and description; pairs that are older than the rule
\* may stay (_raise_if_exact_duplicate, bulk_import_products).
NoNewTwins == [][ \A p, q \in Products : Twins(p, q)' => Twins(p, q) ]_vars

\* A product filed under a category stays filed under it: a rename strands
\* no product, active or not (update_category, categories.py:83-85).
FiledProductsFollow ==
  AllIdle => \A p \in Existing : filed[p] # Null => product[p].category = category[filed[p]]

\* Between requests the index has, or will have once it has carried out what
\* it accepted, the text of every product, trashed or not, and nothing of a
\* purged one (index_product, remove_product_from_index).
IndexFollows ==
  AllIdle => \A p \in Products :
    index[p] = IF p \in Existing THEN TextOf(product[p]) ELSE Null

\* The components of a product keep the order in which they were added,
\* through removals and renumberings that succeed or fail (add_sub_item,
\* _renumber_sub_items).
AdditionOrderKept ==
  [][ \A i, j \in SubItems :
        /\ item[i] # Null /\ item'[i] # Null /\ item'[j] # Null
        /\ item'[i].parent = item'[j].parent
        /\ IF item[j] = Null THEN i # j ELSE item[i].number < item[j].number
        => item'[i].number < item'[j].number ]_vars

\* The components and the product they belong to exist (the foreign keys of
\* models.py).
ReferencesHold ==
  \A i \in SubItems : item[i] # Null => {item[i].parent, item[i].product} \subseteq Existing

\* The numbers of a product's components are contiguous (models.py:51-52:
\* "kept contiguous by re-numbering the remaining rows whenever one is
\* removed").
NumbersContiguous ==
  AllIdle => \A p \in Products : NumbersOf(p) = 1 .. Cardinality(ItemsOf(p))
=============================================================================
