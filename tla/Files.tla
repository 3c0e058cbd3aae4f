-------------------------------- MODULE Files --------------------------------
(***************************************************************************)
(* Numbers and the files kept under them: the unique numbers of documents  *)
(* (doc_number) and of products (sku), and the object store, where the     *)
(* file of a document or product has its number in its key and the logo or *)
(* seal of a company or director has its owner's id.                       *)
(*                                                                         *)
(* A number can be given again after a purge; an id cannot.  Nothing is    *)
(* ever deleted from the store.                                            *)
(*                                                                         *)
(* One prefix and one file name are modelled: different ones give          *)
(* different keys and do not meet.                                         *)
(***************************************************************************)
EXTENDS Naturals, FiniteSets

CONSTANTS Docs, Products,
          Owners,          \* companies and directors
          Handlers,
          MaxNumber,       \* bound on numbers
          NotYet, Purged,  \* a row that is not there yet, or no longer
          Nothing          \* an object that is not there

Numbered == Docs \cup Products

Rows == Numbered \cup Owners

\* A row, with its number (0: it has none) and whether it has a file.
Row == [number : 0 .. MaxNumber, file : BOOLEAN]

\* The row whose file is meant, by its kind and number, or by its id.
KeyOf(r, n) == CASE r \in Docs     -> <<"document", n>>
                 [] r \in Products -> <<"product", n>>
                 [] OTHER          -> <<"owner", r>>

Keys == {KeyOf(r, n) : r \in Rows, n \in 0 .. MaxNumber}

ASSUME FilesAssumption ==
  /\ MaxNumber \in Nat
  /\ Docs \cap Products = {} /\ Numbered \cap Owners = {}
  /\ NotYet # Purged
  /\ NotYet \notin Row /\ Purged \notin Row
  /\ Nothing \notin Rows

VARIABLES row,      \* documents, products, companies and company_directors
          store,    \* for each key, the row its object was uploaded for
          req,      \* requests in flight
          overtaken \* history: keys of rows purged before an upload was stored

vars == <<row, store, req, overtaken>>

Existing == {r \in Rows : row[r] \notin {NotYet, Purged}}

Key(r) == KeyOf(r, row[r].number)

Idle == [step |-> "idle"]

IsRequest(r) ==
  \/ r = Idle
  \/ r.step = "insert" /\ r.row \in Numbered /\ r.number \in 1 .. MaxNumber /\ r.upload \in BOOLEAN
  \/ r.step \in {"store", "attach"} /\ r.row \in Rows /\ r.key \in Keys

TypeOK ==
  /\ row \in [Rows -> Row \cup {NotYet, Purged}]
  /\ store \in [Keys -> Rows \cup {Nothing}]
  /\ DOMAIN req = Handlers /\ \A h \in Handlers : IsRequest(req[h])
  /\ overtaken \subseteq Keys

Begin(h, r) == req[h] = Idle /\ req' = [req EXCEPT ![h] = r]

Proceed(h, r) == req' = [req EXCEPT ![h] = r]

End(h) == Proceed(h, Idle)

Init ==
  /\ row = [r \in Rows |-> IF r \in Owners THEN [number |-> 0, file |-> FALSE] ELSE NotYet]
  /\ store = [k \in Keys |-> Nothing]
  /\ req = [h \in Handlers |-> Idle]
  /\ overtaken = {}

-----------------------------------------------------------------------------
(***************************************************************************)
(* Numbers.                                                                *)
(***************************************************************************)
Taken(kind) == {row[r].number : r \in kind \cap Existing}

\* The number generated for a product: the highest plus one.  (For a document
\* it is the first free one after as many as there are.)
Highest(taken) == IF taken = {} THEN 0 ELSE CHOOSE n \in taken : \A m \in taken : m <= n

NextSku == Highest(Taken(Products)) + 1

\* POST /documents and /products with a number that was typed or generated, in
\* either case a free one; a row of bulk-import always has it generated, and may
\* bring its file.
Number(h, r, n, upload) ==
  /\ row[r] = NotYet
  /\ \A s \in Handlers : req[s].step = "insert" => req[s].row # r
  /\ n \notin Taken(IF r \in Docs THEN Docs ELSE Products)
  /\ upload => r \in Products /\ n = NextSku
  /\ Begin(h, [step |-> "insert", row |-> r, number |-> n, upload |-> upload])
  /\ UNCHANGED <<row, store, overtaken>>

\* faulty: no unique constraint
InsertUnchecked(h) ==
  LET r == req[h].row
      n == req[h].number
  IN  /\ req[h].step = "insert"
      /\ row' = [row EXCEPT ![r] = [number |-> n, file |-> FALSE]]
      /\ Proceed(h, IF req[h].upload THEN [step |-> "store", row |-> r, key |-> KeyOf(r, n)]
                                     ELSE Idle)
      /\ UNCHANGED <<store, overtaken>>

\* The commit, which the unique constraint refuses if the number was given
\* to another row meanwhile.
Insert(h) ==
  LET r == req[h].row
      n == req[h].number
      free == n \notin Taken(IF r \in Docs THEN Docs ELSE Products)
  IN  /\ req[h].step = "insert"
      /\ row' = IF free THEN [row EXCEPT ![r] = [number |-> n, file |-> FALSE]] ELSE row
      /\ Proceed(h, IF free /\ req[h].upload
                      THEN [step |-> "store", row |-> r, key |-> KeyOf(r, n)]
                      ELSE Idle)
      /\ UNCHANGED <<store, overtaken>>

\* DELETE of a row; where another row needs it, it may be refused.
Purge(h, r) ==
  /\ r \in Existing
  /\ req[h] = Idle
  /\ row' = [row EXCEPT ![r] = Purged]
  /\ overtaken' = IF \E s \in Handlers : req[s].step = "store" /\ req[s].row = r
                    THEN overtaken \cup {Key(r)}
                    ELSE overtaken
  /\ UNCHANGED <<store, req>>

-----------------------------------------------------------------------------
(***************************************************************************)
(* Files.                                                                  *)
(***************************************************************************)
\* POST .../{id}/file, /logo, /seal: the row is loaded, ...
UploadRead(h, r) ==
  /\ r \in Existing
  /\ Begin(h, [step |-> "store", row |-> r, key |-> Key(r)])
  /\ UNCHANGED <<row, store, overtaken>>

\* ... the object is stored ...
Store(h) ==
  /\ req[h].step = "store"
  /\ store' = [store EXCEPT ![req[h].key] = req[h].row]
  /\ Proceed(h, [req[h] EXCEPT !.step = "attach"])
  /\ UNCHANGED <<row, overtaken>>

\* faulty: NULL is written
AttachNull(h) ==
  LET r == req[h].row
  IN  /\ req[h].step = "attach"
      /\ row' = IF r \in Existing THEN [row EXCEPT ![r].file = Nothing] ELSE row
      /\ End(h)
      /\ UNCHANGED <<store, overtaken>>

\* ... and the row names it; the commit fails when the row is gone.
Attach(h) ==
  LET r == req[h].row
  IN  /\ req[h].step = "attach"
      /\ row' = IF r \in Existing THEN [row EXCEPT ![r].file = TRUE] ELSE row
      /\ End(h)
      /\ UNCHANGED <<store, overtaken>>

\* The process or a connection dies, or the store refuses.
Fail(h) ==
  /\ req[h] # Idle
  /\ End(h)
  /\ UNCHANGED <<row, store, overtaken>>

-----------------------------------------------------------------------------
Next ==
  \E h \in Handlers :
    \/ \E r \in Numbered, n \in 1 .. MaxNumber, upload \in BOOLEAN : Number(h, r, n, upload)
    \/ \E r \in Rows : Purge(h, r) \/ UploadRead(h, r)
    \/ Insert(h)
    \/ Store(h)
    \/ Attach(h)
    \/ Fail(h)

Spec == Init /\ [][Next]_vars

-----------------------------------------------------------------------------
(***************************************************************************)
(* Properties.                                                             *)
(***************************************************************************)
\* The file a row names is there and was uploaded for that row, whatever
\* numbers are given again and whatever overlaps or fails, unless the upload
\* of a row that had the number before was overtaken by its purge
\* (upload_document_file, upload_product_file and the uploads of companies.py).
FileIsOwn ==
  \A r \in Existing : row[r].file => store[Key(r)] = r \/ Key(r) \in overtaken
=============================================================================
