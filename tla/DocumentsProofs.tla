--------------------------- MODULE DocumentsProofs ---------------------------
(***************************************************************************)
(* Proofs about Documents, for any documents, customers, projects,         *)
(* companies, line items and number of requests in flight.                 *)
(*                                                                         *)
(* The references of the rows rest on one more fact: the writes that check *)
(* no foreign key (trash, restore, status and the columns left out) carry  *)
(* none of the columns that have one.                                      *)
(*                                                                         *)
(* That the index follows rests on what requests are about to push: of a   *)
(* document it has not been left behind on, whatever a request has read    *)
(* still agrees with the row, and the last task accepted does or some      *)
(* request has its push, or its removal, still to come (IndexInv).         *)
(***************************************************************************)
EXTENDS Documents, TLAPS

RequestOK(r) ==
  /\ IsRequest(r)
  /\ r.step \in {"load", "update", "write"} => IsChange(r.changes)
  /\ r.step \in {"load", "update"} => r.batch \in Batches \cup {Null}
  /\ r.step = "gather" => r.loaded \in Row
  /\ r.step = "push" => r.record \in Record
  /\ r.step = "purge" => r.field \in {"customer", "project"} /\ r.parent \in Of(r.field)
  /\ r.step = "write" => DOMAIN r.changes \subseteq {"trashed", "stamped", "status"}

TablesOK ==
  /\ row \in [Docs -> Row \cup {NoDoc, Purged}]
  /\ items \in [Docs -> SUBSET Batches]
  /\ parents \subseteq Customers \cup Projects
  /\ audited \subseteq Docs

SearchOK ==
  /\ index \in [Docs -> Seq(Record \cup {Null})]
  /\ \A d \in Docs : Len(index[d]) \in 1 .. MaxTasks + 1
  /\ behind \subseteq Docs

RequestsOK == DOMAIN req = Handlers /\ \A h \in Handlers : RequestOK(req[h])

DocumentsInv == TablesOK /\ SearchOK /\ RequestsOK /\ ReferencesHold

\* What a step owes to the documents that are gone.
GoneStay == \A d \in Docs : Vanished(d) => Vanished(d)'

\* A record that is right about a document, up to references that were purged.
Agrees(rec, d) ==
  /\ \A f \in {"endUser", "currency", "total"} : rec[f] = row[d][f]
  /\ rec.items = items[d]
  /\ row[d].customer \in {rec.customer, Null}
  /\ row[d].project \in {rec.project, Null}
  /\ rec.customer \in {row[d].customer} \cup (Customers \ parents)
  /\ rec.project \in {row[d].project} \cup (Projects \ parents)

Settled(d) ==
  IF d \in Existing THEN Latest(d) # Null /\ Agrees(Latest(d), d) ELSE Latest(d) = Null

\* What a request has read of a document is what the document has.
Fresh(r, d) ==
  /\ r.step = "gather" /\ r.doc = d => d \in Existing /\ Agrees(Indexed(r.loaded, items[d]), d)
  /\ r.step = "push" /\ r.doc = d => d \in Existing /\ Agrees(r.record, d)

\* A request whose push, or removal, will set the index right.
Pending(r, d) == Unpushed(r) /\ r.doc = d /\ (d \in Existing <=> r.step # "remove")

DocOK(d) ==
  d \notin behind => /\ \A h \in Handlers : Fresh(req[h], d)
                     /\ Settled(d) \/ \E h \in Handlers : Pending(req[h], d)

RemovesPurged == \A h \in Handlers : req[h].step = "remove" => row[req[h].doc] = Purged

IndexInv == DocumentsInv /\ RemovesPurged /\ \A d \in Docs : DocOK(d)

\* What a step owes to the index.
IndexKept == RemovesPurged' /\ \A d \in Docs : DocOK(d)'

LEMMA InvTyped == DocumentsInv => TypeOK
  BY DEF DocumentsInv, TablesOK, SearchOK, RequestsOK, RequestOK, TypeOK

-----------------------------------------------------------------------------
(***************************************************************************)
(* Rows and what is written of them.                                       *)
(***************************************************************************)
LEMMA ExistingRows ==
  ASSUME TablesOK
  PROVE  \A d \in Docs : d \in Existing <=> row[d] \in Row
  BY DocumentsAssumption DEF TablesOK, Existing

LEMMA RowColumns ==
  ASSUME NEW r \in Row
  PROVE  DOMAIN r = DOMAIN Column /\ \A f \in DOMAIN Column : r[f] \in Column[f]
  BY DEF Row, Column

LEMMA ColumnsRow ==
  ASSUME NEW v, \A f \in DOMAIN Column : v[f] \in Column[f],
         NEW r, r = [f \in DOMAIN Column |-> v[f]]
  PROVE  r \in Row
<1>1. r = [customer |-> v["customer"], endUser |-> v["endUser"], project |-> v["project"],
           company |-> v["company"], director |-> v["director"], status |-> v["status"],
           currency |-> v["currency"], total |-> v["total"], trashed |-> v["trashed"],
           stamped |-> v["stamped"]]
  BY DEF Column
<1>2. QED
  BY <1>1 DEF Row, Column

\* An UPDATE gives a row, and writes the columns it names and no other.
LEMMA OverRow ==
  ASSUME NEW r \in Row, NEW c, IsChange(c)
  PROVE  /\ Over(r, c) \in Row
         /\ \A f \in DOMAIN Column : Over(r, c)[f] = IF f \in DOMAIN c THEN c[f] ELSE r[f]
<1>1. DOMAIN r = DOMAIN Column /\ \A f \in DOMAIN Column : r[f] \in Column[f]
  BY RowColumns
<1>2. PICK v : v = [f \in DOMAIN Column |-> IF f \in DOMAIN c THEN c[f] ELSE r[f]]
  OBVIOUS
<1>3. Over(r, c) = v
  BY <1>1, <1>2 DEF Over
<1>4. \A f \in DOMAIN Column : v[f] \in Column[f]
  BY <1>1, <1>2 DEF IsChange
<1>5. v = [f \in DOMAIN Column |-> v[f]]
  BY <1>2
<1>6. QED
  BY <1>2, <1>3, <1>4, <1>5, ColumnsRow

LEMMA ChangesFit ==
  ASSUME NEW r \in Row, NEW q
  PROVE  /\ IsChange(Changed(q, r))
         /\ \A f \in DOMAIN Changed(q, r) : f \in DOMAIN r /\ r[f] # q[f]
<1>1. PICK F : F = {f \in DOMAIN r : r[f] # q[f]}
  OBVIOUS
<1>2. Changed(q, r) = [f \in F |-> r[f]]
  BY <1>1 DEF Changed
<1>3. QED
  BY <1>1, <1>2, RowColumns DEF IsChange

LEMMA FormRow ==
  ASSUME NEW r \in Row, NEW f \in Forms, NEW b \in NewBatches
  PROVE  Wanted(r, f, b) \in Row /\ b \in Batches \cup {Null}
<1>1. b \in Batches \cup {Null}
  BY DEF NewBatches
<1>2. /\ f.customer \in Column.customer /\ f.endUser \in Column.endUser
      /\ f.project \in Column.project /\ f.company \in Column.company
      /\ f.director \in Column.director
      /\ f.currency # Null => f.currency \in Currencies
      /\ TotalOf(b) \in {TotalOf(x) : x \in Batches \cup {Null}}
  BY <1>1 DEF Forms, Submission
<1>3. PICK c : c = IF f.currency = Null THEN r.currency ELSE f.currency
  OBVIOUS
<1>4. c \in Currencies
  BY <1>2, <1>3 DEF Row, Column
<1>5. Wanted(r, f, b) = [r EXCEPT !.customer = f.customer, !.endUser = f.endUser,
                                  !.project = f.project, !.company = f.company,
                                  !.director = f.director, !.currency = c, !.total = TotalOf(b)]
  BY <1>3 DEF Wanted
<1>6. Wanted(r, f, b) =
        [customer |-> f.customer, endUser |-> f.endUser, project |-> f.project,
         company |-> f.company, director |-> f.director, status |-> r.status, currency |-> c,
         total |-> TotalOf(b), trashed |-> r.trashed, stamped |-> r.stamped]
  BY <1>5 DEF Row
<1>7. r.status \in Column.status /\ r.trashed \in Column.trashed /\ r.stamped \in Column.stamped
  BY DEF Row
<1>8. Wanted(r, f, b) \in Row
  BY <1>2, <1>4, <1>6, <1>7 DEF Row, Column
<1>9. QED
  BY <1>1, <1>8

-----------------------------------------------------------------------------
(***************************************************************************)
(* Requests.                                                               *)
(***************************************************************************)
LEMMA IdleOK == RequestOK(Idle)
  BY DEF RequestOK, IsRequest, Idle

LEMMA FollowUpOK ==
  ASSUME NEW d \in Docs, NEW step \in {"refresh", "log", "remove"}
  PROVE  RequestOK([step |-> step, doc |-> d])
  BY DEF RequestOK, IsRequest

LEMMA RequestsKept ==
  ASSUME DocumentsInv, NEW h \in Handlers, NEW r, RequestOK(r), req' = [req EXCEPT ![h] = r]
  PROVE  /\ RequestsOK'
         /\ req'[h] = r /\ \A s \in Handlers \ {h} : req'[s] = req[s]
<1>1. /\ DOMAIN req' = Handlers
      /\ req'[h] = r /\ \A s \in Handlers \ {h} : req'[s] = req[s]
  BY DEF DocumentsInv, RequestsOK
<1>2. \A s \in Handlers : RequestOK(req'[s])
  BY <1>1 DEF DocumentsInv, RequestsOK
<1>3. RequestsOK'
  BY <1>1, <1>2 DEF RequestsOK
<1>4. QED
  BY <1>1, <1>3

\* The index stays as it is, and a commit or a lost push is remembered.
LEMMA SearchKept ==
  ASSUME SearchOK, UNCHANGED index, behind' \subseteq Docs
  PROVE  SearchOK'
  BY DEF SearchOK

LEMMA CommitsRemembered ==
  ASSUME SearchOK, NEW h, NEW d \in Docs, Commits(h, d)
  PROVE  behind' \subseteq Docs
  BY DEF SearchOK, Commits

\* A step of a request that writes no table, and begins no push of a document
\* that is gone.
LEMMA RequestStep ==
  ASSUME DocumentsInv, NEW h \in Handlers, NEW r, RequestOK(r), req' = [req EXCEPT ![h] = r],
         UNCHANGED <<row, items, parents, audited, index>>, behind' \subseteq Docs,
         r.step \in {"gather", "push"} => ~Vanished(r.doc)
  PROVE  DocumentsInv' /\ GoneStay
<1>1. RequestsOK' /\ req'[h] = r /\ \A s \in Handlers \ {h} : req'[s] = req[s]
  BY RequestsKept
<1>2. Existing' = Existing
  BY DEF Existing
<1>3. TablesOK' /\ ReferencesHold'
  BY <1>2 DEF DocumentsInv, TablesOK, ReferencesHold
<1>4. SearchOK'
  BY SearchKept DEF DocumentsInv
<1>5. GoneStay
  BY <1>1 DEF GoneStay, Vanished
<1>6. QED
  BY <1>1, <1>3, <1>4, <1>5 DEF DocumentsInv

LEMMA UpdateReadKeeps ==
  ASSUME DocumentsInv, NEW h \in Handlers, NEW d \in Docs, NEW f \in Forms, NEW b \in NewBatches,
         UpdateRead(h, d, f, b)
  PROVE  DocumentsInv' /\ GoneStay
<1>1. PICK r : r = [step |-> "load", doc |-> d,
                    changes |-> Changed(row[d], Wanted(row[d], f, b)), batch |-> b]
  OBVIOUS
<1>2. row[d] \in Row
  BY ExistingRows DEF DocumentsInv, UpdateRead
<1>3. IsChange(Changed(row[d], Wanted(row[d], f, b))) /\ b \in Batches \cup {Null}
  BY <1>2, FormRow, ChangesFit
<1>4. RequestOK(r)
  BY <1>1, <1>3 DEF RequestOK, IsRequest
<1>5. QED
  BY <1>1, <1>4, RequestStep DEF UpdateRead, Begin, tables, search, DocumentsInv, SearchOK

LEMMA UpdateLoadItemsKeeps ==
  ASSUME DocumentsInv, NEW h \in Handlers, UpdateLoadItems(h)
  PROVE  DocumentsInv' /\ GoneStay
<1>1. PICK r : r = [step |-> "update", doc |-> req[h].doc, changes |-> req[h].changes,
                    batch |-> req[h].batch, old |-> items[req[h].doc]]
  OBVIOUS
<1>2. /\ req[h].doc \in Docs /\ IsChange(req[h].changes) /\ req[h].batch \in Batches \cup {Null}
  BY DEF DocumentsInv, RequestsOK, RequestOK, IsRequest, Idle, UpdateLoadItems
<1>3. RequestOK(r)
  BY <1>1, <1>2 DEF RequestOK, IsRequest
<1>4. QED
  BY <1>1, <1>3, RequestStep DEF UpdateLoadItems, Proceed, tables, search, DocumentsInv, SearchOK

LEMMA RefreshKeeps ==
  ASSUME DocumentsInv, NEW h \in Handlers, Refresh(h)
  PROVE  DocumentsInv' /\ GoneStay
<1>1. PICK d \in Docs : d = req[h].doc
  BY DEF DocumentsInv, RequestsOK, RequestOK, IsRequest, Idle, Refresh
<1>2. UNCHANGED <<row, items, parents, audited, index>> /\ behind' \subseteq Docs
  BY DEF Refresh, tables, search, DocumentsInv, SearchOK
<1>3. ASSUME d \in Existing
      PROVE  DocumentsInv' /\ GoneStay
  <2>1. PICK r : r = [step |-> "gather", doc |-> d, loaded |-> row[d]]
    OBVIOUS
  <2>2. row[d] \in Row
    BY <1>3, ExistingRows DEF DocumentsInv
  <2>3. RequestOK(r) /\ r.step = "gather" /\ ~Vanished(r.doc)
    BY <1>3, <2>1, <2>2 DEF RequestOK, IsRequest, Vanished, Existing
  <2>4. req' = [req EXCEPT ![h] = r]
    BY <1>1, <1>3, <2>1 DEF Refresh, Proceed
  <2>5. QED
    BY <1>2, <2>3, <2>4, RequestStep
<1>4. ASSUME d \notin Existing
      PROVE  DocumentsInv' /\ GoneStay
  <2>1. req' = [req EXCEPT ![h] = Idle] /\ Idle.step = "idle"
    BY <1>1, <1>4 DEF Refresh, Proceed, Idle
  <2>2. QED
    BY <1>2, <2>1, IdleOK, RequestStep
<1>5. QED
  BY <1>3, <1>4

LEMMA IndexedTyped ==
  ASSUME NEW r \in Row, NEW its \in SUBSET Batches
  PROVE  Indexed(r, its) \in Record /\ Indexed(r, its) # Null
<1>1. Indexed(r, its) \in Record
  BY DEF Indexed, Record, Row, Column
<1>2. QED
  BY <1>1, DocumentsAssumption

LEMMA GatherKeeps ==
  ASSUME DocumentsInv, NEW h \in Handlers, Gather(h)
  PROVE  DocumentsInv' /\ GoneStay
<1>1. PICK d \in Docs : d = req[h].doc
  BY DEF DocumentsInv, RequestsOK, RequestOK, IsRequest, Idle, Gather
<1>2. PICK r : r = [step |-> "push", doc |-> d, record |-> Indexed(req[h].loaded, items[d])]
  OBVIOUS
<1>3. req[h].loaded \in Row /\ items[d] \in SUBSET Batches /\ req[h].step = "gather"
  BY DEF DocumentsInv, TablesOK, RequestsOK, RequestOK, Gather
<1>4. RequestOK(r)
  BY <1>2, <1>3, IndexedTyped DEF RequestOK, IsRequest
<1>5. ~Vanished(r.doc)
  BY <1>1, <1>2, <1>3 DEF Vanished
<1>6. /\ req' = [req EXCEPT ![h] = r] /\ UNCHANGED <<row, items, parents, audited, index>>
      /\ behind' \subseteq Docs
  BY <1>1, <1>2 DEF Gather, Proceed, tables, search, DocumentsInv, SearchOK
<1>7. QED
  BY <1>4, <1>5, <1>6, RequestStep

LEMMA PushFailsKeeps ==
  ASSUME DocumentsInv, NEW h \in Handlers, PushFails(h)
  PROVE  DocumentsInv' /\ GoneStay
<1>1. PICK r : r = [step |-> "log", doc |-> req[h].doc]
  OBVIOUS
<1>2. req[h].doc \in Docs
  BY DEF DocumentsInv, RequestsOK, RequestOK, IsRequest, Idle, PushFails
<1>3. RequestOK(r) /\ r.step = "log"
  BY <1>1, <1>2, FollowUpOK
<1>4. behind' \subseteq Docs
  BY <1>2 DEF PushFails, DocumentsInv, SearchOK
<1>5. QED
  BY <1>1, <1>3, <1>4, RequestStep DEF PushFails, Proceed, tables

LEMMA ViewKeeps ==
  ASSUME DocumentsInv, NEW h \in Handlers, NEW d \in Docs, View(h, d)
  PROVE  DocumentsInv' /\ GoneStay
<1>1. PICK r : r = [step |-> "log", doc |-> d]
  OBVIOUS
<1>2. RequestOK(r) /\ r.step = "log"
  BY <1>1, FollowUpOK
<1>3. QED
  BY <1>1, <1>2, RequestStep DEF View, Begin, tables, search, DocumentsInv, SearchOK

LEMMA EndKeeps ==
  ASSUME DocumentsInv, NEW h \in Handlers, RemoveFails(h) \/ Crash(h)
  PROVE  DocumentsInv' /\ GoneStay
<1>1. req' = [req EXCEPT ![h] = Idle] /\ UNCHANGED <<row, items, parents, audited, index>>
  BY DEF RemoveFails, Crash, End, Proceed, tables
<1>2. Idle.step = "idle"
  BY DEF Idle
<1>3. Unpushed(req[h]) => req[h].doc \in Docs
  BY DEF Unpushed, DocumentsInv, RequestsOK, RequestOK, IsRequest, Idle
<1>4. behind' \subseteq Docs
  BY <1>3 DEF RemoveFails, Crash, Unpushed, DocumentsInv, SearchOK
<1>5. QED
  BY <1>1, <1>2, <1>4, IdleOK, RequestStep

\* The requests that write no column with a foreign key.
LEMMA WriteReadKeeps ==
  ASSUME DocumentsInv, NEW h \in Handlers, NEW d \in Docs,
         NEW c, IsChange(c), DOMAIN c \subseteq {"trashed", "stamped", "status"},
         req' = [req EXCEPT ![h] = [step |-> "write", doc |-> d, changes |-> c]],
         UNCHANGED <<tables, search>>
  PROVE  DocumentsInv' /\ GoneStay
<1>1. PICK r : r = [step |-> "write", doc |-> d, changes |-> c]
  OBVIOUS
<1>2. RequestOK(r) /\ r.step = "write"
  BY <1>1 DEF RequestOK, IsRequest
<1>3. QED
  BY <1>1, <1>2, RequestStep DEF tables, search, DocumentsInv, SearchOK

LEMMA TrashReadKeeps ==
  ASSUME DocumentsInv, NEW h \in Handlers, NEW d \in Docs, TrashRead(h, d)
  PROVE  DocumentsInv' /\ GoneStay
<1>1. PICK r : r = row[d]
  OBVIOUS
<1>2. r \in Row
  BY <1>1, ExistingRows DEF DocumentsInv, TrashRead
<1>3. PICK q : q = [r EXCEPT !.stamped = FALSE]
  OBVIOUS
<1>4. PICK w : w = [r EXCEPT !.trashed = TRUE, !.stamped = TRUE]
  OBVIOUS
<1>5. /\ w \in Row
      /\ \A f \in DOMAIN w : w[f] # q[f] => f \in {"trashed", "stamped"}
  BY <1>2, <1>3, <1>4 DEF Row, Column
<1>6. PICK c : c = Changed(q, w)
  OBVIOUS
<1>7. IsChange(c) /\ DOMAIN c \subseteq {"trashed", "stamped", "status"}
  BY <1>5, <1>6, ChangesFit
<1>8. /\ req' = [req EXCEPT ![h] = [step |-> "write", doc |-> d, changes |-> c]]
      /\ UNCHANGED <<tables, search>>
  BY <1>1, <1>3, <1>4, <1>6 DEF TrashRead, Begin
<1>9. QED
  BY <1>7, <1>8, WriteReadKeeps

LEMMA RestoreReadKeeps ==
  ASSUME DocumentsInv, NEW h \in Handlers, NEW d \in Docs, RestoreRead(h, d)
  PROVE  DocumentsInv' /\ GoneStay
<1>1. PICK r : r = row[d]
  OBVIOUS
<1>2. r \in Row
  BY <1>1, ExistingRows DEF DocumentsInv, RestoreRead
<1>3. PICK w : w = [r EXCEPT !.trashed = FALSE, !.stamped = FALSE]
  OBVIOUS
<1>4. /\ w \in Row
      /\ \A f \in DOMAIN w : w[f] # r[f] => f \in {"trashed", "stamped"}
  BY <1>2, <1>3 DEF Row, Column
<1>5. PICK c : c = Changed(r, w)
  OBVIOUS
<1>6. IsChange(c) /\ DOMAIN c \subseteq {"trashed", "stamped", "status"}
  BY <1>4, <1>5, ChangesFit
<1>7. /\ req' = [req EXCEPT ![h] = [step |-> "write", doc |-> d, changes |-> c]]
      /\ UNCHANGED <<tables, search>>
  BY <1>1, <1>3, <1>5 DEF RestoreRead, Begin
<1>8. QED
  BY <1>6, <1>7, WriteReadKeeps

LEMMA UpdateStatusKeeps ==
  ASSUME DocumentsInv, NEW h \in Handlers, NEW d \in Docs, NEW status \in Statuses,
         UpdateStatus(h, d, status)
  PROVE  DocumentsInv' /\ GoneStay
<1>1. PICK r : r = row[d]
  OBVIOUS
<1>2. r \in Row
  BY <1>1, ExistingRows DEF DocumentsInv, UpdateStatus
<1>3. PICK w : w = [r EXCEPT !.status = status]
  OBVIOUS
<1>4. w \in Row /\ \A f \in DOMAIN w : w[f] # r[f] => f = "status"
  BY <1>2, <1>3 DEF Row, Column
<1>5. PICK c : c = Changed(r, w)
  OBVIOUS
<1>6. IsChange(c) /\ DOMAIN c \subseteq {"trashed", "stamped", "status"}
  BY <1>4, <1>5, ChangesFit
<1>7. /\ req' = [req EXCEPT ![h] = [step |-> "write", doc |-> d, changes |-> c]]
      /\ UNCHANGED <<tables, search>>
  BY <1>1, <1>3, <1>5 DEF UpdateStatus, Begin
<1>8. QED
  BY <1>6, <1>7, WriteReadKeeps

LEMMA WriteOtherKeeps ==
  ASSUME DocumentsInv, NEW h \in Handlers, NEW d \in Docs, WriteOther(h, d)
  PROVE  DocumentsInv' /\ GoneStay
<1>1. PICK c : c = [f \in {} |-> Null]
  OBVIOUS
<1>2. DOMAIN c = {} /\ IsChange(c)
  BY <1>1 DEF IsChange
<1>3. QED
  BY <1>1, <1>2, WriteReadKeeps DEF WriteOther, Begin

LEMMA PurgeParentReadKeeps ==
  ASSUME DocumentsInv, NEW h \in Handlers, NEW field \in {"customer", "project"},
         NEW p \in Of(field), PurgeParentRead(h, field, p)
  PROVE  DocumentsInv' /\ GoneStay
<1>1. PICK r : r = [step |-> "purge", field |-> field, parent |-> p,
                    docs |-> {d \in Existing : row[d][field] = p}]
  OBVIOUS
<1>2. RequestOK(r) /\ r.step = "purge"
  BY <1>1 DEF RequestOK, IsRequest, Existing
<1>3. QED
  BY <1>1, <1>2, RequestStep DEF PurgeParentRead, Begin, tables, search, DocumentsInv, SearchOK

-----------------------------------------------------------------------------
(***************************************************************************)
(* Writes.                                                                 *)
(***************************************************************************)
LEMMA CreateKeeps ==
  ASSUME DocumentsInv, NEW h \in Handlers, NEW d \in Docs, NEW f \in Forms, NEW b \in NewBatches,
         Create(h, d, f, b)
  PROVE  DocumentsInv' /\ GoneStay
<1>1. PICK r : r = [customer |-> f.customer, endUser |-> f.endUser,
                    project |-> f.project, company |-> f.company,
                    director |-> f.director, status |-> Draft,
                    currency |-> f.currency, total |-> TotalOf(b),
                    trashed |-> FALSE, stamped |-> FALSE]
  OBVIOUS
<1>2. b \in Batches \cup {Null}
  BY DEF NewBatches
<1>3. /\ f.customer \in Column.customer /\ f.endUser \in Column.endUser
      /\ f.project \in Column.project /\ f.company \in Column.company
      /\ f.director \in Column.director /\ f.currency \in Currencies /\ Draft \in Statuses
      /\ TotalOf(b) \in {TotalOf(x) : x \in Batches \cup {Null}}
  BY <1>2, DocumentsAssumption DEF Forms, Submission, Create
<1>4. /\ r \in Row
      /\ r.customer \in parents \cup {Null} /\ r.project \in parents \cup {Null}
  BY <1>1, <1>3 DEF Row, Column, Create, ParentsExist
<1>5. /\ row' = [row EXCEPT ![d] = r] /\ items' = [items EXCEPT ![d] = {b} \ {Null}]
      /\ UNCHANGED <<parents, audited, index>> /\ row[d] = NoDoc /\ Commits(h, d)
  BY <1>1 DEF Create
<1>6. req' = [req EXCEPT ![h] = [step |-> "refresh", doc |-> d]]
  BY DEF Create, Begin
<1>7. /\ RequestsOK' /\ req'[h] = [step |-> "refresh", doc |-> d]
      /\ \A s \in Handlers \ {h} : req'[s] = req[s]
  BY <1>6, FollowUpOK, RequestsKept
<1>8. TablesOK' /\ SearchOK'
  BY <1>2, <1>4, <1>5, CommitsRemembered, SearchKept DEF DocumentsInv, TablesOK
<1>9. /\ row'[d] = r
      /\ \A e \in Docs \ {d} : row'[e] = row[e] /\ items'[e] = items[e]
      /\ Existing' = Existing \cup {d}
  BY <1>4, <1>5, DocumentsAssumption DEF DocumentsInv, TablesOK, Existing
<1>10. ReferencesHold'
  BY <1>4, <1>5, <1>9 DEF DocumentsInv, ReferencesHold
<1>11. GoneStay
  BY <1>5, <1>7, <1>9, DocumentsAssumption DEF GoneStay, Vanished
<1>12. QED
  BY <1>7, <1>8, <1>10, <1>11 DEF DocumentsInv

\* An UPDATE of a document that is there, with references that are.
LEMMA RowWritten ==
  ASSUME DocumentsInv, NEW h \in Handlers, NEW d \in Docs, d \in Existing,
         NEW c, IsChange(c), KeysHold(c),
         NEW step \in {"refresh", "log"},
         row' = [row EXCEPT ![d] = Over(row[d], c)],
         items' \in [Docs -> SUBSET Batches],
         \A e \in Docs \ {d} : items'[e] = items[e],
         req' = [req EXCEPT ![h] = [step |-> step, doc |-> d]],
         UNCHANGED <<parents, audited, index>>, behind' \subseteq Docs
  PROVE  DocumentsInv' /\ GoneStay
<1>1. PICK r : r = Over(row[d], c)
  OBVIOUS
<1>2. row[d] \in Row
  BY ExistingRows DEF DocumentsInv
<1>3. r \in Row /\ \A f \in DOMAIN Column : r[f] = IF f \in DOMAIN c THEN c[f] ELSE row[d][f]
  BY <1>1, <1>2, OverRow
<1>4. \A f \in {"customer", "project"} : r[f] \in parents \cup {Null}
  <2>1. /\ row[d]["customer"] \in parents \cup {Null}
        /\ row[d]["project"] \in parents \cup {Null}
    BY DEF DocumentsInv, ReferencesHold
  <2>2. {"customer", "project"} \subseteq DOMAIN Column
    BY DEF Column
  <2>3. QED
    BY <1>3, <2>1, <2>2 DEF KeysHold
<1>5. /\ RequestsOK' /\ req'[h] = [step |-> step, doc |-> d]
      /\ \A s \in Handlers \ {h} : req'[s] = req[s]
  BY FollowUpOK, RequestsKept
<1>6. /\ row'[d] = r /\ \A e \in Docs \ {d} : row'[e] = row[e]
      /\ row' \in [Docs -> Row \cup {NoDoc, Purged}]
  BY <1>1, <1>3 DEF DocumentsInv, TablesOK
<1>7. TablesOK' /\ SearchOK'
  BY <1>6, SearchKept DEF DocumentsInv, TablesOK
<1>8. Existing' = Existing /\ row[d] # Purged
  BY <1>3, <1>6, DocumentsAssumption DEF Existing
<1>9. ReferencesHold'
  BY <1>4, <1>6, <1>8 DEF DocumentsInv, ReferencesHold
<1>10. GoneStay
  BY <1>5, <1>6, <1>8 DEF GoneStay, Vanished
<1>11. QED
  BY <1>5, <1>7, <1>9, <1>10 DEF DocumentsInv

LEMMA UpdateCommitKeeps ==
  ASSUME DocumentsInv, NEW h \in Handlers, UpdateCommit(h)
  PROVE  DocumentsInv' /\ GoneStay
<1>1. PICK d \in Docs : d = req[h].doc
  BY DEF DocumentsInv, RequestsOK, RequestOK, IsRequest, Idle, UpdateCommit
<1>2. IsChange(req[h].changes) /\ req[h].batch \in Batches \cup {Null}
  BY DEF DocumentsInv, RequestsOK, RequestOK, UpdateCommit
<1>3. ASSUME d \in Existing, KeysHold(req[h].changes)
      PROVE  DocumentsInv' /\ GoneStay
  <2>1. /\ row' = [row EXCEPT ![d] = Over(row[d], req[h].changes)]
        /\ items' = [items EXCEPT ![d] = (items[d] \ req[h].old) \cup ({req[h].batch} \ {Null})]
        /\ req' = [req EXCEPT ![h] = [step |-> "refresh", doc |-> d]]
        /\ UNCHANGED <<parents, audited, index>> /\ behind' \subseteq Docs
    BY <1>1, <1>3, CommitsRemembered DEF UpdateCommit, Proceed, DocumentsInv
  <2>2. /\ items' \in [Docs -> SUBSET Batches]
        /\ \A e \in Docs \ {d} : items'[e] = items[e]
    BY <1>2, <2>1 DEF DocumentsInv, TablesOK
  <2>3. QED
    BY <1>2, <1>3, <2>1, <2>2, RowWritten
<1>4. ASSUME ~(d \in Existing /\ KeysHold(req[h].changes))
      PROVE  DocumentsInv' /\ GoneStay
  <2>1. /\ req' = [req EXCEPT ![h] = Idle] /\ Idle.step = "idle"
        /\ UNCHANGED <<row, items, parents, audited, index>> /\ behind' \subseteq Docs
    BY <1>1, <1>4 DEF UpdateCommit, End, Proceed, Idle, DocumentsInv, SearchOK
  <2>2. QED
    BY <2>1, IdleOK, RequestStep
<1>5. QED
  BY <1>3, <1>4

LEMMA WriteCommitKeeps ==
  ASSUME DocumentsInv, NEW h \in Handlers, WriteCommit(h)
  PROVE  DocumentsInv' /\ GoneStay
<1>1. PICK d \in Docs : d = req[h].doc
  BY DEF DocumentsInv, RequestsOK, RequestOK, IsRequest, Idle, WriteCommit
<1>2. IsChange(req[h].changes) /\ KeysHold(req[h].changes)
  BY DEF DocumentsInv, RequestsOK, RequestOK, KeysHold, WriteCommit
<1>3. ASSUME d \in Existing
      PROVE  DocumentsInv' /\ GoneStay
  <2>1. /\ row' = [row EXCEPT ![d] = Over(row[d], req[h].changes)]
        /\ req' = [req EXCEPT ![h] = [step |-> "log", doc |-> d]]
        /\ UNCHANGED <<items, parents, audited, index>> /\ behind' \subseteq Docs
    BY <1>1, <1>3 DEF WriteCommit, Proceed, search, DocumentsInv, SearchOK
  <2>2. QED
    BY <1>2, <1>3, <2>1, RowWritten DEF DocumentsInv, TablesOK
<1>4. ASSUME d \notin Existing
      PROVE  DocumentsInv' /\ GoneStay
  <2>1. /\ req' = [req EXCEPT ![h] = Idle] /\ Idle.step = "idle"
        /\ UNCHANGED <<row, items, parents, audited, index>> /\ behind' \subseteq Docs
    BY <1>1, <1>4 DEF WriteCommit, End, Proceed, Idle, search, DocumentsInv, SearchOK
  <2>2. QED
    BY <2>1, IdleOK, RequestStep
<1>5. QED
  BY <1>3, <1>4

\* The index and the audit trail.
LEMMA Enqueued ==
  ASSUME SearchOK, NEW d \in Docs, NEW record \in Record \cup {Null}, Enqueue(d, record)
  PROVE  /\ SearchOK'
         /\ index'[d] = Append(index[d], record) /\ Latest(d)' = record
         /\ \A e \in Docs \ {d} : index'[e] = index[e]
<1>1. index' = [index EXCEPT ![d] = Append(index[d], record)] /\ UNCHANGED behind
  BY DEF Enqueue
<1>2. index[d] \in Seq(Record \cup {Null}) /\ Len(index[d]) \in Nat /\ Len(index[d]) <= MaxTasks
  BY DEF SearchOK, Enqueue
<1>3. PICK q : q = Append(index[d], record)
  OBVIOUS
<1>4. /\ q \in Seq(Record \cup {Null}) /\ Len(q) = Len(index[d]) + 1
      /\ q[Len(index[d]) + 1] = record
  BY <1>2, <1>3
<1>5. /\ index'[d] = q /\ \A e \in Docs \ {d} : index'[e] = index[e]
      /\ index' \in [Docs -> Seq(Record \cup {Null})]
  BY <1>1, <1>3, <1>4 DEF SearchOK
<1>6. Len(q) \in 1 .. MaxTasks + 1
  BY <1>2, <1>4, DocumentsAssumption
<1>7. SearchOK'
  BY <1>1, <1>5, <1>6 DEF SearchOK
<1>8. QED
  BY <1>3, <1>4, <1>5, <1>7 DEF Latest

LEMMA PushKeeps ==
  ASSUME DocumentsInv, NEW h \in Handlers, Push(h)
  PROVE  DocumentsInv' /\ GoneStay
<1>1. PICK d \in Docs : d = req[h].doc
  BY DEF DocumentsInv, RequestsOK, RequestOK, IsRequest, Idle, Push
<1>2. /\ UNCHANGED <<row, items, parents, audited>>
      /\ Enqueue(d, req[h].record)
      /\ req' = [req EXCEPT ![h] = [step |-> "log", doc |-> d]]
      /\ req[h].step = "push" /\ req[h].record \in Record
  BY <1>1 DEF DocumentsInv, RequestsOK, RequestOK, Push, Proceed, tables
<1>3. /\ RequestsOK' /\ req'[h] = [step |-> "log", doc |-> d]
      /\ \A s \in Handlers \ {h} : req'[s] = req[s]
  BY <1>2, FollowUpOK, RequestsKept
<1>4. SearchOK' /\ \A e \in Docs \ {d} : index'[e] = index[e]
  BY <1>2, Enqueued DEF DocumentsInv
<1>5. TablesOK' /\ ReferencesHold'
  BY <1>2 DEF DocumentsInv, TablesOK, ReferencesHold, Existing
<1>6. ~Vanished(d)
  BY <1>1, <1>2 DEF Vanished
<1>7. GoneStay
  BY <1>2, <1>3, <1>4, <1>6 DEF GoneStay, Vanished
<1>8. QED
  BY <1>3, <1>4, <1>5, <1>7 DEF DocumentsInv

LEMMA CarriedOut ==
  ASSUME SearchOK, NEW d \in Docs, CarryOut(d)
  PROVE  /\ SearchOK'
         /\ \A e \in Docs : Latest(e)' = Latest(e)
         /\ \A i \in DOMAIN index'[d] : i + 1 \in DOMAIN index[d] /\ index'[d][i] = index[d][i + 1]
         /\ \A e \in Docs \ {d} : index'[e] = index[e]
<1>1. index' = [index EXCEPT ![d] = Tail(index[d])] /\ UNCHANGED behind
  BY DEF CarryOut
<1>2. PICK q : q = index[d]
  OBVIOUS
<1>3. /\ q \in Seq(Record \cup {Null}) /\ Len(q) \in 2 .. MaxTasks + 1 /\ Len(q) \in Nat
  BY <1>2, DocumentsAssumption DEF SearchOK, CarryOut
<1>4. PICK t : t = Tail(q)
  OBVIOUS
<1>5. /\ t \in Seq(Record \cup {Null}) /\ Len(t) = Len(q) - 1
      /\ \A i \in 1 .. Len(t) : t[i] = q[i + 1]
  BY <1>3, <1>4
<1>6. /\ DOMAIN t = 1 .. Len(t) /\ DOMAIN q = 1 .. Len(q)
      /\ Len(t) \in 1 .. MaxTasks + 1 /\ t[Len(t)] = q[Len(q)]
  BY <1>3, <1>5, DocumentsAssumption
<1>7. /\ index'[d] = t /\ \A e \in Docs \ {d} : index'[e] = index[e]
      /\ index' \in [Docs -> Seq(Record \cup {Null})]
  BY <1>1, <1>2, <1>4, <1>5 DEF SearchOK
<1>8. SearchOK'
  BY <1>1, <1>6, <1>7 DEF SearchOK
<1>9. \A e \in Docs : Latest(e)' = Latest(e)
  BY <1>2, <1>6, <1>7 DEF Latest
<1>10. \A i \in DOMAIN t : i + 1 \in DOMAIN q /\ t[i] = q[i + 1]
  BY <1>3, <1>5, <1>6
<1>11. QED
  BY <1>2, <1>7, <1>8, <1>9, <1>10

LEMMA CarryOutKeeps ==
  ASSUME DocumentsInv, NEW d \in Docs, CarryOut(d)
  PROVE  DocumentsInv' /\ GoneStay
<1>1. UNCHANGED <<row, items, parents, audited, req>>
  BY DEF CarryOut, tables
<1>2. /\ SearchOK' /\ \A e \in Docs \ {d} : index'[e] = index[e]
      /\ \A i \in DOMAIN index'[d] : i + 1 \in DOMAIN index[d] /\ index'[d][i] = index[d][i + 1]
  BY CarriedOut DEF DocumentsInv
<1>3. TablesOK' /\ ReferencesHold' /\ RequestsOK'
  BY <1>1 DEF DocumentsInv, TablesOK, ReferencesHold, RequestsOK, Existing
<1>4. ASSUME NEW e \in Docs, Vanished(e) PROVE Vanished(e)'
  BY <1>1, <1>2, <1>4 DEF Vanished
<1>5. QED
  BY <1>2, <1>3, <1>4 DEF DocumentsInv, GoneStay

LEMMA LogKeeps ==
  ASSUME DocumentsInv, NEW h \in Handlers, Log(h)
  PROVE  DocumentsInv' /\ GoneStay
<1>1. /\ UNCHANGED <<row, items, parents, index, behind>>
      /\ audited' = audited \cup ({req[h].doc} \cap Existing)
      /\ req' = [req EXCEPT ![h] = Idle]
      /\ Idle.step = "idle"
  BY DEF Log, End, Proceed, Idle, search
<1>2. /\ RequestsOK' /\ req'[h] = Idle /\ \A s \in Handlers \ {h} : req'[s] = req[s]
  BY <1>1, IdleOK, RequestsKept
<1>3. Existing' = Existing /\ Existing \subseteq Docs
  BY <1>1 DEF Existing
<1>4. TablesOK' /\ SearchOK' /\ ReferencesHold'
  BY <1>1, <1>3 DEF DocumentsInv, TablesOK, SearchOK, ReferencesHold
<1>5. GoneStay
  BY <1>1, <1>2 DEF GoneStay, Vanished
<1>6. QED
  BY <1>2, <1>4, <1>5 DEF DocumentsInv

LEMMA PurgeKeeps ==
  ASSUME DocumentsInv, NEW h \in Handlers, NEW d \in Docs, Purge(h, d)
  PROVE  DocumentsInv' /\ GoneStay
<1>1. /\ UNCHANGED <<parents, index>> /\ Commits(h, d)
      /\ row' = [row EXCEPT ![d] = Purged] /\ items' = [items EXCEPT ![d] = {}]
      /\ audited' = audited \ {d}
      /\ req' = [req EXCEPT ![h] = [step |-> "remove", doc |-> d]]
  BY DEF Purge, Begin
<1>2. /\ RequestsOK' /\ req'[h] = [step |-> "remove", doc |-> d]
      /\ \A s \in Handlers \ {h} : req'[s] = req[s]
  BY <1>1, FollowUpOK, RequestsKept
<1>3. TablesOK' /\ SearchOK'
  BY <1>1, CommitsRemembered, SearchKept DEF DocumentsInv, TablesOK
<1>4. /\ row'[d] = Purged /\ items'[d] = {}
      /\ \A e \in Docs \ {d} : row'[e] = row[e] /\ items'[e] = items[e]
      /\ Existing' = Existing \ {d}
  BY <1>1 DEF DocumentsInv, TablesOK, Existing
<1>5. ReferencesHold'
  BY <1>1, <1>4 DEF DocumentsInv, ReferencesHold
<1>6. GoneStay
  BY <1>1, <1>2, <1>4 DEF GoneStay, Vanished
<1>7. QED
  BY <1>2, <1>3, <1>5, <1>6 DEF DocumentsInv

LEMMA RemoveKeeps ==
  ASSUME DocumentsInv, NEW h \in Handlers, Remove(h)
  PROVE  DocumentsInv' /\ GoneStay
<1>1. PICK d \in Docs : d = req[h].doc
  BY DEF DocumentsInv, RequestsOK, RequestOK, IsRequest, Idle, Remove
<1>2. /\ UNCHANGED <<row, items, parents, audited>>
      /\ Enqueue(d, Null)
      /\ req' = [req EXCEPT ![h] = Idle]
      /\ Idle.step = "idle"
  BY <1>1 DEF Remove, End, Proceed, tables, Idle
<1>3. /\ RequestsOK' /\ req'[h] = Idle /\ \A s \in Handlers \ {h} : req'[s] = req[s]
  BY <1>2, IdleOK, RequestsKept
<1>4. /\ SearchOK' /\ index'[d] = Append(index[d], Null)
      /\ \A e \in Docs \ {d} : index'[e] = index[e]
  BY <1>2, Enqueued DEF DocumentsInv
<1>5. TablesOK' /\ ReferencesHold'
  BY <1>2 DEF DocumentsInv, TablesOK, ReferencesHold, Existing
<1>6. ASSUME NEW e \in Docs, Vanished(e) PROVE Vanished(e)'
  <2>1. \A i \in DOMAIN index'[e] : index'[e][i] = Null
    <3>1. CASE e = d
      <4>1. PICK q : q = index[d]
        OBVIOUS
      <4>2. /\ q \in Seq(Record \cup {Null}) /\ Len(q) \in Nat /\ DOMAIN q = 1 .. Len(q)
            /\ \A i \in DOMAIN q : q[i] = Null
        BY <1>6, <3>1, <4>1 DEF DocumentsInv, SearchOK, Vanished
      <4>3. \A i \in DOMAIN Append(q, Null) : Append(q, Null)[i] = Null
        BY <4>2
      <4>4. QED
        BY <1>4, <3>1, <4>1, <4>3
    <3>2. CASE e # d
      BY <1>4, <1>6, <3>2 DEF Vanished
    <3>3. QED
      BY <3>1, <3>2
  <2>2. QED
    BY <1>2, <1>3, <1>6, <2>1 DEF Vanished
<1>7. QED
  BY <1>3, <1>4, <1>5, <1>6 DEF DocumentsInv, GoneStay

LEMMA ClearedRow ==
  ASSUME NEW r \in Row, NEW field \in {"customer", "project"}
  PROVE  /\ Clear(r, field) \in Row
         /\ Clear(r, field)[field] = Null
         /\ \A f \in DOMAIN Column \ {field} : Clear(r, field)[f] = r[f]
<1>1. PICK c : c = [f \in {field} |-> Null]
  OBVIOUS
<1>2. /\ DOMAIN c = {field} /\ c[field] = Null
      /\ {"customer", "project"} \subseteq DOMAIN Column
      /\ Null \in Column["customer"] /\ Null \in Column["project"]
  BY <1>1 DEF Column
<1>3. IsChange(c)
  BY <1>2 DEF IsChange
<1>4. Clear(r, field) = Over(r, c)
  BY <1>1 DEF Clear
<1>5. QED
  BY <1>2, <1>3, <1>4, OverRow

LEMMA PurgeParentCommitKeeps ==
  ASSUME DocumentsInv, NEW h \in Handlers, PurgeParentCommit(h)
  PROVE  DocumentsInv' /\ GoneStay
<1>1. PICK field \in {"customer", "project"} : field = req[h].field
  BY DEF DocumentsInv, RequestsOK, RequestOK, PurgeParentCommit
<1>2. PICK p \in Of(field) : p = req[h].parent
  BY <1>1 DEF DocumentsInv, RequestsOK, RequestOK, PurgeParentCommit
<1>3. PICK cleared : cleared = [d \in Docs |-> IF d \in req[h].docs THEN Clear(row[d], field)
                                                                     ELSE row[d]]
  OBVIOUS
<1>4. /\ req' = [req EXCEPT ![h] = Idle] /\ Idle.step = "idle"
      /\ UNCHANGED <<items, audited, index>> /\ behind' \subseteq Docs
  <2>1. req[h].docs \subseteq Docs
    BY DEF DocumentsInv, RequestsOK, RequestOK, IsRequest, Idle, PurgeParentCommit
  <2>2. QED
    BY <2>1 DEF PurgeParentCommit, End, Proceed, Idle, DocumentsInv, SearchOK
<1>5. ASSUME ~ /\ req[h].docs \subseteq Existing
               /\ \A d \in Existing : cleared[d][field] # p
      PROVE  DocumentsInv' /\ GoneStay
  <2>1. UNCHANGED <<row, parents>>
    BY <1>1, <1>2, <1>3, <1>5 DEF PurgeParentCommit
  <2>2. QED
    BY <1>4, <2>1, IdleOK, RequestStep
<1>6. ASSUME /\ req[h].docs \subseteq Existing
             /\ \A d \in Existing : cleared[d][field] # p
      PROVE  DocumentsInv' /\ GoneStay
  <2>1. row' = cleared /\ parents' = parents \ {p}
    BY <1>1, <1>2, <1>3, <1>6 DEF PurgeParentCommit
  <2>2. \A d \in Existing :
          /\ cleared[d] \in Row
          /\ cleared[d][field] \in {row[d][field], Null}
          /\ \A f \in DOMAIN Column \ {field} : cleared[d][f] = row[d][f]
    <3> SUFFICES ASSUME NEW d \in Existing
                 PROVE  /\ cleared[d] \in Row
                        /\ cleared[d][field] \in {row[d][field], Null}
                        /\ \A f \in DOMAIN Column \ {field} : cleared[d][f] = row[d][f]
      OBVIOUS
    <3>1. d \in Docs /\ row[d] \in Row
      BY ExistingRows DEF DocumentsInv, Existing
    <3>2. QED
      BY <1>3, <3>1, ClearedRow
  <2>3. \A d \in Docs \ Existing : cleared[d] = row[d]
    BY <1>3, <1>6
  <2>4. row' \in [Docs -> Row \cup {NoDoc, Purged}]
    BY <1>3, <2>1, <2>2, <2>3 DEF DocumentsInv, TablesOK, Existing
  <2>5. Existing' = Existing
    BY <2>1, <2>2, <2>3, DocumentsAssumption DEF Existing
  <2>6. TablesOK' /\ SearchOK'
    BY <1>4, <2>1, <2>4, SearchKept DEF DocumentsInv, TablesOK
  <2>7. \A d \in Existing : \A f \in {"customer", "project"} : cleared[d][f] \in parents' \cup {Null}
    <3> SUFFICES ASSUME NEW d \in Existing, NEW f \in {"customer", "project"}
                 PROVE  cleared[d][f] \in parents' \cup {Null}
      OBVIOUS
    <3>1. row[d][f] \in parents \cup {Null}
      BY DEF DocumentsInv, ReferencesHold
    <3>2. CASE f = field
      BY <1>6, <2>1, <2>2, <3>1, <3>2
    <3>3. ASSUME f # field
          PROVE  cleared[d][f] \in parents' \cup {Null}
      <4>1. row[d] \in Row
        BY ExistingRows DEF DocumentsInv, Existing
      <4>2. row[d][f] \in Column[f]
        BY <4>1, RowColumns DEF Column
      <4>3. row[d][f] # p
        BY <1>2, <3>3, <4>2, DocumentsAssumption DEF Of, Column
      <4>4. f \in DOMAIN Column \ {field}
        BY <3>3 DEF Column
      <4>5. QED
        BY <2>1, <2>2, <3>1, <4>3, <4>4
    <3>4. QED
      BY <3>2, <3>3
  <2>8. ReferencesHold'
    BY <1>4, <2>1, <2>5, <2>7 DEF DocumentsInv, ReferencesHold
  <2>9. /\ RequestsOK' /\ req'[h] = Idle /\ \A s \in Handlers \ {h} : req'[s] = req[s]
    BY <1>4, IdleOK, RequestsKept
  <2>10. GoneStay
    BY <1>4, <2>1, <2>3, <2>9 DEF GoneStay, Vanished, Existing
  <2>11. QED
    BY <2>6, <2>8, <2>9, <2>10 DEF DocumentsInv
<1>7. QED
  BY <1>5, <1>6

-----------------------------------------------------------------------------
LEMMA DocumentsInit == Init => DocumentsInv
<1> SUFFICES ASSUME Init PROVE DocumentsInv
  OBVIOUS
<1>1. TablesOK /\ SearchOK
  <2>1. <<Null>> \in Seq(Record \cup {Null}) /\ Len(<<Null>>) = 1 /\ 1 \in 1 .. MaxTasks + 1
    BY DocumentsAssumption
  <2>2. QED
    BY <2>1 DEF Init, TablesOK, SearchOK
<1>2. RequestsOK
  BY IdleOK DEF Init, RequestsOK
<1>3. Existing = {}
  BY DEF Init, Existing
<1>4. ReferencesHold
  BY <1>3 DEF Init, ReferencesHold
<1>5. QED
  BY <1>1, <1>2, <1>4 DEF DocumentsInv

LEMMA DocumentsStep ==
  ASSUME DocumentsInv, [Next]_vars
  PROVE  DocumentsInv' /\ GoneStay
<1>1. CASE Edit
  BY <1>1, CreateKeeps, UpdateReadKeeps, UpdateLoadItemsKeeps, UpdateCommitKeeps, RefreshKeeps,
     GatherKeeps, PushKeeps, LogKeeps DEF Edit
<1>2. CASE RecycleBin
  BY <1>2, TrashReadKeeps, RestoreReadKeeps, PurgeKeeps, WriteCommitKeeps, RemoveKeeps
     DEF RecycleBin
<1>3. CASE Other
  BY <1>3, UpdateStatusKeeps, WriteOtherKeeps, ViewKeeps DEF Other
<1>4. CASE PurgeParent
  BY <1>4, PurgeParentReadKeeps, PurgeParentCommitKeeps DEF PurgeParent
<1>5. CASE Failure
  BY <1>5, PushFailsKeeps, EndKeeps DEF Failure
<1>6. ASSUME UNCHANGED vars
      PROVE  DocumentsInv' /\ GoneStay
  <2>1. UNCHANGED <<row, items, parents, audited, index, behind, req>>
    BY <1>6 DEF vars, tables, search
  <2>2. TablesOK' /\ SearchOK' /\ ReferencesHold' /\ RequestsOK'
    BY <2>1 DEF DocumentsInv, TablesOK, SearchOK, ReferencesHold, RequestsOK, Existing
  <2>3. GoneStay
    BY <2>1 DEF GoneStay, Vanished
  <2>4. QED
    BY <2>2, <2>3 DEF DocumentsInv
<1>7. CASE \E d \in Docs : CarryOut(d)
  BY <1>7, CarryOutKeeps
<1>8. QED
  BY <1>1, <1>2, <1>3, <1>4, <1>5, <1>6, <1>7 DEF Next, Service

-----------------------------------------------------------------------------
(***************************************************************************)
(* The index.                                                              *)
(***************************************************************************)
LEMMA RequestChanged ==
  ASSUME DocumentsInv, NEW h \in Handlers, NEW r, req' = [req EXCEPT ![h] = r]
  PROVE  req'[h] = r /\ \A s \in Handlers \ {h} : req'[s] = req[s]
  BY DEF DocumentsInv, RequestsOK

\* A step that leaves the index of a document as it is, and its row and items
\* right for whatever was right about them.
LEMMA DocumentKept ==
  ASSUME IndexInv, NEW h \in Handlers, NEW r, req' = [req EXCEPT ![h] = r],
         NEW d \in Docs, d \notin behind' => d \notin behind,
         items'[d] = items[d], d \in Existing' <=> d \in Existing, Latest(d)' = Latest(d),
         d \in Existing /\ d \notin behind' => \A rec : Agrees(rec, d) => Agrees(rec, d)',
         d \notin behind' => Fresh(r, d)' /\ (Pending(req[h], d) => Pending(r, d)')
  PROVE  DocOK(d)'
<1> SUFFICES ASSUME d \notin behind'
             PROVE  /\ \A s \in Handlers : Fresh(req[s], d)'
                    /\ Settled(d)' \/ \E s \in Handlers : Pending(req[s], d)'
  BY DEF DocOK, Fresh, Pending, Unpushed
<1>1. req'[h] = r /\ \A s \in Handlers \ {h} : req'[s] = req[s]
  BY RequestChanged DEF IndexInv
<1>2. /\ \A s \in Handlers : Fresh(req[s], d)
      /\ Settled(d) \/ \E s \in Handlers : Pending(req[s], d)
  <2>1. DocOK(d) /\ d \notin behind
    BY DEF IndexInv
  <2>2. QED
    BY <2>1 DEF DocOK
<1>3. \A s \in Handlers \ {h} : Fresh(req[s], d)'
  BY <1>1, <1>2 DEF Fresh
<1>4. Fresh(req[h], d)'
  BY <1>1 DEF Fresh
<1>5. ASSUME Settled(d) PROVE Settled(d)'
  <2>1. PICK x : x = Latest(d)
    OBVIOUS
  <2>2. d \in Existing => x # Null /\ Agrees(x, d)'
    BY <1>5, <2>1 DEF Settled
  <2>3. d \notin Existing => x = Null
    BY <1>5, <2>1 DEF Settled
  <2>4. Settled(d)' = IF d \in Existing' THEN Latest(d)' # Null /\ Agrees(Latest(d), d)'
                                        ELSE Latest(d)' = Null
    BY DEF Settled
  <2>5. Agrees(x, d)' => Agrees(Latest(d), d)'
    BY <2>1 DEF Agrees
  <2>6. QED
    BY <2>1, <2>2, <2>3, <2>4, <2>5
<1>6. ASSUME NEW s \in Handlers, Pending(req[s], d)
      PROVE  Pending(req[s], d)'
  <2>1. CASE s = h
    BY <1>1, <1>6, <2>1 DEF Pending, Unpushed
  <2>2. CASE s # h
    BY <1>1, <1>6, <2>2 DEF Pending, Unpushed
  <2>3. QED
    BY <2>1, <2>2
<1>7. QED
  BY <1>2, <1>3, <1>4, <1>5, <1>6

\* Nothing that a request is about to push or remove changes.
LEMMA QuietIndex ==
  ASSUME IndexInv, NEW h \in Handlers, NEW r, req' = [req EXCEPT ![h] = r],
         UNCHANGED <<row, items, parents, index>>, behind \subseteq behind',
         r.step \notin {"gather", "push", "remove"},
         Unpushed(req[h]) => req[h].doc \in behind'
  PROVE  IndexKept
<1>1. Existing' = Existing /\ \A d : Latest(d)' = Latest(d)
  BY DEF Existing, Latest
<1>2. RemovesPurged'
  BY RequestChanged DEF IndexInv, RemovesPurged
<1>3. ASSUME NEW d \in Docs
      PROVE  DocOK(d)'
  <2>1. Fresh(r, d)'
    BY DEF Fresh
  <2>2. d \notin behind' => ~Pending(req[h], d)
    BY DEF Pending
  <2>3. \A rec : Agrees(rec, d) => Agrees(rec, d)'
    BY DEF Agrees
  <2>4. QED
    BY <1>1, <2>1, <2>2, <2>3, DocumentKept
<1>4. QED
  BY <1>2, <1>3 DEF IndexKept

\* What begins with a read.
LEMMA BeginsQuietly ==
  ASSUME IndexInv, NEW h \in Handlers, NEW r, Begin(h, r), UNCHANGED <<tables, search>>,
         r.step \in {"load", "write", "log", "purge"}
  PROVE  IndexKept
<1>1. /\ UNCHANGED <<row, items, parents, index, behind>>
      /\ req' = [req EXCEPT ![h] = r] /\ ~Unpushed(req[h])
  BY DEF Begin, Idle, Unpushed, tables, search
<1>2. QED
  BY <1>1, QuietIndex

LEMMA WritesBeginQuietly ==
  ASSUME IndexInv, NEW h \in Handlers, NEW d \in Docs,
         \/ TrashRead(h, d) \/ RestoreRead(h, d) \/ WriteOther(h, d) \/ View(h, d)
         \/ \E status \in Statuses : UpdateStatus(h, d, status)
  PROVE  IndexKept
<1>1. CASE TrashRead(h, d)
  <2>1. PICK c : Begin(h, [step |-> "write", doc |-> d, changes |-> c])
    BY <1>1 DEF TrashRead
  <2>2. QED
    BY <1>1, <2>1, BeginsQuietly DEF TrashRead
<1>2. CASE RestoreRead(h, d)
  <2>1. PICK c : Begin(h, [step |-> "write", doc |-> d, changes |-> c])
    BY <1>2 DEF RestoreRead
  <2>2. QED
    BY <1>2, <2>1, BeginsQuietly DEF RestoreRead
<1>3. CASE WriteOther(h, d)
  <2>1. PICK c : Begin(h, [step |-> "write", doc |-> d, changes |-> c])
    BY <1>3 DEF WriteOther
  <2>2. QED
    BY <1>3, <2>1, BeginsQuietly DEF WriteOther
<1>4. CASE View(h, d)
  BY <1>4, BeginsQuietly DEF View
<1>5. ASSUME NEW status \in Statuses, UpdateStatus(h, d, status)
      PROVE  IndexKept
  <2>1. PICK c : Begin(h, [step |-> "write", doc |-> d, changes |-> c])
    BY <1>5 DEF UpdateStatus
  <2>2. QED
    BY <1>5, <2>1, BeginsQuietly DEF UpdateStatus
<1>6. QED
  BY <1>1, <1>2, <1>3, <1>4, <1>5

LEMMA OthersBeginQuietly ==
  ASSUME IndexInv, NEW h \in Handlers,
         \/ \E d \in Docs, f \in Forms, b \in NewBatches : UpdateRead(h, d, f, b)
         \/ \E field \in {"customer", "project"} : \E p \in Of(field) : PurgeParentRead(h, field, p)
  PROVE  IndexKept
<1>1. ASSUME NEW d \in Docs, NEW f \in Forms, NEW b \in NewBatches, UpdateRead(h, d, f, b)
      PROVE  IndexKept
  <2>1. PICK c : Begin(h, [step |-> "load", doc |-> d, changes |-> c, batch |-> b])
    BY <1>1 DEF UpdateRead
  <2>2. QED
    BY <1>1, <2>1, BeginsQuietly DEF UpdateRead
<1>2. ASSUME NEW field \in {"customer", "project"}, NEW p \in Of(field),
             PurgeParentRead(h, field, p)
      PROVE  IndexKept
  <2>1. PICK docs : Begin(h, [step |-> "purge", field |-> field, parent |-> p, docs |-> docs])
    BY <1>2 DEF PurgeParentRead
  <2>2. QED
    BY <1>2, <2>1, BeginsQuietly DEF PurgeParentRead
<1>3. QED
  BY <1>1, <1>2

LEMMA LoadItemsIndex ==
  ASSUME IndexInv, NEW h \in Handlers, UpdateLoadItems(h)
  PROVE  IndexKept
<1>1. PICK r : r = [step |-> "update", doc |-> req[h].doc, changes |-> req[h].changes,
                    batch |-> req[h].batch, old |-> items[req[h].doc]]
  OBVIOUS
<1>2. r.step = "update"
  BY <1>1
<1>3. /\ UNCHANGED <<row, items, parents, index, behind>>
      /\ req' = [req EXCEPT ![h] = r] /\ ~Unpushed(req[h])
  BY <1>1 DEF UpdateLoadItems, Proceed, Unpushed, tables, search
<1>4. QED
  BY <1>2, <1>3, QuietIndex

LEMMA LogIndex ==
  ASSUME IndexInv, NEW h \in Handlers, Log(h)
  PROVE  IndexKept
<1>1. /\ UNCHANGED <<row, items, parents, index, behind>>
      /\ req' = [req EXCEPT ![h] = Idle] /\ ~Unpushed(req[h]) /\ Idle.step = "idle"
  BY DEF Log, End, Proceed, Idle, Unpushed, search
<1>2. QED
  BY <1>1, QuietIndex

\* A push or a removal is lost, or the request is.
LEMMA FailureLeavesBehind ==
  ASSUME IndexInv, Failure
  PROVE  IndexKept
<1>1. PICK h \in Handlers : PushFails(h) \/ RemoveFails(h) \/ Crash(h)
  BY DEF Failure
<1>2. UNCHANGED <<row, items, parents, index>>
  BY <1>1 DEF PushFails, RemoveFails, Crash, tables
<1>3. behind \subseteq behind' /\ (Unpushed(req[h]) => req[h].doc \in behind')
  BY <1>1 DEF PushFails, RemoveFails, Crash
<1>4. PICK r : req' = [req EXCEPT ![h] = r] /\ r.step \in {"log", "idle"}
  BY <1>1 DEF PushFails, RemoveFails, Crash, Proceed, End, Idle
<1>5. QED
  BY <1>2, <1>3, <1>4, QuietIndex

\* After a commit its request alone will push, or remove, what it wrote; or
\* the index is left behind.
LEMMA Committed ==
  ASSUME IndexInv, NEW h \in Handlers, NEW d \in Docs, NEW step \in {"refresh", "remove"},
         req' = [req EXCEPT ![h] = [step |-> step, doc |-> d]],
         step = "refresh" => d \in Existing', step = "remove" => row'[d] = Purged,
         row[d] # Purged,
         Commits(h, d), ~Unpushed(req[h]),
         \A e \in Docs \ {d} : row'[e] = row[e] /\ items'[e] = items[e],
         UNCHANGED <<parents, index>>
  PROVE  IndexKept
<1> PICK r : r = [step |-> step, doc |-> d]
  OBVIOUS
<1>1. /\ r.step = step /\ r.doc = d /\ req' = [req EXCEPT ![h] = r]
      /\ req'[h] = r /\ \A s \in Handlers \ {h} : req'[s] = req[s]
  <2>1. r.step = step /\ r.doc = d /\ req' = [req EXCEPT ![h] = r]
    OBVIOUS
  <2>2. QED
    BY <2>1, RequestChanged DEF IndexInv
<1>2. RemovesPurged'
  <2>1. \A s \in Handlers \ {h} : req[s].step = "remove" => req[s].doc \in Docs \ {d}
    BY DEF IndexInv, RemovesPurged, DocumentsInv, RequestsOK, RequestOK, IsRequest, Idle
  <2>2. QED
    BY <1>1, <2>1 DEF IndexInv, RemovesPurged
<1>3. DocOK(d)'
  <2>1. d \notin behind' => \A s \in Handlers \ {h} :
                              ~(req[s].step \in {"gather", "push"} /\ req[s].doc = d)
    BY DEF Commits
  <2>2. d \notin behind' => \A s \in Handlers : Fresh(req[s], d)'
    BY <1>1, <2>1 DEF Fresh
  <2>3. d \in Existing' <=> step # "remove"
    BY DEF Existing
  <2>4. Pending(req[h], d)'
    BY <1>1, <2>3 DEF Pending, Unpushed
  <2>5. QED
    BY <2>2, <2>4 DEF DocOK, Fresh, Pending, Unpushed
<1>4. ASSUME NEW e \in Docs, e # d
      PROVE  DocOK(e)'
  <2>1. (e \in Existing' <=> e \in Existing) /\ Latest(e)' = Latest(e) /\ items'[e] = items[e]
    BY <1>4 DEF Existing, Latest
  <2>2. \A rec : Agrees(rec, e) => Agrees(rec, e)'
    BY <1>4 DEF Agrees
  <2>3. Fresh(r, e)' /\ ~Pending(req[h], e)
    BY <1>1, <1>4 DEF Fresh, Pending
  <2>4. e \notin behind' => e \notin behind
    BY <1>4 DEF Commits
  <2>5. QED
    BY <1>1, <2>1, <2>2, <2>3, <2>4, DocumentKept
<1>5. QED
  BY <1>2, <1>3, <1>4 DEF IndexKept

LEMMA CreateIndex ==
  ASSUME IndexInv, DocumentsInv', NEW h \in Handlers, NEW d \in Docs, NEW f \in Forms,
         NEW b \in NewBatches, Create(h, d, f, b)
  PROVE  IndexKept
<1>1. /\ req' = [req EXCEPT ![h] = [step |-> "refresh", doc |-> d]] /\ ~Unpushed(req[h])
      /\ Commits(h, d) /\ UNCHANGED <<parents, index>> /\ row[d] = NoDoc
  BY DEF Create, Begin, Unpushed, Idle
<1>2. \A e \in Docs \ {d} : row'[e] = row[e] /\ items'[e] = items[e]
  BY DEF Create, IndexInv, DocumentsInv, TablesOK
<1>3. d \in Existing'
  <2>1. PICK q : q = [customer |-> f.customer, endUser |-> f.endUser,
                      project |-> f.project, company |-> f.company,
                      director |-> f.director, status |-> Draft,
                      currency |-> f.currency, total |-> TotalOf(b),
                      trashed |-> FALSE, stamped |-> FALSE]
    OBVIOUS
  <2>2. row'[d] = q /\ q.trashed = FALSE
    BY <2>1 DEF Create, IndexInv, DocumentsInv, TablesOK
  <2>3. row'[d] \in Row
    <3>1. b \in Batches \cup {Null}
      BY DEF NewBatches
    <3>2. /\ f.customer \in Column.customer /\ f.endUser \in Column.endUser
          /\ f.project \in Column.project /\ f.company \in Column.company
          /\ f.director \in Column.director /\ f.currency \in Currencies /\ Draft \in Statuses
          /\ TotalOf(b) \in {TotalOf(x) : x \in Batches \cup {Null}}
      BY <3>1, DocumentsAssumption DEF Forms, Submission, Create
    <3>3. QED
      BY <2>1, <2>2, <3>2 DEF Row, Column
  <2>4. QED
    BY <2>3, DocumentsAssumption DEF Existing
<1>4. QED
  BY <1>1, <1>2, <1>3, DocumentsAssumption, Committed

LEMMA UpdateCommitIndex ==
  ASSUME IndexInv, NEW h \in Handlers, UpdateCommit(h)
  PROVE  IndexKept
<1>1. PICK d \in Docs : d = req[h].doc
  BY DEF IndexInv, DocumentsInv, RequestsOK, RequestOK, IsRequest, Idle, UpdateCommit
<1>2. ~Unpushed(req[h]) /\ IsChange(req[h].changes)
  BY DEF IndexInv, DocumentsInv, RequestsOK, RequestOK, UpdateCommit, Unpushed
<1>3. ASSUME d \in Existing, KeysHold(req[h].changes)
      PROVE  IndexKept
  <2>1. PICK w : w = Over(row[d], req[h].changes)
    OBVIOUS
  <2>2. /\ req' = [req EXCEPT ![h] = [step |-> "refresh", doc |-> d]]
        /\ Commits(h, d) /\ UNCHANGED <<parents, index>>
        /\ row' = [row EXCEPT ![d] = w]
    BY <1>1, <1>3, <2>1 DEF UpdateCommit, Proceed
  <2>3. \A e \in Docs \ {d} : items'[e] = items[e]
    BY <1>1, <1>3 DEF UpdateCommit, Proceed, IndexInv, DocumentsInv, TablesOK
  <2>4. row[d] \in Row
    BY <1>3, ExistingRows DEF IndexInv, DocumentsInv
  <2>5. w \in Row
    BY <1>2, <2>1, <2>4, OverRow
  <2>6. row'[d] = w /\ \A e \in Docs \ {d} : row'[e] = row[e]
    BY <2>2 DEF IndexInv, DocumentsInv, TablesOK
  <2>7. d \in Existing' /\ row[d] # Purged
    BY <2>4, <2>5, <2>6, DocumentsAssumption DEF Existing
  <2>8. QED
    BY <1>2, <2>2, <2>3, <2>6, <2>7, Committed
<1>4. ASSUME ~(d \in Existing /\ KeysHold(req[h].changes))
      PROVE  IndexKept
  <2>1. /\ req' = [req EXCEPT ![h] = Idle] /\ Idle.step = "idle"
        /\ UNCHANGED <<row, items, parents, index, behind>>
    BY <1>1, <1>4 DEF UpdateCommit, End, Proceed, Idle
  <2>2. QED
    BY <1>2, <2>1, QuietIndex
<1>5. QED
  BY <1>3, <1>4

LEMMA PurgeIndex ==
  ASSUME IndexInv, NEW h \in Handlers, NEW d \in Docs, Purge(h, d)
  PROVE  IndexKept
<1>1. /\ req' = [req EXCEPT ![h] = [step |-> "remove", doc |-> d]]
      /\ Commits(h, d) /\ UNCHANGED <<parents, index>>
      /\ row[d] # Purged /\ ~Unpushed(req[h])
  BY DEF Purge, Begin, Existing, Unpushed, Idle
<1>2. /\ row'[d] = Purged
      /\ \A e \in Docs \ {d} : row'[e] = row[e] /\ items'[e] = items[e]
  BY DEF Purge, IndexInv, DocumentsInv, TablesOK
<1>3. QED
  BY <1>1, <1>2, Committed

\* Columns that the index is not asked about.
LEMMA WriteCommitIndex ==
  ASSUME IndexInv, NEW h \in Handlers, WriteCommit(h)
  PROVE  IndexKept
<1>1. PICK d \in Docs : d = req[h].doc
  BY DEF IndexInv, DocumentsInv, RequestsOK, RequestOK, IsRequest, Idle, WriteCommit
<1>2. PICK c : c = req[h].changes
  OBVIOUS
<1>3. /\ IsChange(c) /\ DOMAIN c \subseteq {"trashed", "stamped", "status"} /\ ~Unpushed(req[h])
  BY <1>2 DEF IndexInv, DocumentsInv, RequestsOK, RequestOK, WriteCommit, Unpushed
<1>4. ASSUME d \in Existing
      PROVE  IndexKept
  <2>1. PICK r : r = [step |-> "log", doc |-> d]
    OBVIOUS
  <2>2. PICK w : w = Over(row[d], c)
    OBVIOUS
  <2>3. /\ req' = [req EXCEPT ![h] = r] /\ UNCHANGED <<items, parents, index, behind>>
        /\ row' = [row EXCEPT ![d] = w]
    BY <1>1, <1>2, <1>4, <2>1, <2>2 DEF WriteCommit, Proceed, search
  <2>4. row[d] \in Row
    BY <1>4, ExistingRows DEF IndexInv, DocumentsInv
  <2>5. w \in Row /\ \A f \in DOMAIN Column : w[f] = IF f \in DOMAIN c THEN c[f] ELSE row[d][f]
    BY <1>3, <2>2, <2>4, OverRow
  <2>6. {"customer", "endUser", "project", "currency", "total"} \subseteq DOMAIN Column
    BY DEF Column
  <2>7. \A f \in {"customer", "endUser", "project", "currency", "total"} : w[f] = row[d][f]
    BY <1>3, <2>5, <2>6
  <2>8. row'[d] = w /\ \A e \in Docs \ {d} : row'[e] = row[e]
    BY <2>3 DEF IndexInv, DocumentsInv, TablesOK
  <2>9. Existing' = Existing /\ row[d] # Purged /\ \A e : Latest(e)' = Latest(e)
    BY <1>4, <2>3, <2>5, <2>8, DocumentsAssumption DEF Existing, Latest
  <2>10. \A e \in Docs : \A rec : Agrees(rec, e) => Agrees(rec, e)'
    BY <2>3, <2>7, <2>8 DEF Agrees
  <2>11. \A s \in Handlers : req[s].step = "remove" => req[s].doc \in Docs \ {d}
    BY <2>9 DEF IndexInv, RemovesPurged, DocumentsInv, RequestsOK, RequestOK, IsRequest, Idle
  <2>12. RemovesPurged'
    BY <2>1, <2>3, <2>8, <2>11, RequestChanged DEF IndexInv, RemovesPurged
  <2>13. ASSUME NEW e \in Docs PROVE DocOK(e)'
    <3>1. Fresh(r, e)' /\ ~Pending(req[h], e)
      BY <1>3, <2>1 DEF Fresh, Pending
    <3>2. QED
      BY <2>3, <2>9, <2>10, <3>1, DocumentKept
  <2>14. QED
    BY <2>12, <2>13 DEF IndexKept
<1>5. ASSUME d \notin Existing
      PROVE  IndexKept
  <2>1. /\ req' = [req EXCEPT ![h] = Idle] /\ Idle.step = "idle"
        /\ UNCHANGED <<row, items, parents, index, behind>>
    BY <1>1, <1>5 DEF WriteCommit, End, Proceed, Idle, search
  <2>2. QED
    BY <1>3, <2>1, QuietIndex
<1>6. QED
  BY <1>4, <1>5

\* What is read of a document after its commit.
LEMMA RefreshIndex ==
  ASSUME IndexInv, NEW h \in Handlers, Refresh(h)
  PROVE  IndexKept
<1>1. PICK d \in Docs : d = req[h].doc
  BY DEF IndexInv, DocumentsInv, RequestsOK, RequestOK, IsRequest, Idle, Refresh
<1>2. PICK r : r = IF d \in Existing THEN [step |-> "gather", doc |-> d, loaded |-> row[d]]
                                     ELSE Idle
  OBVIOUS
<1>3. /\ UNCHANGED <<row, items, parents, index, behind>> /\ req' = [req EXCEPT ![h] = r]
      /\ req[h].step = "refresh" /\ req[h].doc = d
  BY <1>1, <1>2 DEF Refresh, Proceed, tables, search
<1>4. r.step \in {"gather", "idle"} /\ (r.step = "gather" <=> d \in Existing)
  BY <1>2 DEF Idle
<1>5. r.step = "gather" => r.doc = d /\ r.loaded = row[d]
  BY <1>2, <1>4
<1>6. RemovesPurged'
  BY <1>3, <1>4, RequestChanged DEF IndexInv, RemovesPurged
<1>7. ASSUME NEW e \in Docs
      PROVE  DocOK(e)'
  <2>1. Existing' = Existing /\ Latest(e)' = Latest(e) /\ \A rec : Agrees(rec, e) => Agrees(rec, e)'
    BY <1>3 DEF Existing, Latest, Agrees
  <2>2. Agrees(Indexed(row[d], items[d]), d)
    BY DEF Agrees, Indexed
  <2>3. Fresh(r, e)'
    <3>1. CASE e = d /\ d \in Existing
      BY <1>4, <1>5, <2>1, <2>2, <3>1, <1>3 DEF Fresh, Agrees
    <3>2. CASE ~(e = d /\ d \in Existing)
      BY <1>4, <1>5, <3>2 DEF Fresh
    <3>3. QED
      BY <3>1, <3>2
  <2>4. Pending(req[h], e) => Pending(r, e)'
    BY <1>3, <1>4, <1>5, <2>1 DEF Pending, Unpushed
  <2>5. QED
    BY <1>3, <2>1, <2>3, <2>4, DocumentKept
<1>8. QED
  BY <1>6, <1>7 DEF IndexKept

LEMMA GatherIndex ==
  ASSUME IndexInv, NEW h \in Handlers, Gather(h)
  PROVE  IndexKept
<1>1. PICK d \in Docs : d = req[h].doc
  BY DEF IndexInv, DocumentsInv, RequestsOK, RequestOK, IsRequest, Idle, Gather
<1>2. PICK record : record = Indexed(req[h].loaded, items[d])
  OBVIOUS
<1>3. PICK r : r = [step |-> "push", doc |-> d, record |-> record]
  OBVIOUS
<1>4. /\ UNCHANGED <<row, items, parents, index, behind>> /\ req' = [req EXCEPT ![h] = r]
      /\ req[h].step = "gather" /\ req[h].doc = d
      /\ r.step = "push" /\ r.doc = d /\ r.record = record
  BY <1>1, <1>2, <1>3 DEF Gather, Proceed, tables, search
<1>5. RemovesPurged'
  BY <1>4, RequestChanged DEF IndexInv, RemovesPurged
<1>6. ASSUME NEW e \in Docs
      PROVE  DocOK(e)'
  <2>1. Existing' = Existing /\ Latest(e)' = Latest(e) /\ \A rec : Agrees(rec, e) => Agrees(rec, e)'
    BY <1>4 DEF Existing, Latest, Agrees
  <2>2. e \notin behind => Fresh(r, e)'
    <3>1. e \notin behind => Fresh(req[h], e)
      BY DEF IndexInv, DocOK
    <3>2. CASE e = d
      BY <1>2, <1>4, <2>1, <3>1, <3>2 DEF Fresh
    <3>3. CASE e # d
      BY <1>4, <3>3 DEF Fresh
    <3>4. QED
      BY <3>2, <3>3
  <2>3. Pending(req[h], e) => Pending(r, e)'
    BY <1>4, <2>1 DEF Pending, Unpushed
  <2>4. QED
    BY <1>4, <2>1, <2>2, <2>3, DocumentKept
<1>7. QED
  BY <1>5, <1>6 DEF IndexKept

\* A task that is accepted sets the index right about its document.
LEMMA EnqueuedIndex ==
  ASSUME IndexInv, NEW h \in Handlers, NEW r, req' = [req EXCEPT ![h] = r],
         NEW d \in Docs, NEW record \in Record \cup {Null}, Enqueue(d, record),
         UNCHANGED <<row, items, parents>>, req[h].doc = d,
         r.step \notin {"gather", "push", "remove"},
         d \notin behind => IF record = Null THEN d \notin Existing
                                           ELSE d \in Existing /\ Agrees(record, d)
  PROVE  IndexKept
<1>1. /\ Latest(d)' = record /\ \A e \in Docs \ {d} : index'[e] = index[e]
      /\ Existing' = Existing /\ UNCHANGED behind
  BY Enqueued DEF IndexInv, DocumentsInv, Enqueue, Existing
<1>2. req'[h] = r /\ \A s \in Handlers \ {h} : req'[s] = req[s]
  BY RequestChanged DEF IndexInv
<1>3. RemovesPurged'
  BY <1>2 DEF IndexInv, RemovesPurged
<1>4. \A e, rec : Agrees(rec, e) => Agrees(rec, e)'
  BY DEF Agrees
<1>5. DocOK(d)'
  <2> SUFFICES ASSUME d \notin behind'
               PROVE  (\A s \in Handlers : Fresh(req[s], d)') /\ Settled(d)'
    BY DEF DocOK
  <2>1. \A s \in Handlers : Fresh(req[s], d)
    <3>1. DocOK(d) /\ d \notin behind
      BY <1>1 DEF IndexInv
    <3>2. QED
      BY <3>1 DEF DocOK
  <2>2. \A s \in Handlers \ {h} : Fresh(req[s], d)'
    BY <1>1, <1>2, <1>4, <2>1 DEF Fresh
  <2>3. Fresh(req[h], d)'
    BY <1>2 DEF Fresh
  <2>4. Settled(d)'
    <3>1. CASE record = Null
      BY <1>1, <3>1 DEF Settled
    <3>2. CASE record # Null
      <4>1. Agrees(record, d)' /\ d \in Existing'
        BY <1>1, <1>4, <3>2
      <4>2. Agrees(record, d)' => Agrees(Latest(d), d)'
        BY <1>1 DEF Agrees
      <4>3. QED
        BY <1>1, <3>2, <4>1, <4>2 DEF Settled
    <3>3. QED
      BY <3>1, <3>2
  <2>5. QED
    BY <2>2, <2>3, <2>4
<1>6. ASSUME NEW e \in Docs, e # d
      PROVE  DocOK(e)'
  <2>1. Latest(e)' = Latest(e)
    BY <1>1, <1>6 DEF Latest
  <2>2. Fresh(r, e)' /\ ~Pending(req[h], e)
    BY <1>6 DEF Fresh, Pending
  <2>3. QED
    BY <1>1, <1>4, <2>1, <2>2, DocumentKept
<1>7. QED
  BY <1>3, <1>5, <1>6 DEF IndexKept

LEMMA PushIndex ==
  ASSUME IndexInv, NEW h \in Handlers, Push(h)
  PROVE  IndexKept
<1>1. PICK d \in Docs : d = req[h].doc
  BY DEF IndexInv, DocumentsInv, RequestsOK, RequestOK, IsRequest, Idle, Push
<1>2. PICK r : r = [step |-> "log", doc |-> d]
  OBVIOUS
<1>3. /\ UNCHANGED <<row, items, parents>> /\ Enqueue(d, req[h].record)
      /\ req' = [req EXCEPT ![h] = r] /\ r.step = "log"
      /\ req[h].step = "push" /\ req[h].record \in Record /\ req[h].record # Null
  BY <1>1, <1>2, DocumentsAssumption
     DEF IndexInv, DocumentsInv, RequestsOK, RequestOK, Push, Proceed, tables
<1>4. d \notin behind => d \in Existing /\ Agrees(req[h].record, d)
  <2>1. DocOK(d)
    BY DEF IndexInv
  <2>2. d \notin behind => Fresh(req[h], d)
    BY <2>1 DEF DocOK
  <2>3. QED
    BY <1>1, <1>3, <2>2 DEF Fresh
<1>5. QED
  BY <1>1, <1>3, <1>4, EnqueuedIndex

LEMMA RemoveIndex ==
  ASSUME IndexInv, NEW h \in Handlers, Remove(h)
  PROVE  IndexKept
<1>1. PICK d \in Docs : d = req[h].doc
  BY DEF IndexInv, DocumentsInv, RequestsOK, RequestOK, IsRequest, Idle, Remove
<1>2. /\ UNCHANGED <<row, items, parents>> /\ Enqueue(d, Null)
      /\ req' = [req EXCEPT ![h] = Idle] /\ Idle.step = "idle"
  BY <1>1 DEF Remove, End, Proceed, Idle, tables
<1>3. d \notin Existing
  BY <1>1 DEF IndexInv, RemovesPurged, Remove, Existing
<1>4. QED
  BY <1>1, <1>2, <1>3, EnqueuedIndex

\* No request, and nothing of the tables, changes.
LEMMA IndexUntouched ==
  ASSUME IndexInv, UNCHANGED <<row, items, parents, behind, req>>,
         \A d \in Docs : Latest(d)' = Latest(d)
  PROVE  IndexKept
<1>1. Existing' = Existing /\ \A d, rec : Agrees(rec, d)' = Agrees(rec, d)
  BY DEF Existing, Agrees
<1>2. RemovesPurged'
  BY DEF IndexInv, RemovesPurged
<1>3. ASSUME NEW d \in Docs
      PROVE  DocOK(d)'
  <2>1. DocOK(d)
    BY DEF IndexInv
  <2>2. \A s \in Handlers : /\ Fresh(req[s], d) => Fresh(req[s], d)'
                            /\ Pending(req[s], d) => Pending(req[s], d)'
    BY <1>1 DEF Fresh, Pending, Unpushed
  <2>3. Agrees(Latest(d), d)' = Agrees(Latest(d), d)
    BY DEF Agrees
  <2>4. Settled(d) => Settled(d)'
    BY <1>1, <2>3 DEF Settled
  <2>5. QED
    BY <2>1, <2>2, <2>4 DEF DocOK
<1>4. QED
  BY <1>2, <1>3 DEF IndexKept

\* A reference to what is purged is cleared, and the index is not told.
LEMMA PurgeParentCommitIndex ==
  ASSUME IndexInv, NEW h \in Handlers, PurgeParentCommit(h)
  PROVE  IndexKept
<1>1. PICK field \in {"customer", "project"} : field = req[h].field
  BY DEF IndexInv, DocumentsInv, RequestsOK, RequestOK, PurgeParentCommit
<1>2. PICK p \in Of(field) : p = req[h].parent
  BY <1>1 DEF IndexInv, DocumentsInv, RequestsOK, RequestOK, PurgeParentCommit
<1>3. PICK cleared : cleared = [d \in Docs |-> IF d \in req[h].docs THEN Clear(row[d], field)
                                                                     ELSE row[d]]
  OBVIOUS
<1>4. /\ req' = [req EXCEPT ![h] = Idle] /\ Idle.step = "idle" /\ ~Unpushed(req[h])
      /\ UNCHANGED <<items, index>>
  BY DEF PurgeParentCommit, End, Proceed, Idle, Unpushed
<1>5. ASSUME ~ /\ req[h].docs \subseteq Existing
               /\ \A d \in Existing : cleared[d][field] # p
      PROVE  IndexKept
  <2>1. UNCHANGED <<row, parents, behind>>
    BY <1>1, <1>2, <1>3, <1>5 DEF PurgeParentCommit
  <2>2. QED
    BY <1>4, <2>1, QuietIndex
<1>6. ASSUME /\ req[h].docs \subseteq Existing
             /\ \A d \in Existing : cleared[d][field] # p
      PROVE  IndexKept
  <2>1. /\ row' = cleared /\ parents' = parents \ {p}
        /\ behind' = behind \cup {d \in req[h].docs : row[d][field] \notin {p, Null}}
    BY <1>1, <1>2, <1>3, <1>6 DEF PurgeParentCommit
  <2>2. \A d \in Docs \ req[h].docs : row'[d] = row[d]
    BY <1>3, <2>1
  <2>3. ASSUME NEW d \in req[h].docs
        PROVE  /\ row'[d] \in Row /\ row'[d][field] = Null
               /\ \A f \in {"customer", "project", "endUser", "currency", "total"} \ {field} :
                     row'[d][f] = row[d][f]
    <3>1. d \in Docs /\ row[d] \in Row
      BY <1>6, ExistingRows DEF IndexInv, DocumentsInv, Existing
    <3>2. row'[d] = Clear(row[d], field)
      BY <1>3, <2>1, <3>1
    <3>3. {"customer", "project", "endUser", "currency", "total"} \subseteq DOMAIN Column
      BY DEF Column
    <3>4. QED
      BY <3>1, <3>2, <3>3, ClearedRow
  <2>4. Existing' = Existing
    BY <1>6, <2>2, <2>3, DocumentsAssumption DEF Existing
  <2>5. RemovesPurged'
    <3>1. \A s \in Handlers : req[s].step = "remove" => req[s].doc \in Docs \ req[h].docs
      BY <1>6 DEF IndexInv, RemovesPurged, DocumentsInv, RequestsOK, RequestOK, IsRequest, Idle,
                  Existing
    <3>2. QED
      BY <1>4, <2>2, <3>1, RequestChanged DEF IndexInv, RemovesPurged
  <2>6. ASSUME NEW d \in Docs
        PROVE  DocOK(d)'
    <3>1. ASSUME d \notin behind', NEW rec, Agrees(rec, d)
          PROVE  Agrees(rec, d)'
      <4>1. CASE d \notin req[h].docs
        BY <1>4, <2>1, <2>2, <3>1, <4>1 DEF Agrees
      <4>2. ASSUME d \in req[h].docs
            PROVE  Agrees(rec, d)'
        <5>1. row[d][field] \in {p, Null}
          BY <2>1, <3>1, <4>2
        <5>2. CASE field = "customer"
          BY <1>2, <1>4, <2>1, <2>3, <3>1, <4>2, <5>1, <5>2 DEF Agrees, Of
        <5>3. CASE field = "project"
          BY <1>2, <1>4, <2>1, <2>3, <3>1, <4>2, <5>1, <5>3 DEF Agrees, Of
        <5>4. QED
          BY <5>2, <5>3
      <4>3. QED
        BY <4>1, <4>2
    <3>2. Latest(d)' = Latest(d) /\ Fresh(Idle, d)' /\ ~Pending(req[h], d)
      BY <1>4 DEF Latest, Fresh, Pending
    <3>3. QED
      BY <1>4, <2>1, <2>4, <3>1, <3>2, DocumentKept
  <2>7. QED
    BY <2>5, <2>6 DEF IndexKept
<1>7. QED
  BY <1>5, <1>6

LEMMA IndexInit == Init => IndexInv
<1> SUFFICES ASSUME Init PROVE IndexInv
  OBVIOUS
<1>1. DocumentsInv
  BY DocumentsInit
<1>2. Existing = {} /\ \A h \in Handlers : req[h].step = "idle"
  BY DEF Init, Existing, Idle
<1>3. \A d \in Docs : Latest(d) = Null
  BY DEF Init, Latest
<1>4. RemovesPurged /\ \A d \in Docs : DocOK(d)
  BY <1>2, <1>3 DEF RemovesPurged, DocOK, Settled, Fresh
<1>5. QED
  BY <1>1, <1>4 DEF IndexInv

LEMMA IndexStep ==
  ASSUME IndexInv, [Next]_vars
  PROVE  IndexInv'
<1>1. DocumentsInv'
  BY DocumentsStep DEF IndexInv
<1>2. CASE Edit
  BY <1>1, <1>2, CreateIndex, OthersBeginQuietly, LoadItemsIndex, UpdateCommitIndex, RefreshIndex,
     GatherIndex, PushIndex, LogIndex DEF Edit, IndexKept, IndexInv
<1>3. CASE RecycleBin
  BY <1>1, <1>3, WritesBeginQuietly, PurgeIndex, WriteCommitIndex, RemoveIndex
     DEF RecycleBin, IndexKept, IndexInv
<1>4. CASE Other
  BY <1>1, <1>4, WritesBeginQuietly DEF Other, IndexKept, IndexInv
<1>5. CASE PurgeParent
  BY <1>1, <1>5, OthersBeginQuietly, PurgeParentCommitIndex DEF PurgeParent, IndexKept, IndexInv
<1>6. CASE Failure
  BY <1>1, <1>6, FailureLeavesBehind DEF IndexKept, IndexInv
<1>7. ASSUME NEW d \in Docs, CarryOut(d)
      PROVE  IndexInv'
  <2>1. UNCHANGED <<row, items, parents, behind, req>> /\ \A e \in Docs : Latest(e)' = Latest(e)
    BY <1>7, CarriedOut DEF CarryOut, tables, IndexInv, DocumentsInv
  <2>2. QED
    BY <1>1, <2>1, IndexUntouched DEF IndexKept, IndexInv
<1>8. ASSUME UNCHANGED vars
      PROVE  IndexInv'
  <2>1. UNCHANGED <<row, items, parents, index, behind, req>>
    BY <1>8 DEF vars, tables, search
  <2>2. \A d \in Docs : Latest(d)' = Latest(d)
    BY <2>1 DEF Latest
  <2>3. QED
    BY <1>1, <2>1, <2>2, IndexUntouched DEF IndexKept, IndexInv
<1>9. QED
  BY <1>2, <1>3, <1>4, <1>5, <1>6, <1>7, <1>8 DEF Next, Service

LEMMA FollowsBetweenRequests == IndexInv => IndexFollows
<1> SUFFICES ASSUME IndexInv, AllIdle, NEW d \in Docs \ behind PROVE Settled(d)
  BY DEF IndexFollows, Settled, Agrees
<1>1. \A h \in Handlers : ~Pending(req[h], d)
  BY DEF AllIdle, Pending, Unpushed, Idle
<1>2. QED
  BY <1>1 DEF IndexInv, DocOK

-----------------------------------------------------------------------------
\* Every reachable state has the types that TypeOK states.
THEOREM DocumentsTyped == Spec => []TypeOK
<1>1. DocumentsInv /\ [Next]_vars => DocumentsInv'
  BY DocumentsStep
<1>2. QED
  BY DocumentsInit, InvTyped, <1>1, PTL DEF Spec

\* No document refers to a customer or project that is gone, and a purged one
\* leaves no line item and no audit entry, however requests interleave, fail
\* or are cut off.
THEOREM DocumentReferences == Spec => []ReferencesHold
<1>1. DocumentsInv /\ [Next]_vars => DocumentsInv'
  BY DocumentsStep
<1>2. DocumentsInv => ReferencesHold
  BY DEF DocumentsInv
<1>3. QED
  BY DocumentsInit, <1>1, <1>2, PTL DEF Spec

\* Between requests the index has, or will have, what the documents have but
\* for those it was left behind on, however requests interleave, fail or are
\* cut off.
THEOREM IndexFollowsDocuments == Spec => []IndexFollows
<1>1. IndexInv /\ [Next]_vars => IndexInv'
  BY IndexStep
<1>2. QED
  BY IndexInit, FollowsBetweenRequests, <1>1, PTL DEF Spec

\* A purged document that is out of the index, with no task of it left and no
\* push of it under way, never comes back.
THEOREM VanishedForGood == Spec => VanishedStaysVanished
<1>1. DocumentsInv /\ [Next]_vars => DocumentsInv'
  BY DocumentsStep
<1>2. DocumentsInv /\ [Next]_vars => [\A d \in Docs : Vanished(d) => Vanished(d)']_vars
  BY DocumentsStep DEF GoneStay
<1>3. QED
  BY DocumentsInit, <1>1, <1>2, PTL DEF Spec, VanishedStaysVanished
=============================================================================
