-------------------------- MODULE VisibilityProofs ---------------------------
(***************************************************************************)
(* Proofs about Visibility, for any documents, projects, products, line    *)
(* items and number of readers.                                            *)
(*                                                                         *)
(* What a reader is shown needs nothing of the service but the types of    *)
(* its tables, and what a search finds follows from what DocumentsProofs   *)
(* proves of the index.  That the columns of a document agree needs that   *)
(* one request writes at a time: then what it has read is what it writes   *)
(* over (RowsInv), whatever crashes and whether or not the index answers.  *)
(***************************************************************************)
EXTENDS Visibility, DocumentsProofs

OneAtATime == \A g, h \in Handlers : g = h

RowOK(r) ==
  /\ r.customer # Null => r.endUser = Null
  /\ r.director # Null => DirectorOf[r.director] = r.company
  /\ r.trashed = r.stamped

TotalOK(d) ==
  \E b \in Batches \cup {Null} : items[d] = {b} \ {Null} /\ row[d].total = TotalOf(b)

RowsOK == \A d \in Existing : RowOK(row[d]) /\ TotalOK(d)

\* What a request that will write has read of the tables is what they have.
Current(r) ==
  /\ r.step \in {"load", "update"} =>
       /\ r.doc \in Existing
       /\ \E f \in Forms : r.changes = Changed(row[r.doc], Wanted(row[r.doc], f, r.batch))
  /\ r.step = "update" => r.old = items[r.doc]
  /\ r.step = "write" =>
       /\ r.doc \in Existing
       /\ Over(row[r.doc], r.changes).trashed = Over(row[r.doc], r.changes).stamped

RequestsCurrent == \A h \in Handlers : Current(req[h])

RowsInv == DocumentsInv /\ RowsOK /\ RequestsCurrent

\* What a step owes to the rows.
RowsKept == RowsOK' /\ RequestsCurrent'

-----------------------------------------------------------------------------
LEMMA RowsAgree == RowsOK <=> RowsConsistent
  BY DEF RowsOK, RowOK, TotalOK, RowsConsistent, OneEndUser, DirectorOfCompany, TotalMatchesItems,
         StampedWhileTrashed

LEMMA ExistingTyped ==
  ASSUME DocumentsInv
  PROVE  \A d \in Existing : d \in Docs /\ row[d] \in Row
  BY ExistingRows DEF DocumentsInv, Existing

\* Written over what it was compared with, a change gives what was wanted.
LEMMA OverChanged ==
  ASSUME NEW q \in Row, NEW r \in Row
  PROVE  Over(q, Changed(q, r)) = r
<1>1. /\ DOMAIN q = DOMAIN Column /\ DOMAIN r = DOMAIN Column
      /\ r = [f \in DOMAIN Column |-> r[f]]
  BY DEF Row, Column
<1>2. PICK c : c = Changed(q, r)
  OBVIOUS
<1>3. /\ DOMAIN c = {f \in DOMAIN r : r[f] # q[f]}
      /\ \A f \in DOMAIN c : c[f] = r[f]
  BY <1>2 DEF Changed
<1>4. Over(q, c) = [f \in DOMAIN Column |-> IF f \in DOMAIN c THEN c[f] ELSE q[f]]
  BY <1>1 DEF Over
<1>5. \A f \in DOMAIN Column : (IF f \in DOMAIN c THEN c[f] ELSE q[f]) = r[f]
  BY <1>1, <1>3
<1>6. QED
  BY <1>1, <1>2, <1>4, <1>5

\* The only request is the one that takes the step.
LEMMA OnlyRequest ==
  ASSUME OneAtATime, DocumentsInv, NEW h \in Handlers, NEW r, req' = [req EXCEPT ![h] = r]
  PROVE  \A s \in Handlers : s = h /\ req'[s] = r
  BY DEF OneAtATime, DocumentsInv, RequestsOK

\* A step that leaves the rows as they are.
LEMMA QuietRows ==
  ASSUME OneAtATime, RowsInv, NEW h \in Handlers, NEW r, req' = [req EXCEPT ![h] = r],
         UNCHANGED <<row, items>>, Current(r)
  PROVE  RowsKept
<1>1. \A s \in Handlers : s = h /\ req'[s] = r
  BY OnlyRequest DEF RowsInv
<1>2. Existing' = Existing
  BY DEF Existing
<1>3. RowsOK'
  BY <1>2 DEF RowsInv, RowsOK, TotalOK
<1>4. RequestsCurrent'
  BY <1>1, <1>2 DEF RequestsCurrent, Current
<1>5. QED
  BY <1>3, <1>4 DEF RowsKept

\* A request that will write nothing from what it has read.
LEMMA NoWrite ==
  ASSUME NEW r, r.step \notin {"load", "update", "write"}
  PROVE  Current(r)
  BY DEF Current

-----------------------------------------------------------------------------
(***************************************************************************)
(* Reads, pushes, log entries and failures.                                *)
(***************************************************************************)
LEMMA UpdateReadAlone ==
  ASSUME OneAtATime, RowsInv, NEW h \in Handlers, NEW d \in Docs, NEW f \in Forms,
         NEW b \in NewBatches, UpdateRead(h, d, f, b)
  PROVE  RowsKept
<1>1. PICK r : r = [step |-> "load", doc |-> d,
                    changes |-> Changed(row[d], Wanted(row[d], f, b)), batch |-> b]
  OBVIOUS
<1>2. Current(r)
  BY <1>1 DEF Current, UpdateRead
<1>3. req' = [req EXCEPT ![h] = r] /\ UNCHANGED <<row, items>>
  BY <1>1 DEF UpdateRead, Begin, tables
<1>4. QED
  BY <1>2, <1>3, QuietRows

LEMMA UpdateLoadItemsAlone ==
  ASSUME OneAtATime, RowsInv, NEW h \in Handlers, UpdateLoadItems(h)
  PROVE  RowsKept
<1>1. PICK r : r = [step |-> "update", doc |-> req[h].doc, changes |-> req[h].changes,
                    batch |-> req[h].batch, old |-> items[req[h].doc]]
  OBVIOUS
<1>2. Current(r)
  BY <1>1 DEF RowsInv, RequestsCurrent, Current, UpdateLoadItems
<1>3. req' = [req EXCEPT ![h] = r] /\ UNCHANGED <<row, items>>
  BY <1>1 DEF UpdateLoadItems, Proceed, tables
<1>4. QED
  BY <1>2, <1>3, QuietRows

LEMMA FollowUpsAlone ==
  ASSUME OneAtATime, RowsInv, NEW h \in Handlers,
         \/ Refresh(h) \/ Gather(h) \/ Push(h) \/ Log(h) \/ Remove(h)
         \/ PushFails(h) \/ RemoveFails(h) \/ Crash(h)
         \/ \E d \in Docs : View(h, d)
         \/ \E field \in {"customer", "project"} : \E p \in Of(field) : PurgeParentRead(h, field, p)
  PROVE  RowsKept
<1>1. UNCHANGED <<row, items>>
  BY DEF Refresh, Gather, Push, Log, Remove, PushFails, RemoveFails, Crash, View, PurgeParentRead,
         tables
<1> DEFINE Plain(r) == req' = [req EXCEPT ![h] = r] /\ r.step \notin {"load", "update", "write"}
<1>2. ASSUME NEW r, Plain(r) PROVE RowsKept
  BY <1>1, <1>2, NoWrite, QuietRows
<1>3. CASE Refresh(h)
  <2>1. PICK r : r = IF req[h].doc \in Existing
                       THEN [step |-> "gather", doc |-> req[h].doc, loaded |-> row[req[h].doc]]
                       ELSE Idle
    OBVIOUS
  <2>2. r.step \in {"gather", "idle"}
    BY <2>1 DEF Idle
  <2>3. Plain(r)
    BY <1>3, <2>1, <2>2 DEF Refresh, Proceed
  <2>4. QED
    BY <1>2, <2>3
<1>4. CASE Gather(h)
  <2>1. PICK r : r = [step |-> "push", doc |-> req[h].doc,
                      record |-> Indexed(req[h].loaded, items[req[h].doc])]
    OBVIOUS
  <2>2. Plain(r)
    BY <1>4, <2>1 DEF Gather, Proceed
  <2>3. QED
    BY <1>2, <2>2
<1>5. CASE Push(h) \/ PushFails(h)
  <2>1. PICK r : r = [step |-> "log", doc |-> req[h].doc]
    OBVIOUS
  <2>2. Plain(r)
    BY <1>5, <2>1 DEF Push, PushFails, Proceed
  <2>3. QED
    BY <1>2, <2>2
<1>6. CASE Log(h) \/ Remove(h) \/ RemoveFails(h) \/ Crash(h)
  <2>1. Plain(Idle)
    BY <1>6 DEF Log, Remove, RemoveFails, Crash, End, Proceed, Idle
  <2>2. QED
    BY <1>2, <2>1
<1>7. ASSUME NEW d \in Docs, View(h, d) PROVE RowsKept
  <2>1. PICK r : r = [step |-> "log", doc |-> d]
    OBVIOUS
  <2>2. Plain(r)
    BY <1>7, <2>1 DEF View, Begin
  <2>3. QED
    BY <1>2, <2>2
<1>8. ASSUME NEW field \in {"customer", "project"}, NEW p \in Of(field),
             PurgeParentRead(h, field, p)
      PROVE  RowsKept
  <2>1. PICK r : r = [step |-> "purge", field |-> field, parent |-> p,
                      docs |-> {d \in Existing : row[d][field] = p}]
    OBVIOUS
  <2>2. Plain(r)
    BY <1>8, <2>1 DEF PurgeParentRead, Begin
  <2>3. QED
    BY <1>2, <2>2
<1>9. QED
  BY <1>3, <1>4, <1>5, <1>6, <1>7, <1>8

\* Trash, restore, status and the columns left out: who deleted a document is known
\* exactly when it is deleted.
LEMMA WriteReadAlone ==
  ASSUME OneAtATime, RowsInv, NEW h \in Handlers, NEW d \in Docs,
         \/ TrashRead(h, d) \/ RestoreRead(h, d) \/ WriteOther(h, d)
         \/ \E status \in Statuses : UpdateStatus(h, d, status)
  PROVE  RowsKept
<1>1. d \in Existing /\ UNCHANGED <<row, items>>
  BY DEF TrashRead, RestoreRead, WriteOther, UpdateStatus, Begin, tables
<1>2. PICK q : q = row[d]
  OBVIOUS
<1>3. q \in Row /\ q.trashed = q.stamped
  BY <1>1, <1>2, ExistingTyped DEF RowsInv, RowsOK, RowOK
<1>4. ASSUME NEW c, Over(q, c).trashed = Over(q, c).stamped,
             req' = [req EXCEPT ![h] = [step |-> "write", doc |-> d, changes |-> c]]
      PROVE  RowsKept
  <2>1. PICK r : r = [step |-> "write", doc |-> d, changes |-> c]
    OBVIOUS
  <2>2. Current(r)
    BY <1>1, <1>2, <1>4, <2>1 DEF Current
  <2>3. QED
    BY <1>1, <1>4, <2>1, <2>2, QuietRows
<1>5. ASSUME TrashRead(h, d)
      PROVE  RowsKept
  <2>1. PICK p : p = [q EXCEPT !.stamped = FALSE]
    OBVIOUS
  <2>2. PICK w : w = [q EXCEPT !.trashed = TRUE, !.stamped = TRUE]
    OBVIOUS
  <2>3. PICK c : c = Changed(p, w)
    OBVIOUS
  <2>4. /\ w \in Row /\ w["trashed"] = TRUE /\ w["stamped"] = TRUE
        /\ p["trashed"] = q["trashed"] /\ p["stamped"] = FALSE
        /\ DOMAIN w = DOMAIN Column /\ DOMAIN q = DOMAIN Column
        /\ q["trashed"] \in BOOLEAN
        /\ {"trashed", "stamped"} \subseteq DOMAIN Column
    BY <1>3, <2>1, <2>2 DEF Row, Column
  <2>5. /\ DOMAIN c = {f \in DOMAIN w : w[f] # p[f]}
        /\ \A f \in DOMAIN c : c[f] = w[f]
    BY <2>3 DEF Changed
  <2>6. Over(q, c) = [f \in DOMAIN Column |-> IF f \in DOMAIN c THEN c[f] ELSE q[f]]
    BY <2>4 DEF Over
  <2>7. Over(q, c)["trashed"] = TRUE /\ Over(q, c)["stamped"] = TRUE
    BY <2>4, <2>5, <2>6
  <2>8. req' = [req EXCEPT ![h] = [step |-> "write", doc |-> d, changes |-> c]]
    BY <1>2, <1>5, <2>1, <2>2, <2>3 DEF TrashRead, Begin
  <2>9. QED
    BY <1>4, <2>7, <2>8
<1>6. ASSUME RestoreRead(h, d)
      PROVE  RowsKept
  <2>1. PICK w : w = [q EXCEPT !.trashed = FALSE, !.stamped = FALSE]
    OBVIOUS
  <2>2. w \in Row /\ w.trashed = FALSE /\ w.stamped = FALSE
    BY <1>3, <2>1 DEF Row, Column
  <2>3. PICK c : c = Changed(q, w)
    OBVIOUS
  <2>4. Over(q, c) = w
    BY <1>3, <2>2, <2>3, OverChanged
  <2>5. req' = [req EXCEPT ![h] = [step |-> "write", doc |-> d, changes |-> c]]
    BY <1>2, <1>6, <2>1, <2>3 DEF RestoreRead, Begin
  <2>6. QED
    BY <1>4, <2>2, <2>4, <2>5
<1>7. ASSUME WriteOther(h, d)
      PROVE  RowsKept
  <2>1. PICK c : c = [f \in {} |-> Null]
    OBVIOUS
  <2>2. Over(q, c) = q
    BY <1>3, <2>1 DEF Over, Row
  <2>3. req' = [req EXCEPT ![h] = [step |-> "write", doc |-> d, changes |-> c]]
    BY <1>7, <2>1 DEF WriteOther, Begin
  <2>4. QED
    BY <1>3, <1>4, <2>2, <2>3
<1>8. ASSUME NEW status \in Statuses, UpdateStatus(h, d, status)
      PROVE  RowsKept
  <2>1. PICK w : w = [q EXCEPT !.status = status]
    OBVIOUS
  <2>2. w \in Row /\ w.trashed = w.stamped
    BY <1>3, <2>1 DEF Row, Column
  <2>3. PICK c : c = Changed(q, w)
    OBVIOUS
  <2>4. Over(q, c) = w
    BY <1>3, <2>2, <2>3, OverChanged
  <2>5. req' = [req EXCEPT ![h] = [step |-> "write", doc |-> d, changes |-> c]]
    BY <1>2, <1>8, <2>1, <2>3 DEF UpdateStatus, Begin
  <2>6. QED
    BY <1>4, <2>2, <2>4, <2>5
<1>9. QED
  BY <1>5, <1>6, <1>7, <1>8

-----------------------------------------------------------------------------
(***************************************************************************)
(* Writes.                                                                 *)
(***************************************************************************)
LEMMA CreateAlone ==
  ASSUME OneAtATime, RowsInv, NEW h \in Handlers, NEW d \in Docs, NEW f \in Forms,
         NEW b \in NewBatches, Create(h, d, f, b)
  PROVE  RowsKept
<1>1. PICK r : r = [customer |-> f.customer, endUser |-> f.endUser,
                    project |-> f.project, company |-> f.company,
                    director |-> f.director, status |-> Draft,
                    currency |-> f.currency, total |-> TotalOf(b),
                    trashed |-> FALSE, stamped |-> FALSE]
  OBVIOUS
<1>2. /\ row' = [row EXCEPT ![d] = r] /\ items' = [items EXCEPT ![d] = {b} \ {Null}]
      /\ req' = [req EXCEPT ![h] = [step |-> "refresh", doc |-> d]] /\ f.currency # Null
  BY <1>1 DEF Create, Begin
<1>3. /\ row'[d] = r /\ items'[d] = {b} \ {Null}
      /\ \A e \in Docs \ {d} : row'[e] = row[e] /\ items'[e] = items[e]
  BY <1>2 DEF RowsInv, DocumentsInv, TablesOK
<1>4. /\ b \in Batches \cup {Null}
      /\ f.customer # Null => f.endUser = Null
      /\ f.director # Null => DirectorOf[f.director] = f.company
      /\ f.customer \in Column.customer /\ f.endUser \in Column.endUser
      /\ f.project \in Column.project /\ f.company \in Column.company
      /\ f.director \in Column.director /\ f.currency \in Currencies /\ Draft \in Statuses
  BY <1>2, DocumentsAssumption DEF NewBatches, Forms, Submission
<1>5. TotalOf(b) \in {TotalOf(x) : x \in Batches \cup {Null}}
  BY <1>4
<1>6. r \in Row /\ RowOK(r) /\ r.total = TotalOf(b)
  BY <1>1, <1>4, <1>5 DEF Row, Column, RowOK
<1>7. d \in Existing' /\ \A e \in Docs \ {d} : e \in Existing' <=> e \in Existing
  BY <1>3, <1>6, DocumentsAssumption DEF Existing
<1>8. RowsOK'
  <2>1. TotalOK(d)'
    BY <1>3, <1>4, <1>6 DEF TotalOK
  <2>2. \A e \in Existing' : e # d => e \in Existing /\ RowOK(row'[e]) /\ TotalOK(e)'
    <3>1. Existing' \subseteq Docs
      BY DEF Existing
    <3>2. QED
      BY <3>1, <1>3, <1>7 DEF RowsInv, RowsOK, RowOK, TotalOK
  <2>3. RowOK(row'[d])
    BY <1>3, <1>6
  <2>4. QED
    BY <2>1, <2>2, <2>3 DEF RowsOK, RowOK
<1>9. \A s \in Handlers : s = h /\ req'[s] = [step |-> "refresh", doc |-> d]
  BY <1>2, OnlyRequest DEF RowsInv
<1>10. RequestsCurrent'
  BY <1>9 DEF RequestsCurrent, Current
<1>11. QED
  BY <1>8, <1>10 DEF RowsKept

\* What the row becomes keeps the rules that the form does.
LEMMA WantedOK ==
  ASSUME NEW q \in Row, RowOK(q), NEW f \in Forms, NEW b \in NewBatches \cup Batches \cup {Null}
  PROVE  /\ Wanted(q, f, b) \in Row /\ RowOK(Wanted(q, f, b))
         /\ Wanted(q, f, b).total = TotalOf(b)
<1>1. b \in Batches \cup {Null}
  BY DEF NewBatches
<1>2. /\ f.customer \in Column.customer /\ f.endUser \in Column.endUser
      /\ f.project \in Column.project /\ f.company \in Column.company
      /\ f.director \in Column.director
      /\ f.currency # Null => f.currency \in Currencies
      /\ f.customer # Null => f.endUser = Null
      /\ f.director # Null => DirectorOf[f.director] = f.company
      /\ TotalOf(b) \in {TotalOf(x) : x \in Batches \cup {Null}}
  BY <1>1 DEF Forms, Submission
<1>3. PICK c : c = IF f.currency = Null THEN q.currency ELSE f.currency
  OBVIOUS
<1>4. c \in Currencies
  BY <1>2, <1>3 DEF Row, Column
<1>5. Wanted(q, f, b) = [q EXCEPT !.customer = f.customer, !.endUser = f.endUser,
                                  !.project = f.project, !.company = f.company,
                                  !.director = f.director, !.currency = c, !.total = TotalOf(b)]
  BY <1>3 DEF Wanted
<1>6. Wanted(q, f, b) =
        [customer |-> f.customer, endUser |-> f.endUser, project |-> f.project,
         company |-> f.company, director |-> f.director, status |-> q.status, currency |-> c,
         total |-> TotalOf(b), trashed |-> q.trashed, stamped |-> q.stamped]
  BY <1>5 DEF Row
<1>7. /\ q.status \in Column.status /\ q.trashed \in Column.trashed /\ q.stamped \in Column.stamped
      /\ q.trashed = q.stamped
  BY DEF Row, RowOK
<1>8. QED
  BY <1>2, <1>4, <1>6, <1>7 DEF Row, Column, RowOK

LEMMA UpdateCommitAlone ==
  ASSUME OneAtATime, RowsInv, NEW h \in Handlers, UpdateCommit(h)
  PROVE  RowsKept
<1>1. PICK d \in Docs : d = req[h].doc
  BY DEF RowsInv, DocumentsInv, RequestsOK, RequestOK, IsRequest, Idle, UpdateCommit
<1>2. PICK b \in Batches \cup {Null} : b = req[h].batch
  BY DEF RowsInv, DocumentsInv, RequestsOK, RequestOK, UpdateCommit
<1>3. PICK q : q = row[d]
  OBVIOUS
<1>4. /\ d \in Existing
      /\ \E f \in Forms : req[h].changes = Changed(q, Wanted(q, f, b))
      /\ req[h].old = items[d]
  BY <1>1, <1>2, <1>3 DEF RowsInv, RequestsCurrent, Current, UpdateCommit
<1>5. PICK f \in Forms : req[h].changes = Changed(q, Wanted(q, f, b))
  BY <1>4
<1>6. q \in Row /\ RowOK(q)
  BY <1>3, <1>4, ExistingTyped DEF RowsInv, RowsOK
<1>7. PICK w : w = Wanted(q, f, b)
  OBVIOUS
<1>8. w \in Row /\ RowOK(w) /\ w.total = TotalOf(b)
  BY <1>6, <1>7, WantedOK
<1>9. Over(q, req[h].changes) = w
  BY <1>5, <1>6, <1>7, <1>8, OverChanged
<1>10. ASSUME KeysHold(req[h].changes)
       PROVE  RowsKept
  <2>1. /\ row' = [row EXCEPT ![d] = w] /\ items' = [items EXCEPT ![d] = {b} \ {Null}]
        /\ req' = [req EXCEPT ![h] = [step |-> "refresh", doc |-> d]]
    <3>1. (items[d] \ req[h].old) \cup ({b} \ {Null}) = {b} \ {Null}
      BY <1>4
    <3>2. QED
      BY <1>1, <1>2, <1>3, <1>4, <1>9, <1>10, <3>1 DEF UpdateCommit, Proceed
  <2>2. /\ row'[d] = w /\ items'[d] = {b} \ {Null}
        /\ \A e \in Docs \ {d} : row'[e] = row[e] /\ items'[e] = items[e]
    BY <2>1 DEF RowsInv, DocumentsInv, TablesOK
  <2>3. Existing' = Existing
    BY <1>4, <1>8, <2>2, DocumentsAssumption DEF Existing
  <2>4. RowsOK'
    <3>1. TotalOK(d)' /\ RowOK(row'[d])
      BY <1>8, <2>2 DEF TotalOK
    <3>2. \A e \in Existing : e # d => RowOK(row'[e]) /\ TotalOK(e)'
      BY <2>2 DEF RowsInv, RowsOK, RowOK, TotalOK, Existing
    <3>3. QED
      BY <2>3, <3>1, <3>2 DEF RowsOK, RowOK
  <2>5. \A s \in Handlers : s = h /\ req'[s] = [step |-> "refresh", doc |-> d]
    BY <2>1, OnlyRequest DEF RowsInv
  <2>6. RequestsCurrent'
    BY <2>5 DEF RequestsCurrent, Current
  <2>7. QED
    BY <2>4, <2>6 DEF RowsKept
<1>11. ASSUME ~KeysHold(req[h].changes)
       PROVE  RowsKept
  <2>1. req' = [req EXCEPT ![h] = Idle] /\ UNCHANGED <<row, items>> /\ Idle.step = "idle"
    BY <1>1, <1>11 DEF UpdateCommit, End, Proceed, Idle
  <2>2. QED
    BY <2>1, NoWrite, QuietRows
<1>12. QED
  BY <1>10, <1>11

LEMMA WriteCommitAlone ==
  ASSUME OneAtATime, RowsInv, NEW h \in Handlers, WriteCommit(h)
  PROVE  RowsKept
<1>1. PICK d \in Docs : d = req[h].doc
  BY DEF RowsInv, DocumentsInv, RequestsOK, RequestOK, IsRequest, Idle, WriteCommit
<1>2. PICK c : c = req[h].changes
  OBVIOUS
<1>3. PICK q : q = row[d]
  OBVIOUS
<1>4. PICK w : w = Over(q, c)
  OBVIOUS
<1>5. /\ d \in Existing /\ w.trashed = w.stamped
      /\ IsChange(c) /\ DOMAIN c \subseteq {"trashed", "stamped", "status"}
  BY <1>1, <1>2, <1>3, <1>4 DEF RowsInv, RequestsCurrent, Current, DocumentsInv, RequestsOK,
     RequestOK, WriteCommit
<1>6. q \in Row /\ RowOK(q)
  BY <1>3, <1>5, ExistingTyped DEF RowsInv, RowsOK
<1>7. w \in Row /\ \A f \in DOMAIN Column : w[f] = IF f \in DOMAIN c THEN c[f] ELSE q[f]
  BY <1>4, <1>5, <1>6, OverRow
<1>8. /\ w.customer = q.customer /\ w.endUser = q.endUser
      /\ w.company = q.company /\ w.director = q.director /\ w.total = q.total
  <2>1. /\ {"customer", "endUser", "company", "director", "total"} \subseteq DOMAIN Column
        /\ {"customer", "endUser", "company", "director", "total"} \cap DOMAIN c = {}
    BY <1>5 DEF Column
  <2>2. QED
    BY <1>7, <2>1
<1>9. RowOK(w)
  BY <1>5, <1>6, <1>8 DEF RowOK
<1>10. /\ row' = [row EXCEPT ![d] = w] /\ UNCHANGED items
       /\ req' = [req EXCEPT ![h] = [step |-> "log", doc |-> d]]
  BY <1>1, <1>2, <1>3, <1>4, <1>5 DEF WriteCommit, Proceed
<1>11. row'[d] = w /\ \A e \in Docs \ {d} : row'[e] = row[e]
  BY <1>10 DEF RowsInv, DocumentsInv, TablesOK
<1>12. Existing' = Existing
  BY <1>5, <1>7, <1>11, DocumentsAssumption DEF Existing
<1>13. RowsOK'
  <2>1. RowOK(row'[d]) /\ TotalOK(d)'
    BY <1>3, <1>5, <1>8, <1>9, <1>10, <1>11 DEF RowsInv, RowsOK, TotalOK
  <2>2. \A e \in Existing : e # d => RowOK(row'[e]) /\ TotalOK(e)'
    BY <1>10, <1>11 DEF RowsInv, RowsOK, RowOK, TotalOK, Existing
  <2>3. QED
    BY <1>12, <2>1, <2>2 DEF RowsOK, RowOK
<1>14. \A s \in Handlers : s = h /\ req'[s] = [step |-> "log", doc |-> d]
  BY <1>10, OnlyRequest DEF RowsInv
<1>15. RequestsCurrent'
  BY <1>14 DEF RequestsCurrent, Current
<1>16. QED
  BY <1>13, <1>15 DEF RowsKept

LEMMA PurgeAlone ==
  ASSUME OneAtATime, RowsInv, NEW h \in Handlers, NEW d \in Docs, Purge(h, d)
  PROVE  RowsKept
<1>1. /\ row' = [row EXCEPT ![d] = Purged] /\ items' = [items EXCEPT ![d] = {}]
      /\ req' = [req EXCEPT ![h] = [step |-> "remove", doc |-> d]]
  BY DEF Purge, Begin
<1>2. /\ row'[d] = Purged
      /\ \A e \in Docs \ {d} : row'[e] = row[e] /\ items'[e] = items[e]
  BY <1>1 DEF RowsInv, DocumentsInv, TablesOK
<1>3. Existing' = Existing \ {d}
  BY <1>2 DEF Existing
<1>4. RowsOK'
  <2>1. \A e \in Existing' : RowOK(row'[e]) /\ TotalOK(e)'
    BY <1>2, <1>3 DEF RowsInv, RowsOK, RowOK, TotalOK, Existing
  <2>2. QED
    BY <2>1 DEF RowsOK, RowOK
<1>5. \A s \in Handlers : s = h /\ req'[s] = [step |-> "remove", doc |-> d]
  BY <1>1, OnlyRequest DEF RowsInv
<1>6. RequestsCurrent'
  BY <1>5 DEF RequestsCurrent, Current
<1>7. QED
  BY <1>4, <1>6 DEF RowsKept

LEMMA PurgeParentCommitAlone ==
  ASSUME OneAtATime, RowsInv, NEW h \in Handlers, PurgeParentCommit(h)
  PROVE  RowsKept
<1>1. PICK field \in {"customer", "project"} : field = req[h].field
  BY DEF RowsInv, DocumentsInv, RequestsOK, RequestOK, PurgeParentCommit
<1>2. PICK docs : docs = req[h].docs
  OBVIOUS
<1>3. PICK cleared : cleared = [d \in Docs |-> IF d \in docs THEN Clear(row[d], field) ELSE row[d]]
  OBVIOUS
<1>4. /\ req' = [req EXCEPT ![h] = Idle] /\ UNCHANGED items /\ Idle.step = "idle"
      /\ \/ UNCHANGED row
         \/ row' = cleared /\ docs \subseteq Existing
  BY <1>1, <1>2, <1>3 DEF PurgeParentCommit, End, Proceed, Idle
<1>5. CASE UNCHANGED row
  BY <1>4, <1>5, NoWrite, QuietRows
<1>6. ASSUME row' = cleared, docs \subseteq Existing
      PROVE  RowsKept
  <2>1. \A s \in Handlers : s = h /\ req'[s] = Idle
    BY <1>4, OnlyRequest DEF RowsInv
  <2>2. RequestsCurrent'
    BY <2>1 DEF RequestsCurrent, Current, Idle
  <2>3. \A d \in Docs : d \notin docs => row'[d] = row[d]
    BY <1>3, <1>6
  <2>4. ASSUME NEW d \in docs
        PROVE  /\ d \in Existing /\ row'[d] \in Row
               /\ \A f \in DOMAIN Column \ {field} : row'[d][f] = row[d][f]
               /\ row'[d][field] = Null
    <3>1. d \in Existing /\ d \in Docs /\ row[d] \in Row
      BY <1>6, ExistingTyped DEF RowsInv
    <3>2. QED
      BY <1>3, <1>6, <3>1, ClearedRow
  <2>5. {"customer", "endUser", "company", "director", "total", "trashed", "stamped"}
          \subseteq DOMAIN Column
    BY DEF Column
  <2>6. Existing' = Existing
    BY <2>3, <2>4, DocumentsAssumption DEF Existing
  <2>7. RowsOK'
    <3>1. ASSUME NEW d \in Existing
          PROVE  RowOK(row'[d]) /\ row'[d].total = row[d].total
      <4>1. RowOK(row[d]) /\ d \in Docs
        BY DEF RowsInv, RowsOK, Existing
      <4>2. CASE d \notin docs
        BY <2>3, <4>1, <4>2
      <4>3. CASE d \in docs
        BY <2>4, <2>5, <4>1, <4>3 DEF RowOK
      <4>4. QED
        BY <4>2, <4>3
    <3>2. \A d \in Existing : TotalOK(d)'
      BY <1>4, <3>1 DEF RowsInv, RowsOK, TotalOK
    <3>3. QED
      BY <2>6, <3>1, <3>2 DEF RowsOK, RowOK
  <2>8. QED
    BY <2>2, <2>7 DEF RowsKept
<1>7. QED
  BY <1>4, <1>5, <1>6

-----------------------------------------------------------------------------
LEMMA RowsInit == Init => RowsInv
<1> SUFFICES ASSUME Init PROVE RowsInv
  OBVIOUS
<1>1. Existing = {}
  BY DEF Init, Existing
<1>2. RowsOK
  BY <1>1 DEF RowsOK
<1>3. RequestsCurrent
  BY NoWrite DEF Init, RequestsCurrent, Idle
<1>4. QED
  BY <1>2, <1>3, DocumentsInit DEF RowsInv

LEMMA RowsStep ==
  ASSUME OneAtATime, RowsInv, [Next]_vars
  PROVE  RowsInv'
<1>1. DocumentsInv'
  BY DocumentsStep DEF RowsInv
<1>2. CASE Edit
  BY <1>1, <1>2, CreateAlone, UpdateReadAlone, UpdateLoadItemsAlone, UpdateCommitAlone,
     FollowUpsAlone DEF Edit, RowsKept, RowsInv
<1>3. CASE RecycleBin
  BY <1>1, <1>3, WriteReadAlone, PurgeAlone, WriteCommitAlone, FollowUpsAlone
     DEF RecycleBin, RowsKept, RowsInv
<1>4. CASE Other
  BY <1>1, <1>4, WriteReadAlone, FollowUpsAlone DEF Other, RowsKept, RowsInv
<1>5. CASE PurgeParent
  BY <1>1, <1>5, FollowUpsAlone, PurgeParentCommitAlone DEF PurgeParent, RowsKept, RowsInv
<1>6. CASE Failure
  BY <1>1, <1>6, FollowUpsAlone DEF Failure, RowsKept, RowsInv
<1>7. ASSUME (\E d \in Docs : CarryOut(d)) \/ UNCHANGED vars
      PROVE  RowsInv'
  <2>1. UNCHANGED <<row, items, req>>
    BY <1>7 DEF CarryOut, vars, tables
  <2>2. Existing' = Existing
    BY <2>1 DEF Existing
  <2>3. RowsOK' /\ RequestsCurrent'
    BY <2>1, <2>2 DEF RowsInv, RowsOK, TotalOK, RequestsCurrent, Current
  <2>4. QED
    BY <1>1, <2>3 DEF RowsInv
<1>8. QED
  BY <1>2, <1>3, <1>4, <1>5, <1>6, <1>7 DEF Next, Service

\* What a search finds follows from what the index has.
LEMMA SearchSettled ==
  ASSUME IndexInv
  PROVE  SearchAgrees
<1> SUFFICES ASSUME AllIdle, NEW allowed \in Restrictions, NEW d \in Docs \ behind,
                    Len(index[d]) = 1
             PROVE  /\ d \in Found(allowed) => Visible(d, allowed)
                    /\ Visible(d, allowed) /\ ~row[d].trashed =>
                         d \in Found(allowed) \/ InIndex(d).project \in Projects \ parents
  BY DEF SearchAgrees
<1>1. \A h \in Handlers : ~Pending(req[h], d)
  BY DEF AllIdle, Pending, Unpushed, Idle
<1>2. Settled(d)
  <2>1. DocOK(d)
    BY DEF IndexInv
  <2>2. QED
    BY <1>1, <2>1 DEF DocOK
<1>3. PICK x : x = InIndex(d)
  OBVIOUS
<1>4. Latest(d) = x
  <2>1. index[d] \in Seq(Record \cup {Null})
    BY DEF IndexInv, DocumentsInv, SearchOK
  <2>2. QED
    BY <1>3, <2>1 DEF Latest, InIndex
<1>5. IF d \in Existing
        THEN /\ x # Null
             /\ row[d].project \in {x.project, Null}
             /\ x.project \in {row[d].project} \cup (Projects \ parents)
        ELSE x = Null
  BY <1>2, <1>4 DEF Settled, Agrees
<1>6. d \in Found(allowed) <=> x # Null /\ x.project \in allowed \cup {Null}
  BY <1>3 DEF Found
<1>7. QED
  BY <1>3, <1>5, <1>6 DEF Visible

-----------------------------------------------------------------------------
(***************************************************************************)
(* Readers.                                                                *)
(***************************************************************************)
\* What a reader took from the first statement was visible since, what is on
\* those documents now was on them since, and nothing that was there all the
\* time is missing.
Bounded(q, w) ==
  /\ q.wanted \subseteq Docs
  /\ q.docs \subseteq q.wanted \cap w.docs
  /\ \A d \in Docs, p \in Products : p \in OnDocument(d) => <<d, p>> \in w.on
  /\ \A d \in Docs, p \in Products : <<d, p>> \in w.kept =>
       p \in OnDocument(d) /\ (d \in q.wanted => d \in q.docs)

ReadersOK ==
  /\ DOMAIN reader = Readers
  /\ \A r \in Readers :
       reader[r] = NoRead \/ (reader[r].step = "items" /\ Bounded(reader[r], watch[r]))

LEMMA WatchingHas ==
  ASSUME NEW allowed
  PROVE  /\ \A d \in Docs : Visible(d, allowed) => d \in Watching(allowed).docs
         /\ \A d \in Docs, p \in Products :
              /\ <<d, p>> \in Watching(allowed).on <=> p \in OnDocument(d)
              /\ <<d, p>> \in Watching(allowed).kept <=> Visible(d, allowed) /\ p \in OnDocument(d)
<1>1. PICK on : on = {q \in Docs \X Products : q[2] \in OnDocument(q[1])}
  OBVIOUS
<1>2. PICK kept : kept = {q \in Docs \X Products : Visible(q[1], allowed) /\ q[2] \in OnDocument(q[1])}
  OBVIOUS
<1>3. /\ Watching(allowed).docs = {d \in Docs : Visible(d, allowed)}
      /\ Watching(allowed).on = on /\ Watching(allowed).kept = kept
  BY <1>1, <1>2 DEF Watching
<1>4. \A d \in Docs, p \in Products :
        /\ <<d, p>> \in on <=> p \in OnDocument(d)
        /\ <<d, p>> \in kept <=> Visible(d, allowed) /\ p \in OnDocument(d)
  BY <1>1, <1>2
<1>5. QED
  BY <1>3, <1>4

LEMMA ReadersInit == ReadInit => ReadersOK
  BY DEF ReadInit, ReadersOK

\* A request that goes on reading.
LEMMA GoesOn ==
  ASSUME Watched, NEW r \in Readers, reader[r] # NoRead, reader'[r] = reader[r],
         reader[r].step = "items", Bounded(reader[r], watch[r])
  PROVE  Bounded(reader[r], watch[r])'
<1>1. PICK now : now = Watching(reader[r].allowed)'
  OBVIOUS
<1>2. PICK w : w = watch'[r]
  OBVIOUS
<1>3. w = [docs |-> watch[r].docs \cup now.docs, on |-> watch[r].on \cup now.on,
           kept |-> watch[r].kept \cap now.kept]
  BY <1>1, <1>2 DEF Watched
<1>4. PICK on : on = {q \in Docs \X Products : q[2] \in OnDocument(q[1])'}
  OBVIOUS
<1>5. PICK kept : kept = {q \in Docs \X Products :
                            Visible(q[1], reader[r].allowed)' /\ q[2] \in OnDocument(q[1])'}
  OBVIOUS
<1>6. now.on = on /\ now.kept = kept
  BY <1>1, <1>4, <1>5 DEF Watching
<1>7. /\ watch[r].docs \subseteq w.docs /\ w.kept \subseteq watch[r].kept
      /\ \A d \in Docs, p \in Products :
           /\ p \in OnDocument(d)' => <<d, p>> \in w.on
           /\ <<d, p>> \in w.kept => p \in OnDocument(d)'
  BY <1>3, <1>4, <1>5, <1>6
<1>8. PICK q : q = reader[r]
  OBVIOUS
<1>9. /\ q.wanted \subseteq Docs
      /\ q.docs \subseteq q.wanted \cap w.docs
      /\ \A d \in Docs, p \in Products : <<d, p>> \in w.kept => (d \in q.wanted => d \in q.docs)
  BY <1>7, <1>8 DEF Bounded
<1>10. QED
  BY <1>2, <1>7, <1>8, <1>9 DEF Bounded

\* A request that begins to read.
LEMMA BeginsBounded ==
  ASSUME Watched, UNCHANGED vars, DOMAIN reader = Readers, NEW r \in Readers,
         NEW allowed, NEW wanted \in SUBSET Docs, NEW docs,
         docs = {d \in wanted : Visible(d, allowed)},
         Begins(r, allowed, wanted, docs)
  PROVE  reader'[r].step = "items" /\ Bounded(reader[r], watch[r])'
<1>1. PICK q : q = [step |-> "items", allowed |-> allowed, wanted |-> wanted, docs |-> docs]
  OBVIOUS
<1>2. reader'[r] = q /\ q # NoRead /\ reader[r] = NoRead
  BY <1>1 DEF Begins, NoRead
<1>3. PICK w : w = watch'[r]
  OBVIOUS
<1>4. w = Watching(allowed)
  <2>1. w = Watching(reader'[r].allowed)
    BY <1>2, <1>3 DEF Watched
  <2>2. QED
    BY <1>1, <1>2, <2>1
<1>5. /\ q.docs \subseteq q.wanted \cap w.docs
      /\ \A d \in Docs, p \in Products : p \in OnDocument(d) => <<d, p>> \in w.on
      /\ \A d \in Docs, p \in Products : <<d, p>> \in w.kept =>
           p \in OnDocument(d) /\ (d \in q.wanted => d \in q.docs)
  BY <1>1, <1>4, WatchingHas
<1>6. \A d : OnDocument(d)' = OnDocument(d)
  BY DEF vars, tables, OnDocument
<1>7. QED
  BY <1>1, <1>2, <1>3, <1>5, <1>6 DEF Bounded

LEMMA ReadersStep ==
  ASSUME ReadersOK, [ReadNext]_allVars
  PROVE  ReadersOK'
<1>1. ASSUME Watched, UNCHANGED reader
      PROVE  ReadersOK'
  <2>1. \A r \in Readers : reader[r] # NoRead => Bounded(reader[r], watch[r])'
    BY <1>1, GoesOn DEF ReadersOK
  <2>2. QED
    BY <1>1, <2>1 DEF ReadersOK
<1>2. ASSUME Watched, UNCHANGED vars, NEW r \in Readers,
             \/ reader'[r] = NoRead
             \/ reader'[r].step = "items" /\ Bounded(reader[r], watch[r])',
             DOMAIN reader' = Readers,
             \A s \in Readers \ {r} : reader'[s] = reader[s]
      PROVE  ReadersOK'
  <2>1. \A s \in Readers \ {r} : reader[s] # NoRead => Bounded(reader[s], watch[s])'
    BY <1>2, GoesOn DEF ReadersOK
  <2>2. QED
    BY <1>2, <2>1 DEF ReadersOK
<1>3. ASSUME Watched, UNCHANGED vars, NEW r \in Readers, NEW allowed,
             \/ ReadVisible(r, allowed)
             \/ \E d \in Docs : OpenDocument(r, allowed, d)
      PROVE  ReadersOK'
  <2>1. PICK wanted, docs : wanted \in SUBSET Docs /\
          docs = {d \in wanted : Visible(d, allowed)} /\ Begins(r, allowed, wanted, docs)
    <3>1. CASE ReadVisible(r, allowed)
      BY <3>1 DEF ReadVisible
    <3>2. CASE \E d \in Docs : OpenDocument(r, allowed, d)
      <4>1. PICK d \in Docs : OpenDocument(r, allowed, d)
        BY <3>2
      <4>2. {d} = {e \in {d} : Visible(e, allowed)} /\ Begins(r, allowed, {d}, {d})
        BY <4>1 DEF OpenDocument
      <4>3. QED
        BY <4>2
    <3>3. QED
      BY <1>3, <3>1, <3>2
  <2>2. reader'[r].step = "items" /\ Bounded(reader[r], watch[r])'
    BY <1>3, <2>1, BeginsBounded DEF ReadersOK
  <2>3. DOMAIN reader' = Readers /\ \A s \in Readers \ {r} : reader'[s] = reader[s]
    BY <2>1 DEF ReadersOK, Begins
  <2>4. QED
    BY <1>2, <1>3, <2>2, <2>3
<1>4. ASSUME Watched, UNCHANGED vars, NEW r \in Readers, Answer(r)
      PROVE  ReadersOK'
  <2>1. /\ reader'[r] = NoRead
        /\ DOMAIN reader' = Readers /\ \A s \in Readers \ {r} : reader'[s] = reader[s]
    BY <1>4 DEF ReadersOK, Answer
  <2>2. QED
    BY <1>2, <1>4, <2>1
<1>5. CASE UNCHANGED allVars
  <2>1. UNCHANGED <<reader, watch, items>> /\ \A d : OnDocument(d)' = OnDocument(d)
    BY <1>5 DEF allVars, vars, tables, OnDocument
  <2>2. QED
    BY <2>1 DEF ReadersOK, Bounded
<1>6. CASE ReadNext
  <2>1. CASE Next /\ UNCHANGED reader
    BY <1>1, <1>6, <2>1 DEF ReadNext
  <2>2. CASE Read /\ UNCHANGED vars
    BY <1>3, <1>4, <1>6, <2>2 DEF ReadNext, Read
  <2>3. QED
    BY <1>6, <2>1, <2>2 DEF ReadNext
<1>7. QED
  BY <1>5, <1>6

LEMMA ShownSettled ==
  ASSUME ReadersOK, DocumentsInv
  PROVE  ShownInBounds
<1> SUFFICES ASSUME NEW r \in Readers, reader[r].step = "items"
             PROVE  /\ \A d \in reader[r].wanted, p \in Products :
                         <<d, p>> \in watch[r].kept => p \in Shown(r)
                    /\ \A p \in Shown(r) :
                         \E d \in watch[r].docs \cap reader[r].wanted : <<d, p>> \in watch[r].on
  BY DEF ShownInBounds
<1>1. Bounded(reader[r], watch[r])
  BY DEF ReadersOK, NoRead
<1>2. PICK q : q = reader[r]
  OBVIOUS
<1>3. PICK w : w = watch[r]
  OBVIOUS
<1>4. /\ q.wanted \subseteq Docs /\ q.docs \subseteq q.wanted \cap w.docs
      /\ \A d \in Docs, p \in Products : p \in OnDocument(d) => <<d, p>> \in w.on
      /\ \A d \in Docs, p \in Products : <<d, p>> \in w.kept =>
           p \in OnDocument(d) /\ (d \in q.wanted => d \in q.docs)
  BY <1>1, <1>2, <1>3 DEF Bounded
<1>5. \A p : p \in Shown(r) <=> \E d \in q.docs : p \in OnDocument(d)
  BY <1>2 DEF Shown
<1>6. \A d \in Docs : OnDocument(d) \subseteq Products
  <2>1. \A d \in Docs : items[d] \subseteq Batches
    BY DEF DocumentsInv, TablesOK
  <2>2. \A b \in Batches : ProductsOf[b] \subseteq Products
    BY VisibilityAssumption
  <2>3. QED
    BY <2>1, <2>2 DEF OnDocument
<1>7. QED
  BY <1>2, <1>3, <1>4, <1>5, <1>6

LEMMA ServiceSteps == [ReadNext]_allVars => [Next]_vars
  BY DEF ReadNext, allVars

-----------------------------------------------------------------------------
\* A restricted caller is shown all that stayed visible and nothing that never
\* was, whatever other requests do between the two statements.
THEOREM ShownToReaders == ReadSpec => []ShownInBounds
<1>1. ReadInit => DocumentsInv /\ ReadersOK
  BY DocumentsInit, ReadersInit DEF ReadInit
<1>2. DocumentsInv /\ ReadersOK /\ [ReadNext]_allVars => DocumentsInv' /\ ReadersOK'
  BY ServiceSteps, DocumentsStep, ReadersStep
<1>3. DocumentsInv /\ ReadersOK => ShownInBounds
  BY ShownSettled
<1>4. QED
  BY <1>1, <1>2, <1>3, PTL DEF ReadSpec

\* With one writing request at a time, the columns of a document agree with
\* each other and with its line items, even if requests crash between their
\* steps and the index does not answer: each rule of create_document and
\* update_document is kept within one commit.
THEOREM RowsAlone == OneAtATime /\ ReadSpec => []RowsConsistent
<1> SUFFICES ASSUME OneAtATime PROVE ReadSpec => []RowsConsistent
  OBVIOUS
<1>1. ReadInit => RowsInv
  BY RowsInit DEF ReadInit
<1>2. RowsInv /\ [ReadNext]_allVars => RowsInv'
  BY ServiceSteps, RowsStep
<1>3. RowsInv => RowsConsistent
  BY RowsAgree DEF RowsInv
<1>4. QED
  BY <1>1, <1>2, <1>3, PTL DEF ReadSpec

\* Between requests a search finds, of the documents the index has kept up
\* with, those its caller may open, however requests interleave, fail or are
\* cut off.
THEOREM SearchFindsVisible == ReadSpec => []SearchAgrees
<1>1. ReadInit => IndexInv
  BY IndexInit DEF ReadInit
<1>2. IndexInv /\ [ReadNext]_allVars => IndexInv'
  BY ServiceSteps, IndexStep
<1>3. IndexInv => SearchAgrees
  BY SearchSettled
<1>4. QED
  BY <1>1, <1>2, <1>3, PTL DEF ReadSpec
=============================================================================
