------------------------------ MODULE Documents ------------------------------
(***************************************************************************)
(* Documents of document-service: the documents and line_items tables, the *)
(* customers and projects they refer to, the search index and the requests *)
(* in flight.                                                              *)
(*                                                                         *)
(* The ORM loads a row, compares what a handler assigns with what was      *)
(* loaded and writes the columns that differ; no row is locked or          *)
(* versioned, so two edits of one document each write their own columns.   *)
(* A request is therefore its read, its commit, and what follows the       *)
(* commit: the row and then its line items are read again, pushed to the   *)
(* index, and logged.                                                      *)
(*                                                                         *)
(* The index is asynchronous: Meilisearch accepts a task, which ends the   *)
(* push, and carries out the tasks of a document later, in their order.    *)
(*                                                                         *)
(* Companies and their directors are fixed here: foreign keys keep those a *)
(* document names, and module Companies has their own operations.  Numbers,*)
(* dates, names and files are left out: no other column is computed from   *)
(* them.                                                                   *)
(***************************************************************************)
EXTENDS Naturals, FiniteSets, Sequences, Columns

CONSTANTS Docs, Customers, Projects, Companies, Directors, Handlers,
          EndUsers,     \* the names that are typed for a customer not saved
          Statuses, Draft, \* what a document may be: drafted first
          Currencies,
          MaxTasks,     \* bound: tasks of a document not yet carried out
          DirectorOf,   \* the company of each director
          Batches,      \* the line items of one submission, as a whole
          Amount,       \* what the items of a batch come to
          Null,         \* NULL, and a submission without line items
          NoDoc, Purged \* a document not yet created, or purged

TotalOf(b) == IF b = Null THEN 0 ELSE Amount[b]

\* The columns of a document, with their values.
Column ==
  [customer |-> Customers \cup {Null},
   endUser  |-> EndUsers \cup {Null},      \* end_user_name
   project  |-> Projects \cup {Null},
   company  |-> Companies \cup {Null},
   director |-> Directors \cup {Null},
   status   |-> Statuses,
   currency |-> Currencies,
   total    |-> {TotalOf(b) : b \in Batches \cup {Null}},
   trashed  |-> BOOLEAN,                   \* is_deleted
   stamped  |-> BOOLEAN]                   \* deleted_by, deleted_at

Row == [customer : Column.customer, endUser : Column.endUser, project : Column.project,
        company : Column.company, director : Column.director, status : Column.status,
        currency : Column.currency, total : Column.total, trashed : Column.trashed,
        stamped : Column.stamped]

\* What index_document takes from a document, beside its constant parts.
Record == [customer : Column.customer, endUser : Column.endUser, project : Column.project,
           status : Statuses, currency : Currencies, total : Column.total,
           items : SUBSET Batches]

ASSUME DocumentsAssumption ==
  /\ DirectorOf \in [Directors -> Companies]
  /\ Amount \in [Batches -> Nat]
  /\ Draft \in Statuses
  /\ MaxTasks \in Nat
  /\ Null \notin Customers \cup Projects \cup Companies \cup Directors \cup Batches
  /\ Customers \cap Projects = {}
  /\ NoDoc # Purged
  /\ NoDoc \notin Row /\ Purged \notin Row
  /\ Null \notin Record

VARIABLES row,      \* documents
          items,    \* line_items of each document, by the batch they came in
          parents,  \* the customers and projects that exist
          audited,  \* documents with audit_log_entries
          index,    \* of each document: its record in the search index, or Null,
                    \* followed by those it will have after each accepted task
          behind,   \* history: documents whose index record may be left behind
          req       \* requests in flight

tables == <<row, items, parents, audited>>
search == <<index, behind>>
vars == <<tables, search, req>>

Existing == {d \in Docs : row[d] \notin {NoDoc, Purged}}

\* The record of a row and its line items, and of what a document has now.
Indexed(r, its) ==
  [customer |-> r.customer, endUser |-> r.endUser, project |-> r.project, status |-> r.status,
   currency |-> r.currency, total |-> r.total, items |-> its]

RecordOf(d) == Indexed(row[d], items[d])

\* What the index will have of a document when all its tasks are carried out.
Latest(d) == index[d][Len(index[d])]

Idle == [step |-> "idle"]

\* What an UPDATE sets: some columns, with their new values.
IsChange(c) == DOMAIN c \subseteq DOMAIN Column /\ \A f \in DOMAIN c : c[f] \in Column[f]

Of(field) == IF field = "customer" THEN Customers ELSE Projects

IsRequest(r) ==
  \/ r = Idle
  \/ /\ r.step \in {"load", "update", "write", "refresh", "gather", "push", "log", "remove"}
     /\ r.doc \in Docs
  \/ r.step = "purge" /\ r.docs \subseteq Docs

TypeOK ==
  /\ row \in [Docs -> Row \cup {NoDoc, Purged}]
  /\ items \in [Docs -> SUBSET Batches]
  /\ parents \subseteq Customers \cup Projects
  /\ audited \subseteq Docs
  /\ index \in [Docs -> Seq(Record \cup {Null})]
  /\ \A d \in Docs : Len(index[d]) \in 1 .. MaxTasks + 1
  /\ behind \subseteq Docs
  /\ DOMAIN req = Handlers
  /\ \A h \in Handlers :
       /\ IsRequest(req[h])
       /\ req[h].step \in {"load", "update", "write"} => IsChange(req[h].changes)
       /\ req[h].step \in {"load", "update"} => req[h].batch \in Batches \cup {Null}
       /\ req[h].step = "gather" => req[h].loaded \in Row
       /\ req[h].step = "push" => req[h].record \in Record
       /\ req[h].step = "purge" => /\ req[h].field \in {"customer", "project"}
                                   /\ req[h].parent \in Of(req[h].field)

-----------------------------------------------------------------------------
\* What may be submitted.
Submission ==
  [customer : Column.customer, endUser : Column.endUser, project : Column.project,
   company : Column.company, director : Column.director, currency : Currencies \cup {Null}]

\* faulty: a saved customer and a typed one may come together
FormsWithBoth == {f \in Submission : f.director # Null => DirectorOf[f.director] = f.company}

\* faulty: any director may be named
FormsWithAnyDirector == {f \in Submission : f.customer # Null => f.endUser = Null}

\* What create_document and update_document accept of it.
Forms ==
  {f \in Submission : /\ f.customer # Null => f.endUser = Null
                      /\ f.director # Null => DirectorOf[f.director] = f.company}

\* Its line items are new rows, unless it has none.
NewBatches ==
  {b \in Batches : /\ \A d \in Docs : b \notin items[d]
                   /\ \A h \in Handlers : req[h].step \in {"load", "update"} => req[h].batch # b}
  \cup {Null}

ParentsExist(f) == {f.customer, f.project} \subseteq parents \cup {Null}

\* What the row would become, were no one else to write it: a currency that is
\* not given stays.
Wanted(r, f, b) ==
  [r EXCEPT !.customer = f.customer, !.endUser = f.endUser, !.project = f.project,
            !.company = f.company, !.director = f.director,
            !.currency = IF f.currency = Null THEN r.currency ELSE f.currency, !.total = TotalOf(b)]

\* Foreign keys of the columns written.
KeysHold(changes) ==
  \A f \in DOMAIN changes \cap {"customer", "project"} : changes[f] \in parents \cup {Null}

Begin(h, r) == req[h] = Idle /\ req' = [req EXCEPT ![h] = r]

Proceed(h, r) == req' = [req EXCEPT ![h] = r]

End(h) == Proceed(h, Idle)

\* What a request has still to read, or to push, after its commit.
Unpushed(r) == r.step \in {"refresh", "gather", "push", "remove"}

\* A commit leaves the index behind when another request is about to push what
\* it read of the document before; else its own push will follow.
Commits(h, d) ==
  behind' = IF \E g \in Handlers \ {h} : req[g].step \in {"gather", "push"} /\ req[g].doc = d
              THEN behind \cup {d}
              ELSE behind \ {d}

Init ==
  /\ row = [d \in Docs |-> NoDoc]
  /\ items = [d \in Docs |-> {}]
  /\ parents = Customers \cup Projects
  /\ audited = {}
  /\ index = [d \in Docs |-> <<Null>>]
  /\ behind = {}
  /\ req = [h \in Handlers |-> Idle]

-----------------------------------------------------------------------------
(***************************************************************************)
(* POST /documents.  What it checked still holds when it commits, or a     *)
(* constraint makes the commit fail.                                       *)
(***************************************************************************)
Create(h, d, f, b) ==
  /\ row[d] = NoDoc
  /\ f.currency # Null
  /\ ParentsExist(f)
  /\ row' = [row EXCEPT ![d] = [customer |-> f.customer, endUser |-> f.endUser,
                                project |-> f.project, company |-> f.company,
                                director |-> f.director, status |-> Draft,
                                currency |-> f.currency, total |-> TotalOf(b),
                                trashed |-> FALSE, stamped |-> FALSE]]
  /\ items' = [items EXCEPT ![d] = {b} \ {Null}]
  /\ Begin(h, [step |-> "refresh", doc |-> d])
  /\ Commits(h, d)
  /\ UNCHANGED <<parents, audited, index>>

-----------------------------------------------------------------------------
(***************************************************************************)
(* PATCH /documents/{id}.  The row is loaded first, the old line items     *)
(* only when they are replaced, after the calls to catalogue-service.      *)
(***************************************************************************)
UpdateRead(h, d, f, b) ==
  /\ d \in Existing
  /\ ParentsExist(f)
  /\ Begin(h, [step |-> "load", doc |-> d, changes |-> Changed(row[d], Wanted(row[d], f, b)),
               batch |-> b])
  /\ UNCHANGED <<tables, search>>

UpdateLoadItems(h) ==
  /\ req[h].step = "load"
  /\ Proceed(h, [step |-> "update", doc |-> req[h].doc, changes |-> req[h].changes,
                 batch |-> req[h].batch, old |-> items[req[h].doc]])
  /\ UNCHANGED <<tables, search>>

\* faulty: new items are added to the old ones
UpdateCommitAppending(h) ==
  LET d == req[h].doc
  IN  /\ req[h].step = "update"
      /\ IF d \in Existing /\ KeysHold(req[h].changes)
           THEN /\ row' = [row EXCEPT ![d] = Over(@, req[h].changes)]
                /\ items' = [items EXCEPT ![d] = @ \cup ({req[h].batch} \ {Null})]
                /\ Proceed(h, [step |-> "refresh", doc |-> d])
                /\ Commits(h, d)
           ELSE End(h) /\ UNCHANGED <<row, items, behind>>
      /\ UNCHANGED <<parents, audited, index>>

\* faulty: the index is not told
UpdateCommitUnindexed(h) ==
  LET d == req[h].doc
  IN  /\ req[h].step = "update"
      /\ IF d \in Existing /\ KeysHold(req[h].changes)
           THEN /\ row' = [row EXCEPT ![d] = Over(@, req[h].changes)]
                /\ items' = [items EXCEPT ![d] = (@ \ req[h].old) \cup ({req[h].batch} \ {Null})]
                /\ Proceed(h, [step |-> "log", doc |-> d])
                /\ Commits(h, d)
           ELSE End(h) /\ UNCHANGED <<row, items, behind>>
      /\ UNCHANGED <<parents, audited, index>>

\* One commit writes the changed columns, inserts the new items and deletes
\* the old ones that were loaded (those already gone are not missed).  It
\* fails when the document is gone, or a customer or project it now names.
UpdateCommit(h) ==
  LET d == req[h].doc
  IN  /\ req[h].step = "update"
      /\ IF d \in Existing /\ KeysHold(req[h].changes)
           THEN /\ row' = [row EXCEPT ![d] = Over(@, req[h].changes)]
                /\ items' = [items EXCEPT ![d] = (@ \ req[h].old) \cup ({req[h].batch} \ {Null})]
                /\ Proceed(h, [step |-> "refresh", doc |-> d])
                /\ Commits(h, d)
           ELSE End(h) /\ UNCHANGED <<row, items, behind>>
      /\ UNCHANGED <<parents, audited, index>>

-----------------------------------------------------------------------------
(***************************************************************************)
(* After a commit: the document is read again (the request fails if it is  *)
(* gone), then its line items, none if it has gone since; the record is    *)
(* pushed to the index, and the edit logged.  A push or an entry that      *)
(* fails is not noticed.                                                   *)
(***************************************************************************)
\* faulty: the row is not read again, and what is in memory is pushed
RefreshFromMemory(h) ==
  LET d == req[h].doc
  IN  /\ req[h].step = "refresh"
      /\ Proceed(h, IF d \in Existing
                      THEN [step |-> "gather", doc |-> d, loaded |-> row[d]]
                      ELSE [step |-> "push", doc |-> d,
                            record |-> [customer |-> Null, endUser |-> Null, project |-> Null,
                                        status |-> Draft, total |-> 0, items |-> {},
                                        currency |-> CHOOSE c \in Currencies : TRUE]])
      /\ UNCHANGED <<tables, search>>

Refresh(h) ==
  LET d == req[h].doc
  IN  /\ req[h].step = "refresh"
      /\ Proceed(h, IF d \in Existing
                      THEN [step |-> "gather", doc |-> d, loaded |-> row[d]]
                      ELSE Idle)
      /\ UNCHANGED <<tables, search>>

Gather(h) ==
  LET d == req[h].doc
  IN  /\ req[h].step = "gather"
      /\ Proceed(h, [step |-> "push", doc |-> d, record |-> Indexed(req[h].loaded, items[d])])
      /\ UNCHANGED <<tables, search>>

\* The index accepts a task, and will have the record.
Enqueue(d, record) ==
  /\ Len(index[d]) <= MaxTasks
  /\ index' = [index EXCEPT ![d] = Append(@, record)]
  /\ UNCHANGED behind

Push(h) ==
  /\ req[h].step = "push"
  /\ Enqueue(req[h].doc, req[h].record)
  /\ Proceed(h, [step |-> "log", doc |-> req[h].doc])
  /\ UNCHANGED tables

PushFails(h) ==
  /\ req[h].step = "push"
  /\ Proceed(h, [step |-> "log", doc |-> req[h].doc])
  /\ behind' = behind \cup {req[h].doc}
  /\ UNCHANGED <<tables, index>>

\* Meilisearch carries out the next task of a document.
CarryOut(d) ==
  /\ Len(index[d]) > 1
  /\ index' = [index EXCEPT ![d] = Tail(@)]
  /\ UNCHANGED <<tables, behind, req>>

\* faulty: an entry is made for a document that is gone
LogAnyway(h) ==
  /\ req[h].step = "log"
  /\ audited' = audited \cup {req[h].doc}
  /\ End(h)
  /\ UNCHANGED <<row, items, parents, search>>

Log(h) ==
  /\ req[h].step = "log"
  /\ audited' = audited \cup ({req[h].doc} \cap Existing)
  /\ End(h)
  /\ UNCHANGED <<row, items, parents, search>>

-----------------------------------------------------------------------------
(***************************************************************************)
(* The recycle bin.                                                        *)
(***************************************************************************)
\* PATCH /documents/{id}/trash: deleted_at is the current time, so that it
\* is written whatever was loaded.
TrashRead(h, d) ==
  LET changes == Changed([row[d] EXCEPT !.stamped = FALSE],
                         [row[d] EXCEPT !.trashed = TRUE, !.stamped = TRUE])
  IN  /\ d \in Existing
      /\ Begin(h, [step |-> "write", doc |-> d, changes |-> changes])
      /\ UNCHANGED <<tables, search>>

\* faulty: who deleted it, and when, stays
RestoreReadKeepingStamp(h, d) ==
  LET changes == Changed(row[d], [row[d] EXCEPT !.trashed = FALSE])
  IN  /\ d \in Existing
      /\ Begin(h, [step |-> "write", doc |-> d, changes |-> changes])
      /\ UNCHANGED <<tables, search>>

\* faulty: is_deleted becomes NULL with the others
RestoreReadToNull(h, d) ==
  LET changes == Changed(row[d], [row[d] EXCEPT !.trashed = Null, !.stamped = FALSE])
  IN  /\ d \in Existing
      /\ Begin(h, [step |-> "write", doc |-> d, changes |-> changes])
      /\ UNCHANGED <<tables, search>>

\* PATCH /documents/{id}/restore
RestoreRead(h, d) ==
  LET changes == Changed(row[d], [row[d] EXCEPT !.trashed = FALSE, !.stamped = FALSE])
  IN  /\ d \in Existing
      /\ Begin(h, [step |-> "write", doc |-> d, changes |-> changes])
      /\ UNCHANGED <<tables, search>>

\* PATCH /documents/{id}/status
UpdateStatus(h, d, status) ==
  LET changes == Changed(row[d], [row[d] EXCEPT !.status = status])
  IN  /\ d \in Existing
      /\ Begin(h, [step |-> "write", doc |-> d, changes |-> changes])
      /\ UNCHANGED <<tables, search>>

\* POST /documents/{id}/file writes columns that are left out here.
WriteOther(h, d) ==
  /\ d \in Existing
  /\ Begin(h, [step |-> "write", doc |-> d, changes |-> [f \in {} |-> Null]])
  /\ UNCHANGED <<tables, search>>

\* The commit of any of them; the index is not told.
WriteCommit(h) ==
  LET d == req[h].doc
  IN  /\ req[h].step = "write"
      /\ IF d \in Existing
           THEN /\ row' = [row EXCEPT ![d] = Over(@, req[h].changes)]
                /\ Proceed(h, [step |-> "log", doc |-> d])
           ELSE End(h) /\ UNCHANGED row
      /\ UNCHANGED <<items, parents, audited, search>>

\* GET /documents/{id}: viewing is logged.
View(h, d) ==
  /\ d \in Existing
  /\ Begin(h, [step |-> "log", doc |-> d])
  /\ UNCHANGED <<tables, search>>

\* DELETE /documents/{id}: the row goes with its line items and entries...
Purge(h, d) ==
  /\ d \in Existing
  /\ row' = [row EXCEPT ![d] = Purged]
  /\ items' = [items EXCEPT ![d] = {}]
  /\ audited' = audited \ {d}
  /\ Begin(h, [step |-> "remove", doc |-> d])
  /\ Commits(h, d)
  /\ UNCHANGED <<parents, index>>

\* ... and then its record in the index.
Remove(h) ==
  /\ req[h].step = "remove"
  /\ Enqueue(req[h].doc, Null)
  /\ End(h)
  /\ UNCHANGED tables

RemoveFails(h) ==
  /\ req[h].step = "remove"
  /\ behind' = behind \cup {req[h].doc}
  /\ End(h)
  /\ UNCHANGED <<tables, index>>

-----------------------------------------------------------------------------
(***************************************************************************)
(* DELETE /customers/{id} and /projects/{id}.  The ORM loads the documents *)
(* of the relationship and sets their reference to NULL before it deletes  *)
(* the row, so that the foreign key stops only documents it did not load.  *)
(* A document that has been given another customer or project since loses  *)
(* that one, and nothing is pushed.                                        *)
(***************************************************************************)
PurgeParentRead(h, field, p) ==
  /\ p \in parents \cap Of(field)
  /\ Begin(h, [step |-> "purge", field |-> field, parent |-> p,
               docs |-> {d \in Existing : row[d][field] = p}])
  /\ UNCHANGED <<tables, search>>

Clear(r, field) == Over(r, [f \in {field} |-> Null])

PurgeParentCommit(h) ==
  LET field == req[h].field
      cleared == [d \in Docs |-> IF d \in req[h].docs THEN Clear(row[d], field) ELSE row[d]]
  IN  /\ req[h].step = "purge"
      /\ IF /\ req[h].docs \subseteq Existing
            /\ \A d \in Existing : cleared[d][field] # req[h].parent
           THEN /\ row' = cleared
                /\ parents' = parents \ {req[h].parent}
                /\ behind' = behind \cup
                     {d \in req[h].docs : row[d][field] \notin {req[h].parent, Null}}
           ELSE UNCHANGED <<row, parents, behind>>
      /\ End(h)
      /\ UNCHANGED <<items, audited, index>>

\* The process or its connection dies, and with it what was still to be pushed.
Crash(h) ==
  /\ req[h] # Idle
  /\ behind' = IF Unpushed(req[h]) THEN behind \cup {req[h].doc} ELSE behind
  /\ End(h)
  /\ UNCHANGED <<tables, index>>

-----------------------------------------------------------------------------
Edit ==
  \E h \in Handlers :
    \/ \E d \in Docs, f \in Forms, b \in NewBatches : Create(h, d, f, b) \/ UpdateRead(h, d, f, b)
    \/ UpdateLoadItems(h)
    \/ UpdateCommit(h)
    \/ Refresh(h)
    \/ Gather(h)
    \/ Push(h)
    \/ Log(h)

RecycleBin ==
  \E h \in Handlers :
    \/ \E d \in Docs : TrashRead(h, d) \/ RestoreRead(h, d) \/ Purge(h, d)
    \/ WriteCommit(h)
    \/ Remove(h)

Other ==
  \E h \in Handlers, d \in Docs :
    \/ \E status \in Statuses : UpdateStatus(h, d, status)
    \/ WriteOther(h, d)
    \/ View(h, d)

PurgeParent ==
  \E h \in Handlers :
    \/ \E field \in {"customer", "project"} : \E p \in Of(field) : PurgeParentRead(h, field, p)
    \/ PurgeParentCommit(h)

Service == Edit \/ RecycleBin \/ Other \/ PurgeParent

Failure == \E h \in Handlers : PushFails(h) \/ RemoveFails(h) \/ Crash(h)

Next == Service \/ Failure \/ \E d \in Docs : CarryOut(d)

Spec == Init /\ [][Next]_vars

-----------------------------------------------------------------------------
(***************************************************************************)
(* Properties.                                                             *)
(***************************************************************************)
AllIdle == \A h \in Handlers : req[h] = Idle

\* A document has either customer_id or end_user_name, never both
\* (models.py:94, _manual_end_user).
OneEndUser == \A d \in Existing : row[d].customer # Null => row[d].endUser = Null

\* The director shown on a document is one of the company that issues it
\* (create_document, update_document).
DirectorOfCompany ==
  \A d \in Existing : row[d].director # Null => DirectorOf[row[d].director] = row[d].company

\* A document's total is what its line items come to (update_document:
\* items are fully replaced, then totals recalculated).
TotalMatchesItems ==
  \A d \in Existing : \E b \in Batches \cup {Null} :
    items[d] = {b} \ {Null} /\ row[d].total = TotalOf(b)

\* Who deleted a document, and when, is recorded exactly while it is in the
\* recycle bin (models.py:86-87: "cleared on restore").
StampedWhileTrashed == \A d \in Existing : row[d].trashed = row[d].stamped

\* The columns of a document agree with each other and with its line items.
RowsConsistent == OneEndUser /\ DirectorOfCompany /\ TotalMatchesItems /\ StampedWhileTrashed

\* However requests interleave, between them the index has, or will have once
\* it has carried out what it accepted, what a document has, and nothing of a
\* purged one.  Excepted are documents whose push was lost, or whose commit
\* crossed the push of another request, until a commit none does makes up for
\* it; their status, which update_status changes without a push; and references
\* that a purge of their customer or project has cleared since
\* (index_document, remove_document_from_index).
IndexFollows ==
  AllIdle => \A d \in Docs \ behind :
    IF d \in Existing
      THEN /\ Latest(d) # Null
           /\ \A f \in {"endUser", "currency", "total"} : Latest(d)[f] = row[d][f]
           /\ Latest(d).items = items[d]
           /\ row[d].customer \in {Latest(d).customer, Null}
           /\ row[d].project \in {Latest(d).project, Null}
           /\ Latest(d).customer \in {row[d].customer} \cup (Customers \ parents)
           /\ Latest(d).project \in {row[d].project} \cup (Projects \ parents)
      ELSE Latest(d) = Null

\* However requests interleave or fail, no document refers to a customer or
\* project that is gone, and a purged document leaves no line item and no
\* audit entry behind (the foreign keys of models.py).
ReferencesHold ==
  /\ \A d \in Existing : {row[d].customer, row[d].project} \subseteq parents \cup {Null}
  /\ \A d \in Docs \ Existing : items[d] = {} /\ d \notin audited

\* A purged document that is out of the index, with no task of it left and no
\* push of it under way, never comes back in any form: only a request that
\* overlaps the purge can leave a stale record (remove_document_from_index,
\* update_document).
Vanished(d) ==
  /\ row[d] = Purged
  /\ \A i \in DOMAIN index[d] : index[d][i] = Null
  /\ \A h \in Handlers : req[h].step \in {"gather", "push"} => req[h].doc # d

VanishedStaysVanished == [][ \A d \in Docs : Vanished(d) => Vanished(d)' ]_vars
=============================================================================
