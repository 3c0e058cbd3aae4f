------------------------------ MODULE Companies ------------------------------
(***************************************************************************)
(* Companies of document-service: the companies and company_directors      *)
(* tables, the documents as far as they name them, and the requests in     *)
(* flight.                                                                 *)
(*                                                                         *)
(* One company is the primary one.  A request that sets the flag first     *)
(* clears it in every row its UPDATE statement sees, and from then on it   *)
(* holds these rows: whoever writes one of them waits for its commit.      *)
(* Rows that appear after the statement began are neither seen nor held.   *)
(*                                                                         *)
(* Names, addresses and the order of directors are left out: nothing else  *)
(* is computed from them.  Logos and seals are in module Files.            *)
(***************************************************************************)
EXTENDS Columns

CONSTANTS Companies, Directors, Docs, Handlers,
          DirectorOf,    \* the company of each director
          Null,
          NotYet, Purged \* a row that is not there yet, or no longer

Company == [primary : BOOLEAN, trashed : BOOLEAN]

Document == [company : Companies \cup {Null}, director : Directors \cup {Null}]

ASSUME CompaniesAssumption ==
  /\ DirectorOf \in [Directors -> Companies]
  /\ Null \notin Companies \cup Directors
  /\ NotYet # Purged
  /\ {NotYet, Purged} \cap (Company \cup Document \cup {"present"}) = {}

VARIABLES company,   \* companies
          director,  \* company_directors: NotYet, "present" or Purged
          doc,       \* documents
          req,       \* requests in flight
          raced      \* history: a company appeared while the flag was being set

tables == <<company, director, doc>>
vars == <<tables, req, raced>>

Existing == {c \in Companies : company[c] \notin {NotYet, Purged}}

Present == {m \in Directors : director[m] = "present"}

Documents == {d \in Docs : doc[d] \notin {NotYet, Purged}}

Idle == [step |-> "idle"]

IsRequest(r) ==
  \/ r = Idle
  \/ r.step = "insert" /\ r.company \in Companies
  \/ /\ r.step \in {"clear", "flag"}
     /\ r.company \in Companies
     /\ r.new \in BOOLEAN
     /\ r.rows \subseteq Companies
  \/ /\ r.step = "edit"
     /\ r.doc \in Docs
     /\ DOMAIN r.changes \subseteq {"company", "director"}
     /\ \A f \in DOMAIN r.changes :
          r.changes[f] \in (IF f = "company" THEN Companies ELSE Directors) \cup {Null}

TypeOK ==
  /\ company \in [Companies -> Company \cup {NotYet, Purged}]
  /\ director \in [Directors -> {NotYet, "present", Purged}]
  /\ doc \in [Docs -> Document \cup {NotYet, Purged}]
  /\ DOMAIN req = Handlers /\ \A h \in Handlers : IsRequest(req[h])
  /\ raced \in BOOLEAN

-----------------------------------------------------------------------------
Begin(h, r) == req[h] = Idle /\ req' = [req EXCEPT ![h] = r]

Proceed(h, r) == req' = [req EXCEPT ![h] = r]

End(h) == Proceed(h, Idle)

\* A request that is over with its commit.
AtOnce(h) == req[h] = Idle /\ UNCHANGED req

\* A row is inserted beside a request that is setting the flag, or not.
Appears(h) == raced' = (raced \/ \E s \in Handlers \ {h} : req[s].step \in {"clear", "flag"})

\* Rows that an UPDATE without a commit holds.
Held == UNION {req[h].rows : h \in {s \in Handlers : req[s].step = "flag"}}

\* The submissions that create_document and update_document accept.
Forms == {f \in Document : f.director # Null => DirectorOf[f.director] = f.company}

\* Their checks, and the foreign keys of the columns a commit writes.
KeysHold(changes) ==
  /\ "company" \in DOMAIN changes => changes["company"] \in Existing \cup {Null}
  /\ "director" \in DOMAIN changes => changes["director"] \in Present \cup {Null}

Init ==
  /\ company = [c \in Companies |-> NotYet]
  /\ director = [m \in Directors |-> NotYet]
  /\ doc = [d \in Docs |-> NotYet]
  /\ req = [h \in Handlers |-> Idle]
  /\ raced = FALSE

-----------------------------------------------------------------------------
(***************************************************************************)
(* POST /companies and PATCH /companies/{id}: the primary flag.            *)
(***************************************************************************)
\* The UPDATE begins: its snapshot is taken, and it waits for held rows.
BeginFlag(h, c, new) ==
  /\ Begin(h, [step |-> "clear", company |-> c, new |-> new, rows |-> Existing])
  /\ UNCHANGED <<tables, raced>>

\* The first company is primary whether it asks or not.
CreateCheck(h, c, primary) ==
  /\ company[c] = NotYet
  /\ \A s \in Handlers : req[s].step \in {"insert", "clear", "flag"} => req[s].company # c
  /\ IF primary \/ Existing = {}
       THEN BeginFlag(h, c, TRUE)
       ELSE /\ Begin(h, [step |-> "insert", company |-> c])
            /\ UNCHANGED <<tables, raced>>

CreatePlain(h) ==
  /\ req[h].step = "insert"
  /\ company' = [company EXCEPT ![req[h].company] = [primary |-> FALSE, trashed |-> FALSE]]
  /\ Appears(h)
  /\ End(h)
  /\ UNCHANGED <<director, doc>>

\* PATCH with is_primary = true
SetPrimary(h, c) == c \in Existing /\ BeginFlag(h, c, FALSE)

\* faulty: the cleared flags are committed at once
ClearAndCommit(h) ==
  /\ req[h].step = "clear"
  /\ req[h].rows \cap Held = {}
  /\ company' = [c \in Companies |-> IF c \in req[h].rows \cap Existing
                                       THEN [company[c] EXCEPT !.primary = FALSE]
                                       ELSE company[c]]
  /\ Proceed(h, [req[h] EXCEPT !.step = "flag", !.rows = @ \cap Existing])
  /\ UNCHANGED <<director, doc, raced>>

\* The rows of the snapshot that are still there are cleared and held.
Clear(h) ==
  /\ req[h].step = "clear"
  /\ req[h].rows \cap Held = {}
  /\ Proceed(h, [req[h] EXCEPT !.step = "flag", !.rows = @ \cap Existing])
  /\ UNCHANGED <<tables, raced>>

\* faulty: the flag of the others is left alone
FlagCommitAlone(h) ==
  LET r == req[h]
  IN  /\ r.step = "flag"
      /\ company' = IF r.new
                      THEN [company EXCEPT ![r.company] = [primary |-> TRUE, trashed |-> FALSE]]
                    ELSE IF r.company \in r.rows
                      THEN [company EXCEPT ![r.company].primary = TRUE]
                      ELSE company
      /\ IF r.new THEN Appears(h) ELSE UNCHANGED raced
      /\ End(h)
      /\ UNCHANGED <<director, doc>>

\* The commit, with the row that is flagged; an update fails when its row is
\* not there any more, and leaves all as it was.
FlagCommit(h) ==
  LET r == req[h]
      cleared == [c \in Companies |-> IF c \in r.rows THEN [company[c] EXCEPT !.primary = FALSE]
                                                      ELSE company[c]]
  IN  /\ r.step = "flag"
      /\ company' = IF r.new
                      THEN [cleared EXCEPT ![r.company] = [primary |-> TRUE, trashed |-> FALSE]]
                    ELSE IF r.company \in r.rows
                      THEN [cleared EXCEPT ![r.company].primary = TRUE]
                      ELSE company
      /\ IF r.new THEN Appears(h) ELSE UNCHANGED raced
      /\ End(h)
      /\ UNCHANGED <<director, doc>>

\* PATCH with is_primary = false
Unset(h, c) ==
  /\ c \in Existing \ Held
  /\ company' = [company EXCEPT ![c].primary = FALSE]
  /\ AtOnce(h)
  /\ UNCHANGED <<director, doc, raced>>

-----------------------------------------------------------------------------
(***************************************************************************)
(* The recycle bin, and directors.                                         *)
(***************************************************************************)
\* faulty: a restored row gets NULL
SetTrashedOrNull(h, c, trashed) ==
  /\ c \in Existing \ Held
  /\ company' = [company EXCEPT ![c].trashed = IF trashed THEN TRUE ELSE Null]
  /\ AtOnce(h)
  /\ UNCHANGED <<director, doc, raced>>

\* PATCH /companies/{id}/trash and /restore
SetTrashed(h, c, trashed) ==
  /\ c \in Existing \ Held
  /\ company' = [company EXCEPT ![c].trashed = trashed]
  /\ AtOnce(h)
  /\ UNCHANGED <<director, doc, raced>>

\* faulty: only the documents of the company itself are looked at
PurgeForgettingDirectors(h, c) ==
  /\ c \in Existing \ Held
  /\ \A d \in Documents : doc[d].company # c
  /\ company' = [company EXCEPT ![c] = Purged]
  /\ director' = [m \in Directors |-> IF m \in Present /\ DirectorOf[m] = c
                                        THEN Purged
                                        ELSE director[m]]
  /\ AtOnce(h)
  /\ UNCHANGED <<doc, raced>>

\* DELETE /companies/{id}: its directors go with it.  A document that names
\* it or one of them makes the commit fail, which is answered with 400.
PurgeCompany(h, c) ==
  LET gone == {m \in Present : DirectorOf[m] = c}
  IN  /\ c \in Existing \ Held
      /\ \A d \in Documents : doc[d].company # c /\ doc[d].director \notin gone
      /\ company' = [company EXCEPT ![c] = Purged]
      /\ director' = [m \in Directors |-> IF m \in gone THEN Purged ELSE director[m]]
      /\ AtOnce(h)
      /\ UNCHANGED <<doc, raced>>

\* POST /companies/{id}/directors
AddDirector(h, m) ==
  /\ director[m] = NotYet
  /\ DirectorOf[m] \in Existing
  /\ director' = [director EXCEPT ![m] = "present"]
  /\ AtOnce(h)
  /\ UNCHANGED <<company, doc, raced>>

\* DELETE /companies/{id}/directors/{id}: a document that names the director
\* makes the commit fail; there is no answer for that.
RemoveDirector(h, m) ==
  /\ m \in Present
  /\ \A d \in Documents : doc[d].director # m
  /\ director' = [director EXCEPT ![m] = Purged]
  /\ AtOnce(h)
  /\ UNCHANGED <<company, doc, raced>>

-----------------------------------------------------------------------------
(***************************************************************************)
(* Documents: POST /documents, PATCH and DELETE /documents/{id}.           *)
(***************************************************************************)
CreateDocument(h, d, f) ==
  /\ doc[d] = NotYet
  /\ KeysHold(f)
  /\ doc' = [doc EXCEPT ![d] = f]
  /\ AtOnce(h)
  /\ UNCHANGED <<company, director, raced>>

EditRead(h, d, f) ==
  /\ d \in Documents
  /\ KeysHold(f)
  /\ Begin(h, [step |-> "edit", doc |-> d, changes |-> Changed(doc[d], f)])
  /\ UNCHANGED <<tables, raced>>

\* It fails when the document is gone, or a row it now names.
EditCommit(h) ==
  LET d == req[h].doc
  IN  /\ req[h].step = "edit"
      /\ doc' = IF d \in Documents /\ KeysHold(req[h].changes)
                  THEN [doc EXCEPT ![d] = Over(@, req[h].changes)]
                  ELSE doc
      /\ End(h)
      /\ UNCHANGED <<company, director, raced>>

PurgeDocument(h, d) ==
  /\ d \in Documents
  /\ doc' = [doc EXCEPT ![d] = Purged]
  /\ AtOnce(h)
  /\ UNCHANGED <<company, director, raced>>

\* The process or its connection dies; what was not committed is undone.
Crash(h) ==
  /\ req[h] # Idle
  /\ End(h)
  /\ UNCHANGED <<tables, raced>>

-----------------------------------------------------------------------------
Flags ==
  \E h \in Handlers :
    \/ \E c \in Companies, primary \in BOOLEAN : CreateCheck(h, c, primary)
    \/ \E c \in Companies : SetPrimary(h, c) \/ Unset(h, c)
    \/ CreatePlain(h)
    \/ Clear(h)
    \/ FlagCommit(h)

RecycleBin ==
  \E h \in Handlers, c \in Companies :
    \/ \E trashed \in BOOLEAN : SetTrashed(h, c, trashed)
    \/ PurgeCompany(h, c)

DirectorSteps == \E h \in Handlers, m \in Directors : AddDirector(h, m) \/ RemoveDirector(h, m)

DocumentSteps ==
  \E h \in Handlers :
    \/ \E d \in Docs, f \in Forms : CreateDocument(h, d, f) \/ EditRead(h, d, f)
    \/ \E d \in Docs : PurgeDocument(h, d)
    \/ EditCommit(h)

Next == Flags \/ RecycleBin \/ DirectorSteps \/ DocumentSteps \/ \E h \in Handlers : Crash(h)

Spec == Init /\ [][Next]_vars

-----------------------------------------------------------------------------
(***************************************************************************)
(* Properties.                                                             *)
(***************************************************************************)
Primary == {c \in Existing : company[c].primary}

\* At most one company is primary (data-model.md:303: "only one company may
\* be primary at a time"), whatever overlaps, as long as no company is
\* inserted while another request sets the flag: requests that flag companies
\* already there wait for each other's rows.
OnePrimary == ~raced => \A c, e \in Primary : c = e

\* Clearing the others and setting the flag are one: there is no moment, and
\* no crash, that leaves no primary company, but for the primary one being
\* unset or purged (create_company, update_company).
PrimaryLostByChoice ==
  [][ Primary # {} /\ Primary' = {} =>
        \E h \in Handlers, c \in Primary : Unset(h, c) \/ PurgeCompany(h, c) ]_vars

\* No document names a company or a director that is gone, and no director
\* outlives the company (delete_company, remove_company_director and the
\* foreign keys of models.py).
ReferencesHold ==
  /\ \A d \in Documents : KeysHold(doc[d])
  /\ \A m \in Present : DirectorOf[m] \in Existing
=============================================================================
