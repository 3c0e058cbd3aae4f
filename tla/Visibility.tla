------------------------------ MODULE Visibility ------------------------------
(***************************************************************************)
(* What a caller who is restricted to some projects sees of the documents  *)
(* and of the products on them, while the documents are edited.            *)
(*                                                                         *)
(* A document is visible in its project, and without one to everyone.  A   *)
(* product is visible when a visible document has it as a line item:       *)
(* catalogue-service and search-service ask document-service, which reads  *)
(* the documents first and their line items after, in two statements.  A   *)
(* document that is opened or exported is read in the same two steps.      *)
(*                                                                         *)
(* Whoever has no grant at all is unrestricted, so that a restricted       *)
(* caller has at least one project.                                        *)
(***************************************************************************)
EXTENDS Documents

CONSTANTS Readers, Products,
          ProductsOf  \* the products that the line items of a batch name

ASSUME VisibilityAssumption == ProductsOf \in [Batches -> SUBSET Products]

VARIABLES reader,  \* requests that read, each with the projects of its caller
          watch    \* history: what the caller could see since the request began

allVars == <<vars, reader, watch>>

\* The projects a caller may be restricted to: at least one.
Restrictions == SUBSET Projects \ {{}}

Visible(d, allowed) == d \in Existing /\ row[d].project \in allowed \cup {Null}

OnDocument(d) == UNION {ProductsOf[b] : b \in items[d]}

\* What the index has of a document now.
InIndex(d) == Head(index[d])

\* faulty: the filter of the index leaves out the documents without a project
FoundInProjects(allowed) == {d \in Docs : InIndex(d) # Null /\ InIndex(d).project \in allowed}

\* The hits of a search: the record in the index is what is filtered, be the
\* document in the recycle bin or not.
Found(allowed) ==
  {d \in Docs : InIndex(d) # Null /\ InIndex(d).project \in allowed \cup {Null}}

\* The documents a caller could see since the request began, the products on
\* any document since, and the products seen on a document all the time.
Watching(allowed) ==
  [docs |-> {d \in Docs : Visible(d, allowed)},
   on   |-> {q \in Docs \X Products : q[2] \in OnDocument(q[1])},
   kept |-> {q \in Docs \X Products : Visible(q[1], allowed) /\ q[2] \in OnDocument(q[1])}]

Nothing == [docs |-> {}, on |-> {}, kept |-> {}]

NoRead == [step |-> "idle"]

Begins(r, allowed, wanted, docs) ==
  /\ reader[r] = NoRead
  /\ reader' = [reader EXCEPT ![r] =
                  [step |-> "items", allowed |-> allowed, wanted |-> wanted, docs |-> docs]]

\* GET /documents/visible-product-ids, for the list, the recycle bin, a
\* product or a search in the catalogue: the ids of the visible documents.
ReadVisible(r, allowed) == Begins(r, allowed, Docs, {d \in Docs : Visible(d, allowed)})

\* GET /documents/{id} and the exports: one document, or 403.
OpenDocument(r, allowed, d) == Visible(d, allowed) /\ Begins(r, allowed, {d}, {d})

\* faulty: the line items of all documents are read
ShownOfAll(r) == UNION {OnDocument(d) : d \in Docs}

\* What the second statement gives now.
Shown(r) == UNION {OnDocument(d) : d \in reader[r].docs}

\* The line items are read and shown; or no answer comes, and nothing is.
Answer(r) == reader[r].step = "items" /\ reader' = [reader EXCEPT ![r] = NoRead]

Watched ==
  watch' = [r \in Readers |->
    IF reader'[r] = NoRead THEN Nothing
    ELSE IF reader[r] = NoRead THEN Watching(reader'[r].allowed)
    ELSE LET now == Watching(reader[r].allowed)'
         IN  [docs |-> watch[r].docs \cup now.docs, on |-> watch[r].on \cup now.on,
              kept |-> watch[r].kept \cap now.kept]]

ReadInit ==
  /\ Init
  /\ reader = [r \in Readers |-> NoRead]
  /\ watch = [r \in Readers |-> Nothing]

Read ==
  \E r \in Readers :
    \/ \E allowed \in Restrictions :
         ReadVisible(r, allowed) \/ \E d \in Docs : OpenDocument(r, allowed, d)
    \/ Answer(r)

ReadNext ==
  /\ \/ Next /\ UNCHANGED reader
     \/ Read /\ UNCHANGED vars
  /\ Watched

ReadSpec == ReadInit /\ [][ReadNext]_allVars

-----------------------------------------------------------------------------
(***************************************************************************)
(* Properties.                                                             *)
(***************************************************************************)
\* Whatever is edited between the two statements, a restricted caller is
\* shown every product that was all the time on a document visible all the
\* time, and none but products that some time since the request began were on
\* a document that some time since was visible (get_visible_product_ids,
\* get_document).
ShownInBounds ==
  \A r \in Readers : reader[r].step = "items" =>
    /\ \A d \in reader[r].wanted, p \in Products : <<d, p>> \in watch[r].kept => p \in Shown(r)
    /\ \A p \in Shown(r) : \E d \in watch[r].docs \cap reader[r].wanted : <<d, p>> \in watch[r].on

\* Between requests, of the documents the index has not been left behind on and
\* has no task of, a search shows a caller none that the caller may not open,
\* and every one outside the recycle bin that the caller may, but for those
\* whose project was purged: these are everyone's, and their record does not
\* say so yet.  Until a task is carried out, and after one is lost, a search
\* shows what the document was (search, list_documents).
SearchAgrees ==
  AllIdle => \A allowed \in Restrictions, d \in Docs \ behind : Len(index[d]) = 1 =>
    /\ d \in Found(allowed) => Visible(d, allowed)
    /\ Visible(d, allowed) /\ ~row[d].trashed =>
         d \in Found(allowed) \/ InIndex(d).project \in Projects \ parents
=============================================================================
