--------------------------- MODULE CompaniesProofs ---------------------------
(***************************************************************************)
(* Proofs about Companies, for any companies, directors, documents and      *)
(* number of requests in flight.                                            *)
(*                                                                         *)
(* At most one company is primary because a request that sets the flag has  *)
(* every company that exists in its snapshot, unless one was inserted       *)
(* meanwhile.  The flag is never lost by accident because the rows such a   *)
(* request holds are there until its commit, and because the company that   *)
(* a request is about to insert is not there before.                        *)
(***************************************************************************)
EXTENDS Companies, TLAPS

Flagging(h) == req[h].step \in {"clear", "flag"}

Creating(h) == req[h].step = "insert" \/ (Flagging(h) /\ req[h].new)

\* A company to be inserted is not there, and nobody else is to insert it.
CreatesFresh ==
  \A h \in Handlers : Creating(h) =>
    /\ company[req[h].company] = NotYet
    /\ \A s \in Handlers : Creating(s) /\ req[s].company = req[h].company => s = h

HeldExist == \A h \in Handlers : req[h].step = "flag" => req[h].rows \subseteq Existing

\* Unless a company was inserted meanwhile, the snapshots miss none.
SnapshotsComplete ==
  ~raced => \A h \in Handlers : Flagging(h) => Existing \subseteq req[h].rows

CompaniesInv ==
  TypeOK /\ CreatesFresh /\ HeldExist /\ SnapshotsComplete /\ OnePrimary /\ ReferencesHold

-----------------------------------------------------------------------------
LEMMA RowsDiffer ==
  /\ NotYet \notin Company /\ Purged \notin Company
  /\ NotYet \notin Document /\ Purged \notin Document
  /\ NotYet # Purged /\ Purged # "present" /\ NotYet # "present"
  BY CompaniesAssumption

LEMMA ExistingRows ==
  ASSUME TypeOK
  PROVE  /\ \A c \in Companies : c \in Existing <=> company[c] \in Company
         /\ \A d \in Docs : d \in Documents <=> doc[d] \in Document
  BY RowsDiffer DEF TypeOK, Existing, Documents

\* What a commit writes of a document is a document again, and names rows that
\* are there when the changes do and the rest did.
LEMMA EditedDocument ==
  ASSUME TypeOK, NEW h \in Handlers, req[h].step = "edit", req[h].doc \in Documents,
         KeysHold(req[h].changes)
  PROVE  /\ Over(doc[req[h].doc], req[h].changes) \in Document
         /\ KeysHold(doc[req[h].doc]) => KeysHold(Over(doc[req[h].doc], req[h].changes))
<1>1. PICK d \in Docs : d = req[h].doc
  BY DEF TypeOK, IsRequest, Idle
<1>2. doc[d] \in Document
  BY <1>1, ExistingRows
<1>3. PICK changes : changes = req[h].changes
  OBVIOUS
<1>4. /\ DOMAIN changes \subseteq {"company", "director"}
      /\ \A f \in DOMAIN changes :
           changes[f] \in (IF f = "company" THEN Companies ELSE Directors) \cup {Null}
  BY <1>3 DEF TypeOK, IsRequest, Idle
<1>5. Over(doc[d], changes) = [f \in {"company", "director"} |->
                                 IF f \in DOMAIN changes THEN changes[f] ELSE doc[d][f]]
  BY <1>2 DEF Over, Document
<1>6. Over(doc[d], changes) \in Document
  BY <1>2, <1>4, <1>5 DEF Document
<1>7. KeysHold(doc[d]) => KeysHold(Over(doc[d], changes))
  BY <1>2, <1>3, <1>5 DEF KeysHold, Document
<1>8. QED
  BY <1>1, <1>3, <1>6, <1>7

\* What a step leaves of the flags when it begins or ends no request about
\* them and no company comes or goes.
LEMMA FlagsUntouched ==
  ASSUME CompaniesInv, UNCHANGED raced, Existing' = Existing,
         \A c \in Companies : company[c] = NotYet => company'[c] = NotYet,
         \A h \in Handlers : req'[h] = req[h] \/ req'[h].step \in {"idle", "edit"}
  PROVE  CreatesFresh' /\ HeldExist' /\ SnapshotsComplete'
<1>1. \A h \in Handlers : /\ Flagging(h)' => Flagging(h) /\ req'[h] = req[h]
                          /\ Creating(h)' => Creating(h) /\ req'[h] = req[h]
  BY DEF Flagging, Creating
<1>2. \A h \in Handlers : Creating(h) => req[h].company \in Companies
  BY DEF CompaniesInv, TypeOK, IsRequest, Idle, Creating, Flagging
<1>3. QED
  BY <1>1, <1>2 DEF CompaniesInv, CreatesFresh, HeldExist, SnapshotsComplete, Flagging

LEMMA NoNewPrimary ==
  ASSUME OnePrimary, raced => raced', Primary' \subseteq Primary
  PROVE  OnePrimary'
  BY DEF OnePrimary

LEMMA ReferencesUntouched ==
  ASSUME ReferencesHold, Existing \subseteq Existing', UNCHANGED <<director, doc>>
  PROVE  ReferencesHold'
<1>1. Present' = Present /\ Documents' = Documents
  BY DEF Present, Documents
<1>2. QED
  BY <1>1 DEF ReferencesHold, KeysHold

-----------------------------------------------------------------------------
(***************************************************************************)
(* The primary flag.                                                       *)
(***************************************************************************)
LEMMA BeginFlagKeeps ==
  ASSUME CompaniesInv, NEW h \in Handlers, NEW c \in Companies, NEW new \in BOOLEAN,
         BeginFlag(h, c, new),
         new => /\ company[c] = NotYet
                /\ \A s \in Handlers : Creating(s) => req[s].company # c
  PROVE  CompaniesInv'
<1>1. /\ UNCHANGED <<company, director, doc, raced>>
      /\ req' = [req EXCEPT ![h] =
                   [step |-> "clear", company |-> c, new |-> new, rows |-> Existing]]
      /\ req[h] = Idle
  BY DEF BeginFlag, Begin, tables
<1>2. Existing' = Existing /\ Primary' = Primary /\ Existing \subseteq Companies
  BY <1>1 DEF Existing, Primary
<1>3. TypeOK'
  BY <1>1, <1>2 DEF CompaniesInv, TypeOK, IsRequest, Idle
<1>4. CreatesFresh'
  BY <1>1 DEF CompaniesInv, TypeOK, CreatesFresh, Creating, Flagging
<1>5. HeldExist' /\ SnapshotsComplete'
  BY <1>1, <1>2 DEF CompaniesInv, TypeOK, HeldExist, SnapshotsComplete, Flagging
<1>6. OnePrimary' /\ ReferencesHold'
  BY <1>1, <1>2, NoNewPrimary, ReferencesUntouched DEF CompaniesInv
<1>7. QED
  BY <1>3, <1>4, <1>5, <1>6 DEF CompaniesInv

LEMMA CreateCheckKeeps ==
  ASSUME CompaniesInv, NEW h \in Handlers, NEW c \in Companies, NEW primary \in BOOLEAN,
         CreateCheck(h, c, primary)
  PROVE  CompaniesInv'
<1>1. /\ company[c] = NotYet
      /\ \A s \in Handlers : Creating(s) => req[s].company # c
  BY DEF CreateCheck, Creating, Flagging
<1>2. CASE primary \/ Existing = {}
  BY <1>1, <1>2, BeginFlagKeeps DEF CreateCheck
<1>3. ASSUME ~(primary \/ Existing = {})
      PROVE  CompaniesInv'
  <2>1. /\ UNCHANGED <<company, director, doc, raced>>
        /\ req' = [req EXCEPT ![h] = [step |-> "insert", company |-> c]]
        /\ req[h] = Idle
    BY <1>3 DEF CreateCheck, Begin, tables
  <2>2. Existing' = Existing /\ Primary' = Primary
    BY <2>1 DEF Existing, Primary
  <2>3. TypeOK'
    BY <2>1 DEF CompaniesInv, TypeOK, IsRequest, Idle
  <2>4. CreatesFresh'
    BY <1>1, <2>1 DEF CompaniesInv, TypeOK, CreatesFresh, Creating, Flagging
  <2>5. HeldExist' /\ SnapshotsComplete'
    BY <2>1, <2>2 DEF CompaniesInv, TypeOK, HeldExist, SnapshotsComplete, Flagging
  <2>6. OnePrimary' /\ ReferencesHold'
    BY <2>1, <2>2, NoNewPrimary, ReferencesUntouched DEF CompaniesInv
  <2>7. QED
    BY <2>3, <2>4, <2>5, <2>6 DEF CompaniesInv
<1>4. QED
  BY <1>2, <1>3

\* A company that appears is missed by no snapshot unless that is noted.
LEMMA InsertKeeps ==
  ASSUME CompaniesInv, NEW h \in Handlers, Creating(h), Appears(h), End(h),
         UNCHANGED <<director, doc>>,
         Existing' = Existing \cup {req[h].company},
         \A c \in Companies : company[c] = NotYet => c = req[h].company \/ company'[c] = NotYet
  PROVE  CreatesFresh' /\ HeldExist' /\ SnapshotsComplete' /\ ReferencesHold'
<1>1. req' = [req EXCEPT ![h] = Idle] /\ Idle.step = "idle"
  BY DEF End, Proceed, Idle
<1>2. /\ ~Creating(h)' /\ ~Flagging(h)'
      /\ \A s \in Handlers \ {h} : req'[s] = req[s]
  BY <1>1 DEF CompaniesInv, TypeOK, Creating, Flagging
<1>3. CreatesFresh'
  <2> SUFFICES ASSUME NEW s \in Handlers, Creating(s)'
               PROVE  /\ company'[req'[s].company] = NotYet
                      /\ \A q \in Handlers :
                           Creating(q)' /\ req'[q].company = req'[s].company => q = s
    BY DEF CreatesFresh
  <2>1. s # h /\ Creating(s) /\ req'[s] = req[s] /\ req[s].company \in Companies
    BY <1>2 DEF CompaniesInv, TypeOK, IsRequest, Idle, Creating, Flagging
  <2>2. company[req[s].company] = NotYet /\ req[s].company # req[h].company
    BY <2>1 DEF CompaniesInv, CreatesFresh
  <2>3. \A q \in Handlers : Creating(q)' => Creating(q) /\ req'[q] = req[q]
    BY <1>2 DEF Creating, Flagging
  <2>4. QED
    BY <2>1, <2>2, <2>3 DEF CompaniesInv, CreatesFresh
<1>4. HeldExist'
  BY <1>2 DEF CompaniesInv, HeldExist, Flagging
<1>5. SnapshotsComplete'
  BY <1>2 DEF SnapshotsComplete, Appears, Flagging
<1>6. ReferencesHold'
  BY ReferencesUntouched DEF CompaniesInv
<1>7. QED
  BY <1>3, <1>4, <1>5, <1>6

LEMMA CreatePlainKeeps ==
  ASSUME CompaniesInv, NEW h \in Handlers, CreatePlain(h)
  PROVE  CompaniesInv' /\ Primary' = Primary
<1>1. PICK c \in Companies : c = req[h].company
  BY DEF CompaniesInv, TypeOK, CreatePlain, IsRequest, Idle
<1>2. /\ Creating(h) /\ company[c] = NotYet
      /\ [primary |-> FALSE, trashed |-> FALSE] \in Company
      /\ company' = [company EXCEPT ![c] = [primary |-> FALSE, trashed |-> FALSE]]
  BY <1>1 DEF CompaniesInv, CreatesFresh, CreatePlain, Creating, Company
<1>3. /\ Existing' = Existing \cup {c} /\ c \notin Existing
      /\ \A e \in Companies \ {c} : company'[e] = company[e]
      /\ company'[c].primary = FALSE
  <2>1. /\ \A e \in Companies \ {c} : company'[e] = company[e]
        /\ company'[c] \in Company /\ company'[c].primary = FALSE
    BY <1>2 DEF CompaniesInv, TypeOK
  <2>2. company'[c] \notin {NotYet, Purged}
    BY <2>1, RowsDiffer
  <2>3. QED
    BY <1>2, <2>1, <2>2 DEF Existing
<1>4. Primary' = Primary
  BY <1>3 DEF Primary, Existing
<1>5. TypeOK'
  BY <1>2 DEF CompaniesInv, TypeOK, CreatePlain, Appears, End, Proceed, IsRequest, Idle
<1>6. OnePrimary'
  BY <1>4, NoNewPrimary DEF CompaniesInv, CreatePlain, Appears
<1>7. CreatesFresh' /\ HeldExist' /\ SnapshotsComplete' /\ ReferencesHold'
  BY <1>1, <1>2, <1>3, InsertKeeps DEF CreatePlain
<1>8. QED
  BY <1>4, <1>5, <1>6, <1>7 DEF CompaniesInv

LEMMA ClearKeeps ==
  ASSUME CompaniesInv, NEW h \in Handlers, Clear(h)
  PROVE  CompaniesInv'
<1>1. /\ UNCHANGED <<company, director, doc, raced>>
      /\ req[h].step = "clear"
      /\ req[h].company \in Companies /\ req[h].new \in BOOLEAN /\ req[h].rows \subseteq Companies
  BY DEF CompaniesInv, TypeOK, IsRequest, Idle, Clear, tables
<1>2. /\ req' = [req EXCEPT ![h] = [req[h] EXCEPT !.step = "flag", !.rows = @ \cap Existing]]
      /\ Existing' = Existing /\ Primary' = Primary
  BY <1>1 DEF Clear, Proceed, Existing, Primary
<1>3. \A s \in Handlers \ {h} : req'[s] = req[s]
  BY <1>2 DEF CompaniesInv, TypeOK
<1>4. /\ req'[h].step = "flag" /\ req'[h].company = req[h].company
      /\ req'[h].new = req[h].new /\ req'[h].rows = req[h].rows \cap Existing
  BY <1>1, <1>2 DEF CompaniesInv, TypeOK, IsRequest, Idle
<1>5. TypeOK'
  BY <1>1, <1>2, <1>3, <1>4 DEF CompaniesInv, TypeOK, IsRequest
<1>6. \A s \in Handlers : /\ Creating(s)' <=> Creating(s)
                          /\ Flagging(s)' <=> Flagging(s)
                          /\ Creating(s) => req'[s].company = req[s].company
  BY <1>1, <1>3, <1>4 DEF Creating, Flagging
<1>7. CreatesFresh'
  BY <1>1, <1>6 DEF CompaniesInv, CreatesFresh
<1>8. HeldExist'
  BY <1>2, <1>3, <1>4 DEF CompaniesInv, HeldExist
<1>9. SnapshotsComplete'
  BY <1>1, <1>2, <1>3, <1>4, <1>6 DEF CompaniesInv, SnapshotsComplete, Flagging
<1>10. OnePrimary' /\ ReferencesHold'
  BY <1>1, <1>2, NoNewPrimary, ReferencesUntouched DEF CompaniesInv
<1>11. QED
  BY <1>5, <1>7, <1>8, <1>9, <1>10 DEF CompaniesInv

\* The commit of a request that sets the flag: which rows it writes.
LEMMA FlagCommitRows ==
  ASSUME CompaniesInv, NEW h \in Handlers, FlagCommit(h),
         NEW c \in Companies, c = req[h].company
  PROVE  \/ /\ req[h].new = TRUE
            /\ company[c] = NotYet
            /\ Existing' = Existing \cup {c}
            /\ company' \in [Companies -> Company \cup {NotYet, Purged}]
            /\ c \in Primary'
            /\ ~raced => Primary' = {c}
            /\ \A e \in Companies \ {c} : company[e] = NotYet => company'[e] = NotYet
         \/ /\ req[h].new = FALSE /\ c \in req[h].rows
            /\ Existing' = Existing
            /\ company' \in [Companies -> Company \cup {NotYet, Purged}]
            /\ c \in Primary'
            /\ ~raced => Primary' = {c}
            /\ \A e \in Companies : company[e] = NotYet => company'[e] = NotYet
         \/ /\ req[h].new = FALSE
            /\ company' = company
<1>1. PICK rows : rows = req[h].rows
  OBVIOUS
<1>2. PICK cleared : cleared = [e \in Companies |->
                                  IF e \in rows THEN [company[e] EXCEPT !.primary = FALSE]
                                                ELSE company[e]]
  OBVIOUS
<1>3. /\ req[h].step = "flag" /\ rows \subseteq Existing
      /\ req[h].new \in BOOLEAN
      /\ req[h].new => company[c] = NotYet
      /\ ~raced => Existing \subseteq rows
  BY <1>1 DEF CompaniesInv, TypeOK, IsRequest, Idle, HeldExist, SnapshotsComplete, CreatesFresh,
              Creating, Flagging, FlagCommit
<1>4. \A e \in Existing : /\ e \in Companies /\ company[e] \in Company
                          /\ [company[e] EXCEPT !.primary = FALSE] \in Company
                          /\ [company[e] EXCEPT !.primary = FALSE].primary = FALSE
  BY ExistingRows DEF CompaniesInv, Existing, Company
<1>5. /\ cleared \in [Companies -> Company \cup {NotYet, Purged}]
      /\ \A e \in Companies : /\ e \in Existing => cleared[e] \in Company
                              /\ e \in rows => cleared[e].primary = FALSE
                              /\ e \notin Existing => cleared[e] = company[e]
  BY <1>2, <1>3, <1>4 DEF CompaniesInv, TypeOK
<1>6. company' = IF req[h].new
                   THEN [cleared EXCEPT ![c] = [primary |-> TRUE, trashed |-> FALSE]]
                 ELSE IF c \in rows
                   THEN [cleared EXCEPT ![c].primary = TRUE]
                   ELSE company
  BY <1>1, <1>2 DEF FlagCommit
<1>7. ASSUME req[h].new
      PROVE  /\ Existing' = Existing \cup {c}
             /\ company' \in [Companies -> Company \cup {NotYet, Purged}]
             /\ c \in Primary'
             /\ ~raced => Primary' = {c}
             /\ \A e \in Companies \ {c} : company[e] = NotYet => company'[e] = NotYet
  <2>1. /\ company'[c] \in Company /\ company'[c].primary = TRUE
        /\ \A e \in Companies \ {c} : company'[e] = cleared[e]
        /\ company' \in [Companies -> Company \cup {NotYet, Purged}]
    BY <1>5, <1>6, <1>7 DEF Company
  <2>2. Existing' = Existing \cup {c}
    BY <1>5, <2>1, RowsDiffer DEF Existing
  <2>3. \A e \in Companies \ {c} : e \in rows => e \notin Primary'
    BY <1>5, <2>1 DEF Primary
  <2>4. QED
    BY <1>3, <1>5, <2>1, <2>2, <2>3, RowsDiffer DEF Primary, Existing
<1>8. ASSUME ~req[h].new, c \in rows
      PROVE  /\ Existing' = Existing
             /\ company' \in [Companies -> Company \cup {NotYet, Purged}]
             /\ c \in Primary'
             /\ ~raced => Primary' = {c}
             /\ \A e \in Companies : company[e] = NotYet => company'[e] = NotYet
  <2>1. company' = [cleared EXCEPT ![c] = [cleared[c] EXCEPT !.primary = TRUE]]
    BY <1>6, <1>8
  <2>2. c \in Existing /\ cleared[c] \in Company
    BY <1>3, <1>5, <1>8
  <2>3. /\ [cleared[c] EXCEPT !.primary = TRUE] \in Company
        /\ [cleared[c] EXCEPT !.primary = TRUE].primary = TRUE
    BY <2>2 DEF Company
  <2>4. /\ company'[c] \in Company /\ company'[c].primary = TRUE
        /\ \A e \in Companies \ {c} : company'[e] = cleared[e]
        /\ company' \in [Companies -> Company \cup {NotYet, Purged}]
    BY <1>5, <2>1, <2>3
  <2>5. Existing' = Existing
    BY <1>5, <2>2, <2>4, RowsDiffer DEF Existing
  <2>6. \A e \in Companies \ {c} : e \in rows => e \notin Primary'
    BY <1>5, <2>4 DEF Primary
  <2>7. QED
    BY <1>3, <1>5, <2>2, <2>4, <2>5, <2>6, RowsDiffer DEF Primary, Existing
<1>9. QED
  BY <1>1, <1>3, <1>6, <1>7, <1>8

LEMMA FlagCommitKeeps ==
  ASSUME CompaniesInv, NEW h \in Handlers, FlagCommit(h)
  PROVE  CompaniesInv' /\ (Primary # {} => Primary' # {})
<1>1. PICK c \in Companies : c = req[h].company
  BY DEF CompaniesInv, TypeOK, IsRequest, Idle, FlagCommit
<1>2. /\ UNCHANGED <<director, doc>> /\ End(h) /\ req[h].step = "flag"
      /\ req[h].new => Appears(h)
      /\ ~req[h].new => UNCHANGED raced
  BY DEF FlagCommit
<1>3. raced => raced'
  BY <1>2 DEF Appears, FlagCommit
<1>4. /\ DOMAIN req' = Handlers /\ \A s \in Handlers : IsRequest(req[s])'
      /\ \A s \in Handlers : req'[s] = req[s] \/ req'[s].step \in {"idle", "edit"}
  BY <1>2 DEF CompaniesInv, TypeOK, IsRequest, End, Proceed, Idle
<1>5. raced' \in BOOLEAN
  BY <1>2 DEF CompaniesInv, TypeOK, Appears, FlagCommit
<1>6. ASSUME /\ req[h].new = TRUE
             /\ company[c] = NotYet
             /\ Existing' = Existing \cup {c}
             /\ company' \in [Companies -> Company \cup {NotYet, Purged}]
             /\ c \in Primary'
             /\ ~raced => Primary' = {c}
             /\ \A e \in Companies \ {c} : company[e] = NotYet => company'[e] = NotYet
      PROVE  CompaniesInv'
  <2>1. TypeOK'
    BY <1>2, <1>4, <1>5, <1>6 DEF CompaniesInv, TypeOK
  <2>2. Creating(h)
    BY <1>2, <1>6 DEF Creating, Flagging
  <2>3. CreatesFresh' /\ HeldExist' /\ SnapshotsComplete' /\ ReferencesHold'
    BY <1>1, <1>2, <1>6, <2>2, InsertKeeps
  <2>4. OnePrimary'
    BY <1>3, <1>6 DEF OnePrimary
  <2>5. QED
    BY <2>1, <2>3, <2>4 DEF CompaniesInv
<1>7. ASSUME /\ req[h].new = FALSE
             /\ Existing' = Existing
             /\ company' \in [Companies -> Company \cup {NotYet, Purged}]
             /\ \A e \in Companies : company[e] = NotYet => company'[e] = NotYet
             /\ OnePrimary'
      PROVE  CompaniesInv'
  <2>1. TypeOK'
    BY <1>2, <1>4, <1>5, <1>7 DEF CompaniesInv, TypeOK
  <2>2. CreatesFresh' /\ HeldExist' /\ SnapshotsComplete'
    BY <1>2, <1>4, <1>7, FlagsUntouched
  <2>3. ReferencesHold'
    BY <1>2, <1>7, ReferencesUntouched DEF CompaniesInv
  <2>4. QED
    BY <1>7, <2>1, <2>2, <2>3 DEF CompaniesInv
<1>8. ASSUME req[h].new = FALSE, company' = company
      PROVE  CompaniesInv' /\ Primary' = Primary
  <2>1. Existing' = Existing /\ Primary' = Primary
    BY <1>8 DEF Existing, Primary
  <2>2. OnePrimary'
    BY <1>3, <2>1, NoNewPrimary DEF CompaniesInv
  <2>3. QED
    BY <1>7, <1>8, <2>1, <2>2 DEF CompaniesInv, TypeOK
<1>9. ASSUME ~raced => Primary' = {c}
      PROVE  OnePrimary'
  BY <1>3, <1>9 DEF OnePrimary
<1>10. QED
  BY <1>1, <1>6, <1>7, <1>8, <1>9, FlagCommitRows

-----------------------------------------------------------------------------
(***************************************************************************)
(* Companies come, go and change outside of it.                            *)
(***************************************************************************)
\* A company that exists and is not held is written alone.
LEMMA WriteKeeps ==
  ASSUME CompaniesInv, NEW h \in Handlers, NEW c \in Companies, c \in Existing, NEW r \in Company,
         r.primary => company[c].primary,
         company' = [company EXCEPT ![c] = r],
         UNCHANGED <<director, doc, raced, req>>
  PROVE  CompaniesInv' /\ Primary \ {c} \subseteq Primary'
                       /\ (r.primary = company[c].primary => Primary' = Primary)
<1>1. /\ company'[c] = r /\ r \notin {NotYet, Purged}
      /\ \A e \in Companies \ {c} : company'[e] = company[e]
      /\ company[c] \notin {NotYet, Purged}
  BY RowsDiffer DEF CompaniesInv, TypeOK, Existing
<1>2. Existing' = Existing
  BY <1>1 DEF Existing
<1>3. /\ Primary' \subseteq Primary /\ Primary \ {c} \subseteq Primary'
      /\ r.primary = company[c].primary => Primary' = Primary
  BY <1>1, <1>2 DEF Primary, Existing
<1>4. TypeOK'
  BY DEF CompaniesInv, TypeOK
<1>5. OnePrimary' /\ ReferencesHold'
  BY <1>2, <1>3, NoNewPrimary, ReferencesUntouched DEF CompaniesInv
<1>6. CreatesFresh' /\ HeldExist' /\ SnapshotsComplete'
  BY <1>1, <1>2, FlagsUntouched
<1>7. QED
  BY <1>3, <1>4, <1>5, <1>6 DEF CompaniesInv

LEMMA UnsetKeeps ==
  ASSUME CompaniesInv, NEW h \in Handlers, NEW c \in Companies, Unset(h, c)
  PROVE  CompaniesInv' /\ Primary \ {c} \subseteq Primary'
<1>1. c \in Existing /\ company[c] \in Company
  BY ExistingRows DEF CompaniesInv, Unset
<1>2. /\ [company[c] EXCEPT !.primary = FALSE] \in Company
      /\ [company[c] EXCEPT !.primary = FALSE].primary = FALSE
  BY <1>1 DEF Company
<1>3. /\ company' = [company EXCEPT ![c] = [company[c] EXCEPT !.primary = FALSE]]
      /\ UNCHANGED <<director, doc, raced, req>>
  BY DEF Unset, AtOnce
<1>4. QED
  BY <1>1, <1>2, <1>3, WriteKeeps

LEMMA SetTrashedKeeps ==
  ASSUME CompaniesInv, NEW h \in Handlers, NEW c \in Companies, NEW trashed \in BOOLEAN,
         SetTrashed(h, c, trashed)
  PROVE  CompaniesInv' /\ Primary' = Primary
<1>1. c \in Existing /\ company[c] \in Company
  BY ExistingRows DEF CompaniesInv, SetTrashed
<1>2. /\ [company[c] EXCEPT !.trashed = trashed] \in Company
      /\ [company[c] EXCEPT !.trashed = trashed].primary = company[c].primary
  BY <1>1 DEF Company
<1>3. /\ company' = [company EXCEPT ![c] = [company[c] EXCEPT !.trashed = trashed]]
      /\ UNCHANGED <<director, doc, raced, req>>
  BY DEF SetTrashed, AtOnce
<1>4. QED
  BY <1>1, <1>2, <1>3, WriteKeeps

LEMMA PurgeCompanyKeeps ==
  ASSUME CompaniesInv, NEW h \in Handlers, NEW c \in Companies, PurgeCompany(h, c)
  PROVE  CompaniesInv' /\ Primary \ {c} \subseteq Primary'
<1>1. /\ UNCHANGED <<doc, raced, req>>
      /\ company' = [company EXCEPT ![c] = Purged]
      /\ c \in Existing /\ c \notin Held
      /\ \A d \in Documents :
           doc[d].company # c /\ doc[d].director \notin {m \in Present : DirectorOf[m] = c}
      /\ director' = [m \in Directors |->
                        IF m \in {p \in Present : DirectorOf[p] = c} THEN Purged ELSE director[m]]
  BY DEF PurgeCompany, AtOnce
<1>2. /\ company'[c] = Purged /\ company[c] \notin {NotYet, Purged}
      /\ \A e \in Companies \ {c} : company'[e] = company[e]
  BY <1>1 DEF CompaniesInv, TypeOK, Existing
<1>3. Existing' = Existing \ {c}
  BY <1>2 DEF Existing
<1>4. Primary' = Primary \ {c}
  BY <1>2, <1>3 DEF Primary, Existing
<1>5. TypeOK'
  BY <1>1 DEF CompaniesInv, TypeOK
<1>6. CreatesFresh'
  <2>1. \A s \in Handlers : /\ Creating(s)' <=> Creating(s)
                            /\ Creating(s) => req[s].company \in Companies
    BY <1>1 DEF CompaniesInv, TypeOK, IsRequest, Idle, Creating, Flagging
  <2>2. QED
    BY <1>1, <1>2, <2>1 DEF CompaniesInv, CreatesFresh
<1>7. HeldExist'
  BY <1>1, <1>3 DEF CompaniesInv, HeldExist, Held
<1>8. SnapshotsComplete'
  BY <1>1, <1>3 DEF CompaniesInv, SnapshotsComplete, Flagging
<1>9. OnePrimary'
  BY <1>1, <1>4, NoNewPrimary DEF CompaniesInv
<1>10. ReferencesHold'
  <2>1. Documents' = Documents
    BY <1>1 DEF Documents
  <2>2. Present' = {m \in Present : DirectorOf[m] # c}
    BY <1>1, RowsDiffer DEF CompaniesInv, TypeOK, Present
  <2>3. \A d \in Documents : doc[d] \in Document
    BY ExistingRows DEF CompaniesInv, Documents
  <2>4. QED
    BY <1>1, <1>3, <2>1, <2>2, <2>3 DEF CompaniesInv, ReferencesHold, KeysHold, Document
<1>11. QED
  BY <1>4, <1>5, <1>6, <1>7, <1>8, <1>9, <1>10 DEF CompaniesInv

-----------------------------------------------------------------------------
(***************************************************************************)
(* Directors and documents.                                                *)
(***************************************************************************)
\* Steps that leave the companies alone keep all but the types and references.
LEMMA CompaniesUntouched ==
  ASSUME CompaniesInv, UNCHANGED <<company, raced>>, TypeOK', ReferencesHold',
         \A h \in Handlers : req'[h] = req[h] \/ req'[h].step \in {"idle", "edit"}
  PROVE  CompaniesInv' /\ Primary' = Primary
<1>1. Existing' = Existing /\ Primary' = Primary
  BY DEF Existing, Primary
<1>2. CreatesFresh' /\ HeldExist' /\ SnapshotsComplete'
  BY <1>1, FlagsUntouched
<1>3. OnePrimary'
  BY <1>1, NoNewPrimary DEF CompaniesInv
<1>4. QED
  BY <1>1, <1>2, <1>3 DEF CompaniesInv

LEMMA AddDirectorKeeps ==
  ASSUME CompaniesInv, NEW h \in Handlers, NEW m \in Directors, AddDirector(h, m)
  PROVE  CompaniesInv' /\ Primary' = Primary
<1>1. UNCHANGED <<company, doc, raced, req>> /\ director' = [director EXCEPT ![m] = "present"]
  BY DEF AddDirector, AtOnce
<1>2. TypeOK'
  BY <1>1 DEF CompaniesInv, TypeOK
<1>3. /\ Existing' = Existing /\ Documents' = Documents /\ Present' = Present \cup {m}
  BY <1>1 DEF CompaniesInv, TypeOK, Existing, Documents, Present
<1>4. ReferencesHold'
  BY <1>1, <1>3 DEF CompaniesInv, ReferencesHold, KeysHold, AddDirector
<1>5. QED
  BY <1>1, <1>2, <1>4, CompaniesUntouched

LEMMA RemoveDirectorKeeps ==
  ASSUME CompaniesInv, NEW h \in Handlers, NEW m \in Directors, RemoveDirector(h, m)
  PROVE  CompaniesInv' /\ Primary' = Primary
<1>1. UNCHANGED <<company, doc, raced, req>> /\ director' = [director EXCEPT ![m] = Purged]
  BY DEF RemoveDirector, AtOnce
<1>2. TypeOK'
  BY <1>1 DEF CompaniesInv, TypeOK
<1>3. /\ Existing' = Existing /\ Documents' = Documents
      /\ Present \ {m} \subseteq Present' /\ Present' \subseteq Present
  BY <1>1, RowsDiffer DEF CompaniesInv, TypeOK, Existing, Documents, Present
<1>4. \A d \in Documents : doc[d] \in Document
  BY ExistingRows DEF CompaniesInv, Documents
<1>5. ReferencesHold'
  BY <1>1, <1>3, <1>4 DEF CompaniesInv, ReferencesHold, KeysHold, RemoveDirector, Document
<1>6. QED
  BY <1>1, <1>2, <1>5, CompaniesUntouched

\* A document is written, and names rows that are there.
LEMMA DocumentWritten ==
  ASSUME CompaniesInv, UNCHANGED <<company, director, raced>>, NEW d \in Docs,
         doc'[d] \in Document => KeysHold(doc'[d]),
         doc'[d] \in Document \cup {NotYet, Purged},
         doc' = [doc EXCEPT ![d] = doc'[d]],
         DOMAIN req' = Handlers, \A h \in Handlers : IsRequest(req'[h]),
         \A h \in Handlers : req'[h] = req[h] \/ req'[h].step \in {"idle", "edit"}
  PROVE  CompaniesInv' /\ Primary' = Primary
<1>1. TypeOK'
  BY DEF CompaniesInv, TypeOK, IsRequest, Idle
<1>2. Existing' = Existing /\ Present' = Present
  BY DEF Existing, Present
<1>3. \A e \in Docs \ {d} : doc'[e] = doc[e]
  BY DEF CompaniesInv, TypeOK
<1>4. \A e \in Documents' : e \in Docs /\ doc'[e] \in Document
                            /\ (e # d => e \in Documents)
  BY <1>1, <1>3, RowsDiffer DEF TypeOK, Documents
<1>5. \A e \in Documents' : KeysHold(doc'[e])
  BY <1>3, <1>4 DEF CompaniesInv, ReferencesHold
<1>6. ReferencesHold'
  BY <1>2, <1>5 DEF CompaniesInv, ReferencesHold, KeysHold
<1>7. QED
  BY <1>1, <1>6, CompaniesUntouched

LEMMA CreateDocumentKeeps ==
  ASSUME CompaniesInv, NEW h \in Handlers, NEW d \in Docs, NEW f \in Forms, CreateDocument(h, d, f)
  PROVE  CompaniesInv' /\ Primary' = Primary
<1>1. /\ UNCHANGED <<company, director, raced, req>> /\ KeysHold(f)
      /\ doc' = [doc EXCEPT ![d] = f] /\ f \in Document
  BY DEF CreateDocument, AtOnce, Forms
<1>2. doc'[d] = f
  BY <1>1 DEF CompaniesInv, TypeOK
<1>3. DOMAIN req' = Handlers /\ \A s \in Handlers : IsRequest(req'[s])
  BY <1>1 DEF CompaniesInv, TypeOK
<1>4. QED
  BY <1>1, <1>2, <1>3, DocumentWritten

LEMMA EditReadKeeps ==
  ASSUME CompaniesInv, NEW h \in Handlers, NEW d \in Docs, NEW f \in Forms, EditRead(h, d, f)
  PROVE  CompaniesInv' /\ Primary' = Primary
<1>1. /\ UNCHANGED <<company, director, doc, raced>>
      /\ req' = [req EXCEPT ![h] = [step |-> "edit", doc |-> d, changes |-> Changed(doc[d], f)]]
  BY DEF EditRead, Begin, tables
<1>2. IsRequest([step |-> "edit", doc |-> d, changes |-> Changed(doc[d], f)])
  <2>1. /\ f \in Document
        /\ Changed(doc[d], f) = [g \in {g \in DOMAIN f : f[g] # doc[d][g]} |-> f[g]]
    BY DEF Forms, Changed
  <2>2. PICK changes : changes = Changed(doc[d], f)
    OBVIOUS
  <2>3. /\ DOMAIN changes \subseteq {"company", "director"}
        /\ \A g \in DOMAIN changes :
             changes[g] \in (IF g = "company" THEN Companies ELSE Directors) \cup {Null}
    BY <2>1, <2>2 DEF Document
  <2>4. QED
    BY <2>2, <2>3 DEF IsRequest
<1>3. TypeOK'
  BY <1>1, <1>2 DEF CompaniesInv, TypeOK
<1>4. ReferencesHold'
  BY <1>1, ReferencesUntouched DEF CompaniesInv, Existing
<1>5. \A s \in Handlers : req'[s] = req[s] \/ req'[s].step \in {"idle", "edit"}
  BY <1>1 DEF CompaniesInv, TypeOK
<1>6. QED
  BY <1>1, <1>3, <1>4, <1>5, CompaniesUntouched

LEMMA EditCommitKeeps ==
  ASSUME CompaniesInv, NEW h \in Handlers, EditCommit(h)
  PROVE  CompaniesInv' /\ Primary' = Primary
<1>1. PICK d \in Docs : d = req[h].doc
  BY DEF CompaniesInv, TypeOK, EditCommit, IsRequest, Idle
<1>2. /\ UNCHANGED <<company, director, raced>>
      /\ req' = [req EXCEPT ![h] = Idle]
      /\ req[h].step = "edit"
  BY DEF EditCommit, End, Proceed
<1>3. /\ DOMAIN req' = Handlers /\ \A s \in Handlers : IsRequest(req'[s])
      /\ \A s \in Handlers : req'[s] = req[s] \/ req'[s].step \in {"idle", "edit"}
  BY <1>2 DEF CompaniesInv, TypeOK, IsRequest, Idle
<1>4. ASSUME d \in Documents, KeysHold(req[h].changes)
      PROVE  CompaniesInv' /\ Primary' = Primary
  <2>1. PICK r : r = Over(doc[d], req[h].changes)
    OBVIOUS
  <2>2. doc' = [doc EXCEPT ![d] = r]
    BY <1>1, <1>4, <2>1 DEF EditCommit
  <2>3. r \in Document /\ KeysHold(r)
    BY <1>1, <1>2, <1>4, <2>1, EditedDocument DEF CompaniesInv, ReferencesHold
  <2>4. doc'[d] = r
    BY <2>2 DEF CompaniesInv, TypeOK
  <2>5. QED
    BY <1>2, <1>3, <2>2, <2>3, <2>4, DocumentWritten
<1>5. ASSUME ~(d \in Documents /\ KeysHold(req[h].changes))
      PROVE  CompaniesInv' /\ Primary' = Primary
  <2>1. doc' = doc
    BY <1>1, <1>5 DEF EditCommit
  <2>2. TypeOK'
    BY <1>2, <1>3, <2>1 DEF CompaniesInv, TypeOK, IsRequest, Idle
  <2>3. ReferencesHold'
    BY <1>2, <2>1, ReferencesUntouched DEF CompaniesInv, Existing
  <2>4. QED
    BY <1>2, <1>3, <2>2, <2>3, CompaniesUntouched
<1>6. QED
  BY <1>4, <1>5

LEMMA PurgeDocumentKeeps ==
  ASSUME CompaniesInv, NEW h \in Handlers, NEW d \in Docs, PurgeDocument(h, d)
  PROVE  CompaniesInv' /\ Primary' = Primary
<1>1. /\ UNCHANGED <<company, director, raced, req>>
      /\ doc' = [doc EXCEPT ![d] = Purged]
  BY DEF PurgeDocument, AtOnce
<1>2. doc'[d] = Purged
  BY <1>1 DEF CompaniesInv, TypeOK
<1>3. DOMAIN req' = Handlers /\ \A s \in Handlers : IsRequest(req'[s])
  BY <1>1 DEF CompaniesInv, TypeOK
<1>4. QED
  BY <1>1, <1>2, <1>3, RowsDiffer, DocumentWritten

LEMMA CrashKeeps ==
  ASSUME CompaniesInv, NEW h \in Handlers, Crash(h)
  PROVE  CompaniesInv' /\ Primary' = Primary
<1>1. UNCHANGED <<company, director, doc, raced>> /\ req' = [req EXCEPT ![h] = Idle]
  BY DEF Crash, tables, End, Proceed
<1>2. TypeOK' /\ \A s \in Handlers : req'[s] = req[s] \/ req'[s].step \in {"idle", "edit"}
  BY <1>1 DEF CompaniesInv, TypeOK, IsRequest, Idle
<1>3. ReferencesHold'
  BY <1>1, ReferencesUntouched DEF CompaniesInv, Existing
<1>4. QED
  BY <1>1, <1>2, <1>3, CompaniesUntouched

-----------------------------------------------------------------------------
LEMMA CompaniesInit == Init => CompaniesInv
<1> SUFFICES ASSUME Init PROVE CompaniesInv
  OBVIOUS
<1>1. \A h \in Handlers : req[h].step = "idle"
  BY DEF Init, Idle
<1>2. Existing = {} /\ Documents = {} /\ Present = {}
  BY RowsDiffer DEF Init, Existing, Documents, Present
<1>3. TypeOK
  BY DEF Init, TypeOK, IsRequest
<1>4. CreatesFresh /\ HeldExist /\ SnapshotsComplete
  BY <1>1 DEF CreatesFresh, HeldExist, SnapshotsComplete, Creating, Flagging
<1>5. OnePrimary /\ ReferencesHold
  BY <1>2 DEF OnePrimary, Primary, ReferencesHold
<1>6. QED
  BY <1>3, <1>4, <1>5 DEF CompaniesInv

\* Every step keeps the invariant, and the primary company unless it is unset
\* or purged.
LEMMA CompaniesStep ==
  ASSUME CompaniesInv, [Next]_vars
  PROVE  /\ CompaniesInv'
         /\ Primary # {} /\ Primary' = {} =>
              \E h \in Handlers, c \in Primary : Unset(h, c) \/ PurgeCompany(h, c)
<1>1. CASE Flags
  <2>1. ASSUME NEW h \in Handlers, NEW c \in Companies, NEW primary \in BOOLEAN,
               CreateCheck(h, c, primary)
        PROVE  CompaniesInv' /\ Primary' = Primary
    <3>1. UNCHANGED company
      BY <2>1 DEF CreateCheck, BeginFlag, tables
    <3>2. QED
      BY <2>1, <3>1, CreateCheckKeeps DEF Primary, Existing
  <2>2. ASSUME NEW h \in Handlers, NEW c \in Companies, SetPrimary(h, c)
        PROVE  CompaniesInv' /\ Primary' = Primary
    <3>1. UNCHANGED company /\ BeginFlag(h, c, FALSE)
      BY <2>2 DEF SetPrimary, BeginFlag, tables
    <3>2. QED
      BY <3>1, BeginFlagKeeps DEF Primary, Existing
  <2>3. ASSUME NEW h \in Handlers, Clear(h)
        PROVE  CompaniesInv' /\ Primary' = Primary
    <3>1. UNCHANGED company
      BY <2>3 DEF Clear, tables
    <3>2. QED
      BY <2>3, <3>1, ClearKeeps DEF Primary, Existing
  <2>4. ASSUME NEW h \in Handlers, NEW c \in Companies, Unset(h, c)
        PROVE  /\ CompaniesInv'
               /\ Primary # {} /\ Primary' = {} => c \in Primary
    BY <2>4, UnsetKeeps
  <2>5. QED
    BY <1>1, <2>1, <2>2, <2>3, <2>4, CreatePlainKeeps, FlagCommitKeeps DEF Flags
<1>2. CASE RecycleBin
  <2>1. ASSUME NEW h \in Handlers, NEW c \in Companies, PurgeCompany(h, c)
        PROVE  /\ CompaniesInv'
               /\ Primary # {} /\ Primary' = {} => c \in Primary
    BY <2>1, PurgeCompanyKeeps
  <2>2. QED
    BY <1>2, <2>1, SetTrashedKeeps DEF RecycleBin
<1>3. CASE DirectorSteps
  BY <1>3, AddDirectorKeeps, RemoveDirectorKeeps DEF DirectorSteps
<1>4. CASE DocumentSteps
  BY <1>4, CreateDocumentKeeps, EditReadKeeps, PurgeDocumentKeeps, EditCommitKeeps
     DEF DocumentSteps
<1>5. CASE \E h \in Handlers : Crash(h)
  BY <1>5, CrashKeeps
<1>6. ASSUME UNCHANGED vars
      PROVE  CompaniesInv' /\ Primary' = Primary
  <2>1. UNCHANGED <<company, director, doc, req, raced>>
    BY <1>6 DEF vars, tables
  <2>2. TypeOK'
    BY <2>1 DEF CompaniesInv, TypeOK, IsRequest, Idle
  <2>3. ReferencesHold'
    BY <2>1, ReferencesUntouched DEF CompaniesInv, Existing
  <2>4. QED
    BY <2>1, <2>2, <2>3, CompaniesUntouched
<1>7. QED
  BY <1>1, <1>2, <1>3, <1>4, <1>5, <1>6 DEF Next

\* Every reachable state has the types that TypeOK states.
THEOREM CompaniesTyped == Spec => []TypeOK
<1>1. CompaniesInv /\ [Next]_vars => CompaniesInv'
  BY CompaniesStep
<1>2. CompaniesInv => TypeOK
  BY DEF CompaniesInv
<1>3. QED
  BY CompaniesInit, <1>1, <1>2, PTL DEF Spec

\* At most one company is primary as long as none is inserted while another
\* request sets the flag (create_company, update_company).
THEOREM OnePrimaryCompany == Spec => []OnePrimary
<1>1. CompaniesInv /\ [Next]_vars => CompaniesInv'
  BY CompaniesStep
<1>2. CompaniesInv => OnePrimary
  BY DEF CompaniesInv
<1>3. QED
  BY CompaniesInit, <1>1, <1>2, PTL DEF Spec

\* No request and no crash leaves the companies without a primary one that
\* they had, except one that unsets or purges it.
THEOREM PrimaryKept == Spec => PrimaryLostByChoice
<1>1. CompaniesInv /\ [Next]_vars => CompaniesInv'
  BY CompaniesStep
<1>2. CompaniesInv /\ [Next]_vars =>
        [Primary # {} /\ Primary' = {} =>
           \E h \in Handlers, c \in Primary : Unset(h, c) \/ PurgeCompany(h, c)]_vars
  BY CompaniesStep
<1>3. QED
  BY CompaniesInit, <1>1, <1>2, PTL DEF Spec, PrimaryLostByChoice

\* No document names a company or director that is gone, and no director is
\* without a company (delete_company, remove_company_director).
THEOREM CompanyReferences == Spec => []ReferencesHold
<1>1. CompaniesInv /\ [Next]_vars => CompaniesInv'
  BY CompaniesStep
<1>2. CompaniesInv => ReferencesHold
  BY DEF CompaniesInv
<1>3. QED
  BY CompaniesInit, <1>1, <1>2, PTL DEF Spec
=============================================================================
