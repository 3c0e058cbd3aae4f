---------------------------- MODULE FilesProofs -----------------------------
(***************************************************************************)
(* Proofs about Files, for any rows, bound on numbers and requests in      *)
(* flight.                                                                 *)
(*                                                                         *)
(* That a file is its row's own rests on two more facts.  No two rows that *)
(* exist have the same key.  And an upload in flight has the key of its    *)
(* row while the row exists; once the row is purged, the key is noted as   *)
(* overtaken unless the object was stored before.                          *)
(***************************************************************************)
EXTENDS Files, TLAPS

KeysUnique == \A r, s \in Existing : Key(r) = Key(s) => r = s

\* The row to be inserted is not there, and nobody else is to insert it.
InsertsFresh ==
  \A h \in Handlers : req[h].step = "insert" =>
    /\ row[req[h].row] = NotYet
    /\ \A s \in Handlers : req[s].step = "insert" /\ req[s].row = req[h].row => s = h

Uploading(h) ==
  /\ row[req[h].row] # NotYet
  /\ req[h].row \in Existing => req[h].key = Key(req[h].row)
  /\ req[h].step = "store" /\ req[h].row \notin Existing => req[h].key \in overtaken
  /\ req[h].step = "attach" /\ req[h].row \in Existing =>
       store[req[h].key] = req[h].row \/ req[h].key \in overtaken

UploadsKeepKeys == \A h \in Handlers : req[h].step \in {"store", "attach"} => Uploading(h)

FilesInv == TypeOK /\ KeysUnique /\ InsertsFresh /\ UploadsKeepKeys /\ FileIsOwn

-----------------------------------------------------------------------------
\* Keys tell rows apart by their kind and number, or by the row.
LEMMA KeysDiffer ==
  ASSUME NEW r \in Rows, NEW s \in Rows, NEW m, NEW n, KeyOf(r, m) = KeyOf(s, n)
  PROVE  \/ r = s
         \/ m = n /\ r \in Docs /\ s \in Docs
         \/ m = n /\ r \in Products /\ s \in Products
  BY FilesAssumption DEF KeyOf, Rows, Numbered

LEMMA FilesTypeStep == TypeOK /\ [Next]_vars => TypeOK'
<1> SUFFICES ASSUME TypeOK, [Next]_vars PROVE TypeOK'
  OBVIOUS
<1>1. ASSUME NEW h \in Handlers, NEW r \in Numbered, NEW n \in 1 .. MaxNumber,
             NEW upload \in BOOLEAN, Number(h, r, n, upload)
      PROVE  TypeOK'
  BY <1>1 DEF TypeOK, Number, Begin, IsRequest, Idle
<1>2. ASSUME NEW h \in Handlers, NEW r \in Rows, Purge(h, r)
      PROVE  TypeOK'
  <2>1. Key(r) \in Keys
    BY <1>2 DEF TypeOK, Purge, Key, Keys, Existing, Row
  <2>2. QED
    BY <1>2, <2>1 DEF TypeOK, Purge
<1>3. ASSUME NEW h \in Handlers, NEW r \in Rows, UploadRead(h, r)
      PROVE  TypeOK'
  <2>1. Key(r) \in Keys
    BY <1>3 DEF TypeOK, UploadRead, Key, Keys, Existing, Row
  <2>2. QED
    BY <1>3, <2>1 DEF TypeOK, UploadRead, Begin, IsRequest, Idle
<1>4. ASSUME NEW h \in Handlers, Insert(h)
      PROVE  TypeOK'
  <2>1. /\ req[h].row \in Numbered /\ req[h].number \in 1 .. MaxNumber
        /\ req[h].row \in Rows
    BY <1>4 DEF TypeOK, Insert, IsRequest, Idle, Rows
  <2>2. KeyOf(req[h].row, req[h].number) \in Keys
    BY <2>1, FilesAssumption DEF Keys
  <2>3. [number |-> req[h].number, file |-> FALSE] \in Row
    BY <2>1, FilesAssumption DEF Row
  <2>4. QED
    BY <1>4, <2>1, <2>2, <2>3 DEF TypeOK, Insert, Proceed, IsRequest, Idle
<1>5. ASSUME NEW h \in Handlers, Store(h)
      PROVE  TypeOK'
  BY <1>5 DEF TypeOK, Store, Proceed, IsRequest, Idle
<1>6. ASSUME NEW h \in Handlers, Attach(h)
      PROVE  TypeOK'
  <2>1. PICK r \in Rows : r = req[h].row
    BY <1>6 DEF TypeOK, Attach, IsRequest, Idle
  <2>2. r \in Existing => [row[r] EXCEPT !.file = TRUE] \in Row
    BY DEF TypeOK, Existing, Row
  <2>3. row' \in [Rows -> Row \cup {NotYet, Purged}]
    BY <1>6, <2>1, <2>2 DEF TypeOK, Attach
  <2>4. QED
    BY <1>6, <2>3 DEF TypeOK, Attach, End, Proceed, IsRequest, Idle
<1>7. ASSUME NEW h \in Handlers, Fail(h)
      PROVE  TypeOK'
  BY <1>7 DEF TypeOK, Fail, End, Proceed, IsRequest, Idle
<1>8. CASE UNCHANGED vars
  BY <1>8 DEF TypeOK, vars
<1>9. QED
  BY <1>1, <1>2, <1>3, <1>4, <1>5, <1>6, <1>7, <1>8 DEF Next

-----------------------------------------------------------------------------
\* A step that leaves the rows alone, and the uploads or their store.
LEMMA RowsUnchanged ==
  ASSUME UNCHANGED row
  PROVE  /\ Existing' = Existing
         /\ \A r : Key(r)' = Key(r)
  BY DEF Existing, Key

LEMMA NumberKeeps ==
  ASSUME FilesInv, NEW h \in Handlers, NEW r \in Numbered, NEW n \in 1 .. MaxNumber,
         NEW upload \in BOOLEAN, Number(h, r, n, upload)
  PROVE  KeysUnique' /\ InsertsFresh' /\ UploadsKeepKeys' /\ FileIsOwn'
<1>1. KeysUnique' /\ FileIsOwn'
  BY RowsUnchanged DEF FilesInv, KeysUnique, FileIsOwn, Number
<1>2. InsertsFresh'
  BY DEF FilesInv, TypeOK, InsertsFresh, Number, Begin
<1>3. UploadsKeepKeys'
  BY RowsUnchanged DEF FilesInv, TypeOK, UploadsKeepKeys, Uploading, Number, Begin
<1>4. QED
  BY <1>1, <1>2, <1>3

LEMMA UploadReadKeeps ==
  ASSUME FilesInv, NEW h \in Handlers, NEW r \in Rows, UploadRead(h, r)
  PROVE  KeysUnique' /\ InsertsFresh' /\ UploadsKeepKeys' /\ FileIsOwn'
<1>1. KeysUnique' /\ FileIsOwn'
  BY RowsUnchanged DEF FilesInv, KeysUnique, FileIsOwn, UploadRead
<1>2. InsertsFresh'
  BY DEF FilesInv, TypeOK, InsertsFresh, UploadRead, Begin
<1>3. UploadsKeepKeys'
  BY RowsUnchanged DEF FilesInv, TypeOK, UploadsKeepKeys, Uploading, UploadRead, Begin, Existing
<1>4. QED
  BY <1>1, <1>2, <1>3

LEMMA FailKeeps ==
  ASSUME FilesInv, NEW h \in Handlers, Fail(h)
  PROVE  KeysUnique' /\ InsertsFresh' /\ UploadsKeepKeys' /\ FileIsOwn'
<1>1. KeysUnique' /\ FileIsOwn'
  BY RowsUnchanged DEF FilesInv, KeysUnique, FileIsOwn, Fail
<1>2. InsertsFresh'
  BY DEF FilesInv, TypeOK, InsertsFresh, Fail, End, Proceed, Idle
<1>3. UploadsKeepKeys'
  BY RowsUnchanged DEF FilesInv, TypeOK, UploadsKeepKeys, Uploading, Fail, End, Proceed, Idle
<1>4. QED
  BY <1>1, <1>2, <1>3

\* The key of an inserted row is nobody else's.
LEMMA InsertKeeps ==
  ASSUME FilesInv, NEW h \in Handlers, Insert(h)
  PROVE  KeysUnique' /\ InsertsFresh' /\ UploadsKeepKeys' /\ FileIsOwn'
<1>1. PICK r \in Rows, n \in 1 .. MaxNumber :
        r = req[h].row /\ n = req[h].number /\ r \in Numbered /\ row[r] = NotYet
  BY DEF FilesInv, TypeOK, InsertsFresh, Insert, IsRequest, Idle, Rows
<1> DEFINE free == n \notin Taken(IF r \in Docs THEN Docs ELSE Products)
<1>2. CASE ~free
  <2>1. UNCHANGED <<row, store, overtaken>> /\ req' = [req EXCEPT ![h] = Idle]
    BY <1>1, <1>2 DEF Insert, Proceed
  <2>2. KeysUnique' /\ FileIsOwn'
    BY <2>1, RowsUnchanged DEF FilesInv, KeysUnique, FileIsOwn
  <2>3. InsertsFresh'
    BY <2>1 DEF FilesInv, TypeOK, InsertsFresh, Idle
  <2>4. UploadsKeepKeys'
    BY <2>1, RowsUnchanged DEF FilesInv, TypeOK, UploadsKeepKeys, Uploading, Idle
  <2>5. QED
    BY <2>2, <2>3, <2>4
<1>3. CASE free
  <2>1. /\ row' = [row EXCEPT ![r] = [number |-> n, file |-> FALSE]]
        /\ req' = [req EXCEPT ![h] = IF req[h].upload
                                       THEN [step |-> "store", row |-> r, key |-> KeyOf(r, n)]
                                       ELSE Idle]
        /\ UNCHANGED <<store, overtaken>>
    BY <1>1, <1>3 DEF Insert, Proceed
  <2>2. [number |-> n, file |-> FALSE] \in Row
    BY <1>1, FilesAssumption DEF Row
  <2>3. Existing' = Existing \cup {r} /\ r \notin Existing
    BY <1>1, <2>1, <2>2, FilesAssumption DEF FilesInv, TypeOK, Existing
  <2>4. Key(r)' = KeyOf(r, n) /\ \A s \in Existing : Key(s)' = Key(s) /\ row'[s] = row[s]
    <3>1. row'[r].number = n
      BY <1>1, <2>1 DEF FilesInv, TypeOK
    <3>2. ASSUME NEW s \in Existing PROVE row'[s] = row[s]
      BY <1>1, <2>1, <2>3 DEF FilesInv, TypeOK, Existing
    <3>3. QED
      BY <3>1, <3>2 DEF Key
  <2>5. ASSUME NEW s \in Existing
        PROVE  Key(s) # KeyOf(r, n)
    BY <1>1, <1>3, <2>3, KeysDiffer, FilesAssumption DEF Key, Taken, Existing, Numbered
  <2>6. KeysUnique'
    BY <2>3, <2>4, <2>5 DEF FilesInv, KeysUnique
  <2>7. FileIsOwn'
    BY <1>1, <2>1, <2>3, <2>4 DEF FilesInv, TypeOK, FileIsOwn
  <2>8. InsertsFresh'
    <3> SUFFICES ASSUME NEW s \in Handlers, req'[s].step = "insert"
                 PROVE  /\ row'[req'[s].row] = NotYet
                        /\ \A t \in Handlers :
                             req'[t].step = "insert" /\ req'[t].row = req'[s].row => t = s
      BY DEF InsertsFresh
    <3>1. ASSUME NEW t \in Handlers, req'[t].step = "insert"
          PROVE  req'[t] = req[t] /\ t # h /\ req[t].row \in Rows
      BY <2>1, <3>1 DEF FilesInv, TypeOK, Idle, IsRequest, Rows
    <3>2. req[s].row # r
      BY <1>1, <3>1 DEF FilesInv, InsertsFresh, Insert
    <3>3. QED
      BY <2>1, <3>1, <3>2 DEF FilesInv, TypeOK, InsertsFresh
  <2>9. UploadsKeepKeys'
    <3> SUFFICES ASSUME NEW s \in Handlers, req'[s].step \in {"store", "attach"}
                 PROVE  Uploading(s)'
      BY DEF UploadsKeepKeys
    <3>1. CASE s = h
      <4>1. req'[h] = [step |-> "store", row |-> r, key |-> KeyOf(r, n)]
        BY <2>1, <3>1 DEF FilesInv, TypeOK, Idle
      <4>2. row'[r] = [number |-> n, file |-> FALSE]
        BY <2>1 DEF FilesInv, TypeOK
      <4>3. r \in Existing' /\ row'[r] # NotYet
        BY <2>2, <2>3, <4>2, FilesAssumption
      <4>4. QED
        BY <3>1, <4>1, <4>2, <4>3 DEF Uploading, Key
    <3>2. CASE s # h
      <4>1. req'[s] = req[s] /\ Uploading(s)
        BY <2>1, <3>2 DEF FilesInv, TypeOK, UploadsKeepKeys
      <4>2. req[s].row # r
        BY <1>1, <4>1 DEF Uploading
      <4>3. row'[req[s].row] = row[req[s].row] /\ (req[s].row \in Existing' <=> req[s].row \in Existing)
        BY <1>1, <2>1, <2>3, <4>2 DEF FilesInv, TypeOK
      <4>4. Key(req[s].row)' = KeyOf(req[s].row, row'[req[s].row].number)
        BY <4>1 DEF Key
      <4>5. store' = store /\ overtaken' = overtaken
        BY <2>1
      <4>6. QED
        BY <4>1, <4>3, <4>5 DEF Uploading, Key
    <3>3. QED
      BY <3>1, <3>2
  <2>10. QED
    BY <2>6, <2>7, <2>8, <2>9
<1>4. QED
  BY <1>2, <1>3

\* The uploads that a purge overtakes are noted.
LEMMA PurgeKeeps ==
  ASSUME FilesInv, NEW h \in Handlers, NEW r \in Rows, Purge(h, r)
  PROVE  KeysUnique' /\ InsertsFresh' /\ UploadsKeepKeys' /\ FileIsOwn'
<1>1. /\ row' = [row EXCEPT ![r] = Purged] /\ r \in Existing
      /\ UNCHANGED <<store, req>> /\ overtaken \subseteq overtaken'
  BY DEF Purge
<1>2. /\ Existing' = Existing \ {r}
      /\ \A s \in Existing' : Key(s)' = Key(s) /\ row'[s] = row[s]
  BY <1>1 DEF FilesInv, TypeOK, Existing, Key
<1>3. KeysUnique' /\ FileIsOwn'
  BY <1>1, <1>2 DEF FilesInv, KeysUnique, FileIsOwn
<1>4. InsertsFresh'
  BY <1>1 DEF FilesInv, TypeOK, InsertsFresh, Existing
<1>5. UploadsKeepKeys'
  <2> SUFFICES ASSUME NEW s \in Handlers, req[s].step \in {"store", "attach"}
               PROVE  Uploading(s)'
    BY <1>1 DEF UploadsKeepKeys
  <2>1. Uploading(s) /\ req[s].row \in Rows
    BY DEF FilesInv, TypeOK, UploadsKeepKeys, IsRequest, Idle
  <2>2. CASE req[s].row = r
    BY <1>1, <1>2, <2>1, <2>2, FilesAssumption DEF FilesInv, TypeOK, Uploading, Purge
  <2>3. CASE req[s].row # r
    BY <1>1, <1>2, <2>1, <2>3 DEF FilesInv, TypeOK, Uploading
  <2>4. QED
    BY <2>2, <2>3
<1>6. QED
  BY <1>3, <1>4, <1>5

\* An object is replaced only by an upload of the same row, or one noted.
LEMMA StoreKeeps ==
  ASSUME FilesInv, NEW h \in Handlers, Store(h)
  PROVE  KeysUnique' /\ InsertsFresh' /\ UploadsKeepKeys' /\ FileIsOwn'
<1>1. /\ store' = [store EXCEPT ![req[h].key] = req[h].row]
      /\ req' = [req EXCEPT ![h].step = "attach"]
      /\ UNCHANGED <<row, overtaken>> /\ req[h].step = "store"
  BY DEF Store, Proceed
<1>2. Uploading(h) /\ req[h].key \in Keys /\ req[h].row \in Rows
  BY <1>1 DEF FilesInv, TypeOK, UploadsKeepKeys, IsRequest, Idle
<1>3. ASSUME NEW s \in Existing, store[Key(s)] = s \/ Key(s) \in overtaken
      PROVE  store'[Key(s)] = s \/ Key(s) \in overtaken
  BY <1>1, <1>2, <1>3 DEF FilesInv, TypeOK, KeysUnique, Uploading
<1>4. KeysUnique' /\ FileIsOwn'
  BY <1>1, <1>3, RowsUnchanged DEF FilesInv, KeysUnique, FileIsOwn
<1>5. InsertsFresh'
  BY <1>1 DEF FilesInv, TypeOK, InsertsFresh
<1>6. UploadsKeepKeys'
  <2> SUFFICES ASSUME NEW s \in Handlers, req'[s].step \in {"store", "attach"}
               PROVE  Uploading(s)'
    BY DEF UploadsKeepKeys
  <2>1. /\ req'[s].row = req[s].row /\ req'[s].key = req[s].key
        /\ req[s].step \in {"store", "attach"} /\ Uploading(s)
        /\ s # h => req'[s] = req[s]
    BY <1>1 DEF FilesInv, TypeOK, UploadsKeepKeys
  <2>2. CASE s = h
    BY <1>1, <1>2, <2>1, <2>2, RowsUnchanged DEF FilesInv, TypeOK, Uploading
  <2>3. CASE s # h
    BY <1>1, <1>3, <2>1, <2>3, RowsUnchanged DEF Uploading
  <2>4. QED
    BY <2>2, <2>3
<1>7. QED
  BY <1>4, <1>5, <1>6

\* The row names the object stored for it.
LEMMA AttachKeeps ==
  ASSUME FilesInv, NEW h \in Handlers, Attach(h)
  PROVE  KeysUnique' /\ InsertsFresh' /\ UploadsKeepKeys' /\ FileIsOwn'
<1>0. PICK r \in Rows : r = req[h].row
  BY DEF FilesInv, TypeOK, Attach, IsRequest, Idle
<1>1. /\ row' = IF r \in Existing THEN [row EXCEPT ![r].file = TRUE] ELSE row
      /\ req' = [req EXCEPT ![h] = Idle] /\ req[h].step = "attach"
      /\ UNCHANGED <<store, overtaken>>
  BY <1>0 DEF Attach, End, Proceed
<1>2. Uploading(h)
  BY <1>1 DEF FilesInv, TypeOK, UploadsKeepKeys, IsRequest, Idle
<1>3. \A s \in Existing : row[s] \in Row
  BY DEF FilesInv, TypeOK, Existing
<1>4. Existing' = Existing
  BY <1>1, <1>2, <1>3, FilesAssumption DEF FilesInv, TypeOK, Existing, Row
<1>5. \A s \in Existing : Key(s)' = Key(s) /\ (s # r => row'[s] = row[s])
  BY <1>1, <1>2, <1>3 DEF FilesInv, TypeOK, Existing, Key, Row
<1>6. \A s \in Rows : row'[s] = NotYet <=> row[s] = NotYet
  BY <1>1, <1>2, <1>3, FilesAssumption DEF FilesInv, TypeOK, Existing, Row
<1>7. KeysUnique'
  BY <1>4, <1>5 DEF FilesInv, KeysUnique
<1>8. FileIsOwn'
  BY <1>0, <1>1, <1>2, <1>4, <1>5 DEF FilesInv, FileIsOwn, Uploading
<1>9. InsertsFresh'
  BY <1>1, <1>6 DEF FilesInv, TypeOK, InsertsFresh, Idle, IsRequest, Rows
<1>10. UploadsKeepKeys'
  BY <1>1, <1>4, <1>5, <1>6 DEF FilesInv, TypeOK, UploadsKeepKeys, Uploading, Idle, IsRequest
<1>11. QED
  BY <1>7, <1>8, <1>9, <1>10

-----------------------------------------------------------------------------
LEMMA FilesInvStep == FilesInv /\ [Next]_vars => FilesInv'
<1> SUFFICES ASSUME FilesInv, [Next]_vars PROVE FilesInv'
  OBVIOUS
<1>1. TypeOK'
  BY FilesTypeStep DEF FilesInv
<1>2. CASE UNCHANGED vars
  <2>1. KeysUnique' /\ FileIsOwn'
    BY <1>2, RowsUnchanged DEF FilesInv, KeysUnique, FileIsOwn, vars
  <2>2. InsertsFresh'
    BY <1>2 DEF FilesInv, InsertsFresh, vars
  <2>3. UploadsKeepKeys'
    BY <1>2, RowsUnchanged DEF FilesInv, UploadsKeepKeys, Uploading, vars
  <2>4. QED
    BY <1>1, <2>1, <2>2, <2>3 DEF FilesInv
<1>3. CASE Next
  <2>1. KeysUnique' /\ InsertsFresh' /\ UploadsKeepKeys' /\ FileIsOwn'
    BY <1>3, NumberKeeps, PurgeKeeps, UploadReadKeeps, InsertKeeps, StoreKeeps, AttachKeeps,
       FailKeeps DEF Next
  <2>2. QED
    BY <1>1, <2>1 DEF FilesInv
<1>4. QED
  BY <1>2, <1>3

LEMMA FilesInvInit == Init => FilesInv
<1> SUFFICES ASSUME Init PROVE FilesInv
  OBVIOUS
<1>1. TypeOK
  BY FilesAssumption DEF Init, TypeOK, IsRequest, Row
<1>2. Existing \subseteq Owners /\ \A r \in Existing : row[r].file = FALSE
  BY DEF Init, Existing
<1>3. KeysUnique
  BY <1>2, KeysDiffer, FilesAssumption DEF KeysUnique, Key, Rows, Numbered
<1>4. InsertsFresh /\ UploadsKeepKeys /\ FileIsOwn
  BY <1>2 DEF Init, Idle, InsertsFresh, UploadsKeepKeys, FileIsOwn
<1>5. QED
  BY <1>1, <1>3, <1>4 DEF FilesInv

THEOREM FilesInvariance == Spec => []FilesInv
<1>1. Init => FilesInv
  BY FilesInvInit
<1>2. FilesInv /\ [Next]_vars => FilesInv'
  BY FilesInvStep
<1>3. QED
  BY <1>1, <1>2, PTL DEF Spec

-----------------------------------------------------------------------------
\* Every state of the rows, the store and the requests is well typed.
THEOREM FilesTyped == Spec => []TypeOK
<1>1. FilesInv => TypeOK
  BY DEF FilesInv
<1>2. QED
  BY <1>1, FilesInvariance, PTL

\* The file a row names was uploaded for that row, unless an upload under the
\* same number was overtaken by the purge of its row.
THEOREM FilesKept == Spec => []FileIsOwn
<1>1. FilesInv => FileIsOwn
  BY DEF FilesInv
<1>2. QED
  BY <1>1, FilesInvariance, PTL
=============================================================================
