---------------------------- MODULE UploadProofs ----------------------------
(***************************************************************************)
(* Proofs about Upload, for every number of uploads, roofs, ids, contents  *)
(* and every choice of faults.                                             *)
(***************************************************************************)
EXTENDS UploadInv, TLAPS

\* Init establishes the type invariant and the inductive invariant.
LEMMA InitIInv == Init => IInv
  BY RecodeAssumption, UploadAssumption
  DEF Init, CatalogInit, IInv, TypeOK, CatalogTypeOK, Calls, Fresh, IssuedOnce,
      StepInv, FoundInv, TableInv, HashInv, MapInv, MetaInv, PreparedInv,
      DeletedInv, BlobKeyed

-----------------------------------------------------------------------------
\* Type correctness.

\* A row built from an upload with an id and a configured roof is a row.
LEMMA RowOfType ==
  ASSUME TypeOK, NEW u \in Uploads, issued[u] \in Ids, req[u].roof \in Roofs
  PROVE  RowOf(u) \in Row
  BY UploadAssumption DEF TypeOK, RowOf, Row

LEMMA SetAuthorType ==
  ASSUME TypeOK, NEW u \in Uploads, NEW roof, NEW id, SetAuthor(roof, id, u)
  PROVE  CatalogTypeOK'
  BY UploadAssumption DEF TypeOK, CatalogTypeOK, SetAuthor, Row

LEMMA EntrySaveType ==
  ASSUME TypeOK, NEW row \in Row, EntrySave(row)
  PROVE  /\ hashTab' \subseteq [hashed: Contents, item: Ids]
         /\ mapping' \subseteq [id: Ids, roofs: SUBSET Roofs]
         /\ meta' \subseteq Row
<1>1. CASE \E m \in RowsOf(row.id, meta) : m.roof = row.roof
  BY <1>1 DEF EntrySave, TypeOK, CatalogTypeOK
<1>2. CASE ~ \E m \in RowsOf(row.id, meta) : m.roof = row.roof
  <2>1. HashSave(Hashes(row.content), row.id) /\ MapSave(row.id, row.roof)
        /\ meta' = meta \cup {row}
    BY <1>2 DEF EntrySave
  <2>2. Hashes(row.content) \subseteq Contents /\ row.id \in Ids /\ row.roof \in Roofs
    BY RecodeAssumption DEF Hashes, Row
  <2>3. hashTab' \subseteq [hashed: Contents, item: Ids]
    BY <2>1, <2>2 DEF HashSave, TypeOK, CatalogTypeOK
  <2>4. mapping' \subseteq [id: Ids, roofs: SUBSET Roofs]
    BY <2>1, <2>2 DEF MapSave, TypeOK, CatalogTypeOK
  <2> QED BY <2>1, <2>3, <2>4 DEF TypeOK, CatalogTypeOK
<1> QED BY <1>1, <1>2

LEMMA EntrySetDoneType ==
  ASSUME TypeOK, NEW id, EntrySetDone(id)
  PROVE  CatalogTypeOK'
<1>1. CASE RowsOf(id, prepared) = {} /\ UNCHANGED <<hashTab, mapping, meta, prepared>>
  BY <1>1 DEF EntrySetDone, TypeOK, CatalogTypeOK
<1>2. ASSUME NEW row \in RowsOf(id, prepared), EntrySave(row), prepared' = prepared \ {row}
      PROVE  CatalogTypeOK'
  <2>1. row \in Row
    BY DEF RowsOf, TypeOK, CatalogTypeOK
  <2> QED BY <1>2, <2>1, EntrySaveType DEF EntrySetDone, TypeOK, CatalogTypeOK
<1> QED BY <1>1, <1>2 DEF EntrySetDone

LEMMA EntryDeleteType ==
  ASSUME TypeOK, NEW roof, NEW id, EntryDelete(roof, id)
  PROVE  CatalogTypeOK'
  BY DEF EntryDelete, RowsOf, TypeOK, CatalogTypeOK

LEMMA PutType ==
  ASSUME TypeOK, NEW u \in Uploads, issued[u] \in Ids, req[u].roof \in Roofs, Put(u)
  PROVE  blobs' \subseteq [roof: Roofs, id: Ids, content: Contents]
<1>1. Recode[req[u].content] \in Contents
  BY RecodeAssumption DEF TypeOK
<1> QED BY <1>1 DEF Put, TypeOK

\* Every step keeps the type invariant (with the help of StepInv, which says
\* that an upload past NextID has an id and a configured roof).
LEMMA TypeStep ==
  ASSUME TypeOK, StepInv, [Next]_vars
  PROVE  TypeOK'
<1> USE DEF Goto, ghosts
<1>1. ASSUME NEW u \in Uploads, Reject(u), UNCHANGED ghosts
      PROVE  TypeOK'
  BY <1>1 DEF Reject, tables, store, TypeOK, CatalogTypeOK, Answers
<1>2. ASSUME NEW u \in Uploads, GetHashHit(u), UNCHANGED ghosts
      PROVE  TypeOK'
  BY <1>2 DEF GetHashHit, tables, store, TypeOK, CatalogTypeOK, Calls
<1>3. ASSUME NEW u \in Uploads, GetHashMiss(u), UNCHANGED ghosts
      PROVE  TypeOK'
  BY <1>3 DEF GetHashMiss, tables, store, TypeOK, CatalogTypeOK, Calls
<1>4. ASSUME NEW u \in Uploads, GetMapping(u), UNCHANGED ghosts
      PROVE  TypeOK'
  BY <1>4 DEF GetMapping, tables, store, TypeOK, CatalogTypeOK, Calls, Answers
<1>5. ASSUME NEW u \in Uploads, UpdateExisting(u), UNCHANGED ghosts
      PROVE  TypeOK'
  <2>1. CatalogTypeOK'
    BY <1>5, SetAuthorType DEF UpdateExisting
  <2> QED BY <1>5, <2>1 DEF UpdateExisting, store, TypeOK, Answers
<1>6. ASSUME NEW u \in Uploads, NextId(u), UNCHANGED ghosts
      PROVE  TypeOK'
  BY <1>6 DEF NextId, tables, store, TypeOK, CatalogTypeOK, Calls, Fresh
<1>7. ASSUME NEW u \in Uploads, NextIdFails(u), UNCHANGED ghosts
      PROVE  TypeOK'
  BY <1>7 DEF NextIdFails, tables, store, TypeOK, CatalogTypeOK
<1>8. ASSUME NEW u \in Uploads, TrekAndSaveFile(u), UNCHANGED ghosts
      PROVE  TypeOK'
  BY <1>8 DEF TrekAndSaveFile, tables, TypeOK, CatalogTypeOK, Calls, Fresh, StepInv
<1>9. ASSUME NEW u \in Uploads, ReadyAlready(u), UNCHANGED ghosts
      PROVE  TypeOK'
  BY <1>9 DEF ReadyAlready, tables, store, TypeOK, CatalogTypeOK, Calls, Fresh
<1>10. ASSUME NEW u \in Uploads, ReadyNotYet(u), UNCHANGED ghosts
      PROVE  TypeOK'
  BY <1>10 DEF ReadyNotYet, tables, store, TypeOK, CatalogTypeOK, Calls, Fresh
<1>11. ASSUME NEW u \in Uploads, ReadyInsert(u), UNCHANGED ghosts
      PROVE  TypeOK'
  <2>1. RowOf(u) \in Row
    BY <1>11, RowOfType DEF ReadyInsert, StepInv, Fresh
  <2>2. CatalogTypeOK'
    BY <1>11, <2>1 DEF ReadyInsert, Prepare, tables, TypeOK, CatalogTypeOK
  <2>3. pc' \in [Uploads -> Calls \cup Answers \cup {"hung"}]
    BY <1>11 DEF ReadyInsert, TypeOK, Calls, Fresh, Answers
  <2> QED BY <1>11, <2>2, <2>3 DEF ReadyInsert, store, TypeOK
<1>12. ASSUME NEW u \in Uploads, PushTo(u), UNCHANGED ghosts
      PROVE  TypeOK'
  <2>1. blobs' \subseteq [roof: Roofs, id: Ids, content: Contents]
    BY <1>12, PutType DEF PushTo, StepInv, Fresh
  <2> QED BY <1>12, <2>1 DEF PushTo, tables, TypeOK, CatalogTypeOK, Calls, Fresh
<1>13. ASSUME NEW u \in Uploads, PushToFails(u), UNCHANGED ghosts
      PROVE  TypeOK'
  <2>1. blobs' \subseteq [roof: Roofs, id: Ids, content: Contents]
    BY <1>13, PutType DEF PushToFails, StepInv, Fresh, TypeOK
  <2> QED BY <1>13, <2>1 DEF PushToFails, tables, TypeOK, CatalogTypeOK, Answers
<1>14. ASSUME NEW u \in Uploads, SetDone(u), UNCHANGED ghosts
      PROVE  TypeOK'
  <2>1. CatalogTypeOK'
    BY <1>14, EntrySetDoneType DEF SetDone, tables, TypeOK, CatalogTypeOK
  <2>2. pc' \in [Uploads -> Calls \cup Answers \cup {"hung"}]
    BY <1>14 DEF SetDone, TypeOK, Answers
  <2> QED BY <1>14, <2>1, <2>2 DEF SetDone, store, TypeOK
<1>15. ASSUME NEW u \in Uploads, CallFails(u) PROVE TypeOK'
  BY <1>15 DEF CallFails, tables, store, TypeOK, CatalogTypeOK, Answers
<1>16. ASSUME NEW u \in Uploads, CommitLost(u) PROVE TypeOK'
  BY <1>16 DEF CommitLost, tables, store, TypeOK, CatalogTypeOK, Calls, Fresh, Answers
<1>17. ASSUME NEW roof \in Roofs, NEW id \in Ids, Delete(roof, id) PROVE TypeOK'
  <2>1. CatalogTypeOK'
    BY <1>17, EntryDeleteType DEF Delete
  <2> QED BY <1>17, <2>1 DEF Delete, RowsOf, locals, store, TypeOK, CatalogTypeOK, Row
<1>18. CASE Crash
  BY <1>18 DEF Crash, tables, store, TypeOK, CatalogTypeOK, Calls, Answers
<1>19. CASE UNCHANGED vars
  BY <1>19 DEF vars, tables, locals, store, TypeOK, CatalogTypeOK
<1> QED
  BY <1>1, <1>2, <1>3, <1>4, <1>5, <1>6, <1>7, <1>8, <1>9, <1>10, <1>11, <1>12,
     <1>13, <1>14, <1>15, <1>16, <1>17, <1>18, <1>19
  DEF Next, Step, Terminating

-----------------------------------------------------------------------------
\* What no step takes back.

\* Requests never change, an id once issued stays, pushed bytes stay, the orig
\* cache only grows, ids stay unique.
Stable ==
    /\ req' = req
    /\ \A u \in Uploads : issued[u] # NoId => issued'[u] = issued[u]
    /\ \A u \in Uploads : StoredBy(u) => StoredBy(u)'
    /\ orig \subseteq orig'

\* An upload that stored bytes has an id.
LEMMA StoredHasId ==
  ASSUME TypeOK, NEW u \in Uploads, StoredBy(u)
  PROVE  issued[u] \in Ids /\ issued[u] # NoId
  BY UploadAssumption DEF StoredBy, TypeOK

\* A Put replaces nothing another upload stored: the key is the id.
LEMMA PutStable ==
  ASSUME TypeOK, IssuedOnce, NEW u \in Uploads, Put(u),
         UNCHANGED <<req, issued>>, NEW v \in Uploads, StoredBy(v)
  PROVE  StoredBy(v)'
<1>1. CASE v = u
  BY <1>1 DEF Put, StoredBy
<1>2. CASE v # u
  <2>1. issued[v] # issued[u]
    BY <1>2, StoredHasId DEF IssuedOnce
  <2> QED BY <2>1 DEF Put, StoredBy
<1> QED BY <1>1, <1>2

\* Every step is stable in this sense.
LEMMA StepStable ==
  ASSUME TypeOK, IssuedOnce, StepInv, [Next]_vars
  PROVE  Stable
<1>1. ASSUME UNCHANGED <<req, issued, orig, blobs>> PROVE Stable
  BY <1>1 DEF Stable, StoredBy
<1>2. ASSUME NEW u \in Uploads, NextId(u) PROVE Stable
  <2>1. issued[u] = NoId
    BY <1>2 DEF NextId, StepInv, Calls, Fresh
  <2>2. \A v \in Uploads : issued[v] # NoId => issued'[v] = issued[v]
    BY <1>2, <2>1 DEF NextId, TypeOK
  <2>3. \A v \in Uploads : StoredBy(v) => StoredBy(v)'
    BY <1>2, <2>2, StoredHasId DEF NextId, store, StoredBy
  <2> QED BY <1>2, <2>2, <2>3 DEF NextId, store, Stable
<1>3. ASSUME NEW u \in Uploads, TrekAndSaveFile(u) PROVE Stable
  BY <1>3 DEF TrekAndSaveFile, Stable, StoredBy
<1>4. ASSUME NEW u \in Uploads, PushTo(u) \/ PushToFails(u) PROVE Stable
  <2>1. CASE Put(u)
    BY <1>4, <2>1, PutStable DEF PushTo, PushToFails, Stable
  <2>2. CASE UNCHANGED blobs
    BY <1>4, <2>2 DEF PushTo, PushToFails, Stable, StoredBy
  <2> QED BY <1>4, <2>1, <2>2 DEF PushTo, PushToFails
<1>5. ASSUME NEW u \in Uploads, Step(u) PROVE Stable
  BY <1>1, <1>2, <1>3, <1>4, <1>5
  DEF Step, Reject, GetHashHit, GetHashMiss, GetMapping, UpdateExisting,
      NextIdFails, ReadyAlready, ReadyNotYet, ReadyInsert, SetDone, store
<1> QED
  BY <1>1, <1>5
  DEF Next, CallFails, CommitLost, Delete, Crash, Terminating, vars, locals, store

\* Ids stay unique.
LEMMA IssuedOnceStep ==
  ASSUME TypeOK, IssuedOnce, [Next]_vars
  PROVE  IssuedOnce'
<1>1. ASSUME UNCHANGED issued PROVE IssuedOnce'
  BY <1>1 DEF IssuedOnce
<1>2. ASSUME NEW u \in Uploads, NextId(u) PROVE IssuedOnce'
  BY <1>2 DEF NextId, IssuedOnce, TypeOK
<1>3. ASSUME NEW u \in Uploads, Step(u) PROVE IssuedOnce'
  BY <1>1, <1>2, <1>3
  DEF Step, Reject, GetHashHit, GetHashMiss, GetMapping, UpdateExisting,
      NextIdFails, TrekAndSaveFile, ReadyAlready, ReadyNotYet, ReadyInsert,
      PushTo, PushToFails, SetDone
<1> QED
  BY <1>1, <1>3 DEF Next, CallFails, CommitLost, Delete, Crash, Terminating, vars, locals

\* A Put replaces the object under its key.
LEMMA BlobKeyedStep ==
  ASSUME TypeOK, BlobKeyed, [Next]_vars
  PROVE  BlobKeyed'
<1>1. CASE UNCHANGED blobs
  BY <1>1 DEF BlobKeyed
<1>2. ASSUME NEW u \in Uploads, Put(u) PROVE BlobKeyed'
  BY <1>2 DEF Put, BlobKeyed
<1>3. ASSUME NEW u \in Uploads, Step(u) PROVE BlobKeyed'
  BY <1>1, <1>2, <1>3
  DEF Step, Reject, GetHashHit, GetHashMiss, GetMapping, UpdateExisting, NextId,
      NextIdFails, TrekAndSaveFile, ReadyAlready, ReadyNotYet, ReadyInsert,
      PushTo, PushToFails, SetDone, store
<1> QED
  BY <1>1, <1>3
  DEF Next, CallFails, CommitLost, Delete, Crash, Terminating, vars, store

-----------------------------------------------------------------------------
\* The tables.

\* A step that leaves the tables alone keeps what is said about them.
LEMMA TablesUnchanged ==
  ASSUME TypeOK, TableInv, Stable, UNCHANGED tables
  PROVE  TableInv'
<1> USE UploadAssumption DEF Stable, TypeOK, CatalogTypeOK, Row
<1>1. HashInv'
  BY StoredHasId DEF TableInv, HashInv, tables, Hashes
<1>2. MapInv'
  BY StoredHasId DEF TableInv, MapInv, tables
<1>3. MetaInv'
  BY StoredHasId DEF TableInv, MetaInv, MadeBy, AuthorFits, Hashes, tables
<1>4. PreparedInv'
  BY DEF TableInv, PreparedInv, MadeBy, AuthorFits, Unpublished, Hashes, tables
<1>5. DeletedInv'
  BY DEF TableInv, DeletedInv, MadeBy, tables
<1> QED BY <1>1, <1>2, <1>3, <1>4, <1>5 DEF TableInv

\* UPDATE meta_<roof>: the new author uploaded the bytes of the entry.
LEMMA UpdateExistingTables ==
  ASSUME IInv, NEW u \in Uploads, UpdateExisting(u)
  PROVE  TableInv'
<1> USE DEF IInv, TableInv
<1>1. UNCHANGED <<hashTab, mapping, prepared, deleted, req, issued, found, orig, blobs>>
      /\ meta' = {IF m.id = found[u] /\ m.roof = req[u].roof
                  THEN [m EXCEPT !.author = u] ELSE m : m \in meta}
  BY DEF UpdateExisting, SetAuthor, store
<1>2. \A m \in meta' : \E n \in meta :
         /\ m.id = n.id /\ m.roof = n.roof /\ m.content = n.content
         /\ m = IF n.id = found[u] /\ n.roof = req[u].roof
                THEN [n EXCEPT !.author = u] ELSE n
  BY <1>1 DEF TypeOK, CatalogTypeOK, Row
<1>3. HashInv' /\ MapInv'
  BY <1>1 DEF HashInv, MapInv, StoredBy
<1>4. ASSUME NEW m \in meta'
      PROVE  (\E v \in Uploads : MadeBy(v, m)' /\ StoredBy(v)') /\ AuthorFits(m)'
  <2>1. PICK n \in meta :
           /\ m.id = n.id /\ m.roof = n.roof /\ m.content = n.content
           /\ m = IF n.id = found[u] /\ n.roof = req[u].roof
                  THEN [n EXCEPT !.author = u] ELSE n
    BY <1>2
  <2>2. PICK v \in Uploads : MadeBy(v, n) /\ StoredBy(v)
    BY DEF MetaInv
  <2>3. MadeBy(v, m)' /\ StoredBy(v)'
    BY <1>1, <2>1, <2>2 DEF MadeBy, StoredBy
  <2>4. CASE n.id = found[u] /\ n.roof = req[u].roof
    <3>1. n \in Row /\ found[u] # NoId
      BY <2>4, UploadAssumption DEF TypeOK, CatalogTypeOK, Row
    <3>2. PICK w \in Uploads : /\ issued[w] = found[u]
                              /\ req[u].content \in Hashes(req[w].content)
      BY <3>1 DEF FoundInv
    <3>3. w = v
      BY <2>2, <2>4, <3>1, <3>2 DEF MadeBy, IssuedOnce
    <3>4. req[u].content \in Hashes(m.content) /\ m.author = u /\ m.roof = req[u].roof
      BY <2>1, <2>2, <2>4, <3>1, <3>2, <3>3 DEF MadeBy, Row
    <3> QED BY <1>1, <2>3, <3>4 DEF AuthorFits, Hashes
  <2>5. CASE ~(n.id = found[u] /\ n.roof = req[u].roof)
    BY <1>1, <2>1, <2>3, <2>5 DEF MetaInv, AuthorFits, Hashes
  <2> QED BY <2>4, <2>5
<1>5. ASSUME NEW m \in meta', NEW n \in meta', m.id = n.id PROVE m = n
  BY <1>2, <1>5 DEF MetaInv
<1>6. MetaInv'
  BY <1>4, <1>5 DEF MetaInv
<1>7. PreparedInv' /\ DeletedInv'
  BY <1>1, <1>2 DEF PreparedInv, DeletedInv, Unpublished, MadeBy, AuthorFits, Hashes
<1> QED BY <1>3, <1>6, <1>7

\* INSERT INTO meta__prepared: a new id, and the bytes are in the orig cache.
LEMMA ReadyInsertTables ==
  ASSUME IInv, Stable, NEW u \in Uploads, ReadyInsert(u)
  PROVE  TableInv'
<1> USE DEF IInv
<1>1. CASE UNCHANGED tables
  BY <1>1, TablesUnchanged
<1>2. CASE Prepare(RowOf(u))
  <2>1. /\ UNCHANGED <<hashTab, mapping, meta, deleted, req, issued, found, orig, blobs>>
        /\ prepared' = prepared \cup {RowOf(u)}
        /\ \A p \in prepared : p.id # issued[u]
    BY <1>2 DEF ReadyInsert, Prepare, PrepareRaises, RowOf, store
  <2>2. issued[u] \in orig /\ Unpublished(issued[u])
    BY DEF ReadyInsert, StepInv, Fresh
  <2>3. HashInv' /\ MapInv' /\ MetaInv'
    BY <2>1 DEF TableInv, HashInv, MapInv, MetaInv, MadeBy, StoredBy, AuthorFits, Hashes
  <2>4. MadeBy(u, RowOf(u)) /\ AuthorFits(RowOf(u)) /\ RowOf(u).id = issued[u]
    BY DEF MadeBy, AuthorFits, RowOf, Hashes
  <2>5. PreparedInv'
    BY <2>1, <2>2, <2>4
    DEF TableInv, PreparedInv, MadeBy, AuthorFits, Unpublished, Hashes
  <2>6. DeletedInv'
    BY <2>1, <2>2, <2>4 DEF TableInv, DeletedInv, MadeBy, Unpublished
  <2> QED BY <2>3, <2>5, <2>6 DEF TableInv
<1> QED BY <1>1, <1>2 DEF ReadyInsert

\* entry_set_done publishes the prepared row of an upload whose bytes are stored.
LEMMA SetDoneTables ==
  ASSUME IInv, Stable, NEW u \in Uploads, SetDone(u)
  PROVE  TableInv'
<1> USE DEF IInv
<1>1. CASE UNCHANGED tables
  BY <1>1, TablesUnchanged
<1>2. ASSUME NEW row \in RowsOf(issued[u], prepared), EntrySave(row),
             prepared' = prepared \ {row}, UNCHANGED deleted
      PROVE  TableInv'
  <2>1. /\ row \in prepared /\ row \in Row /\ row.id = issued[u]
        /\ Unpublished(row.id) /\ AuthorFits(row) /\ StoredBy(u)
        /\ issued[u] \in Ids /\ issued[u] # NoId
    BY UploadAssumption
    DEF RowsOf, TypeOK, CatalogTypeOK, SetDone, StepInv, Fresh, TableInv, PreparedInv
  <2>2. MadeBy(u, row)
    BY <2>1 DEF TableInv, PreparedInv, MadeBy, IssuedOnce
  <2>3. UNCHANGED <<req, issued, found, orig, blobs>>
    BY DEF SetDone, store
  <2>4. RowsOf(row.id, mapping) = {} /\ RowsOf(row.id, meta) = {}
    BY <2>1 DEF RowsOf, Unpublished
  <2>5. /\ hashTab' \subseteq hashTab \cup [hashed: Hashes(row.content), item: {row.id}]
        /\ mapping' = mapping \cup {[id |-> row.id, roofs |-> {row.roof}]}
        /\ meta' = meta \cup {row}
    BY <1>2, <2>4 DEF EntrySave, HashSave, MapSave
  <2>6. HashInv'
    BY <2>1, <2>2, <2>3, <2>5 DEF TableInv, HashInv, MadeBy, StoredBy, Hashes
  <2>7. MapInv'
    BY <2>1, <2>2, <2>3, <2>5 DEF TableInv, MapInv, MadeBy, StoredBy
  <2>8. MetaInv'
    BY <2>1, <2>2, <2>3, <2>5
    DEF TableInv, MetaInv, MadeBy, StoredBy, AuthorFits, Unpublished, Hashes
  <2>9. \A p \in prepared' : p.id # row.id
    BY <1>2, <2>1 DEF TableInv, PreparedInv
  <2>10. PreparedInv'
    <3>1. \A p \in prepared' : p \in prepared /\ Unpublished(p.id)'
      BY <1>2, <2>5, <2>9 DEF TableInv, PreparedInv, Unpublished
    <3> QED BY <2>3, <3>1 DEF TableInv, PreparedInv, MadeBy, AuthorFits, Hashes
  <2>11. DeletedInv'
    BY <1>2, <2>1, <2>3, <2>5 DEF TableInv, DeletedInv, MadeBy, Unpublished
  <2> QED BY <2>6, <2>7, <2>8, <2>10, <2>11 DEF TableInv
<1> QED BY <1>1, <1>2 DEF SetDone, EntrySetDone, tables

\* entry_delete removes every trace of the id but the archived row.
LEMMA DeleteTables ==
  ASSUME IInv, NEW roof \in Roofs, NEW id \in Ids, Delete(roof, id)
  PROVE  TableInv'
<1> USE DEF IInv
<1>1. /\ UNCHANGED <<prepared, req, issued, found, orig, blobs>>
      /\ mapping' = {m \in mapping : m.id # id}
      /\ EntryDelete(roof, id)
  BY DEF Delete, EntryDelete, locals, store
<1>2. MapInv'
  BY <1>1 DEF TableInv, MapInv, StoredBy
<1>3. CASE UNCHANGED <<hashTab, meta, deleted>>
  <2>1. HashInv' /\ MetaInv'
    BY <1>1, <1>3 DEF TableInv, HashInv, MetaInv, MadeBy, StoredBy, AuthorFits, Hashes
  <2>2. PreparedInv' /\ DeletedInv'
    BY <1>1, <1>3
    DEF TableInv, PreparedInv, DeletedInv, MadeBy, Unpublished, AuthorFits, Hashes
  <2> QED BY <1>2, <2>1, <2>2 DEF TableInv
<1>4. ASSUME NEW row \in RowsOf(id, meta),
             deleted' = IF RowsOf(id, deleted) = {} THEN deleted \cup {row} ELSE deleted,
             hashTab' = {h \in hashTab : h.hashed \notin Hashes(row.content)},
             meta' = meta \ {row}
      PROVE  TableInv'
  <2>1. PICK u \in Uploads : MadeBy(u, row) /\ StoredBy(u)
    BY DEF TableInv, MetaInv, RowsOf
  <2>2. row \in meta /\ row.id = id /\ issued[u] = id /\ issued[u] # NoId
        /\ deleted' \subseteq deleted \cup {row}
    BY <1>4, <2>1, UploadAssumption DEF RowsOf, MadeBy
  <2>3. \A h \in hashTab' : h \in hashTab /\ h.item # id
    BY <1>4, <2>1, <2>2 DEF TableInv, HashInv, IssuedOnce, MadeBy
  <2>4. \A m \in meta' : m \in meta /\ m.id # id
    BY <1>4, <2>2 DEF TableInv, MetaInv
  <2>5. \A p \in prepared' : p \in prepared /\ p.id # id
    BY <1>1, <2>2 DEF TableInv, PreparedInv, Unpublished
  <2>6. HashInv' /\ MetaInv'
    BY <1>1, <2>3, <2>4
    DEF TableInv, HashInv, MetaInv, MadeBy, StoredBy, AuthorFits, Hashes
  <2>7. PreparedInv'
    <3>1. \A p \in prepared' : Unpublished(p.id)'
      BY <1>1, <2>2, <2>3, <2>4, <2>5 DEF TableInv, PreparedInv, Unpublished
    <3> QED BY <1>1, <3>1 DEF TableInv, PreparedInv, MadeBy, AuthorFits, Hashes
  <2>8. DeletedInv'
    BY <1>1, <2>1, <2>2, <2>3, <2>4, <2>5 DEF TableInv, DeletedInv, MadeBy
  <2> QED BY <1>2, <2>6, <2>7, <2>8 DEF TableInv
<1> QED BY <1>1, <1>3, <1>4 DEF EntryDelete

\* Every step keeps what is said about the tables.
LEMMA TablesStep ==
  ASSUME IInv, Stable, [Next]_vars
  PROVE  TableInv'
<1>1. CASE UNCHANGED tables
  BY <1>1, TablesUnchanged DEF IInv
<1>2. ASSUME NEW u \in Uploads, Step(u) PROVE TableInv'
  BY <1>1, <1>2, UpdateExistingTables, ReadyInsertTables, SetDoneTables
  DEF Step, Reject, GetHashHit, GetHashMiss, GetMapping, NextId, NextIdFails,
      TrekAndSaveFile, ReadyAlready, ReadyNotYet, PushTo, PushToFails
<1> QED
  BY <1>1, <1>2, DeleteTables
  DEF Next, CallFails, CommitLost, Crash, Terminating, vars

-----------------------------------------------------------------------------
\* The uploads.

\* Only the SetDone of the upload that has the id publishes the id.
LEMMA UnpublishedStep ==
  ASSUME IInv, [Next]_vars, NEW id, Unpublished(id),
         \A u \in Uploads : issued[u] = id => ~SetDone(u)
  PROVE  Unpublished(id)'
<1>1. CASE UNCHANGED <<hashTab, mapping, meta, deleted>>
  BY <1>1 DEF Unpublished
<1>2. ASSUME NEW u \in Uploads, UpdateExisting(u) PROVE Unpublished(id)'
  BY <1>2 DEF UpdateExisting, SetAuthor, Unpublished, IInv, TypeOK, CatalogTypeOK, Row
<1>3. ASSUME NEW u \in Uploads, SetDone(u) PROVE Unpublished(id)'
  <2>1. ASSUME NEW row \in RowsOf(issued[u], prepared), EntrySave(row), UNCHANGED deleted
        PROVE  Unpublished(id)'
    <3>1. row.id # id
      BY <1>3 DEF RowsOf
    <3>2. CASE UNCHANGED <<hashTab, mapping, meta>>
      BY <2>1, <3>2 DEF Unpublished
    <3>3. CASE HashSave(Hashes(row.content), row.id) /\ MapSave(row.id, row.roof)
               /\ meta' = meta \cup {row}
      <4>1. \A h \in hashTab' : h.item # id
        BY <3>1, <3>3 DEF HashSave, Unpublished
      <4>2. \A m \in mapping' : m.id # id
        BY <3>1, <3>3 DEF MapSave, Unpublished, IInv, TypeOK, CatalogTypeOK
      <4> QED BY <2>1, <3>1, <3>3, <4>1, <4>2 DEF Unpublished
    <3> QED BY <2>1, <3>2, <3>3 DEF EntrySave
  <2> QED BY <1>1, <1>3, <2>1 DEF SetDone, EntrySetDone, tables
<1>4. ASSUME NEW roof \in Roofs, NEW i \in Ids, Delete(roof, i) PROVE Unpublished(id)'
  BY <1>4 DEF Delete, EntryDelete, RowsOf, Unpublished
<1>5. ASSUME NEW u \in Uploads, Step(u) PROVE Unpublished(id)'
  BY <1>1, <1>2, <1>3, <1>5
  DEF Step, Reject, GetHashHit, GetHashMiss, GetMapping, NextId, NextIdFails,
      TrekAndSaveFile, ReadyAlready, ReadyNotYet, ReadyInsert, Prepare, PushTo,
      PushToFails, tables
<1> QED
  BY <1>1, <1>4, <1>5
  DEF Next, CallFails, CommitLost, Crash, Terminating, vars, tables

\* An id nobody was given is in no table.
LEMMA NewIdUnpublished ==
  ASSUME IInv, NEW id, \A u \in Uploads : issued[u] # id
  PROVE  Unpublished(id)
  BY DEF IInv, TableInv, HashInv, MapInv, MetaInv, DeletedInv, MadeBy, Unpublished

\* One upload's part of StepInv.
StepInvOf(u) ==
    /\ pc[u] \in Calls \ Fresh => issued[u] = NoId
    /\ pc[u] \in {"nextId"} \cup Fresh => req[u].roof \in Roofs
    /\ pc[u] \in Fresh => issued[u] \in Ids /\ Unpublished(issued[u])
    /\ pc[u] \in Fresh \ {"trek"} => issued[u] \in orig
    /\ pc[u] = "setDone" => StoredBy(u)

\* The id of an upload that is not in SetDone remains unpublished.
LEMMA FreshStaysUnpublished ==
  ASSUME IInv, [Next]_vars, NEW u \in Uploads,
         pc[u] \in Fresh, issued'[u] = issued[u], ~SetDone(u)
  PROVE  issued'[u] \in Ids /\ Unpublished(issued[u])'
<1>1. issued[u] \in Ids /\ issued[u] # NoId /\ Unpublished(issued[u])
  BY UploadAssumption DEF IInv, StepInv
<1>2. \A v \in Uploads : issued[v] = issued[u] => v = u
  BY <1>1 DEF IInv, IssuedOnce
<1>3. \A v \in Uploads : issued[v] = issued[u] => ~SetDone(v)
  BY <1>2
<1>4. \A id : id = issued[u] => Unpublished(id)'
  BY <1>1, <1>3, UnpublishedStep
<1> QED BY <1>1, <1>4 DEF Unpublished

\* An upload that does not move keeps its part, whatever the others do.
LEMMA StepInvOther ==
  ASSUME IInv, Stable, [Next]_vars, NEW u \in Uploads,
         pc'[u] = pc[u], issued'[u] = issued[u]
  PROVE  StepInvOf(u)'
<1>1. StepInvOf(u)
  BY DEF IInv, StepInv, StepInvOf
<1>2. ~SetDone(u)
  BY DEF SetDone, Goto, IInv, TypeOK
<1>3. pc[u] \in Fresh => issued'[u] \in Ids /\ Unpublished(issued[u])'
  BY <1>2, FreshStaysUnpublished
<1> QED BY <1>1, <1>3 DEF Stable, StepInvOf, Unpublished, StoredBy

\* The upload that moves establishes its part for its next step.
LEMMA StepInvMover ==
  ASSUME IInv, Stable, [Next]_vars, NEW u \in Uploads,
         Step(u) \/ CallFails(u) \/ CommitLost(u)
  PROVE  StepInvOf(u)'
<1> USE DEF Goto
<1>1. StepInvOf(u) /\ pc \in [Uploads -> Calls \cup Answers \cup {"hung"}]
  BY DEF IInv, StepInv, StepInvOf, TypeOK
<1>2. CASE \/ pc'[u] \in {"hung"} \cup Answers
           \/ /\ pc'[u] \in {"getMapping", "setAuthor"}
              /\ pc[u] \in Calls \ Fresh
              /\ issued' = issued
  BY <1>1, <1>2 DEF StepInvOf, Calls, Fresh, Answers
<1>3. CASE pc'[u] = "nextId" /\ pc[u] = "getHash" /\ issued' = issued
           /\ req[u].roof # NoRoof
  <2>1. req[u].roof \in Roofs
    BY <1>3 DEF IInv, TypeOK
  <2> QED BY <1>1, <1>3, <2>1 DEF StepInvOf, Calls, Fresh, Stable
<1>4. CASE NextId(u)
  <2>1. PICK id \in Ids : /\ \A v \in Uploads : issued[v] # id
                         /\ issued' = [issued EXCEPT ![u] = id]
    BY <1>4 DEF NextId
  <2>2. Unpublished(id)
    BY <2>1, NewIdUnpublished
  <2>3. pc'[u] = "trek" /\ issued'[u] = id /\ UNCHANGED tables /\ pc[u] = "nextId"
    BY <1>1, <1>4, <2>1 DEF NextId, IInv, TypeOK
  <2>4. Unpublished(issued[u])'
    BY <2>2, <2>3 DEF Unpublished, tables
  <2> QED BY <1>1, <2>3, <2>4 DEF StepInvOf, Fresh, Stable
<1>5. CASE /\ pc[u] \in Fresh \ {"setDone"}
           /\ pc'[u] \in Fresh \ {"trek"}
           /\ issued' = issued
           /\ pc[u] = "trek" => issued[u] \in orig'
           /\ pc'[u] = "setDone" => StoredBy(u)'
  <2>1. ~SetDone(u)
    BY <1>5 DEF SetDone
  <2>2. issued'[u] \in Ids /\ Unpublished(issued[u])'
    BY <1>5, <2>1, FreshStaysUnpublished
  <2> QED BY <1>1, <1>5, <2>2 DEF StepInvOf, Fresh, Stable
<1>6. CASE TrekAndSaveFile(u) \/ ReadyAlready(u) \/ ReadyNotYet(u) \/ ReadyInsert(u)
  BY <1>1, <1>2, <1>5, <1>6
  DEF TrekAndSaveFile, ReadyAlready, ReadyNotYet, ReadyInsert, Fresh, Answers
<1>7. CASE PushTo(u)
  <2>1. StoredBy(u)'
    BY <1>7 DEF PushTo, Put, StoredBy
  <2> QED BY <1>1, <1>5, <1>7, <2>1 DEF PushTo, Fresh
<1>8. CASE Reject(u) \/ GetHashHit(u) \/ GetMapping(u) \/ UpdateExisting(u)
           \/ NextIdFails(u) \/ PushToFails(u) \/ SetDone(u) \/ CallFails(u)
  BY <1>1, <1>2, <1>8
  DEF Reject, GetHashHit, GetMapping, UpdateExisting, NextIdFails, PushToFails,
      SetDone, CallFails, Calls, Fresh, Answers
<1>9. CASE GetHashMiss(u)
  BY <1>1, <1>3, <1>9 DEF GetHashMiss
<1>10. CASE CommitLost(u)
  BY <1>1, <1>2, <1>5, <1>10 DEF CommitLost, Fresh, Answers
<1> QED BY <1>4, <1>6, <1>7, <1>8, <1>9, <1>10 DEF Step

LEMMA StepInvStep ==
  ASSUME IInv, Stable, [Next]_vars
  PROVE  StepInv'
<1>1. SUFFICES ASSUME NEW v \in Uploads PROVE StepInvOf(v)'
  BY DEF StepInv, StepInvOf
<1>2. CASE \E u \in Uploads : Step(u) \/ CallFails(u) \/ CommitLost(u)
  <2>1. PICK u \in Uploads : Step(u) \/ CallFails(u) \/ CommitLost(u)
    BY <1>2
  <2>2. CASE v = u
    BY <2>1, <2>2, StepInvMover
  <2>3. CASE v # u
    <3>1. pc'[v] = pc[v] /\ issued'[v] = issued[v]
      BY <2>1, <2>3
      DEF Step, Reject, GetHashHit, GetHashMiss, GetMapping, UpdateExisting, NextId,
          NextIdFails, TrekAndSaveFile, ReadyAlready, ReadyNotYet, ReadyInsert,
          PushTo, PushToFails, SetDone, CallFails, CommitLost, Goto, IInv, TypeOK
    <3> QED BY <3>1, StepInvOther
  <2> QED BY <2>2, <2>3
<1>3. CASE UNCHANGED <<pc, issued>>
  BY <1>3, StepInvOther
<1>4. CASE Crash
  <2>1. issued' = issued /\ (pc'[v] = "dead" \/ pc'[v] = pc[v])
    BY <1>4 DEF Crash
  <2>2. CASE pc'[v] = "dead"
    BY <2>2 DEF StepInvOf, Calls, Fresh
  <2> QED BY <2>1, <2>2, StepInvOther
<1> QED BY <1>2, <1>3, <1>4 DEF Next, Delete, Terminating, vars, locals

\* The entry an upload is answered with keeps the bytes it was found for.
LEMMA FoundInvStep ==
  ASSUME IInv, Stable, [Next]_vars
  PROVE  FoundInv'
<1>1. CASE UNCHANGED found
  BY <1>1, StoredHasId DEF IInv, FoundInv, Stable, Hashes
<1>2. ASSUME NEW u \in Uploads, GetHashHit(u) PROVE FoundInv'
  <2>1. PICK h \in hashTab : h.hashed = req[u].content
                            /\ found' = [found EXCEPT ![u] = h.item]
    BY <1>2 DEF GetHashHit
  <2>2. PICK v \in Uploads : issued[v] = h.item /\ h.hashed \in Hashes(req[v].content)
                            /\ StoredBy(v)
    BY DEF IInv, TableInv, HashInv
  <2> QED BY <2>1, <2>2, StoredHasId DEF IInv, TypeOK, FoundInv, Stable, Hashes
<1>3. ASSUME NEW u \in Uploads, Step(u) PROVE FoundInv'
  BY <1>1, <1>2, <1>3
  DEF Step, Reject, GetHashMiss, GetMapping, UpdateExisting, NextId, NextIdFails,
      TrekAndSaveFile, ReadyAlready, ReadyNotYet, ReadyInsert, PushTo, PushToFails,
      SetDone, store
<1> QED
  BY <1>1, <1>3 DEF Next, CallFails, CommitLost, Delete, Crash, Terminating, vars, locals

-----------------------------------------------------------------------------
\* The theorems.

\* IInv is inductive.
LEMMA NextIInv ==
  ASSUME IInv, [Next]_vars
  PROVE  IInv'
<1>1. Stable
  BY StepStable DEF IInv
<1>2. TypeOK' /\ IssuedOnce' /\ BlobKeyed'
  BY TypeStep, IssuedOnceStep, BlobKeyedStep DEF IInv
<1>3. TableInv' /\ StepInv' /\ FoundInv'
  BY <1>1, TablesStep, StepInvStep, FoundInvStep
<1> QED BY <1>2, <1>3 DEF IInv

\* The inductive invariant holds in every reachable state.
THEOREM Invariance == Spec => []IInv
  BY InitIInv, NextIInv, PTL DEF Spec

\* Every variable of Upload keeps its type.
THEOREM TypeCorrect == Spec => []TypeOK
<1>1. IInv => TypeOK
  BY DEF IInv
<1> QED BY <1>1, Invariance, PTL

\* A listed hash leads to bytes of that hash, or their re-encoding, in the engine.
THEOREM HashRowsAreSound == Spec => []HashRowsSound
<1>1. IInv => HashRowsSound
  <2>1. SUFFICES ASSUME IInv, NEW h \in hashTab
                 PROVE  \E b \in blobs : b.id = h.item /\ b.content \in Hashes(h.hashed)
    BY DEF HashRowsSound
  <2>2. PICK u \in Uploads : issued[u] = h.item /\ h.hashed \in Hashes(req[u].content)
                            /\ StoredBy(u)
    BY <2>1 DEF IInv, TableInv, HashInv
  <2> QED BY <2>2 DEF StoredBy, Hashes
<1> QED BY <1>1, Invariance, PTL

\* A deduplicated upload is answered with an id that stores its own bytes.
THEOREM DedupeIsSound == Spec => []AnsweredWithOwnBytes
<1>1. IInv => AnsweredWithOwnBytes
  <2>1. SUFFICES ASSUME IInv, NEW u \in Uploads, found[u] # NoId
                 PROVE  \E b \in blobs : /\ b.id = found[u]
                                        /\ b.content \in Hashes(req[u].content)
    BY DEF AnsweredWithOwnBytes
  <2>2. PICK v \in Uploads : /\ issued[v] = found[u]
                            /\ req[u].content \in Hashes(req[v].content)
                            /\ StoredBy(v)
    BY <2>1 DEF IInv, FoundInv
  <2> QED BY <2>2 DEF StoredBy, Hashes
<1> QED BY <1>1, Invariance, PTL

\* Whatever the catalogue lists is in the engine of its roof.
THEOREM ListedIsBacked == Spec => []BlobBacked
<1>1. IInv => BlobBacked
  <2>1. SUFFICES ASSUME IInv PROVE BlobBacked
    OBVIOUS
  <2>2. ASSUME NEW m \in meta
        PROVE  [roof |-> m.roof, id |-> m.id, content |-> Recode[m.content]] \in blobs
    BY <2>1 DEF IInv, TableInv, MetaInv, MadeBy, StoredBy
  <2>3. ASSUME NEW m \in mapping, NEW r \in m.roofs
        PROVE  \E b \in blobs : b.roof = r /\ b.id = m.id
    BY <2>1 DEF IInv, TableInv, MapInv, StoredBy
  <2> QED BY <2>2, <2>3 DEF BlobBacked
<1> QED BY <1>1, Invariance, PTL

\* A prepared entry is not stored yet and its bytes are in the orig cache.
THEOREM PreparedIsRecoverable == Spec => []PreparedRecoverable
<1>1. IInv => PreparedRecoverable
  BY DEF IInv, TableInv, PreparedInv, Unpublished, PreparedRecoverable, RowsOf
<1> QED BY <1>1, Invariance, PTL

\* No table but the archive ever knows a deleted id again.
THEOREM DeleteIsFinal == Spec => []DeletedIsGone
<1>1. IInv => DeletedIsGone
  BY DEF IInv, TableInv, DeletedInv, DeletedIsGone, RowsOf
<1> QED BY <1>1, Invariance, PTL

\* An entry belongs to someone who uploaded its bytes to its roof.
THEOREM AuthorsAreUploaders == Spec => []AuthorUploadedIt
<1>1. IInv => AuthorUploadedIt
  BY DEF IInv, TableInv, MetaInv, AuthorFits, AuthorUploadedIt
<1> QED BY <1>1, Invariance, PTL

-----------------------------------------------------------------------------
\* An entry that the archive refuses, because it has the bytes of one that was
\* deleted before, stays listed and stays refused, whatever is done.
RefusedStaysRefused ==
    [][\A m \in meta : DeleteRaises(m) =>
          \E n \in meta' : n.id = m.id /\ n.content = m.content /\ DeleteRaises(n)']_vars

\* A step keeps the row and the reason: only a Delete could remove either.
LEMMA RefusedStep ==
  ASSUME IInv, Next, NEW m \in meta, DeleteRaises(m)
  PROVE  \E n \in meta' : n.id = m.id /\ n.content = m.content /\ DeleteRaises(n)'
<1>1. CASE meta \subseteq meta' /\ UNCHANGED deleted
  BY <1>1 DEF DeleteRaises, RowsOf
<1>2. ASSUME NEW u \in Uploads, UpdateExisting(u)
      PROVE  \E n \in meta' : n.id = m.id /\ n.content = m.content /\ DeleteRaises(n)'
  <2> DEFINE n == IF m.id = found[u] /\ m.roof = req[u].roof
                  THEN [m EXCEPT !.author = u] ELSE m
  <2>1. n \in meta' /\ UNCHANGED deleted
    BY <1>2 DEF UpdateExisting, SetAuthor
  <2>2. n.id = m.id /\ n.content = m.content
    BY DEF IInv, TypeOK, CatalogTypeOK, Row
  <2> HIDE DEF n
  <2> QED
    BY <2>1, <2>2 DEF DeleteRaises, RowsOf
<1>3. ASSUME NEW u \in Uploads, Step(u)
      PROVE  UpdateExisting(u) \/ (meta \subseteq meta' /\ UNCHANGED deleted)
  BY <1>3
  DEF Step, Reject, GetHashHit, GetHashMiss, GetMapping, NextId, NextIdFails, TrekAndSaveFile,
      ReadyAlready, ReadyNotYet, ReadyInsert, Prepare, PushTo, PushToFails, SetDone,
      EntrySetDone, EntrySave, tables
<1>4. ASSUME NEW roof \in Roofs, NEW id \in Ids, Delete(roof, id)
      PROVE  \E n \in meta' : n.id = m.id /\ n.content = m.content /\ DeleteRaises(n)'
  <2>1. CASE UNCHANGED <<meta, deleted>>
    BY <1>1, <2>1
  <2>2. ASSUME NEW row \in RowsOf(id, meta), ~DeleteRaises(row), meta' = meta \ {row},
               deleted' = IF RowsOf(id, deleted) = {} THEN deleted \cup {row} ELSE deleted
        PROVE  m \in meta' /\ DeleteRaises(m)'
    <3>1. m # row /\ row \in meta
      BY <2>2 DEF RowsOf
    <3>2. row.id # m.id
      BY <3>1 DEF IInv, TableInv, MetaInv
    <3>3. deleted \subseteq deleted' /\ deleted' \subseteq deleted \cup {row}
      BY <2>2
    <3> QED
      BY <2>2, <3>1, <3>2, <3>3 DEF DeleteRaises, RowsOf
  <2> QED
    BY <1>4, <2>1, <2>2 DEF Delete, EntryDelete
<1> QED
  BY <1>1, <1>2, <1>3, <1>4 DEF Next, CallFails, CommitLost, Crash, Terminating, vars, tables

\* entry_delete: what cannot be deleted now can never be deleted, for meta__deleted
\* is UNIQUE on the hashes and nothing is ever taken from it.
THEOREM RefusalIsFinal == Spec => RefusedStaysRefused
<1>1. IInv /\ [Next]_vars =>
        [\A m \in meta : DeleteRaises(m) =>
            \E n \in meta' : n.id = m.id /\ n.content = m.content /\ DeleteRaises(n)']_vars
  BY RefusedStep
<1> QED
  BY <1>1, Invariance, PTL DEF Spec, RefusedStaysRefused
=============================================================================
