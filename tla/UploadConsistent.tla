-------------------------- MODULE UploadConsistent --------------------------
(***************************************************************************)
(* More of what Upload guarantees, under every fault: the tables describe  *)
(* the same set of entries, but for deletes that name another roof, and an *)
(* answered upload is lost only in two ways.                               *)
(***************************************************************************)
EXTENDS UploadProofs

\* Listed hashes lead to stored entries; browsing and loading agree.
Consistent == ListedIsStored /\ BrowsableIffMapped

LEMMA SetDoneConsistent ==
  ASSUME IInv, Consistent, NEW u \in Uploads, SetDone(u), UNCHANGED ghosts
  PROVE  Consistent'
<1>1. CASE UNCHANGED tables
  BY <1>1 DEF Consistent, ListedIsStored, BrowsableIffMapped, RowsOf, tables, ghosts
<1>2. ASSUME NEW row \in RowsOf(issued[u], prepared), EntrySave(row)
      PROVE  Consistent'
  <2>1. RowsOf(row.id, mapping) = {} /\ RowsOf(row.id, meta) = {}
    BY DEF RowsOf, IInv, TableInv, PreparedInv, Unpublished
  <2>2. /\ hashTab' \subseteq hashTab \cup [hashed: Hashes(row.content), item: {row.id}]
        /\ mapping' = mapping \cup {[id |-> row.id, roofs |-> {row.roof}]}
        /\ meta' = meta \cup {row}
    BY <1>2, <2>1 DEF EntrySave, HashSave, MapSave
  <2>3. ListedIsStored'
    <3> DEFINE entry == [id |-> row.id, roofs |-> {row.roof}]
    <3>1. entry.id = row.id /\ mapping' = mapping \cup {entry}
      BY <2>2
    <3> HIDE DEF entry
    <3>2. ASSUME NEW h \in hashTab'
          PROVE  /\ (\E m \in mapping' : m.id = h.item) \/ h.item \in misdeleted
                 /\ \E m \in meta' : m.id = h.item
      <4>1. CASE h \in hashTab
        BY <2>2, <4>1 DEF Consistent, ListedIsStored, RowsOf
      <4>2. CASE h.item = row.id
        BY <2>2, <3>1, <4>2
      <4> QED BY <2>2, <4>1, <4>2
    <3> QED BY <3>2 DEF ListedIsStored, RowsOf, ghosts
  <2>4. BrowsableIffMapped'
    <3>0. \A m \in mapping : RowsOf(m.id, meta) # {}
      BY DEF Consistent, BrowsableIffMapped
    <3> DEFINE entry == [id |-> row.id, roofs |-> {row.roof}]
    <3>1. \A m \in meta' : [id |-> m.id, roofs |-> {m.roof}] \in mapping' \/ m.id \in misdeleted
      <4>1. ASSUME NEW m \in meta PROVE [id |-> m.id, roofs |-> {m.roof}] \in mapping' \/ m.id \in misdeleted
        BY <2>2 DEF Consistent, BrowsableIffMapped
      <4>2. entry \in mapping'
        BY <2>2
      <4>3. ASSUME NEW m \in meta' PROVE [id |-> m.id, roofs |-> {m.roof}] \in mapping' \/ m.id \in misdeleted
        <5>1. CASE m \in meta
          BY <4>1, <5>1
        <5>2. CASE m = row
          BY <4>2, <5>2
        <5> QED BY <2>2, <5>1, <5>2
      <4> QED BY <4>3
    <3>2. entry.id = row.id
      OBVIOUS
    <3>3. mapping' = mapping \cup {entry}
      BY <2>2
    <3> HIDE DEF entry
    <3>4. \A m \in mapping' : \E n \in meta' : n.id = m.id
      BY <2>2, <3>2, <3>3 DEF Consistent, BrowsableIffMapped, RowsOf
    <3> QED BY <3>1, <3>4 DEF BrowsableIffMapped, RowsOf, ghosts
  <2> QED BY <2>3, <2>4 DEF Consistent
<1> QED BY <1>1, <1>2 DEF SetDone, EntrySetDone, tables

LEMMA UpdateExistingConsistent ==
  ASSUME IInv, Consistent, NEW u \in Uploads, UpdateExisting(u), UNCHANGED ghosts
  PROVE  Consistent'
<1>1. UNCHANGED <<hashTab, mapping>>
      /\ meta' = {IF m.id = found[u] /\ m.roof = req[u].roof
                  THEN [m EXCEPT !.author = u] ELSE m : m \in meta}
  BY DEF UpdateExisting, SetAuthor
<1>2. \A m \in meta : [m EXCEPT !.author = u].id = m.id /\ [m EXCEPT !.author = u].roof = m.roof
  BY DEF IInv, TypeOK, CatalogTypeOK, Row
<1>3. \A m \in meta : \E n \in meta' : n.id = m.id /\ n.roof = m.roof
  BY <1>1, <1>2
<1>4. \A n \in meta' : \E m \in meta : n.id = m.id /\ n.roof = m.roof
  BY <1>1, <1>2
<1>5. \A id : RowsOf(id, meta) # {} => RowsOf(id, meta') # {}
  BY <1>3 DEF RowsOf
<1>6. ListedIsStored'
  <2>1. \A h \in hashTab :
           (RowsOf(h.item, mapping) # {} \/ h.item \in misdeleted) /\ RowsOf(h.item, meta) # {}
    BY DEF Consistent, ListedIsStored
  <2>2. \A h \in hashTab' :
           (RowsOf(h.item, mapping') # {} \/ h.item \in misdeleted') /\ RowsOf(h.item, meta') # {}
    BY <1>1, <1>5, <2>1 DEF ghosts
  <2> QED BY <2>2 DEF ListedIsStored, RowsOf
<1>7. BrowsableIffMapped'
  <2>1. \A n \in meta' : [id |-> n.id, roofs |-> {n.roof}] \in mapping' \/ n.id \in misdeleted
    BY <1>1, <1>4 DEF Consistent, BrowsableIffMapped
  <2>2. \A m \in mapping' : RowsOf(m.id, meta') # {}
    BY <1>1, <1>5 DEF Consistent, BrowsableIffMapped
  <2> QED BY <2>1, <2>2 DEF BrowsableIffMapped, RowsOf, ghosts
<1> QED BY <1>6, <1>7 DEF Consistent

\* With the roof of the entry, everything that names the id goes at once.
LEMMA RightDeleteConsistent ==
  ASSUME IInv, Consistent, NEW roof \in Roofs, NEW id \in Ids, Delete(roof, id),
         \E m \in RowsOf(id, meta) : m.roof = roof
  PROVE  Consistent'
<1>1. PICK row \in RowsOf(id, meta) :
         /\ row.roof = roof
         /\ hashTab' = {h \in hashTab : h.hashed \notin Hashes(row.content)}
         /\ mapping' = {m \in mapping : m.id # id}
         /\ meta' = meta \ {row}
  BY DEF Delete, EntryDelete, RowsOf
<1>2. PICK u \in Uploads : MadeBy(u, row) /\ StoredBy(u)
  BY DEF RowsOf, IInv, TableInv, MetaInv
<1>3. row \in meta /\ row.id = id /\ issued[u] = id /\ issued[u] # NoId
  BY <1>2, UploadAssumption DEF RowsOf, MadeBy
<1>4. \A h \in hashTab' : h \in hashTab /\ h.item # id
  BY <1>1, <1>2, <1>3 DEF IInv, TableInv, HashInv, IssuedOnce, MadeBy
<1>5. \A m \in meta : m.id # id <=> m \in meta'
  BY <1>1, <1>3 DEF IInv, TableInv, MetaInv
<1>6. misdeleted \subseteq misdeleted'
  BY DEF Delete
<1>7. ListedIsStored'
  BY <1>1, <1>4, <1>5, <1>6 DEF Consistent, ListedIsStored, RowsOf
<1>8. BrowsableIffMapped'
  BY <1>1, <1>3, <1>5, <1>6 DEF Consistent, BrowsableIffMapped, RowsOf
<1> QED BY <1>7, <1>8 DEF Consistent

\* With another roof only the mapping goes, and the id is noted.
LEMMA WrongDeleteConsistent ==
  ASSUME Consistent, NEW roof \in Roofs, NEW id \in Ids, Delete(roof, id),
         \A m \in RowsOf(id, meta) : m.roof # roof
  PROVE  Consistent'
<1>1. /\ hashTab' = hashTab /\ meta' = meta
      /\ mapping' = {m \in mapping : m.id # id}
  BY DEF Delete, EntryDelete, RowsOf
<1>2. /\ misdeleted \subseteq misdeleted'
      /\ \A m \in meta : m.id = id => id \in misdeleted'
  BY DEF Delete, RowsOf
<1>3. ListedIsStored'
  BY <1>1, <1>2 DEF Consistent, ListedIsStored, RowsOf
<1>4. BrowsableIffMapped'
  <2>1. \A m \in mapping' : RowsOf(m.id, meta') # {}
    BY <1>1 DEF Consistent, BrowsableIffMapped
  <2>2. ASSUME NEW m \in meta, m.id # id
        PROVE  [id |-> m.id, roofs |-> {m.roof}] \in mapping' \/ m.id \in misdeleted'
    <3> DEFINE entry == [id |-> m.id, roofs |-> {m.roof}]
    <3>1. entry.id = m.id
      OBVIOUS
    <3>2. entry \in mapping \/ m.id \in misdeleted
      BY DEF Consistent, BrowsableIffMapped
    <3> HIDE DEF entry
    <3>3. entry \in mapping' \/ m.id \in misdeleted'
      BY <1>1, <1>2, <2>2, <3>1, <3>2
    <3> QED BY <3>3 DEF entry
  <2>3. \A m \in meta' :
           [id |-> m.id, roofs |-> {m.roof}] \in mapping' \/ m.id \in misdeleted'
    BY <1>1, <1>2, <2>2
  <2> QED BY <2>1, <2>3 DEF BrowsableIffMapped, RowsOf
<1> QED BY <1>3, <1>4 DEF Consistent

LEMMA ConsistentStep ==
  ASSUME IInv, Consistent, [Next]_vars
  PROVE  Consistent'
<1>1. CASE UNCHANGED <<hashTab, mapping, meta, misdeleted>>
  BY <1>1 DEF Consistent, ListedIsStored, BrowsableIffMapped, RowsOf
<1>2. ASSUME NEW u \in Uploads, Step(u) PROVE Consistent'
  BY <1>1, <1>2, SetDoneConsistent, UpdateExistingConsistent
  DEF Step, Reject, GetHashHit, GetHashMiss, GetMapping, NextId, NextIdFails,
      TrekAndSaveFile, ReadyAlready, ReadyNotYet, ReadyInsert, Prepare, PushTo,
      PushToFails, tables, ghosts
<1>3. ASSUME NEW roof \in Roofs, NEW id \in Ids, Delete(roof, id) PROVE Consistent'
  BY <1>3, RightDeleteConsistent, WrongDeleteConsistent
<1> QED
  BY <1>1, <1>2, <1>3
  DEF Next, CallFails, CommitLost, Crash, Terminating, vars, tables, ghosts

\* The hash tables, the mapping tables and the meta tables describe the same set of
\* entries, up to the mappings taken by deletes that named another roof.
THEOREM CatalogIsConsistent == Spec => [](ListedIsStored /\ BrowsableIffMapped)
<1>1. Init => Consistent
  BY DEF Init, CatalogInit, Consistent, ListedIsStored, BrowsableIffMapped
<1>2. IInv /\ Consistent /\ [Next]_vars => Consistent'
  BY ConsistentStep
<1>3. Consistent <=> ListedIsStored /\ BrowsableIffMapped
  BY DEF Consistent
<1> QED BY <1>1, <1>2, <1>3, Invariance, PTL DEF Spec

\* A listed hash leads to a browsable entry, which is mapped too unless a delete
\* named another roof for it.
THEOREM ListedEntriesAreStored == Spec => []ListedIsStored
BY CatalogIsConsistent, PTL

-----------------------------------------------------------------------------
\* Lost uploads.

\* Why the row of an upload may be nowhere.
Excused(u) == HasTwin(u) \/ (u \in uncommitted)

\* From Ready to the answer, the row of an upload is somewhere, or it is excused.
TwinInv ==
    \A u \in Uploads :
        /\ pc[u] \in {"push", "setDone"} => RowsOf(issued[u], prepared) # {} \/ Excused(u)
        /\ pc[u] = "done" /\ issued[u] # NoId =>
              RowsOf(issued[u], meta \cup deleted) # {} \/ Excused(u)

\* A prepared row leaves meta__prepared only by the SetDone of its upload, and
\* then it is in meta_<roof>.
LEMMA PreparedStays ==
  ASSUME IInv, [Next]_vars, NEW id, RowsOf(id, prepared) # {},
         \A u \in Uploads : issued[u] = id => ~SetDone(u)
  PROVE  RowsOf(id, prepared)' # {}
<1>1. ASSUME NEW u \in Uploads, Step(u) PROVE RowsOf(id, prepared)' # {}
  <2>1. CASE SetDone(u)
    <3>1. PICK p \in prepared : p.id = id
      BY DEF RowsOf
    <3>2. p \in prepared'
      BY <2>1, <3>1 DEF SetDone, EntrySetDone, tables, RowsOf
    <3> QED BY <3>1, <3>2 DEF RowsOf
  <2>2. CASE ~SetDone(u)
    BY <1>1, <2>2
    DEF Step, Reject, GetHashHit, GetHashMiss, GetMapping, NextId, NextIdFails,
        UpdateExisting, SetAuthor, TrekAndSaveFile, ReadyAlready, ReadyNotYet,
        ReadyInsert, Prepare, PushTo, PushToFails, tables, RowsOf
  <2> QED BY <2>1, <2>2
<1> QED
  BY <1>1 DEF Next, CallFails, CommitLost, Delete, EntryDelete, Crash, Terminating,
             vars, tables, RowsOf

\* An archived row stays; a row of meta_<roof> stays, gets a new author, or is archived.
LEMMA PublishedStays ==
  ASSUME IInv, [Next]_vars, NEW id, RowsOf(id, meta \cup deleted) # {}
  PROVE  RowsOf(id, meta \cup deleted)' # {}
<1>1. PICK r \in meta \cup deleted : r.id = id
  BY DEF RowsOf
<1>2. CASE UNCHANGED <<meta, deleted>>
  BY <1>2 DEF RowsOf
<1>3. ASSUME NEW u \in Uploads, Step(u) PROVE RowsOf(id, meta \cup deleted)' # {}
  <2>1. CASE SetDone(u)
    BY <1>1, <2>1 DEF SetDone, EntrySetDone, EntrySave, tables, RowsOf
  <2>2. CASE UpdateExisting(u)
    <3>1. \A m \in meta : [m EXCEPT !.author = u].id = m.id
      BY DEF IInv, TypeOK, CatalogTypeOK, Row
    <3> QED BY <1>1, <2>2, <3>1 DEF UpdateExisting, SetAuthor, RowsOf
  <2>3. CASE ~SetDone(u) /\ ~UpdateExisting(u)
    BY <1>2, <1>3, <2>3
    DEF Step, Reject, GetHashHit, GetHashMiss, GetMapping, NextId, NextIdFails,
        TrekAndSaveFile, ReadyAlready, ReadyNotYet, ReadyInsert, Prepare, PushTo,
        PushToFails, tables
  <2> QED BY <2>1, <2>2, <2>3
<1>4. ASSUME NEW roof \in Roofs, NEW i \in Ids, Delete(roof, i)
      PROVE  RowsOf(id, meta \cup deleted)' # {}
  BY <1>1, <1>4 DEF Delete, EntryDelete, RowsOf, IInv, TableInv, DeletedInv
<1> QED
  BY <1>2, <1>3, <1>4
  DEF Next, CallFails, CommitLost, Crash, Terminating, vars, tables

\* What is announced or published stays so, up to the archive.
LEMMA AnnouncedStays ==
  ASSUME IInv, [Next]_vars, NEW v \in Uploads, issued'[v] = issued[v],
         RowsOf(issued[v], prepared \cup meta \cup deleted) # {}
  PROVE  RowsOf(issued[v], prepared \cup meta \cup deleted)' # {}
<1>1. issued[v] # NoId
  <2>1. PICK r \in prepared \cup meta \cup deleted : r.id = issued[v]
    BY DEF RowsOf
  <2>2. r.id \in Ids
    BY DEF IInv, TypeOK, CatalogTypeOK, Row
  <2> QED BY <2>1, <2>2, UploadAssumption
<1>2. CASE RowsOf(issued[v], meta \cup deleted) # {}
  <2>1. \A id : id = issued[v] => RowsOf(id, meta \cup deleted)' # {}
    BY <1>2, PublishedStays
  <2> QED BY <2>1 DEF RowsOf
<1>3. CASE RowsOf(issued[v], prepared) # {} /\ ~SetDone(v)
  <2>1. \A w \in Uploads : issued[w] = issued[v] => ~SetDone(w)
    BY <1>1, <1>3 DEF IInv, IssuedOnce
  <2>2. \A id : id = issued[v] => RowsOf(id, prepared)' # {}
    BY <1>3, <2>1, PreparedStays
  <2> QED BY <2>2 DEF RowsOf
<1>4. CASE RowsOf(issued[v], prepared) # {} /\ SetDone(v)
  <2>1. CASE UNCHANGED tables
    BY <1>4, <2>1 DEF RowsOf, tables
  <2>2. ASSUME NEW row \in RowsOf(issued[v], prepared), EntrySave(row)
        PROVE  RowsOf(issued[v], prepared \cup meta \cup deleted)' # {}
    <3>1. \E m \in meta' : m.id = issued[v]
      BY <2>2 DEF EntrySave, RowsOf
    <3> QED BY <3>1 DEF RowsOf
  <2> QED BY <1>4, <2>1, <2>2 DEF SetDone, EntrySetDone, tables
<1> QED BY <1>2, <1>3, <1>4 DEF RowsOf

\* Twins stay twins.
LEMMA TwinStays ==
  ASSUME IInv, Stable, [Next]_vars, NEW u \in Uploads, HasTwin(u)
  PROVE  HasTwin(u)'
<1>1. PICK v \in Uploads \ {u} :
         /\ req[v].content = Recode[req[u].content]
         /\ RowsOf(issued[v], prepared \cup meta \cup deleted) # {}
  BY DEF HasTwin
<1>2. issued[v] # NoId
  <2>1. PICK r \in prepared \cup meta \cup deleted : r.id = issued[v]
    BY <1>1 DEF RowsOf
  <2>2. r.id \in Ids
    BY DEF IInv, TypeOK, CatalogTypeOK, Row
  <2> QED BY <2>1, <2>2, UploadAssumption
<1>3. req' = req /\ issued'[v] = issued[v]
  BY <1>1, <1>2 DEF Stable
<1>4. RowsOf(issued[v], prepared \cup meta \cup deleted)' # {}
  BY <1>1, <1>3, AnnouncedStays
<1> QED BY <1>1, <1>3, <1>4 DEF HasTwin

\* Excuses stay.
LEMMA ExcusedStays ==
  ASSUME IInv, Stable, [Next]_vars, NEW u \in Uploads, Excused(u)
  PROVE  Excused(u)'
<1>1. uncommitted \subseteq uncommitted'
  BY DEF Next, Step, CallFails, CommitLost, Delete, Crash, Terminating, vars, ghosts
<1> QED BY <1>1, TwinStays DEF Excused

\* One upload's part of TwinInv.
TwinInvOf(u) ==
    /\ pc[u] \in {"push", "setDone"} => RowsOf(issued[u], prepared) # {} \/ Excused(u)
    /\ pc[u] = "done" /\ issued[u] # NoId =>
          RowsOf(issued[u], meta \cup deleted) # {} \/ Excused(u)

\* The prepared row of an upload stays until its SetDone.
LEMMA OwnPreparedStays ==
  ASSUME IInv, Stable, [Next]_vars, NEW u \in Uploads,
         pc[u] \in {"push", "setDone"}, ~SetDone(u), issued'[u] = issued[u],
         RowsOf(issued[u], prepared) # {} \/ Excused(u)
  PROVE  RowsOf(issued[u], prepared)' # {} \/ Excused(u)'
<1>1. CASE Excused(u)
  BY <1>1, ExcusedStays
<1>2. CASE RowsOf(issued[u], prepared) # {}
  <2>1. issued[u] # NoId
    BY UploadAssumption DEF IInv, StepInv, Fresh
  <2>2. \A v \in Uploads : issued[v] = issued[u] => ~SetDone(v)
    BY <2>1 DEF IInv, IssuedOnce
  <2>3. \A id : id = issued[u] => RowsOf(id, prepared)' # {}
    BY <1>2, <2>2, PreparedStays
  <2> QED BY <2>3 DEF RowsOf
<1> QED BY <1>1, <1>2

LEMMA TwinInvOther ==
  ASSUME IInv, Stable, [Next]_vars, NEW u \in Uploads, TwinInvOf(u),
         pc'[u] = pc[u], issued'[u] = issued[u]
  PROVE  TwinInvOf(u)'
<1>1. CASE pc[u] \in {"push", "setDone"}
  <2>1. ~SetDone(u)
    BY DEF SetDone, Goto, IInv, TypeOK
  <2> QED BY <1>1, <2>1, OwnPreparedStays DEF TwinInvOf
<1>2. CASE pc[u] = "done" /\ issued[u] # NoId
  <2>1. CASE Excused(u)
    BY <1>2, <2>1, ExcusedStays DEF TwinInvOf
  <2>2. CASE RowsOf(issued[u], meta \cup deleted) # {}
    <3>1. \A id : id = issued[u] => RowsOf(id, meta \cup deleted)' # {}
      BY <2>2, PublishedStays
    <3>2. RowsOf(issued[u], meta \cup deleted)' # {}
      BY <3>1 DEF RowsOf
    <3> QED BY <1>2, <3>2 DEF TwinInvOf
  <2> QED BY <1>2, <2>1, <2>2 DEF TwinInvOf
<1>3. CASE pc[u] \notin {"push", "setDone"} /\ ~(pc[u] = "done" /\ issued[u] # NoId)
  BY <1>3 DEF TwinInvOf
<1> QED BY <1>1, <1>2, <1>3

LEMMA TwinInvMover ==
  ASSUME IInv, Stable, [Next]_vars, NEW u \in Uploads,
         TwinInvOf(u), Step(u) \/ CallFails(u) \/ CommitLost(u)
  PROVE  TwinInvOf(u)'
<1> USE DEF Goto
<1>1. pc \in [Uploads -> Calls \cup Answers \cup {"hung"}]
  BY DEF IInv, TypeOK
<1>2. CASE pc'[u] \notin {"push", "setDone", "done"}
  BY <1>2 DEF TwinInvOf
<1>3. CASE Reject(u) \/ GetHashHit(u) \/ GetHashMiss(u) \/ GetMapping(u) \/ NextId(u)
           \/ NextIdFails(u) \/ TrekAndSaveFile(u) \/ ReadyNotYet(u)
           \/ PushToFails(u) \/ CallFails(u)
  BY <1>1, <1>2, <1>3
  DEF Reject, GetHashHit, GetHashMiss, GetMapping, NextId, NextIdFails,
      TrekAndSaveFile, ReadyNotYet, PushToFails, CallFails
<1>4. CASE UpdateExisting(u)
  <2>1. issued'[u] = NoId /\ pc'[u] = "done"
    BY <1>1, <1>4 DEF UpdateExisting, IInv, StepInv, Calls, Fresh
  <2> QED BY <2>1 DEF TwinInvOf
<1>5. CASE ReadyAlready(u)
  <2>1. /\ pc'[u] = "push" /\ UNCHANGED <<tables, issued, req>>
        /\ issued[u] \in Ids
    BY <1>1, <1>5 DEF ReadyAlready, IInv, StepInv, Fresh
  <2>2. PICK p \in prepared : p.id = issued[u] \/ p.content = Recode[req[u].content]
    BY <1>5 DEF ReadyAlready
  <2>3. PICK v \in Uploads : MadeBy(v, p)
    BY DEF IInv, TableInv, PreparedInv
  <2>4. CASE p.id = issued[u]
    BY <2>1, <2>4 DEF TwinInvOf, RowsOf, tables
  <2>5. CASE p.id # issued[u] /\ p.content = Recode[req[u].content]
    <3>1. v \in Uploads \ {u} /\ req[v].content = Recode[req[u].content]
          /\ p.id = issued[v]
      BY <2>3, <2>5 DEF MadeBy
    <3>2. RowsOf(issued[v], prepared \cup meta \cup deleted) # {}
      BY <2>2, <3>1 DEF RowsOf
    <3>3. HasTwin(u)'
      BY <2>1, <3>1, <3>2 DEF HasTwin, tables, RowsOf
    <3>4. Excused(u)'
      BY <3>3 DEF Excused
    <3> QED BY <2>1, <3>4 DEF TwinInvOf
  <2> QED BY <2>2, <2>4, <2>5
<1>6. CASE ReadyInsert(u)
  <2>1. CASE Prepare(RowOf(u))
    <3>1. RowOf(u) \in prepared' /\ RowOf(u).id = issued'[u] /\ pc'[u] # "done"
      BY <1>1, <1>6, <2>1 DEF ReadyInsert, Prepare, PrepareRaises, RowOf
    <3> QED BY <3>1 DEF TwinInvOf, RowsOf
  <2>2. CASE ~Prepare(RowOf(u))
    BY <1>1, <1>2, <1>6, <2>2 DEF ReadyInsert
  <2> QED BY <2>1, <2>2
<1>7. CASE PushTo(u)
  <2>1. /\ pc[u] = "push" /\ pc'[u] = "setDone" /\ issued'[u] = issued[u] /\ ~SetDone(u)
    BY <1>1, <1>7 DEF PushTo, SetDone
  <2> QED BY <2>1, OwnPreparedStays DEF TwinInvOf
<1>8. CASE SetDone(u)
  <2>1. pc[u] = "setDone" /\ issued' = issued /\ pc'[u] # "push" /\ pc'[u] # "setDone"
    BY <1>1, <1>8 DEF SetDone
  <2>2. CASE Excused(u)
    BY <2>1, <2>2, ExcusedStays DEF TwinInvOf
  <2>3. CASE RowsOf(issued[u], prepared) # {} /\ pc'[u] = "done"
    <3>1. PICK row \in RowsOf(issued[u], prepared) : EntrySave(row)
      BY <1>1, <1>8, <2>3 DEF SetDone, EntrySetDone
    <3>2. \E m \in meta' : m.id = issued[u]
      BY <3>1 DEF EntrySave, RowsOf
    <3> QED BY <2>1, <3>2 DEF TwinInvOf, RowsOf
  <2> QED BY <2>1, <2>2, <2>3 DEF TwinInvOf
<1>9. CASE CommitLost(u)
  BY <1>9 DEF CommitLost, TwinInvOf, Excused
<1> QED BY <1>3, <1>4, <1>5, <1>6, <1>7, <1>8, <1>9 DEF Step

LEMMA TwinInvStep ==
  ASSUME IInv, TwinInv, [Next]_vars
  PROVE  TwinInv'
<1>1. Stable
  BY StepStable DEF IInv
<1>2. SUFFICES ASSUME NEW v \in Uploads PROVE TwinInvOf(v)'
  BY DEF TwinInv, TwinInvOf
<1>3. TwinInvOf(v)
  BY DEF TwinInv, TwinInvOf
<1>4. CASE \E u \in Uploads : Step(u) \/ CallFails(u) \/ CommitLost(u)
  <2>1. PICK u \in Uploads : Step(u) \/ CallFails(u) \/ CommitLost(u)
    BY <1>4
  <2>2. CASE v = u
    BY <1>1, <1>3, <2>1, <2>2, TwinInvMover
  <2>3. CASE v # u
    <3>1. pc'[v] = pc[v] /\ issued'[v] = issued[v]
      BY <2>1, <2>3
      DEF Step, Reject, GetHashHit, GetHashMiss, GetMapping, UpdateExisting, NextId,
          NextIdFails, TrekAndSaveFile, ReadyAlready, ReadyNotYet, ReadyInsert,
          PushTo, PushToFails, SetDone, CallFails, CommitLost, Goto, IInv, TypeOK
    <3> QED BY <1>1, <1>3, <3>1, TwinInvOther
  <2> QED BY <2>2, <2>3
<1>5. CASE UNCHANGED <<pc, issued>>
  BY <1>1, <1>3, <1>5, TwinInvOther
<1>6. CASE Crash
  <2>1. issued' = issued /\ (pc'[v] = "dead" \/ pc'[v] = pc[v])
    BY <1>6 DEF Crash
  <2>2. CASE pc'[v] = "dead"
    BY <2>2 DEF TwinInvOf
  <2> QED BY <1>1, <1>3, <2>1, <2>2, TwinInvOther
<1> QED
  BY <1>4, <1>5, <1>6 DEF Next, Delete, Terminating, vars, locals

\* An upload that got an id and was answered "stored" has its row, had it until a
\* delete, lost a commit, or another upload that brought the bytes it is stored as,
\* before or meanwhile, has a row that is announced or was published.
THEOREM OnlyTwinsAreLost == Spec => []LostOnlyToTwin
<1>1. Init => TwinInv
  BY DEF Init, TwinInv
<1>2. IInv /\ TwinInv /\ [Next]_vars => TwinInv'
  BY TwinInvStep
<1>3. TwinInv => LostOnlyToTwin
  BY DEF TwinInv, Excused, LostOnlyToTwin
<1> QED BY <1>1, <1>2, <1>3, Invariance, PTL DEF Spec
=============================================================================
