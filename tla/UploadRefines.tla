---------------------------- MODULE UploadRefines ----------------------------
(***************************************************************************)
(* The upload and delete paths implement Registry, whatever fails: every   *)
(* step publishes one id, withdraws one, or leaves what is served alone.   *)
(***************************************************************************)
EXTENDS UploadProofs

\* The content served under an id is what its upload pushed.
LEMMA ServedContent ==
  ASSUME IInv, NEW b \in blobs, IsServed(b)
  PROVE  \E u \in Uploads : /\ issued[u] = b.id
                            /\ b.roof = req[u].roof
                            /\ b.content = Recode[req[u].content]
<1>1. PICK m \in mapping : m.id = b.id /\ b.roof \in m.roofs
  BY DEF IsServed
<1>2. PICK u \in Uploads : issued[u] = m.id /\ m.roofs = {req[u].roof} /\ StoredBy(u)
  BY DEF IInv, TableInv, MapInv
<1>3. b.roof = req[u].roof
  BY <1>1, <1>2
<1>4. b = [roof |-> req[u].roof, id |-> issued[u], content |-> Recode[req[u].content]]
  BY <1>1, <1>2, <1>3 DEF IInv, BlobKeyed, StoredBy
<1> QED BY <1>1, <1>2, <1>4

\* A step that leaves mapping, meta, deleted and blobs alone is a stutter.
LEMMA SameRegistry ==
  ASSUME UNCHANGED <<mapping, meta, deleted, blobs>>
  PROVE  UNCHANGED <<Served, Spent>>
  BY DEF Served, Spent, IsServed

\* Bytes that are pushed are not served before SetDone.
LEMMA PutIsStutter ==
  ASSUME IInv, NEW u \in Uploads, pc[u] = "push", Put(u),
         UNCHANGED <<mapping, meta, deleted>>
  PROVE  UNCHANGED <<Served, Spent>>
<1>1. \A m \in mapping : m.id # issued[u]
  BY DEF IInv, StepInv, Fresh, Unpublished
<1>2. \A b : b \in blobs' /\ IsServed(b)' <=> b \in blobs /\ IsServed(b)
  BY <1>1 DEF Put, IsServed
<1>3. Served' = {[id |-> b.id, content |-> b.content] :
                   b \in {x \in blobs' : IsServed(x)'}}
  BY DEF Served, IsServed
<1>4. {x \in blobs' : IsServed(x)'} = {x \in blobs : IsServed(x)}
  BY <1>2
<1>5. Served' = Served
  BY <1>3, <1>4 DEF Served
<1> QED BY <1>5 DEF Spent

\* A new author changes nothing the registry sees.
LEMMA SetAuthorIsStutter ==
  ASSUME IInv, NEW u \in Uploads, UpdateExisting(u)
  PROVE  UNCHANGED <<Served, Spent>>
<1>1. UNCHANGED <<mapping, deleted, blobs>>
      /\ meta' = {IF m.id = found[u] /\ m.roof = req[u].roof
                  THEN [m EXCEPT !.author = u] ELSE m : m \in meta}
  BY DEF UpdateExisting, SetAuthor, store
<1>2. \A m \in meta : [m EXCEPT !.author = u].id = m.id
  BY DEF IInv, TypeOK, CatalogTypeOK, Row
<1>3. {m.id : m \in meta'} = {m.id : m \in meta}
  <2>1. ASSUME NEW m \in meta' PROVE \E n \in meta : n.id = m.id
    BY <1>1, <1>2
  <2>2. ASSUME NEW n \in meta PROVE \E m \in meta' : m.id = n.id
    BY <1>1, <1>2
  <2> QED BY <2>1, <2>2
<1>4. Spent' = Spent
  <2>1. Spent = {m.id : m \in meta} \cup {d.id : d \in deleted}
    BY DEF Spent
  <2>2. Spent' = {m.id : m \in meta'} \cup {d.id : d \in deleted'}
    BY DEF Spent
  <2> QED BY <1>1, <1>3, <2>1, <2>2
<1> QED BY <1>1, <1>4 DEF Served, IsServed

\* SetDone publishes the id of its upload, or does nothing.
LEMMA SetDonePublishes ==
  ASSUME IInv, NEW u \in Uploads, SetDone(u)
  PROVE  \/ UNCHANGED <<Served, Spent>>
         \/ \E id \in Ids, c \in Contents : registry!Publish(id, c)
<1>1. CASE UNCHANGED tables
  BY <1>1, SameRegistry DEF SetDone, store, tables
<1>2. ASSUME NEW row \in RowsOf(issued[u], prepared), EntrySave(row), UNCHANGED deleted
      PROVE  \E id \in Ids, c \in Contents : registry!Publish(id, c)
  <2> DEFINE c == Recode[req[u].content]
             id == issued[u]
             mine == [roof |-> req[u].roof, id |-> id, content |-> c]
  <2>1. /\ row.id = id /\ id \in Ids /\ Unpublished(id) /\ StoredBy(u)
        /\ row.roof = req[u].roof
    <3>1. row.id = id /\ id \in Ids /\ Unpublished(id) /\ StoredBy(u)
      BY DEF RowsOf, SetDone, IInv, StepInv, Fresh
    <3>2. PICK v \in Uploads : MadeBy(v, row)
      BY DEF RowsOf, IInv, TableInv, PreparedInv
    <3>3. v = u
      BY <3>1, <3>2, UploadAssumption DEF MadeBy, IInv, IssuedOnce
    <3> QED BY <3>1, <3>2, <3>3 DEF MadeBy
  <2>2. /\ mapping' = mapping \cup {[id |-> id, roofs |-> {row.roof}]}
        /\ meta' = meta \cup {row}
        /\ UNCHANGED <<blobs, deleted>>
    BY <1>2, <2>1 DEF EntrySave, MapSave, RowsOf, Unpublished, SetDone, store
  <2>3. c \in Contents
    BY RecodeAssumption DEF IInv, TypeOK
  <2>4. Spent' = Spent \cup {id} /\ id \notin Spent
    BY <2>1, <2>2 DEF Spent, Unpublished
  <2>5. /\ mine \in blobs
        /\ \A b \in blobs : b.roof = req[u].roof /\ b.id = id <=> b = mine
    <3>1. mine \in blobs /\ mine.roof = req[u].roof /\ mine.id = id
      BY <2>1 DEF StoredBy
    <3> HIDE DEF mine
    <3> QED BY <3>1 DEF IInv, BlobKeyed
  <2>6. Served' = Served \cup {[id |-> id, content |-> c]}
    <3>1. mine.id = id /\ mine.content = c
      OBVIOUS
    <3> HIDE DEF mine
    <3>2. \A b \in blobs : IsServed(b)' <=> IsServed(b) \/ b = mine
      <4>1. SUFFICES ASSUME NEW b \in blobs PROVE IsServed(b)' <=> IsServed(b) \/ b = mine
        OBVIOUS
      <4>2. IsServed(b)' <=> IsServed(b) \/ (b.id = id /\ b.roof = req[u].roof)
        <5> DEFINE entry == [id |-> id, roofs |-> {row.roof}]
        <5>1. entry.id = id /\ entry.roofs = {req[u].roof}
          BY <2>1
        <5>2. mapping' = mapping \cup {entry}
          BY <2>2
        <5> HIDE DEF entry
        <5> QED BY <5>1, <5>2 DEF IsServed
      <4> QED BY <2>5, <4>2
    <3>3. {x \in blobs' : IsServed(x)'} = {x \in blobs : IsServed(x)} \cup {mine}
      BY <2>2, <2>5, <3>2
    <3>4. Served' = {[id |-> b.id, content |-> b.content] :
                       b \in {x \in blobs' : IsServed(x)'}}
      BY DEF Served, IsServed
    <3>5. Served' = {[id |-> b.id, content |-> b.content] :
                       b \in {x \in blobs : IsServed(x)} \cup {mine}}
      BY <3>3, <3>4
    <3> QED BY <3>1, <3>5 DEF Served
  <2> QED BY <2>1, <2>3, <2>4, <2>6 DEF registry!Publish
<1> QED BY <1>1, <1>2 DEF SetDone, EntrySetDone, tables

\* Delete withdraws the id.
LEMMA DeleteWithdraws ==
  ASSUME IInv, NEW roof \in Roofs, NEW id \in Ids, Delete(roof, id)
  PROVE  registry!Withdraw(id)
<1>1. mapping' = {m \in mapping : m.id # id} /\ UNCHANGED blobs
  BY DEF Delete, EntryDelete, store
<1>2. \A b : IsServed(b)' <=> IsServed(b) /\ b.id # id
  BY <1>1 DEF IsServed
<1>3. Served' = {s \in Served : s.id # id}
  <2>1. Served' = {[id |-> b.id, content |-> b.content] :
                     b \in {x \in blobs' : IsServed(x)'}}
    BY DEF Served, IsServed
  <2>2. {x \in blobs' : IsServed(x)'} = {x \in blobs : IsServed(x) /\ x.id # id}
    BY <1>1, <1>2
  <2> QED BY <2>1, <2>2 DEF Served
<1>4. Spent' = Spent
  <2>1. CASE UNCHANGED <<meta, deleted>>
    BY <2>1 DEF Spent
  <2>2. ASSUME NEW row \in RowsOf(id, meta), meta' = meta \ {row},
               deleted' = IF RowsOf(id, deleted) = {} THEN deleted \cup {row} ELSE deleted
        PROVE  Spent' = Spent
    <3>1. RowsOf(id, deleted) = {}
      BY DEF RowsOf, IInv, TableInv, DeletedInv
    <3>2. meta' \cup deleted' = meta \cup deleted
      BY <2>2, <3>1 DEF RowsOf
    <3> QED BY <3>2 DEF Spent
  <2> QED BY <2>1, <2>2 DEF Delete, EntryDelete
<1> QED BY <1>3, <1>4 DEF registry!Withdraw

\* Every step of Upload is a step of the registry or a stutter.
LEMMA RegistryStep ==
  ASSUME IInv, [Next]_vars
  PROVE  [registry!Next]_<<Served, Spent>>
<1>1. CASE UNCHANGED <<mapping, meta, deleted, blobs>>
  BY <1>1, SameRegistry
<1>2. ASSUME NEW u \in Uploads, PushTo(u) \/ PushToFails(u)
      PROVE  UNCHANGED <<Served, Spent>>
  BY <1>2, PutIsStutter, SameRegistry DEF PushTo, PushToFails, tables
<1>3. ASSUME NEW u \in Uploads, Step(u) PROVE [registry!Next]_<<Served, Spent>>
  <2>1. CASE SetDone(u)
    BY <2>1, SetDonePublishes DEF registry!Next
  <2>2. CASE UpdateExisting(u)
    BY <2>2, SetAuthorIsStutter
  <2>3. CASE ~SetDone(u) /\ ~UpdateExisting(u)
    BY <1>1, <1>2, <1>3, <2>3
    DEF Step, Reject, GetHashHit, GetHashMiss, GetMapping, NextId, NextIdFails,
        TrekAndSaveFile, ReadyAlready, ReadyNotYet, ReadyInsert, Prepare, store, tables
  <2> QED BY <2>1, <2>2, <2>3
<1>4. ASSUME NEW roof \in Roofs, NEW id \in Ids, Delete(roof, id)
      PROVE  [registry!Next]_<<Served, Spent>>
  BY <1>4, DeleteWithdraws DEF registry!Next
<1> QED
  BY <1>1, <1>3, <1>4
  DEF Next, CallFails, CommitLost, Crash, Terminating, vars, tables, store

\* Clients that hold an id see a registry: one content per id, served from one
\* instant on, withdrawn for good (Entry.Store, entry_set_done, entry_delete).
THEOREM Refinement == Spec => ImplementsRegistry
<1>1. Init => registry!Init
  BY DEF Init, CatalogInit, registry!Init, Served, Spent
<1>2. IInv /\ [Next]_vars => [registry!Next]_<<Served, Spent>>
  BY RegistryStep
<1> QED BY <1>1, <1>2, Invariance, PTL DEF Spec, ImplementsRegistry, registry!Spec
=============================================================================
