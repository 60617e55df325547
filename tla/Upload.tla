------------------------------- MODULE Upload -------------------------------
(***************************************************************************)
(* Entry.Store (storage/entry.go) run by concurrent uploads against the    *)
(* catalogue, the storage engines and the orig cache, with Delete, lost    *)
(* commits, failing calls and a crash of the server in between.            *)
(*                                                                         *)
(* Every upload is one goroutine of storedHandler or of rpcImage.Store,    *)
(* continued by the _save goroutine; pc[u] names the next call it makes to *)
(* the database, the disk or the engine.  What happens between two such    *)
(* calls is local to the upload, so each action is one call and what is    *)
(* done with its result.                                                   *)
(***************************************************************************)
EXTENDS Catalog

CONSTANTS
    Uploads,    \* upload attempts; a client that retries is another upload
    NoRoof,     \* a roof argument that is empty or names no configured roof
    NoId,       \* Entry.Id before one is assigned
    Faults      \* the failures the environment may inject, from FaultKinds

FaultKinds ==
    { "lookup",     \* the SELECT of GetHash or GetMapping fails
      "tx",         \* a transaction fails: error reported, rolled back
      "commit",     \* the COMMIT is lost: withTxQuery reports success
      "nextId",     \* SELECT id_generator() fails
      "save",       \* Trek rejects the image, or the orig cache is not written
      "push",       \* the storage engine fails
      "crash",      \* the server process dies
      "wrongRoof" } \* a DELETE names a roof that does not hold the id

ASSUME UploadAssumption ==
    /\ NoRoof \notin Roofs
    /\ NoId \notin Ids
    /\ Authors = Uploads
    /\ Faults \subseteq FaultKinds

VARIABLES
    pc,         \* the next call of the upload, or its answer
    req,        \* the roof and the content the client sends
    issued,     \* the id NextID gave to the upload
    found,      \* the id GetHash found for the upload
    orig,       \* ids whose file is in the orig cache
    blobs,      \* what the engines hold: [roof, id, content]
    misdeleted, \* ghost: ids that a delete named with a roof that does not hold them
    uncommitted \* ghost: uploads that lost a commit

locals == <<pc, req, issued, found>>
store == <<orig, blobs>>
ghosts == <<misdeleted, uncommitted>>
vars == <<tables, locals, store, ghosts>>

Answers == {"done", "failed", "dead"}
Fresh == {"trek", "prepareCheck", "prepare", "push", "setDone"}
Calls == {"getHash", "getMapping", "setAuthor", "nextId"} \cup Fresh

TypeOK ==
    /\ CatalogTypeOK
    /\ pc \in [Uploads -> Calls \cup Answers \cup {"hung"}]
    /\ req \in [Uploads -> [roof: Roofs \cup {NoRoof}, content: Contents]]
    /\ issued \in [Uploads -> Ids \cup {NoId}]
    /\ found \in [Uploads -> Ids \cup {NoId}]
    /\ orig \subseteq Ids
    /\ blobs \subseteq [roof: Roofs, id: Ids, content: Contents]
    /\ misdeleted \subseteq Ids
    /\ uncommitted \subseteq Uploads

\* The requests are whatever the clients are going to send.
Init ==
    /\ CatalogInit
    /\ pc = [u \in Uploads |-> "getHash"]
    /\ req \in [Uploads -> [roof: Roofs \cup {NoRoof}, content: Contents]]
    /\ issued = [u \in Uploads |-> NoId]
    /\ found = [u \in Uploads |-> NoId]
    /\ orig = {}
    /\ blobs = {}
    /\ misdeleted = {}
    /\ uncommitted = {}

RowOf(u) == [id |-> issued[u], roof |-> req[u].roof,
             content |-> req[u].content, author |-> u]

Goto(u, label) == pc' = [pc EXCEPT ![u] = label]

-----------------------------------------------------------------------------
\* The steps of Store.

\* An empty roof and a roof without engine are refused before anything is done.
Reject(u) ==
    /\ pc[u] = "getHash"
    /\ req[u].roof = NoRoof
    /\ Goto(u, "failed")
    /\ UNCHANGED <<tables, req, issued, found, store>>

\* Mutant of GetHashHit: the columns of the row are scanned in the wrong order.
GetHashHitScansHash(u) ==
    /\ pc[u] = "getHash"
    /\ req[u].roof # NoRoof
    /\ \E h \in hashTab :
          /\ h.hashed = req[u].content
          /\ found' = [found EXCEPT ![u] = h.hashed]
    /\ Goto(u, "getMapping")
    /\ UNCHANGED <<tables, req, issued, store>>

GetHashHit(u) ==
    /\ pc[u] = "getHash"
    /\ req[u].roof # NoRoof
    /\ \E h \in hashTab :
          /\ h.hashed = req[u].content
          /\ found' = [found EXCEPT ![u] = h.item]
    /\ Goto(u, "getMapping")
    /\ UNCHANGED <<tables, req, issued, store>>

\* Every error of GetHash, a failed query included, is taken for an absent hash.
GetHashMiss(u) ==
    /\ pc[u] = "getHash"
    /\ req[u].roof # NoRoof
    /\ \/ \A h \in hashTab : h.hashed # req[u].content
       \/ "lookup" \in Faults
    /\ Goto(u, "nextId")
    /\ UNCHANGED <<tables, req, issued, found, store>>

\* Mutant of GetMapping: the error is logged, not sent on the channel.
GetMappingForgetsToSend(u) ==
    /\ pc[u] = "getMapping"
    /\ \/ /\ RowsOf(found[u], mapping) # {}
          /\ Goto(u, "setAuthor")
       \/ /\ RowsOf(found[u], mapping) = {} \/ "lookup" \in Faults
          /\ Goto(u, "hung")
    /\ UNCHANGED <<tables, req, issued, found, store>>

GetMapping(u) ==
    /\ pc[u] = "getMapping"
    /\ \/ /\ RowsOf(found[u], mapping) # {}
          /\ Goto(u, "setAuthor")
       \/ /\ RowsOf(found[u], mapping) = {} \/ "lookup" \in Faults
          /\ Goto(u, "failed")
    /\ UNCHANGED <<tables, req, issued, found, store>>

\* The existing entry: the uploader becomes its author, the answer is the entry.
UpdateExisting(u) ==
    /\ pc[u] = "setAuthor"
    /\ SetAuthor(req[u].roof, found[u], u)
    /\ Goto(u, "done")
    /\ UNCHANGED <<req, issued, found, store>>

\* Mutant of NextId: the generator may repeat an id.
NextIdRepeats(u) ==
    /\ pc[u] = "nextId"
    /\ \E id \in Ids : issued' = [issued EXCEPT ![u] = id]
    /\ Goto(u, "trek")
    /\ UNCHANGED <<tables, req, found, store>>

NextId(u) ==
    /\ pc[u] = "nextId"
    /\ \E id \in Ids :
          /\ \A v \in Uploads : issued[v] # id
          /\ issued' = [issued EXCEPT ![u] = id]
    /\ Goto(u, "trek")
    /\ UNCHANGED <<tables, req, found, store>>

\* Store returns without sending on ch or closing it; the caller waits on ch.
NextIdFails(u) ==
    /\ pc[u] = "nextId"
    /\ "nextId" \in Faults
    /\ Goto(u, "hung")
    /\ UNCHANGED <<tables, req, issued, found, store>>

\* Trek re-encodes in memory; SaveFile writes the result to the orig cache.
TrekAndSaveFile(u) ==
    /\ pc[u] = "trek"
    /\ orig' = orig \cup {issued[u]}
    /\ Goto(u, "prepareCheck")
    /\ UNCHANGED <<tables, req, issued, found, blobs>>

\* Ready finds its id, or its stored content as the 'hash' of a row, already
\* prepared, and returns nil without inserting.
ReadyAlready(u) ==
    /\ pc[u] = "prepareCheck"
    /\ \E p \in prepared :
          p.id = issued[u] \/ p.content = Recode[req[u].content]
    /\ Goto(u, "push")
    /\ UNCHANGED <<tables, req, issued, found, store>>

ReadyNotYet(u) ==
    /\ pc[u] = "prepareCheck"
    /\ \A p \in prepared :
          p.id # issued[u] /\ p.content # Recode[req[u].content]
    /\ Goto(u, "prepare")
    /\ UNCHANGED <<tables, req, issued, found, store>>

ReadyInsert(u) ==
    /\ pc[u] = "prepare"
    /\ \/ Prepare(RowOf(u)) /\ Goto(u, "push")
       \/ PrepareRaises(RowOf(u)) /\ UNCHANGED tables /\ Goto(u, "failed")
    /\ UNCHANGED <<req, issued, found, store>>

\* The engine's key is the id, so a Put replaces what the key held.
Put(u) ==
    blobs' = {b \in blobs : b.roof # req[u].roof \/ b.id # issued[u]}
             \cup {[roof |-> req[u].roof, id |-> issued[u],
                    content |-> Recode[req[u].content]]}

PushTo(u) ==
    /\ pc[u] = "push"
    /\ Put(u)
    /\ Goto(u, "setDone")
    /\ UNCHANGED <<tables, req, issued, found, orig>>

\* Mutant of PushToFails: the error of the engine is dropped.
PushToFailsUnseen(u) ==
    /\ pc[u] = "push"
    /\ "push" \in Faults
    /\ Put(u) \/ UNCHANGED blobs
    /\ Goto(u, "setDone")
    /\ UNCHANGED <<tables, req, issued, found, orig>>

\* Put may fail after it wrote the blob (the .meta file of the file engine).
PushToFails(u) ==
    /\ pc[u] = "push"
    /\ "push" \in Faults
    /\ Put(u) \/ UNCHANGED blobs
    /\ Goto(u, "failed")
    /\ UNCHANGED <<tables, req, issued, found, orig>>

\* Mutant of SetDone: the error of entry_set_done is dropped as well.
SetDoneErrorUnseen(u) ==
    /\ pc[u] = "setDone"
    /\ \/ EntrySetDone(issued[u]) /\ Goto(u, "done")
       \/ /\ \E row \in RowsOf(issued[u], prepared) : SaveRaises(row)
          /\ UNCHANGED tables
          /\ Goto(u, "done")
    /\ UNCHANGED <<req, issued, found, store>>

\* SetDone looks at the error of entry_set_done only, not at what it returns.
SetDone(u) ==
    /\ pc[u] = "setDone"
    /\ \/ EntrySetDone(issued[u]) /\ Goto(u, "done")
       \/ /\ \E row \in RowsOf(issued[u], prepared) : SaveRaises(row)
          /\ UNCHANGED tables
          /\ Goto(u, "failed")
    /\ UNCHANGED <<req, issued, found, store>>

Step(u) ==
    /\ \/ Reject(u) \/ GetHashHit(u) \/ GetHashMiss(u) \/ GetMapping(u)
       \/ UpdateExisting(u) \/ NextId(u) \/ NextIdFails(u) \/ TrekAndSaveFile(u)
       \/ ReadyAlready(u) \/ ReadyNotYet(u) \/ ReadyInsert(u)
       \/ PushTo(u) \/ PushToFails(u) \/ SetDone(u)
    /\ UNCHANGED ghosts

-----------------------------------------------------------------------------
\* The environment.

\* A call that reports its error ends the upload with that error.
CallFails(u) ==
    /\ \/ pc[u] \in {"setAuthor", "prepareCheck", "prepare", "setDone"} /\ "tx" \in Faults
       \/ pc[u] = "trek" /\ "save" \in Faults
    /\ Goto(u, "failed")
    /\ UNCHANGED <<tables, req, issued, found, store, ghosts>>

\* withTxQuery drops the error of Commit: the step counts as done, nothing is stored.
CommitLost(u) ==
    /\ "commit" \in Faults
    /\ \/ pc[u] \in {"setAuthor", "setDone"} /\ Goto(u, "done")
       \/ pc[u] = "prepare" /\ Goto(u, "push")
    /\ uncommitted' = uncommitted \cup {u}
    /\ UNCHANGED <<tables, req, issued, found, store, misdeleted>>

\* The process dies with every upload in flight; tables and files remain.
Crash ==
    /\ "crash" \in Faults
    /\ \E u \in Uploads : pc[u] \in Calls \ {"getHash"}
    /\ pc' = [u \in Uploads |->
                IF pc[u] \in (Calls \ {"getHash"}) \cup {"hung"} THEN "dead" ELSE pc[u]]
    /\ UNCHANGED <<tables, req, issued, found, store, ghosts>>

\* storage.Delete, for any id and roof a client sends.
Delete(roof, id) ==
    /\ \/ "wrongRoof" \in Faults
       \/ \E m \in meta : m.id = id /\ m.roof = roof
    /\ EntryDelete(roof, id)
    /\ misdeleted' = misdeleted \cup {m.id : m \in {x \in RowsOf(id, meta) : x.roof # roof}}
    /\ UNCHANGED <<locals, store, uncommitted>>

Terminating ==
    /\ \A u \in Uploads : pc[u] \in Answers \cup {"hung"}
    /\ UNCHANGED vars

Next ==
    \/ \E u \in Uploads : Step(u) \/ CallFails(u) \/ CommitLost(u)
    \/ \E roof \in Roofs, id \in Ids : Delete(roof, id)
    \/ Crash
    \/ Terminating

Spec == Init /\ [][Next]_vars

\* Goroutines are scheduled and calls return, with a result or an error.
FairSpec == Spec /\ \A u \in Uploads : WF_vars(Step(u))

-----------------------------------------------------------------------------
\* Safety.

\* hash_<x> never leads to other bytes: the engine holds, under the item listed
\* for a hash, the content of that hash or its re-encoding (hash_save on stored
\* and original hash, entry_delete by hash value).
HashRowsSound ==
    \A h \in hashTab : \E b \in blobs :
        b.id = h.item /\ b.content \in Hashes(h.hashed)

\* An upload answered with an existing entry (Store, the GetHash branch) gets an
\* id under which its own bytes are stored, as they are or re-encoded, whatever
\* is deleted between the lookup and the answer.
AnsweredWithOwnBytes ==
    \A u \in Uploads : found[u] # NoId =>
        \E b \in blobs :
            b.id = found[u] /\ b.content \in Hashes(req[u].content)

\* _save pushes before SetDone: whatever the catalogue lists, a browsable row
\* of meta_<roof> or a roof of a mapping, is in that roof's engine.
BlobBacked ==
    /\ \A m \in meta :
          [roof |-> m.roof, id |-> m.id, content |-> Recode[m.content]] \in blobs
    /\ \A m \in mapping : \A r \in m.roofs :
          \E b \in blobs : b.roof = r /\ b.id = m.id

\* The bytes of an announced entry are in the orig cache, so that the entry can
\* be completed after a crash (popPrepared), and it is not stored already.
PreparedRecoverable ==
    \A p \in prepared : p.id \in orig /\ RowsOf(p.id, meta) = {}

\* entry_delete is final: no late SetDone, dedupe or retry brings an archived
\* id back into any table.
DeletedIsGone ==
    \A d \in deleted :
        /\ RowsOf(d.id, meta) = {}
        /\ RowsOf(d.id, mapping) = {}
        /\ RowsOf(d.id, prepared) = {}
        /\ \A h \in hashTab : h.item # d.id

\* SetAuthor: an entry changes hands only to who uploaded its bytes to its roof.
AuthorUploadedIt ==
    \A m \in meta :
        /\ req[m.author].roof = m.roof
        /\ req[m.author].content \in Hashes(m.content)

\* Another upload brought the very bytes that u is stored as, and its own row is
\* announced still or was published.
HasTwin(u) ==
    \E v \in Uploads \ {u} :
        /\ req[v].content = Recode[req[u].content]
        /\ RowsOf(issued[v], prepared \cup meta \cup deleted) # {}

\* An upload that got an id and the answer "stored" has its row, or had it until
\* a delete, unless it lost a commit itself (withTxQuery drops that error) or a
\* row announced for another upload made Ready return early.  That other upload
\* may be under way, or one that failed or died before this one began (a retry);
\* its row is never lost with this one's.
LostOnlyToTwin ==
    \A u \in Uploads :
        pc[u] = "done" /\ issued[u] # NoId =>
            \/ RowsOf(issued[u], meta \cup deleted) # {}
            \/ HasTwin(u)
            \/ u \in uncommitted

\* A listed hash leads to an entry that is browsable, and mapped unless a delete
\* with another roof took its mapping: GetMapping after GetHash succeeds unless a
\* delete came between, or such a delete came before.
ListedIsStored ==
    \A h \in hashTab :
        /\ RowsOf(h.item, meta) # {}
        /\ RowsOf(h.item, mapping) # {} \/ h.item \in misdeleted

\* Browsing and loading agree: what is loaded can be browsed, whatever roofs the
\* deletes named, and what is browsed can be loaded, mapped to the roof of its row
\* alone, unless a delete with another roof took its mapping.
BrowsableIffMapped ==
    /\ \A m \in mapping : RowsOf(m.id, meta) # {}
    /\ \A m \in meta :
          [id |-> m.id, roofs |-> {m.roof}] \in mapping \/ m.id \in misdeleted

-----------------------------------------------------------------------------
\* The abstract registry: an id is served when it is mapped, with the content
\* the engine of a mapped roof holds; it is spent when a row of meta_<roof> or of
\* the archive knows it.
IsServed(b) == \E m \in mapping : m.id = b.id /\ b.roof \in m.roofs
Served == {[id |-> b.id, content |-> b.content] : b \in {x \in blobs : IsServed(x)}}
Spent == {m.id : m \in meta \cup deleted}

registry == INSTANCE Registry WITH served <- Served, spent <- Spent

\* The upload and delete paths implement the registry.
ImplementsRegistry == registry!Spec

-----------------------------------------------------------------------------
\* Liveness.

\* Every upload is answered: the handler gets a value from the channel of Store.
UploadAnswered ==
    \A u \in Uploads : <>(pc[u] \in Answers)

-----------------------------------------------------------------------------
\* What the repository says of these paths and the code does not do.

\* "assert.NoError(t, err)" after Delete(roof, IID.String()) in TestEntry
\* (storage/zero_main_test.go:141-142): an entry that is stored can be deleted.
StoredCanBeDeleted ==
    \A m \in meta : ~DeleteRaises(m)

\* TestEntry (storage/zero_main_test.go:105-139): once Store answers without an
\* error, LoadPath of the entry succeeds, which needs its mapping.
StoredIsLoadable ==
    [][\A u \in Uploads :
          pc[u] = "setDone" /\ pc'[u] = "done" => RowsOf(issued[u], mapping') # {}]_vars
=============================================================================
