------------------------------ MODULE UploadInv ------------------------------
(***************************************************************************)
(* The inductive invariant behind the safety properties of Upload: why a   *)
(* row of the catalogue can be traced to the one upload that made it, and  *)
(* the bytes of that upload are in the engine once a row is published.     *)
(***************************************************************************)
EXTENDS Upload

\* The engine of the upload's roof holds what the upload pushed.
StoredBy(u) ==
    [roof |-> req[u].roof, id |-> issued[u], content |-> Recode[req[u].content]] \in blobs

\* The row was made by upload u: nothing but its author can have changed since.
MadeBy(u, row) ==
    issued[u] = row.id /\ req[u].content = row.content /\ req[u].roof = row.roof

\* No table but meta__prepared knows the id.
Unpublished(id) ==
    /\ \A m \in meta : m.id # id
    /\ \A m \in mapping : m.id # id
    /\ \A d \in deleted : d.id # id
    /\ \A h \in hashTab : h.item # id

AuthorFits(row) ==
    req[row.author].roof = row.roof /\ req[row.author].content \in Hashes(row.content)

IssuedOnce ==
    \A u, v \in Uploads : issued[u] = issued[v] /\ issued[u] # NoId => u = v

\* What an upload relies on at each of its steps.
StepInv ==
    \A u \in Uploads :
        /\ pc[u] \in Calls \ Fresh => issued[u] = NoId
        /\ pc[u] \in {"nextId"} \cup Fresh => req[u].roof \in Roofs
        /\ pc[u] \in Fresh => issued[u] \in Ids /\ Unpublished(issued[u])
        /\ pc[u] \in Fresh \ {"trek"} => issued[u] \in orig
        /\ pc[u] = "setDone" => StoredBy(u)

FoundInv ==
    \A u \in Uploads : found[u] # NoId =>
        \E v \in Uploads : /\ issued[v] = found[u]
                           /\ req[u].content \in Hashes(req[v].content)
                           /\ StoredBy(v)

HashInv ==
    \A h \in hashTab : \E u \in Uploads :
        issued[u] = h.item /\ h.hashed \in Hashes(req[u].content) /\ StoredBy(u)

MapInv ==
    \A m \in mapping : \E u \in Uploads :
        issued[u] = m.id /\ m.roofs = {req[u].roof} /\ StoredBy(u)

MetaInv ==
    /\ \A m \in meta : (\E u \in Uploads : MadeBy(u, m) /\ StoredBy(u)) /\ AuthorFits(m)
    /\ \A m, n \in meta : m.id = n.id => m = n

PreparedInv ==
    /\ \A p \in prepared : /\ \E u \in Uploads : MadeBy(u, p)
                           /\ p.id \in orig
                           /\ Unpublished(p.id)
                           /\ AuthorFits(p)
    /\ \A p, q \in prepared : p.id = q.id => p = q

DeletedInv ==
    \A d \in deleted :
        /\ \E u \in Uploads : MadeBy(u, d)
        /\ \A m \in meta : m.id # d.id
        /\ \A m \in mapping : m.id # d.id
        /\ \A p \in prepared : p.id # d.id
        /\ \A h \in hashTab : h.item # d.id

\* The engine has one object per key.
BlobKeyed ==
    \A b, c \in blobs : b.roof = c.roof /\ b.id = c.id => b = c

TableInv == HashInv /\ MapInv /\ MetaInv /\ PreparedInv /\ DeletedInv

IInv == TypeOK /\ IssuedOnce /\ StepInv /\ FoundInv /\ TableInv /\ BlobKeyed
=============================================================================
