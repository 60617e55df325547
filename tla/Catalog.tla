------------------------------ MODULE Catalog ------------------------------
(***************************************************************************)
(* The PostgreSQL catalogue of the image store: the tables of              *)
(* database/imsto_10_schema.sql and the stored procedures of               *)
(* database/imsto_20_procedure.sql that the upload and delete paths call.  *)
(*                                                                         *)
(* A table is a set of rows.  A procedure is an action on the tables, taken*)
(* at the commit of the transaction that calls it; one that raises a       *)
(* unique violation is not enabled (its transaction rolls back), and the   *)
(* condition under which it raises has a name of its own (SaveRaises,      *)
(* DeleteRaises).  A content stands for its hash: two contents are equal   *)
(* iff their hashes are.  Recode[c] is the content the server stores for   *)
(* an upload of c, after Entry.Trek re-encoded it.                         *)
(***************************************************************************)
CONSTANTS
    Roofs,      \* the configured roofs: one meta_<roof> table each
    Ids,        \* the identifiers id_generator() can return
    Contents,   \* image contents, each standing for its hash
    Authors,    \* who may be the author of a row
    Recode      \* Recode[c]: the content stored for an upload of c

ASSUME RecodeAssumption == Recode \in [Contents -> Contents]

VARIABLES
    hashTab,    \* hash_0 .. hash_f: hash -> item
    mapping,    \* mapping_xx: item -> roofs, what a GET reads
    meta,       \* meta_<roof>, all roofs together: what Browse lists
    prepared,   \* meta__prepared: announced, not yet stored
    deleted     \* meta__deleted: the archive of removed rows

tables == <<hashTab, mapping, meta, prepared, deleted>>

Row == [id: Ids, roof: Roofs, content: Contents, author: Authors]

CatalogTypeOK ==
    /\ hashTab \subseteq [hashed: Contents, item: Ids]
    /\ mapping \subseteq [id: Ids, roofs: SUBSET Roofs]
    /\ meta \subseteq Row
    /\ prepared \subseteq Row
    /\ deleted \subseteq Row

CatalogInit ==
    /\ hashTab = {}
    /\ mapping = {}
    /\ meta = {}
    /\ prepared = {}
    /\ deleted = {}

RowsOf(id, table) == {row \in table : row.id = id}

\* The values under 'hash' and 'hash2' of the column hashes of an upload of c.
Hashes(c) == {c, Recode[c]}

\* meta_<roof> has UNIQUE (hashes): the INSERT that ends entry_save raises.
SaveRaises(row) ==
    \E m \in meta : m.roof = row.roof /\ m.content = row.content

\* A hash that is already listed keeps its item.
HashSave(hs, id) ==
    LET new == {h \in hs : \A r \in hashTab : r.hashed # h}
    IN  hashTab' = hashTab \cup [hashed: new, item: {id}]

\* A mapped id keeps its row, which gains the roof.
MapSave(id, roof) ==
    IF RowsOf(id, mapping) = {}
    THEN mapping' = mapping \cup {[id |-> id, roofs |-> {roof}]}
    ELSE mapping' = {IF m.id = id
                     THEN [m EXCEPT !.roofs = @ \cup {roof}] ELSE m : m \in mapping}

EntrySave(row) ==
    IF \E m \in RowsOf(row.id, meta) : m.roof = row.roof
    THEN UNCHANGED <<hashTab, mapping, meta>>
    ELSE /\ ~SaveRaises(row)
         /\ HashSave(Hashes(row.content), row.id)
         /\ MapSave(row.id, row.roof)
         /\ meta' = meta \cup {row}

\* Mutant of EntrySetDone: the prepared row is not removed.
EntrySetDoneKeepsPrepared(id) ==
    /\ UNCHANGED <<deleted, prepared>>
    /\ \/ RowsOf(id, prepared) = {} /\ UNCHANGED <<hashTab, mapping, meta>>
       \/ \E row \in RowsOf(id, prepared) : EntrySave(row)

\* An id that was never prepared returns -2: nothing changes.
EntrySetDone(id) ==
    /\ UNCHANGED deleted
    /\ \/ /\ RowsOf(id, prepared) = {}
          /\ UNCHANGED <<hashTab, mapping, meta, prepared>>
       \/ \E row \in RowsOf(id, prepared) :
             /\ EntrySave(row)
             /\ prepared' = prepared \ {row}

\* meta__deleted is LIKE meta_template INCLUDING ALL, so hashes is UNIQUE there
\* too: the archive takes a given content once.
DeleteRaises(row) ==
    /\ RowsOf(row.id, deleted) = {}
    /\ \E d \in deleted : d.content = row.content

\* Mutant of EntryDelete: the row of hash2 is forgotten.
EntryDeleteKeepsHash2(roof, id) ==
    /\ UNCHANGED prepared
    /\ mapping' = {m \in mapping : m.id # id}
    /\ \/ /\ \A m \in RowsOf(id, meta) : m.roof # roof
          /\ UNCHANGED <<hashTab, meta, deleted>>
       \/ \E row \in RowsOf(id, meta) :
             /\ row.roof = roof
             /\ ~DeleteRaises(row)
             /\ deleted' = IF RowsOf(id, deleted) = {}
                           THEN deleted \cup {row} ELSE deleted
             /\ hashTab' = {h \in hashTab : h.hashed # row.content}
             /\ meta' = meta \ {row}

\* Mutant of EntryDelete: only the row of the given roof is removed, not the mapping.
EntryDeleteKeepsMapping(roof, id) ==
    /\ UNCHANGED <<prepared, mapping>>
    /\ \/ /\ \A m \in RowsOf(id, meta) : m.roof # roof
          /\ UNCHANGED <<hashTab, meta, deleted>>
       \/ \E row \in RowsOf(id, meta) :
             /\ row.roof = roof
             /\ ~DeleteRaises(row)
             /\ deleted' = IF RowsOf(id, deleted) = {}
                           THEN deleted \cup {row} ELSE deleted
             /\ hashTab' = {h \in hashTab : h.hashed \notin Hashes(row.content)}
             /\ meta' = meta \ {row}

\* The mapping goes first, whatever the roof; without a row in meta_<roof> the
\* procedure returns -1 and the transaction commits what it did.
EntryDelete(roof, id) ==
    /\ UNCHANGED prepared
    /\ mapping' = {m \in mapping : m.id # id}
    /\ \/ /\ \A m \in RowsOf(id, meta) : m.roof # roof
          /\ UNCHANGED <<hashTab, meta, deleted>>
       \/ \E row \in RowsOf(id, meta) :
             /\ row.roof = roof
             /\ ~DeleteRaises(row)
             /\ deleted' = IF RowsOf(id, deleted) = {}
                           THEN deleted \cup {row} ELSE deleted
             /\ hashTab' = {h \in hashTab : h.hashed \notin Hashes(row.content)}
             /\ meta' = meta \ {row}

\* Ready: the row of an upload enters meta__prepared, where id and hashes are unique.
PrepareRaises(row) ==
    \E p \in prepared : p.id = row.id \/ p.content = row.content

Prepare(row) ==
    /\ ~PrepareRaises(row)
    /\ prepared' = prepared \cup {row}
    /\ UNCHANGED <<hashTab, mapping, meta, deleted>>

\* Mutant of SetAuthor: the UPDATE lost its WHERE.
SetAuthorOfRoof(roof, id, author) ==
    /\ meta' = {IF m.roof = roof THEN [m EXCEPT !.author = author] ELSE m : m \in meta}
    /\ UNCHANGED <<hashTab, mapping, prepared, deleted>>

\* Save(entry, true): UPDATE meta_<roof> SET app_id, author WHERE id; no row, no change.
SetAuthor(roof, id, author) ==
    /\ meta' = {IF m.id = id /\ m.roof = roof
                THEN [m EXCEPT !.author = author] ELSE m : m \in meta}
    /\ UNCHANGED <<hashTab, mapping, prepared, deleted>>
=============================================================================
