------------------------------ MODULE Library -------------------------------
(***************************************************************************)
(* One meta_<roof> table seen by its readers and by whoever tags its rows: *)
(* Count and Browse, as the list page and the export tool use them one     *)
(* after the other, and tag_map / tag_unmap, which read the tags of a row, *)
(* merge them and write the whole array back.  Rows come (SetDone) and go  *)
(* (Delete) meanwhile, and the database may go away.                       *)
(*                                                                         *)
(* An id is the position of its row in the order of created, which is the  *)
(* time its SetDone began: rows may become visible in another order.       *)
(***************************************************************************)
EXTENDS Pool, FiniteSets

CONSTANTS
    Ids,        \* the rows of the table, numbered by created
    Tags,       \* the tags an upload or a filter may name
    Calls,      \* calls of MapTags and UnmapTags
    Op,         \* Op[c]: "map" or "unmap"
    Target,     \* Target[c]: the id it is about
    List,       \* List[c]: the tags it names
    Uploaded,   \* Uploaded[i]: the tags row i is stored with
    MaxLimit,   \* max_limit of the export tool
    Walks,      \* the requests of Count followed by Browse
    MaxLoad,    \* bound: clients that came, a walk counting for WalkLoad
    WalkLoad

ASSUME LibraryAssumption ==
    /\ Ids \subseteq Nat
    /\ Op \in [Calls -> {"map", "unmap"}]
    /\ Target \in [Calls -> Ids]
    /\ List \in [Calls -> SUBSET Tags]
    /\ Uploaded \in [Ids -> SUBSET Tags]

\* What browseHandler makes of the form (a sort field that is not sortable is
\* dropped), what the command view and the export tool are started with.
ListRequest == [kind : {"browse"}, limit : Nat \ {0}, skip : Nat,
                sort : {"asc", "desc", "none"}, filter : SUBSET Tags]
ViewRequest == [kind : {"browse"}, limit : Int, skip : Int, sort : {"desc"}, filter : {{}}]
ExportRequest == [kind : {"export"}, limit : Int, skip : Int, sort : {"desc"}, filter : {{}}]

ASSUME WalksAssumption ==
    \A w \in Walks : w \in ListRequest \/ w \in ViewRequest \/ w \in ExportRequest

VARIABLES
    rows,       \* ids with a row in the table
    born,       \* ids that have or had one
    tags,       \* tags[i]: the column tags of row i
    pc,         \* pc[c]: where a tag call stands
    seen,       \* seen[c]: the tags it has read
    lost,       \* ghost: calls answered whose commit did not happen
    before,     \* ghost: before[c], calls done when c was
    racers,     \* ghost: racers[c], calls that had read the row when c was done
    walk        \* the walk at work

tagVars == <<tags, pc, seen, lost, before, racers>>
vars == <<poolVars, rows, born, tagVars, walk>>

\* The list is passed as one parameter of a VARIADIC text[] function: the array
\* literal as a whole becomes one tag, which is none of the tags in it.
Text(c) == [literal |-> List[c]]

TagTexts == Tags \cup {Text(c) : c \in Calls}

-----------------------------------------------------------------------------
(* Count and Browse. *)

Least(a, b) == IF a < b THEN a ELSE b
Most(a, b) == IF a < b THEN b ELSE a

\* WHERE status = 0 AND tags @> the filter; no code sets another status.
Matching(filter, rs, ts) == {i \in rs : filter \subseteq ts[i]}

\* The rows before row i in the order of a query.
Ahead(i, view, sort) == {j \in view : IF sort = "asc" THEN j < i ELSE j > i}

\* Mutant of Pages: the offset counts from one.
PagesFromOne(view, sort, limit, offset) ==
    LET start == Most(offset, 1)
        size == Most(limit, 1)
    IN  {{i \in view : Cardinality(Ahead(i, view, sort)) \in start .. start + size - 1}}

\* LIMIT and OFFSET: without ORDER BY the page is any part of the right size.
Pages(view, sort, limit, offset) ==
    LET start == Most(offset, 0)
        size == Most(limit, 1)
    IN  IF sort = "none"
        THEN {page \in SUBSET view :
                Cardinality(page) = Least(size, Most(Cardinality(view) - start, 0))}
        ELSE {{i \in view : Cardinality(Ahead(i, view, sort)) \in start .. start + size - 1}}

NoWalk == [pc |-> "idle"]

WalkRecord ==
    [pc : {"paging", "ended", "failed"}, kind : {"browse", "export"},
     limit : Int, skip : Int, sort : {"asc", "desc", "none"}, filter : SUBSET Tags,
     total : Nat, pos : Int, found : SUBSET Ids, changes : Nat, kept : SUBSET Ids,
     cut : Nat]

\* What a walk was to list and still could, and how far its view has changed.
Watch(rs, ts) ==
    IF walk.pc # "paging" THEN UNCHANGED walk
    ELSE LET view == Matching(walk.filter, rows, tags)
             next == Matching(walk.filter, rs, ts)
         IN  walk' = [walk EXCEPT
                !.kept = @ \cap next,
                !.changes = @ + Cardinality((view \ next) \cup (next \ view))]

Load == Cardinality({c \in Calls : pc[c] # "idle"}) + (IF walk = NoWalk THEN 0 ELSE WalkLoad)

\* Count; the export tool takes all it counted as its page when there are few.
WalkStart(w) ==
    /\ walk = NoWalk
    /\ Load + WalkLoad <= MaxLoad
    /\ \E fails \in BOOLEAN :
         LET view == Matching(w.filter, rows, tags)
             total == Cardinality(view)
             limit == IF w.kind = "export" /\ total < MaxLimit THEN total ELSE w.limit
         IN  /\ ~up => fails
             /\ walk' = [pc |-> IF fails THEN "failed"
                               ELSE IF w.kind = "export" /\ (total = 0 \/ w.skip >= total)
                               THEN "ended"
                               ELSE "paging",
                         kind |-> w.kind, limit |-> limit, skip |-> w.skip,
                         sort |-> w.sort, filter |-> w.filter, total |-> total,
                         pos |-> w.skip, found |-> {}, changes |-> 0,
                         kept |-> {i \in view : Cardinality(Ahead(i, view, w.sort)) >= w.skip},
                         cut |-> 0]
    /\ UNCHANGED <<poolVars, rows, born, tagVars>>

\* Mutant of WalkPage: the export goes on at the next row, not at the next page.
WalkPageSkipsOne ==
    /\ walk.pc = "paging"
    /\ up
    /\ \E page \in Pages(Matching(walk.filter, rows, tags), walk.sort, walk.limit, walk.pos) :
         LET pos == walk.pos + walk.limit + 1
         IN  walk' = [walk EXCEPT
                !.found = @ \cup page,
                !.pos = pos,
                !.pc = IF walk.kind = "export" /\ pos < walk.total THEN @ ELSE "ended"]
    /\ UNCHANGED <<poolVars, rows, born, tagVars>>

\* Mutant of WalkPage: the rows to skip are not left out.
WalkPageUnskipped ==
    /\ walk.pc = "paging"
    /\ up
    /\ \E page \in Pages(Matching(walk.filter, rows, tags), walk.sort, walk.limit,
                         walk.pos - walk.skip) :
         LET pos == walk.pos + walk.limit
         IN  walk' = [walk EXCEPT
                !.found = @ \cup page,
                !.pos = pos,
                !.pc = IF walk.kind = "export" /\ pos < walk.total THEN @ ELSE "ended"]
    /\ UNCHANGED <<poolVars, rows, born, tagVars>>

\* Mutant of WalkPage: skip is not advanced.
WalkPageStays ==
    /\ walk.pc = "paging"
    /\ up
    /\ \E page \in Pages(Matching(walk.filter, rows, tags), walk.sort, walk.limit, walk.pos) :
         walk' = [walk EXCEPT
            !.found = @ \cup page,
            !.pc = IF walk.kind = "export" /\ walk.pos < walk.total THEN @ ELSE "ended"]
    /\ UNCHANGED <<poolVars, rows, born, tagVars>>

\* A list ends with its page, an export goes on with the next: part of the page has
\* come, the rest of it was cut off.
Listed(page, part) ==
    LET pos == walk.pos + walk.limit
    IN  walk' = [walk EXCEPT
            !.found = @ \cup part,
            !.cut = @ + Cardinality(page \ part),
            !.pos = pos,
            !.pc = IF walk.kind = "export" /\ pos < walk.total THEN @ ELSE "ended"]

\* Browse: one page for a list, page after page for an export.
WalkPage ==
    /\ walk.pc = "paging"
    /\ up
    /\ \E page \in Pages(Matching(walk.filter, rows, tags), walk.sort, walk.limit, walk.pos) :
         Listed(page, page)
    /\ UNCHANGED <<poolVars, rows, born, tagVars>>

\* The rows of a page that came before the others, in the order of its query.
Begun(page, sort) ==
    {part \in SUBSET page : \A i \in part : sort = "none" \/ Ahead(i, page, sort) \subseteq part}

\* The query fails, whether the database is down or not.
WalkFails ==
    /\ walk.pc = "paging"
    /\ walk' = [walk EXCEPT !.pc = "failed"]
    /\ UNCHANGED <<poolVars, rows, born, tagVars>>

\* A file of an export cannot be written.
DumpFails ==
    /\ walk.pc = "paging"
    /\ walk.kind = "export"
    /\ walk' = [walk EXCEPT !.pc = "failed"]
    /\ UNCHANGED <<poolVars, rows, born, tagVars>>

-----------------------------------------------------------------------------
(* The rows. *)

\* Mutant of Publish: an id is used again.
PublishAgain(i) ==
    /\ up
    /\ rows' = rows \cup {i}
    /\ UNCHANGED born
    /\ tags' = [tags EXCEPT ![i] = Uploaded[i]]
    /\ Watch(rows', tags')
    /\ UNCHANGED <<poolVars, pc, seen, lost, before, racers>>

\* SetDone commits.
Publish(i) ==
    /\ up
    /\ i \notin born
    /\ rows' = rows \cup {i}
    /\ born' = born \cup {i}
    /\ tags' = [tags EXCEPT ![i] = Uploaded[i]]
    /\ Watch(rows', tags')
    /\ UNCHANGED <<poolVars, pc, seen, lost, before, racers>>

\* Delete commits.
Remove(i) ==
    /\ up
    /\ i \in rows
    /\ rows' = rows \ {i}
    /\ Watch(rows', tags)
    /\ UNCHANGED <<poolVars, born, tagVars>>

-----------------------------------------------------------------------------
(* MapTags and UnmapTags. *)

Readers(c) == {o \in Calls \ {c} : pc[o] = "read" /\ Target[o] = Target[c]}

Finish(c) ==
    /\ pc' = [pc EXCEPT ![c] = "done"]
    /\ before' = [before EXCEPT ![c] = {o \in Calls : pc[o] = "done"}]
    /\ racers' = [racers EXCEPT ![c] = Readers(c)]

\* A deleted row answers -2, a map of what is there and an unmap of what is not -1.
NothingToDo(c) ==
    \/ Target[c] \notin rows
    \/ Op[c] = "map" /\ Text(c) \in tags[Target[c]]
    \/ Op[c] = "unmap" /\ Text(c) \notin tags[Target[c]]

\* Begin, and the SELECT.  The rollback of a transaction that did not begin is
\* a call on nil: the caller panics.
TagRead(c) ==
    /\ pc[c] = "idle"
    /\ Target[c] \in born
    /\ Load < MaxLoad
    /\ \/ /\ ~up
          /\ pc' = [pc EXCEPT ![c] = "panicked"]
          /\ UNCHANGED <<seen, before, racers>>
       \/ up /\ NothingToDo(c) /\ Finish(c) /\ UNCHANGED seen
       \/ /\ up
          /\ ~NothingToDo(c)
          /\ pc' = [pc EXCEPT ![c] = "read"]
          /\ seen' = [seen EXCEPT ![c] = tags[Target[c]]]
          /\ UNCHANGED <<before, racers>>
    /\ UNCHANGED <<poolVars, rows, born, tags, lost, walk>>

\* Mutant of Merged: the new tag takes the place of the ones that were there.
MergedReplaces(c) == IF Op[c] = "map" THEN {Text(c)} ELSE seen[c] \ {Text(c)}

Merged(c) == IF Op[c] = "map" THEN seen[c] \cup {Text(c)} ELSE seen[c] \ {Text(c)}

\* The UPDATE, of no row when it is gone, and the COMMIT.
TagWrite(c) ==
    /\ pc[c] = "read"
    /\ Finish(c)
    /\ tags' = IF Target[c] \in rows THEN [tags EXCEPT ![Target[c]] = Merged(c)] ELSE tags
    /\ Watch(rows, tags')
    /\ UNCHANGED <<poolVars, rows, born, seen, lost>>

\* An error of the UPDATE (a tag of more than 40 characters), or of the connection.
TagFails(c) ==
    /\ pc[c] \in {"read", "broken"}
    /\ pc' = [pc EXCEPT ![c] = "failed"]
    /\ UNCHANGED <<poolVars, rows, born, tags, seen, lost, before, racers, walk>>

-----------------------------------------------------------------------------
(* The database goes away: the transactions that are open are rolled back. *)

Cut == [c \in Calls |-> IF pc[c] = "read" THEN "broken" ELSE pc[c]]

Outage ==
    /\ GoesDown
    /\ pc' = Cut
    /\ UNCHANGED <<rows, born, tags, seen, lost, before, racers, walk>>

\* Between the UPDATE of c and its COMMIT, whose error withTxQuery drops.
CommitLost(c) ==
    /\ pc[c] = "read"
    /\ GoesDown
    /\ pc' = [Cut EXCEPT ![c] = "done"]
    /\ before' = [before EXCEPT ![c] = {o \in Calls : pc[o] = "done"}]
    /\ lost' = lost \cup {c}
    /\ UNCHANGED <<rows, born, tags, seen, racers, walk>>

\* The connection of Browse goes away while its rows are read: the loop ends at the
\* first Next that fails, nobody looks at the Err of the rows, and the rows that
\* came are answered as the whole page.
WalkCut ==
    /\ walk.pc = "paging"
    /\ GoesDown
    /\ pc' = Cut
    /\ \E page \in Pages(Matching(walk.filter, rows, tags), walk.sort, walk.limit, walk.pos) :
         \E part \in Begun(page, walk.sort) \ {page} : Listed(page, part)
    /\ UNCHANGED <<rows, born, tags, seen, lost, before, racers>>

PoolStep == (Recover \/ Ping) /\ UNCHANGED <<rows, born, tagVars, walk>>

-----------------------------------------------------------------------------
Init ==
    /\ PoolInit
    /\ rows = {} /\ born = {}
    /\ tags = [i \in Ids |-> {}]
    /\ pc = [c \in Calls |-> "idle"]
    /\ seen = [c \in Calls |-> {}]
    /\ lost = {}
    /\ before = [c \in Calls |-> {}]
    /\ racers = [c \in Calls |-> {}]
    /\ walk = NoWalk

WalkStep == WalkPage \/ WalkCut \/ WalkFails

\* A query returns, with an error when the database is down.
WalkReturns == WalkPage \/ (~up /\ WalkFails)

TagStep(c) == TagRead(c) \/ TagWrite(c) \/ TagFails(c) \/ CommitLost(c)

Next ==
    \/ \E i \in Ids : Publish(i) \/ Remove(i)
    \/ \E c \in Calls : TagStep(c)
    \/ \E w \in Walks : WalkStart(w)
    \/ WalkStep
    \/ DumpFails
    \/ Outage
    \/ PoolStep

Spec == Init /\ [][Next]_vars

\* The loop of a walk is one goroutine that nothing blocks for ever.
FairSpec == Spec /\ WF_vars(WalkReturns)

-----------------------------------------------------------------------------
(* Properties. *)

\* The types of the table, of the tag calls and of the pool.
TableTypeOK ==
    /\ PoolTypeOK
    /\ rows \subseteq born /\ born \subseteq Ids
    /\ tags \in [Ids -> SUBSET TagTexts]
    /\ pc \in [Calls -> {"idle", "read", "broken", "done", "failed", "panicked"}]
    /\ seen \in [Calls -> SUBSET TagTexts]
    /\ lost \subseteq Calls
    /\ before \in [Calls -> SUBSET Calls]
    /\ racers \in [Calls -> SUBSET Calls]

\* The types of the state.
TypeOK == TableTypeOK /\ walk \in {NoWalk} \cup WalkRecord

\* What a call was asked for holds of a set of tags.
Holds(c, texts) == (Op[c] = "map") <=> (Text(c) \in texts)

\* A call done after c, on the same row, that asked for the opposite or had read
\* the row before c was done.
Undone(c) ==
    \E o \in Calls \ {c} :
        /\ pc[o] = "done" /\ o \notin lost /\ o \notin before[c]
        /\ Target[o] = Target[c]
        /\ o \in racers[c] \/ Text(o) = Text(c)

\* MapTags and UnmapTags: what an answered call asked for holds of its row, or a
\* later call undid it: one for the same tag, or one that had read the row before
\* this one was done and wrote back what it read.  The only other loss is a
\* commit that failed unnoticed.
TagLostOnlyToRacer ==
    \A c \in Calls :
        pc[c] = "done" /\ c \notin lost /\ Target[c] \in rows =>
            Holds(c, tags[Target[c]]) \/ Undone(c)

\* The export tool pages by offset through a table that changes: of the rows it
\* was to list and that stayed it misses at most as many as came or went, and those
\* that a connection lost in the middle of a result cut off without an error.
ExportMisses ==
    walk.pc = "ended" /\ walk.kind = "export" =>
        Cardinality(walk.kept \ walk.found) <= walk.changes + walk.cut

\* Nor does it list more than that many rows it was not to list: rows that came, rows
\* that went after it had listed them, rows that others pushed behind its skip.
ExportAdds ==
    walk.pc = "ended" /\ walk.kind = "export" =>
        Cardinality(walk.found \ walk.kept) <= walk.changes

\* An export whose pages are not empty ends.  A page size of 0 or less (-limit 0, on
\* a table of max_limit rows or more) keeps asking for the same page.
ExportEnds ==
    (walk.pc = "paging" /\ walk.kind = "export" /\ walk.limit > 0)
        ~> walk.pc \in {"ended", "failed"}

\* The list page and the view command count and browse in two queries: the
\* number of rows listed is what the total, skip and limit of the answer say, up
\* to the rows that came or went in between, and less those that were cut off.
AnswerAgrees ==
    walk.pc = "ended" /\ walk.kind = "browse" =>
        LET said == Least(Most(walk.limit, 1), Most(walk.total - Most(walk.skip, 0), 0))
        IN  Cardinality(walk.found) - said \in -(walk.changes + walk.cut) .. walk.changes
=============================================================================
