------------------------------- MODULE Intake -------------------------------
(***************************************************************************)
(* The ways an image comes in, down to the engines: the upload handler of  *)
(* the web API and the import tool store several files one after the       *)
(* other, the RPC service and the command fetch one.  They differ in what  *)
(* they do about a file that fails, and in what they answer.               *)
(*                                                                         *)
(* Upload has the tables and the races between two uploads of one content; *)
(* here a content that is mapped is found, one that is not is stored, and  *)
(* what a store that failed has left in meta__prepared meets the next one  *)
(* of its content.                                                         *)
(***************************************************************************)
EXTENDS Engine, Paths, Sequences

CONSTANTS
    Jobs,
    Requests,   \* what is asked: [front, roof, size, files]
    TooBig,     \* contents that Trek refuses
    AsIs,       \* contents that Trek stores as they came
    NoSize,     \* an RPC call that asks for no size
    Failed,     \* an answer with an error
    MaxRestarts,\* bound: how often the servers are restarted
    MaxLost     \* bound: how many commits are lost

\* The web API, the two RPC calls, the command fetch, and import of a zip or of the
\* files it is given (nothing sets the directory it could walk).
Fronts == {"web", "rpc", "fetch", "cmd", "zip", "args"}

ASSUME RequestsAssumption ==
    /\ Requests \subseteq [front : Fronts, roof : Roofs, size : Size \cup {NoSize},
                           files : Seq(Contents)]
    /\ TooBig \subseteq Contents
    /\ AsIs \subseteq Contents
    /\ Failed \notin Ids
    /\ MaxRestarts \in Nat /\ MaxLost \in Nat

VARIABLES
    pc,         \* pc[j]: where a job stands
    req,        \* req[j]: what it was asked
    at,         \* at[j]: the file it is at
    id,         \* id[j]: the id of that file
    sev,        \* sev[j]: the place and category of its blob
    answer,     \* answer[j]: what it tells, an id or Failed for each file told of
    stored,     \* ghost: stored[j], the ids its files are stored under
    used,       \* ids drawn
    prepared,   \* meta__prepared: the ids announced and not yet published
    dropped,    \* ghost: [id, content, twin] of the stores that announced nothing,
                \* as the row of twin had their content
    lost,       \* ghost: ids whose row, or whose SetDone, did not commit
    restarts

jobVars == <<pc, req, at, id, sev, answer, stored>>
tableVars == <<used, prepared, dropped, lost>>
vars == <<engineVars, jobVars, tableVars, restarts>>

File(j) == req[j].files[at[j]]

\* A failure is told by the web API and by RPC.  The commands log it; only import
\* prints a line, when Store failed, and none for a file of a zip.
Tells(front, what) == front \in {"web", "rpc", "fetch"} \/ (front = "args" /\ what = "store")

\* RPC and the command fetch have one file; a zip that cannot be read is given up.
GivesUp(front, what) == front \in {"rpc", "fetch", "cmd"} \/ what = "read"

Answered(j, told, last) ==
    /\ answer' = [answer EXCEPT ![j] = @ \o told]
    /\ at' = [at EXCEPT ![j] = @ + 1]
    /\ pc' = [pc EXCEPT ![j] = IF last \/ at[j] = Len(req[j].files) THEN "ended" ELSE "next"]

\* Mutant of FileFails: the answer of the web API leaves out a file that failed.
FileFailsUntold(j, what) ==
    /\ Answered(j, IF Tells(req[j].front, what) /\ req[j].front # "web" THEN <<Failed>> ELSE <<>>,
                GivesUp(req[j].front, what))
    /\ UNCHANGED <<req, id, sev, stored>>

\* The job goes on with the next file unless it gives up.
FileFails(j, what) ==
    /\ Answered(j, IF Tells(req[j].front, what) THEN <<Failed>> ELSE <<>>,
                GivesUp(req[j].front, what))
    /\ UNCHANGED <<req, id, sev, stored>>

\* RPC with a size loads the image before it answers.
FileStored(j, i) ==
    /\ stored' = [stored EXCEPT ![j] = @ \cup {i}]
    /\ id' = [id EXCEPT ![j] = i]
    /\ \/ /\ req[j].size = NoSize
          /\ Answered(j, <<i>>, FALSE)
       \/ /\ req[j].size # NoSize
          /\ pc' = [pc EXCEPT ![j] = "load"]
          /\ UNCHANGED <<answer, at>>
    /\ UNCHANGED <<req, sev>>

-----------------------------------------------------------------------------
\* A request may be refused before any file is looked at: by VerifyToken, by
\* LoadApp, for a roof the import tool does not know, for an empty zip.  A form
\* without files is answered at once.
Arrive(j, r) ==
    /\ pc[j] = "idle"
    /\ req' = [req EXCEPT ![j] = r]
    /\ \/ /\ r.front \in {"zip", "args"} => HasSection(r.roof)
          /\ pc' = [pc EXCEPT ![j] = IF r.files = <<>> THEN "ended" ELSE "next"]
       \/ pc' = [pc EXCEPT ![j] = "refused"]
    /\ UNCHANGED <<engineVars, at, id, sev, answer, stored, tableVars, restarts>>

\* What can fail before Store: opening a part or a member of the zip; reading it,
\* or fetching it over http; decoding it (NewEntryReader).
FrontFails(front) ==
    CASE front = "web" -> {"open", "decode"}
      [] front \in {"rpc", "args"} -> {"decode"}
      [] front = "zip" -> {"open", "read", "decode"}
      [] OTHER -> {"read", "decode"}

PrepareFails(j) ==
    /\ pc[j] = "next"
    /\ \E what \in FrontFails(req[j].front) : FileFails(j, what)
    /\ UNCHANGED <<engineVars, tableVars, restarts>>

Known(j) == {m \in mapping : m.content = File(j)}

\* Store finds the hash.
StoreKnown(j) ==
    /\ pc[j] = "next"
    /\ HasSection(req[j].roof)
    /\ \E m \in Known(j) : FileStored(j, m.id)
    /\ UNCHANGED <<engineVars, tableVars, restarts>>

\* An unknown roof, a content that Trek refuses, or an error of a query, such as
\* that of the INSERT when a row of meta__prepared has the same hashes.
StoreFails(j) ==
    /\ pc[j] = "next"
    /\ FileFails(j, "store")
    /\ UNCHANGED <<engineVars, tableVars, restarts>>

\* Store without an id: the channel stays open and empty.
StoreHangs(j) ==
    /\ pc[j] = "next"
    /\ HasSection(req[j].roof)
    /\ Known(j) = {}
    /\ pc' = [pc EXCEPT ![j] = "hung"]
    /\ UNCHANGED <<engineVars, req, at, id, sev, answer, stored, tableVars, restarts>>

Rows(j) == {r \in prepared : r.content = File(j)}

\* Ready announces the id.  A row that has the content already keeps it from doing
\* so: nothing is announced when the content is stored as it came, as that is the
\* hash Ready looks for; otherwise the INSERT fails on the hashes (StoreFails).
\* withTxQuery does not look at the error of the commit.
Ready(j, i) ==
    \/ /\ Rows(j) = {}
       /\ prepared' = prepared \cup {[id |-> i, content |-> File(j)]}
       /\ UNCHANGED <<dropped, lost>>
    \/ /\ Rows(j) = {}
       /\ Cardinality(lost) < MaxLost
       /\ lost' = lost \cup {i}
       /\ UNCHANGED <<prepared, dropped>>
    \/ /\ File(j) \in AsIs
       /\ \E r \in Rows(j) :
            dropped' = dropped \cup {[id |-> i, content |-> File(j), twin |-> r.id]}
       /\ UNCHANGED <<prepared, lost>>

\* Mutant of StoreNew: the id is the first that no image has now.
StoreNewReuses(j) ==
    /\ pc[j] = "next"
    /\ HasSection(req[j].roof)
    /\ Known(j) = {}
    /\ File(j) \notin TooBig
    /\ LET taken == {m.id : m \in mapping}
       IN  \E i \in Ids \ taken :
             /\ \A k \in Ids \ taken : i <= k
             /\ used' = used \cup {i}
             /\ id' = [id EXCEPT ![j] = i]
             /\ Ready(j, i)
    /\ pc' = [pc EXCEPT ![j] = "push"]
    /\ UNCHANGED <<engineVars, req, at, sev, answer, stored, restarts>>

\* The id is new, which is all that matters of it.
StoreNew(j) ==
    /\ pc[j] = "next"
    /\ HasSection(req[j].roof)
    /\ Known(j) = {}
    /\ File(j) \notin TooBig
    /\ \E i \in Ids \ used :
         /\ \A k \in Ids \ used : i <= k
         /\ used' = used \cup {i}
         /\ id' = [id EXCEPT ![j] = i]
         /\ Ready(j, i)
    /\ pc' = [pc EXCEPT ![j] = "push"]
    /\ UNCHANGED <<engineVars, req, at, sev, answer, stored, restarts>>

-----------------------------------------------------------------------------
(* _save: push to the engine, then SetDone. *)

Target(j) == [place |-> Place(req[j].roof), cat |-> getItemCat(req[j].roof)]

\* Mutant of PushFails: the error of FarmEngine is not sent.
PushFailsUnsent(j) ==
    /\ pc[j] = "push"
    /\ Target(j).place # None
    /\ FileFails(j, "store")
    /\ UNCHANGED <<engineVars, tableVars, restarts>>

\* FarmEngine fails, or the engine refuses before it has written anything.
PushFails(j) ==
    /\ pc[j] = "push"
    /\ FileFails(j, "store")
    /\ UNCHANGED <<engineVars, tableVars, restarts>>

\* locWagon.Put begins to write, in place.
PutBegins(j) ==
    /\ pc[j] = "push"
    /\ Target(j).place = "local"
    /\ blobs' = Written("local", Target(j).cat, id[j], File(j), FALSE)
    /\ sev' = [sev EXCEPT ![j] = Target(j)]
    /\ pc' = [pc EXCEPT ![j] = "write"]
    /\ UNCHANGED <<config, mapping, gone, req, at, id, answer, stored, tableVars, restarts>>

PutEnds(j) ==
    /\ pc[j] = "write"
    /\ blobs' = Written("local", sev[j].cat, id[j], File(j), TRUE)
    /\ pc' = [pc EXCEPT ![j] = "setDone"]
    /\ UNCHANGED <<config, mapping, gone, req, at, id, sev, answer, stored, tableVars, restarts>>

\* Mutant of PutFails: the error of the write is lost.
PutFailsUnseen(j) ==
    /\ pc[j] = "write"
    /\ pc' = [pc EXCEPT ![j] = "setDone"]
    /\ UNCHANGED <<engineVars, req, at, id, sev, answer, stored, tableVars, restarts>>

\* The disk is full, or the sidecar of the blob cannot be written (saveMeta).
PutFails(j) ==
    /\ pc[j] = "write"
    /\ \/ UNCHANGED blobs
       \/ blobs' = Written("local", sev[j].cat, id[j], File(j), TRUE)
    /\ FileFails(j, "store")
    /\ UNCHANGED <<config, mapping, gone, tableVars, restarts>>

\* Mutant of PutObject: what the put answers is not kept.
PutObjectForgets(j) ==
    /\ pc[j] = "push"
    /\ Target(j).place \in Buckets
    /\ blobs' = Written(Target(j).place, Target(j).cat, id[j], File(j), TRUE)
    /\ \/ pc' = [pc EXCEPT ![j] = "setDone"] /\ UNCHANGED <<req, at, id, sev, answer, stored>>
       \/ FileFails(j, "store")
    /\ UNCHANGED <<config, mapping, gone, tableVars, restarts>>

\* s3Conn.Put: an object appears whole; the answer may be an error all the same.
PutObject(j) ==
    /\ pc[j] = "push"
    /\ Target(j).place \in Buckets
    /\ blobs' = Written(Target(j).place, Target(j).cat, id[j], File(j), TRUE)
    /\ \/ /\ sev' = [sev EXCEPT ![j] = Target(j)]
          /\ pc' = [pc EXCEPT ![j] = "setDone"]
          /\ UNCHANGED <<req, at, id, answer, stored>>
       \/ FileFails(j, "store")
    /\ UNCHANGED <<config, mapping, gone, tableVars, restarts>>

Announced(j) == {r \in prepared : r.id = id[j]}

\* Mutant of SetDone: the row is taken out of meta__prepared, and published nowhere.
SetDoneDrops(j) ==
    /\ pc[j] = "setDone"
    /\ prepared' = prepared \ Announced(j)
    /\ FileStored(j, id[j])
    /\ UNCHANGED <<engineVars, used, dropped, lost, restarts>>

\* entry_set_done moves the row of the id.  Without one it answers -2, which SetDone
\* does not look at, and neither does withTxQuery at the error of the commit.
SetDone(j) ==
    /\ pc[j] = "setDone"
    /\ \/ /\ Announced(j) # {}
          /\ Publish(id[j], req[j].roof, sev[j].cat, File(j), sev[j].place)
          /\ prepared' = prepared \ Announced(j)
          /\ UNCHANGED lost
       \/ /\ Announced(j) # {}
          /\ Cardinality(lost) < MaxLost
          /\ lost' = lost \cup {id[j]}
          /\ UNCHANGED <<engineVars, prepared>>
       \/ /\ Announced(j) = {}
          /\ UNCHANGED <<engineVars, prepared, lost>>
    /\ FileStored(j, id[j])
    /\ UNCHANGED <<used, dropped, restarts>>

SetDoneFails(j) ==
    /\ pc[j] = "setDone"
    /\ FileFails(j, "store")
    /\ UNCHANGED <<engineVars, tableVars, restarts>>

-----------------------------------------------------------------------------
\* loadImageOutput: the size must parse and the image load, or the answer is an
\* error although the image is stored.
LoadOk(j) ==
    /\ pc[j] = "load"
    /\ PathAccepts(req[j].size)
    /\ Answered(j, <<id[j]>>, FALSE)
    /\ UNCHANGED <<engineVars, req, id, sev, stored, tableVars, restarts>>

LoadFails(j) ==
    /\ pc[j] = "load"
    /\ Answered(j, <<Failed>>, FALSE)
    /\ UNCHANGED <<engineVars, req, id, sev, stored, tableVars, restarts>>

Remove(i) == Delete(i) /\ UNCHANGED <<jobVars, tableVars, restarts>>

Ends == {"ended", "refused", "hung", "dead"}

\* The servers are started again, with another configuration perhaps.
Restart(c) ==
    /\ restarts < MaxRestarts
    /\ restarts' = restarts + 1
    /\ config' = c
    /\ pc' = [j \in Jobs |-> IF pc[j] \in Ends \cup {"idle"} THEN pc[j] ELSE "dead"]
    /\ UNCHANGED <<blobs, mapping, gone, req, at, id, sev, answer, stored, tableVars>>

-----------------------------------------------------------------------------
NoRequest == [front |-> "web", roof |-> None, size |-> NoSize, files |-> <<>>]

Init ==
    /\ EngineInit
    /\ pc = [j \in Jobs |-> "idle"]
    /\ req = [j \in Jobs |-> NoRequest]
    /\ at = [j \in Jobs |-> 1]
    /\ id = [j \in Jobs |-> None]
    /\ sev = [j \in Jobs |-> [place |-> None, cat |-> None]]
    /\ answer = [j \in Jobs |-> <<>>]
    /\ stored = [j \in Jobs |-> {}]
    /\ used = {} /\ prepared = {} /\ dropped = {} /\ lost = {}
    /\ restarts = 0

Step(j) ==
    \/ PrepareFails(j) \/ StoreKnown(j) \/ StoreFails(j) \/ StoreHangs(j) \/ StoreNew(j)
    \/ PushFails(j) \/ PutBegins(j) \/ PutEnds(j) \/ PutFails(j) \/ PutObject(j)
    \/ SetDone(j) \/ SetDoneFails(j) \/ LoadOk(j) \/ LoadFails(j)

Next ==
    \/ \E j \in Jobs : Step(j) \/ \E r \in Requests : Arrive(j, r)
    \/ \E i \in Ids : Remove(i)
    \/ \E c \in Configs : Restart(c)

Spec == Init /\ [][Next]_vars

\* A job is one goroutine, or one process.
FairSpec == Spec /\ \A j \in Jobs : WF_vars(Step(j))

-----------------------------------------------------------------------------
\* The types of the state.
TypeOK ==
    /\ EngineTypeOK
    /\ pc \in [Jobs -> {"idle", "next", "push", "write", "setDone", "load"} \cup Ends]
    /\ req \in [Jobs -> Requests \cup {NoRequest}]
    /\ at \in [Jobs -> Nat \ {0}]
    /\ id \in [Jobs -> Ids \cup {None}]
    /\ sev \in [Jobs -> [place : Places \cup {None}, cat : Cats \cup {None}]]
    /\ answer \in [Jobs -> Seq(Ids \cup {Failed})]
    /\ stored \in [Jobs -> SUBSET Ids]
    /\ used \subseteq Ids
    /\ prepared \subseteq [id : Ids, content : Contents]
    /\ dropped \subseteq [id : Ids, content : Contents, twin : Ids]
    /\ lost \subseteq Ids
    /\ restarts \in 0 .. MaxRestarts

Spent == {m.id : m \in mapping} \cup gone

\* The content of a store that announced nothing is announced or published under
\* the id of its twin, or was, until it was deleted.
TwinHasIt(d) ==
    \/ d.twin \in gone
    \/ \E r \in prepared \cup mapping : r.id = d.twin /\ r.content = d.content

\* An answer is complete: the web API has an entry for every file of the form, an
\* id that is told was published (unless a commit was lost, or a row of
\* meta__prepared, which a store that failed may have left, had its content: then
\* the content is at least announced under the id of that row), and an id that a
\* job stored is told at its end, whatever happened to its other files; an RPC
\* call that asks for a size is the exception, it may answer an error for an image
\* that stays stored.
AnswerIsComplete ==
    \A j \in Jobs :
        /\ pc[j] = "ended" /\ req[j].front = "web" => Len(answer[j]) = Len(req[j].files)
        /\ \A k \in DOMAIN answer[j] :
              \/ answer[j][k] \in Spent \cup lost \cup {Failed}
              \/ \E d \in dropped : d.id = answer[j][k] /\ TwinHasIt(d)
        /\ pc[j] = "ended" =>
              \A i \in stored[j] :
                  req[j].size # NoSize \/ \E k \in DOMAIN answer[j] : answer[j][k] = i

\* What is kept for the images that are mapped, where the Put of each left it.
Kept == {s \in [id : Ids, content : Contents] :
            \E m \in mapping : \E b \in At(m.place, m.cat, m.id) :
                m.id = s.id /\ b.whole /\ b.content = s.content}

registry == INSTANCE Registry WITH served <- Kept, spent <- Spent

\* Down to the engines, every way in implements Registry: SetDone publishes an id that
\* was never one, with the whole content its Put left; nothing a job that fails or
\* dies with its server does to the engine touches what is kept for
\* another id, and only Delete takes an id away, for good.
ImplementsRegistry == registry!Spec

\* A job that began ends, unless no id can be generated (StoreHangs): a file that
\* fails holds none of the others up.
JobEnds == \A j \in Jobs : pc[j] = "next" ~> pc[j] \in Ends
=============================================================================
