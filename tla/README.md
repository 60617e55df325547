# imsto in TLA+

imsto stores images: a client uploads a file, the server re-encodes it, keeps
the bytes in a storage engine (a directory or an S3 bucket), records them in
PostgreSQL, and serves the image and its thumbnails from a cache on disk. These
modules model the parts of it where several actors, failures and the order of
steps decide whether an image can be lost, mixed up or served half written.

## Inventory

| part | state | operations | what makes it correct |
|---|---|---|---|
| catalogue (`database/imsto_10_schema.sql`, `imsto_20_procedure.sql`, `storage/meta_wrap.go`) | `hash_0..f`, `mapping_xx`, `meta_<roof>`, `meta__prepared`, `meta__deleted` | `hash_save`, `map_save`, `entry_save`, `entry_set_done`, `entry_delete`, `Ready`, `SetDone`, `Save`, `GetHash`, `GetMapping` | the five tables tell one story of every id: not known, announced, stored, deleted |
| upload (`storage/entry.go`; `storedHandler`, `rpcImage.Store`, `Fetch`) | the entry of a request, the orig cache, the engine | `Store` and the goroutine `_save` | bytes before rows; every upload is answered; what is answered as stored is there |
| delete (`storage/stores.go`) | the catalogue | `Delete` | an id does not come back |
| image cache (`storage/thumbs/thumber.go`, `utils/filelock.go`) | files under `thumb/`, a lock file per image | `LoadPath`, `Thumbnail`, `prepare`, `Walk` | no file is sent while it is written; the lock is always passed on |
| storage engines (`storage/backend`) | blobs by place, category and key | `FarmEngine`, `Put`, `Get` | what is pulled is what was put, whole |
| ways in (`web/handlers.go`, `rpc`, `store_fetch.go`, `cmd/fetch.go`, `apps/imsto_import`) | the files of a request and its answer | `storedHandler`, `rpcImage.Store`, `Fetch`, `_store_zip`, `_store_file` | one file that fails takes no other with it; an answer leaves nothing out |
| configuration (`config/config.go`) | engine and prefix of each roof, read at start | `GetEngine`, `GetPrefix` | a blob is found after the next start |
| database access (`storage/db.go`) | a connection pool, a reaper | `withTxQuery`, `getDb`, `pingDb` | all or nothing per call |
| apps, tokens, tickets (`storage/appkey.go`, `token.go`, `ticket.go`) | `apps`, `upload_ticket` | `Save`, `LoadApp`, `RequestNewToken`, `VerifyToken`, `TicketRequestNew`, `TicketRequestLoad` | a token is good for its app, its kind and an hour |
| tags (`tag_map`, `tag_unmap`) | the column `tags` | `MapTags`, `UnmapTags` | an update is lost to nothing but a race |
| ids (`imsto_21_procedure_id.sql`) | a sequence, the clock | `id_generator` | no id twice |
| sizes and paths (`storage/imagio`) | none | `ParseFromPath`, `ParseSize` | a path means one image and one size |
| browse and count (`storage/meta_wrap.go`, `browseHandler`, `cmd/view.go`, `apps/imsto_export`) | where a list or an export stands | `Browse`, `Count` | pages and totals are the table, up to what changes meanwhile |

The parts interact by calls and through two shared stores. Handlers call
`Entry.Store`, `Delete` and `LoadPath`; each of these talks to PostgreSQL in
short transactions of its own, one per step, so requests interleave between any
two steps. The cache directory is shared by all GETs of all server processes and
guarded by `flock`. An upload continues in a goroutine after `Ready` and answers
through a channel.

Hard behaviours: concurrent uploads of the same bytes; lookups that are stale
when used; procedures that commit half of what they were asked; errors that are
dropped (`Commit`, the return value of `entry_set_done`, the `Err` of the rows, `flock`); a crash between the
announcement and the end of an upload; files written in place and read without
the lock; arrays read, merged and written back; tables that change between a count and a page, and between
two pages; a configuration that changes under blobs that are stored. `PROJECT.json` lists each with its line.

## Modules

| module | models |
|---|---|
| `Catalog` | the tables, and one action per stored procedure |
| `Upload` | extends `Catalog`: uploads, deletes, engines, faults, crash |
| `UploadInv` | the inductive invariant of `Upload` |
| `Registry` | the abstract specification: what the holder of an id is promised |
| `Stage` | the image cache: GETs of one image under its file lock |
| `IdGen` | the id generator: a sequence, a clock, concurrent sessions |
| `Ticket` | tokens and tickets of apps, on servers with different clocks |
| `Pool` | the connection pool, its ping, and a database that goes away |
| `Library` | extends `Pool`: the readers of one table (lists and exports) and the calls that tag its rows |
| `Engine` | configurations, the file and s3 engines, the mapping as a pull reads it |
| `Paths` | sizes as they stand in a path: pure operators |
| `Intake` | extends `Engine` and `Paths`: the web API, RPC and commands storing files one after the other |
| `MCUpload`, `MCStage`, `MCIdGen`, `MCTicket`, `MCLibrary`, `MCIntake` | the instances TLC checks |
| `UploadProofs`, `UploadRefines`, `UploadConsistent`, `StageProofs`, `IdGenProofs`, `TicketProofs`, `LibraryProofs`, `IntakeProofs` | the proofs |

### Catalog and Upload

A table is a set of rows, all `hash_*` tables together and all `meta_<roof>`
tables together (a row carries its roof). The columns kept are those that a guard
or a property looks at: id, roof, content, author. A *content* stands for its
hash, and `Recode[c]` is what `Trek` makes of an upload of `c`, so `hashes` of a row
is the pair `c`, `Recode[c]` (`Hashes(c)`); two rows have equal `hashes` iff their
uploaded contents are equal. TLC's instance has a content that is stored as another one,
which an upload may bring again and which is then stored as a third.

A stored procedure is one action: PostgreSQL runs it in one transaction, and it
takes effect when that commits. A procedure that raises (a UNIQUE constraint)
leaves everything as it was and reports an error to the caller.
`entry_save` skips a row that exists, lists the two hashes unless they are
listed, merges the mapping and inserts the row; `entry_set_done` moves a prepared
row; `entry_delete` removes the mapping first and gives up when the roof does not
hold the id. A row with `status = 1`, which `entry_save` would restore, does not
exist: nothing sets the column.

An upload is one process. `pc[u]` names the next call that reaches the database,
the disk or the engine: `getHash`, then `getMapping` and `setAuthor` when the hash is
listed, else `nextId`, `trek`, `prepareCheck`, `prepare`, `push`, `setDone`. Between two of
these the code touches nothing that another request sees. The answer is `done` or
`failed`; `hung` is a handler left waiting on the channel, `dead` one that died. The
hit path answers as soon as the author is set; the other path continues in
`_save`, which the handler waits for.

Some details of the code that the model keeps, because they matter: every
error of `GetHash` is a miss; `Ready` compares the *stored* hash with the `hash`
(the uploaded one) of the prepared rows and then inserts nothing and returns nil;
`SetDone` looks at the error only and not at the -2 of `entry_set_done`; a `Put` may
fail after the blob was written (the `.meta` file); the UPDATE of the hit path goes to the table
of the roof that was asked for, whatever roof holds the entry.

Two ghosts remember what promises depend on: `misdeleted`, the ids that a delete named with a roof that does not hold
them (their mapping goes, their row stays), and `uncommitted`, the uploads that lost a commit. With them `ListedIsStored`,
`BrowsableIffMapped` and `LostOnlyToTwin` are about runs with every fault. A *twin* of an upload (`HasTwin`) brought the
very bytes that the upload is stored as, and its own row is announced, published or archived: the upload is not there under its id, but
`Ready` dropped it for a row that exists. The twin need not run at the same time. A row that a failed or
dead upload left in `meta__prepared` does the same to a client that tries again.

### Stage

The lock file is named after the original, so images do not interact and the
module is about one image: the original, a set of sizes, each a file with the
states none, empty, part, whole. A request parses its path (`Bad` stands for
everything refused before the lock), takes the lock, looks at its file, loads the
original through mapping and engine, makes the thumbnail, releases the lock, and
only then opens and sends the file. Writes are in place: open with truncation, some
bytes, the rest. A writer that fails or dies leaves what it wrote; `torn`
remembers those files for the properties, no action reads it. A mop letter in
the path skips the first look at the file (`prepare`, line 180). `Unmap` is a
delete seen from here: the mapping goes, files and blob stay.

Nobody checks the original before a thumbnail is made of it (`OpenSize`). When it is not whole, `imagi` (external) may fail
on it or not; a size made of such an original is `torn` too. `SourceIsWhole` is thus about the lock: only an
original whose own writer failed or died can be read in part. The write of the orig file by the upload of a fresh id is not
part of the module: no client knows the id before the upload has ended.

### IdGen

`id_generator` draws a number (`NextVal`) and then reads the clock and packs the id
(`Mint`); other sessions, the clock and a failure come in between. The sequence is
the length of `drawnAt`, which also remembers when each number was drawn. 2048, 1024, the epoch
and the shard are constants, so that TLC can reach a lap of the sequence. The fields do not overlap
(`SplitInverts`), hence `|` is written `+`. In a run, conditions are *calm* or not, from the initial state on:
calm means that no clock is set back, no call stays between its two steps for more than
`Lag`, and the number that shares a residue was drawn more than `Lag` ago. With the constants of the
code and a `Lag` of a millisecond this is a limit of 2048 ids in two milliseconds; a call that stalls for a second
lowers it to 2048 ids in a second.

`id_split` divides the milliseconds, a `bigint`, by 1000 before it makes a time of them: `SplitSecond` is a whole second
(`Second` is the 1000), and `SplitInverts` is about seconds. What the comment of the function promises is the fourth finding.

### Ticket

A token is a record of what its bytes say: the app whose salt is in the hash, the kind, the
value (a user id or a ticket id) and the stamp of the server that signed it; `born`, the true
time of the stamp, is there for the properties. Clients hold tokens and present any of them, or
none, to any app on any server. `SaveNew` inserts the row of a ticket before `VerifyToken`, as the code
does; the token is signed, in a third step, with a stamp of that time. A ticket
request renews whatever token it was given, which is why `TicketsAreRooted` says where a chain of them
begins. Apps have distinct salts (32 random bytes); the command auth lists one at any time (`SaveApp`), and a
request of an app that is not listed is refused by `CheckAPIKey`, as is one whose query fails (`LoadAppFails`).

### Pool and Library

`Library` is one `meta_<roof>` table. An id is the position of its row in the order of `created`, the time
its `SetDone` began; rows are published in any order, since two transactions may commit the other way round.
`MapTags` and `UnmapTags` are two steps: `TagRead` (Begin and the SELECT of `tag_map` or `tag_unmap`)
and `TagWrite` (the UPDATE and the COMMIT); between them others read and write the row, as READ COMMITTED lets them.
The array literal that `Qarray.Value` makes is passed as one element of a `VARIADIC text[]`, so what
is mapped is one tag, the literal itself (`Text`), and a filter by one of the tags in it never finds it. `before`
and `racers` remember, for the property, what was done and what had read the row when a call was done.

A walk is `Count`, then `Browse`: once for the list page and the command `view`, page after page for the export
tool, which does nothing when the count is 0. `ListRequest`, `ViewRequest` and `ExportRequest` say what each passes on. `Pages` is what `LIMIT` and `OFFSET`
return: one page when there is an order, any part of the right size when there is none. `Browse` reads the rows of a page until `Next`
is false and does not look at their `Err`: when the connection goes away in the middle (`WalkCut`), the rows
that came are answered as the whole page, which leaves out the last ones, and an export goes on with the next page. `kept` holds the rows the
walk was to list that have stayed, `changes` counts those that came into its view or left it, `cut` those that were cut off. `ExportMisses` and
`ExportAdds` bound both sides of what an export is off by: rows it was to list and did not, rows it listed and was not to.
A query may fail with the database up as well (`WalkFails`); `Count` does look at the `Err`.

`Outage` takes the database away and rolls open transactions back; `CommitLost` is the same between an UPDATE
and its COMMIT, whose error `withTxQuery` drops. While the database is away, a query fails, a `Begin` ends in a panic, and
every ping opens one more pool.

### Engine, Paths and Intake

A blob has a place (the local root, or a bucket), a category (the prefix of its roof) and an id. The file engine
writes it in place, in two steps, then its sidecar; s3 writes it whole, and its answer may be
an error all the same. `Put` answers with the category, which `SetDone` keeps in the mapping, and
`Pull` reads there; the engine is the one the roof has *now*. A restart may bring any configuration of `Configs`: other prefixes,
other engines, other buckets, an engine nobody registered.

`Intake` has one job per request. `pc` is `next` between two files, then `push`, `write`, `setDone`, and `load` for an RPC
call with a size. `FrontFails`, `Tells` and `GivesUp` hold what differs between the ways in: what can fail before
`Store`, whether it is told, and whether the rest of the files is still looked at. In `answer` is what the caller is told, in
`stored` what was stored for it. A mapped content is found (`StoreKnown`); of one that is not, `Ready` announces the id in
`prepared` and `SetDone` moves the row. A row stays where a push or `SetDone` failed or the server died, and meets the next store of its content:
when `Trek` keeps the content as it came (`AsIs`), `Ready` takes the row for its own, announces nothing, and the `SetDone` that then finds no row is told to
the client as stored (`dropped` remembers id, content and the id of that row, the twin); otherwise the INSERT fails on the hashes.
`lost` has the ids of which a commit was lost, `Ready`'s or `SetDone`'s. `AnswerIsComplete` says that an id that is told was published, or is
one of these, and that the content of a dropped one is announced, published or deleted under the id of its twin.
A content that is brought as what another one is stored as is left to `Upload`, as are the races between the lookup and `Ready`.

A `Size` of `Paths` is how it is written: mode, digits and value of one or two numbers, a letter behind them.
`PathAccepts` is the expression of a GET, `ParseSizeAccepts` that of `ParseSize`, which is not anchored.

### Registry

`Registry` says what an id means to its holder: it starts to be served at one
step, with one content, keeps that content while it is served, and is never
served again once withdrawn. `Upload` implements it with `served` = the contents that the engine
of a mapped roof holds under a mapped id, and `spent` = the ids of `meta` and
`deleted`. `Intake` implements it too, one level further down and across restarts with another configuration:
`Kept` is what lies whole in a blob where the `Put` of a mapped image left it, `Spent` the ids that are or were mapped.
There `Publish` is `SetDone` and `Withdraw` is `Remove`; whatever else a job does to the engines, half written and failed blobs
included, is a stutter.

## Runs

| run | what it asks | size |
|---|---|---|
| `MCUploadFaults` | safety, the consistency of the tables, the inductive invariant and the refinement, under all eight faults | 1 140 000 states |
| `MCUploadAnswered` | every upload is answered (fair) | 2 uploads |
| `MCStageFaults` | cache safety with failing engines, disks and dying processes; nobody leaves the lock behind | 150 000 |
| `MCStageAnswered` | every GET is answered (fair), `flock` may fail too | 85 000 |
| `MCUploadNextIdFails`, `MCUploadSecondDelete`, `MCUploadLoadable`, `MCIdGenMillis` | violations: see the findings | small |
| `MCIdGen` | uniqueness of ids, in calm conditions and otherwise; `id_split` | 610 000 |
| `MCTicketLife` | tickets stay with their app, tokens live as long as they should | 1 820 000 |
| `MCLibrary` | tags are lost to racers only; lists and exports are off by what changed or was cut off; exports end (fair) | 1 290 000 |
| `MCIntake` | pulls are own, answers are complete, jobs end (fair), and the refinement of `Registry` | 900 000 |

Bounds. The upload runs have three uploads, three ids, two roofs and the three
contents of the `Recode` chain: enough for a pair with a common content and a third
that deletes, retries or owns a colliding hash. Every upload runs once; a retry of a
client is another upload. Deletes are not bounded, they are idempotent. The liveness
runs have two uploads and no symmetry. The cache runs have three requests and two sizes
besides the original: a writer, a reader and one that waits, for the same or for
different files. Uploads, ids, requests and sizes are symmetric sets; roofs and
contents are few and named. `MCIdGen` has a field of 3 numbers, 4 draws (one lap) and 4 milliseconds: two
holders of a residue, of which one stalls while the clock moves or is set back. `MCTicketLife` has three
requests (a token, a ticket and its use, or a chain of two tickets), two apps and two servers, a life time of 3
and a difference of 1 between clocks within 4 units of time: a token of age 4 must be refused, one of age 1 must not,
one of age 0 only by a clock that is behind, and the clocks decide about 2 and 3.

`MCLibrary` has four rows and three tag calls on one of them: two that race and one that asks for the opposite. `MaxLoad` bounds
how much comes to the table at once: three tag calls, or one walk (`WalkLoad` = 3), as the two only meet in the rows, which
change under a walk by uploads and deletes. Pages of one and two rows with `MaxLimit` 3 give exports of two to
four pages; one outage (`MaxOutages`) and two pools (`MaxPools`) suffice, as nothing counts them. `MCIntake` has two jobs, three ids,
three contents (one too big, one stored as it came, one recoded), one commit that is lost (`MaxLost`) and one restart (`MaxRestarts`) between three configurations, which give a roof two prefixes, two engines,
a bucket of its own and that of all roofs, an engine that is not there and none at all.

Fairness is weak fairness of each process's steps: goroutines are scheduled, and
a call to the database, the engine or the disk returns, with a result or an
error. It says nothing about when a crash, a failure or a delete
happens, and `Crash` is not fair. In `Stage` the fair steps are those of `Proceed`: a request that waits for
the lock is not promised that its wait ends in an error of `flock` or of the disk, so its answer rests on
the others passing the lock on. Weak fairness of `Lock` suffices because each request asks
for the lock once: those before it are finitely many.

In `Library` only the loop of a walk is fair (`WalkReturns`: a query answers, with an error when the database is away): nothing is promised of clients, deletes, the database
or the disk, nor that a connection is lost. In `Intake` each job is: what it calls returns. `StoreHangs` is a step of the job like any other, hence the `hung` in the
ends of `JobEnds`; that nobody leaves it is what `MCUploadNextIdFails` shows.

In the upload, cache, id and ticket runs `CHECK_DEADLOCK` stays on: `Terminating` is the only way to stop. `hung` counts as
stopped there, so that liveness and not deadlock reports it. `MCLibrary` and `MCIntake` may stop: rows, ids,
requests and outages are bounded, and a job whose servers were stopped stays where it was.

## Findings

- An upload whose id cannot be generated is never answered (`storage/entry.go:200`).
- A content deleted once and stored again cannot be deleted: `meta__deleted` inherits
  `UNIQUE (hashes)` (`imsto_20_procedure.sql:291`).
- Two uploads, the second of which brings what the first is stored as
  (or the other way round), are both answered as stored and one of them has no row:
  `Ready` returns early and `SetDone` ignores -2. The run shows it for two at a time; a client that retries
  an upload whose push failed meets it alone, as the first attempt left its row.
- `id_split` answers whole seconds, the comment above it computes milliseconds (`imsto_21_procedure_id.sql:42` and `:32`).

`LostOnlyToTwin` and `AnswerIsComplete` are the other side of the third: an upload answered as stored is lost to a row with its
bytes or to a lost commit of its own, and to nothing else. That `Browse` answers part of a page without an error
(`meta_wrap.go:207`) contradicts no text of the repository; `ExportMisses` and `AnswerAgrees` count it in `cut`.

## Proofs

All theorems hold for every set of uploads, roofs, ids, contents and every
`Recode`; the only assumptions are those of the modules (`RecodeAssumption`,
`UploadAssumption`, `StageAssumption`, `LibraryAssumption`, `RequestsAssumption` and their like) and, where a statement says so, the absence of
one kind of fault.

`UploadProofs` proves `IInv` (in `UploadInv`) inductive. None of the safety
properties is inductive alone: that a hash row leads to stored bytes depends on the
upload that will publish it having pushed, which depends on the id being its own.
`IInv` says: an id was given to one upload (`IssuedOnce`); between `NextID` and `SetDone`
no table but `meta__prepared` knows it (`StepInv`, `Unpublished`), so a `Put` overwrites nothing
that is listed; every row of every table was made by one upload (`MadeBy`), and a
published one only after that upload's bytes were in the engine (`StoredBy`). The proof has one
lemma per conjunct and, for the tables, one per procedure that writes them. The
safety properties follow, and so does the refinement (`UploadRefines`): `SetDone` is `Publish`, or a
stutter when nothing was prepared, `Delete` is `Withdraw`, and a `Put` changes nothing served
because its id is not mapped.

`RefusalIsFinal` is about the second finding: a state in which an entry cannot be deleted is never left. The row stays, because only its own
delete could remove it, and so does the archived row that refuses it. No run checks this.

`UploadConsistent` adds, under every fault, that the tables agree with each other except for `misdeleted` ids (`CatalogIsConsistent`), and
that an answered upload without a row lost a commit itself or had a twin (`OnlyTwinsAreLost`, through an
invariant that says of each upload past `Ready` that its row is prepared, published or archived,
or that it has a twin or is in `uncommitted`; that of a twin, once there, nothing takes away the last row).

`StageProofs` has two parts. Whatever fails, `flock` included: the state is well typed, and the holder of the lock is
in `prepare` (`LocksArePassedOn`), that is, no request that was answered, failed or died leaves the lock behind, and
one that never got it does not free that of another. For a `flock` that works (the theorems say `"lock" \notin Faults`): mutual exclusion
as the core of the invariant (a request in the critical section holds the lock), and from it that sources
are whole unless their writer failed, whole files stay, sent files are stable and, with `torn`, whole.

`IdGenProofs` has two parts. Arithmetic: equal ids have equal milliseconds and equal residues
(`PackIsInjective`), and numbers with one residue are a lap apart (`SameResidueIsALap`), for all widths of the
fields. State: the log of draws is in the order of time, a pending number is fresh, and a minted
id was packed within `Lag` of its draw (`IInv`). Together, two ids of a lap come
from different milliseconds (`CalmLap`).

`TicketProofs` carries one invariant through the actions: a token was stamped in the past by some server, a request
goes on only with a token of its app, and between the INSERT and the signature it has its
ticket. What the verifying server measures as the age of a token differs from the true age by at
most `MaxSkew` (`MeasuredAge`), which gives the two sides of `AcceptedInTime`.

`IdsCanBeSplit` shows that `id_split` recovers the second and the other fields, by the uniqueness of quotient and remainder.

`LibraryProofs` needs, next to the property itself, what a call that has *read* the row will write back:
`ReadersInv` says that its copy holds what every call done before asked for, unless that call counts it among its racers or was undone
already. A write of such a copy then loses nothing but what a racer may lose. `CallInv` keeps the histories in order.

Its second half is about the walks, for any table, page size, skip and order. The *rank* of a row is the number of rows ahead of it in
the query; ranks are different and fill `0 .. n - 1` (`RankIsInjective`, `RanksAreFilled`, the latter by counting: an injection
of a finite set into one of its size is onto), so a page is an interval of ranks and has the size that `PageRows` says (`PageSize`). A row that comes or
goes moves the rank of any other by at most one (`RankWith`), hence at most one row slips over the
position of the walk: `Missed` counts the rows that slipped ahead of it unlisted, `Extra` those behind it that are too many.
The invariant of a walk under way is `Paging`. With `d` the growth of the table since the count, it says that `2 * (Missed - cut) <= changes - d`: a row that goes
(`d` falls) may cost one missed row, a row that comes costs none, a page that is cut costs what was cut off. `Missed <= changes + cut` would be inductive too, and is
too weak: the loop ends at the total it counted, so it also leaves out the last `d` rows when the table has
grown, and these two losses have to add up to no more than `changes` (`MissedAtEnd`, `ExportPage`). A page size of 0 or less never
reaches the total (`ExportEnds` excludes it, and `Paging` says so). `ExportsMissLittle`, `ExportsAddLittle` and
`AnswersAgree` follow, and that the export of a table nobody changes, over connections that hold, is exact (`QuietExportsAreExact`).

`IntakeProofs` carries five parts: where a job stands and what it was asked (`JobInv`); an id in use belongs to one job and to no
mapping yet (`IdInv`); therefore a blob is written by one job only, is whole before it is mapped, and stays as it was put
(`BlobInv`); the id of a job that is storing has its row in `meta__prepared`, with the content of the job, or is lost or dropped, and who was dropped
has a twin (`RowInv`: a row leaves only when its id is mapped, a mapping only when its id is gone); and what has been told so far is one entry per file, of failures and of ids that
were published, lost or dropped (`AnswerInv`). `PulledIsOwn`
follows for every set of configurations. `SizesDiffer` compares the two expressions over all sizes.

The refinement of `Registry` (`Refinement`) rests on that invariant: in its states `Kept` is just what the mapping says (`KeptIsMapped`: there is
one blob at the place of a mapping, and it is whole), so a step that leaves the mapping alone is a stutter whatever it writes.
A `SetDone` that finds no row, or whose commit is lost, is one of these.
What remains is that `SetDone` does not publish an id for a second time. `IdInv` says so of ids that are mapped; `GoneInv` adds that no
job still works on an id that was removed.

Only model-checked: the liveness properties `UploadAnswered`, `GetAnswered`, `ExportEnds` and `JobEnds` (fairness and ENABLED are out of the
prover's reach). Every invariant, action property and refinement that a passing run checks is a theorem, for the files of
`Stage` under the assumption that `flock` works, which the statement names (`"lock" \notin Faults`). Without it these promises do fail.

## Limits of the models

- Ids are unique in `Upload` (`NextId`) and `Intake` (`StoreNew`), which is what `IdGen` shows of calm conditions. The mutant
  `NextIdRepeats` shows which properties rest on it.
- The conditions of `calm` are about load and clocks; nothing in the code enforces them.
- Rows of tickets are never updated. No code calls `id_split`.
- A procedure is atomic in `Catalog`. Two that insert the same hash at once make one of them raise a
  primary-key violation, which is the fault `tx` at that step; a row lock only delays. `tag_map` and `tag_unmap`, which
  read and write in two statements, are two steps in `Library`.
- A `Begin` that fails makes `withTxQuery` call `Rollback` on nil: a panic of the
  request, and of the whole process in the goroutine of `_save`. In `Upload` it is a `Crash`, in `Library` a state of the call.
- A `mapping_xx` table that does not exist yet is an empty one; the error of
  the query is a miss either way.
- Roofs and engines are fixed in `Upload` and `Stage`; `Intake` changes them from one start to the next.
- In `Library`, browsing sorts by `created`; the other sortable field, the id, has nearly the same order. Author and app
  filters, which no caller sets, are left out.
- `Paths` has values of numbers and their digits, not the text; the id and the extension of a path are not modelled.

## Not modelled

- The restore of a row with `status = 1`: nothing sets the column. `BatchSave` and `Save` of a new entry: no caller, and
  they pass eleven arguments to `entry_save`, which takes twelve.
- `popPrepared`, the only reader of announced entries: no caller. The crontab runs `imsto import -ready`
  (`apps/cron.d/jobs.txt:4`), which does not exist, so what a crash leaves announced stays so.
- `bindEntry`, which would finish a ticket: no caller, although `API.md` (35, 69) describes the flag.
- `Exists`, `List` and `Delete` of the engines, `ValidSizes` (`LoadPath` configures no sizes, so `SUPPORT_SIZE` has no
  effect), `StoredPath`, `hstore.go`: unreached, or formatting.
- `GetOrHeadHandler` and `GetMeta`: a read of one row, by a route that binds no id. `countHandler`: a single `Count`, of a roof it looks for in the
  form and not in the route. `roofsHandler`: a constant.
- That a disabled app is refused: `load` reads the column and nothing looks at it.
- The pairing of answers with the parts of a form by `Key` (`web/handlers.go:242`): the entry that carries it is replaced.
- The white list, binding, response formats, error reports, the start of servers, dispatch of commands, logging, hashes, image codecs:
  no state that a property could be about, or external.
- `apps/imsto_import` and `apps/imsto_export` are modelled as written, although parts of what they call (`config.SetRoot`, `config.AtLoaded`,
  `config.Load`, `storage.Dump`) are no longer there, and nothing sets the directory that `_store_dir` would walk. `imsto-walk` and `imsto-admin` work on local files and pages only.
- Generated templates and static files, third-party assets.
