---------------------------- MODULE IntakeProofs ----------------------------
(***************************************************************************)
(* What a GET pulls is its own content, every answer is complete, and the  *)
(* engines implement Registry, for every set of roofs, configurations,     *)
(* requests and restarts.                                                  *)
(***************************************************************************)
EXTENDS Intake, TLAPS

Live == {"next", "push", "write", "setDone", "load"}
Storing == {"push", "write", "setDone"}

\* A job that is alive is at a file of its request.
JobInv ==
    \A j \in Jobs :
        /\ pc[j] # "idle" => req[j] \in Requests
        /\ pc[j] \in Live => at[j] \in 1 .. Len(req[j].files)
        /\ pc[j] = "idle" => answer[j] = <<>> /\ stored[j] = {} /\ at[j] = 1

\* An id is drawn once: who is storing under it shares it with nobody.
IdInv ==
    /\ \A b \in blobs : b.id \in used
    /\ \A m \in mapping : m.id \in used
    /\ \A j \in Jobs : pc[j] \in Storing =>
         /\ id[j] \in used
         /\ \A m \in mapping : m.id # id[j]
         /\ \A k \in Jobs \ {j} : pc[k] \in Storing => id[k] # id[j]

\* An id has one blob, where its Put wrote it, and it is whole before it is mapped.
OwnBlob(m) ==
    /\ At(m.place, m.cat, m.id) # {}
    /\ \A b \in blobs : b.id = m.id => b.whole /\ b.content = m.content

JobBlob(j) ==
    /\ pc[j] = "push" => \A b \in blobs : b.id # id[j]
    /\ pc[j] = "write" =>
         /\ sev[j].place = "local" /\ sev[j].cat \in Cats
         /\ \A b \in blobs : b.id = id[j] => b.place = "local" /\ b.cat = sev[j].cat
    /\ pc[j] = "setDone" =>
         /\ sev[j].place \in Places /\ sev[j].cat \in Cats
         /\ At(sev[j].place, sev[j].cat, id[j]) # {}
         /\ \A b \in blobs : b.id = id[j] => b.whole /\ b.content = File(j)

BlobInv == (\A m \in mapping : OwnBlob(m)) /\ \A j \in Jobs : JobBlob(j)

\* The row of meta__prepared that a job announced is its own; it is there unless it did
\* not commit, or nothing was announced as another row had the content.
Excused == lost \cup {d.id : d \in dropped}

RowsOf(j) ==
    pc[j] \in Storing =>
        /\ id[j] \in Excused \cup {r.id : r \in prepared}
        /\ \A r \in prepared : r.id = id[j] => r.content = File(j)

RowInv ==
    /\ \A r \in prepared : r.id \in used
    /\ \A d \in dropped : TwinHasIt(d)
    /\ \A j \in Jobs : RowsOf(j)

\* The ids that may be told.
Told == Spent \cup Excused

\* What has been told so far.
AnswerOf(j) ==
    /\ req[j].front = "web" =>
         /\ pc[j] \in Live => at[j] = Len(answer[j]) + 1
         /\ pc[j] = "ended" => Len(answer[j]) = Len(req[j].files)
    /\ pc[j] = "load" => id[j] \in Told
    /\ \A k \in DOMAIN answer[j] : answer[j][k] \in Told \cup {Failed}
    /\ \A i \in stored[j] :
          req[j].size # NoSize \/ \E k \in DOMAIN answer[j] : answer[j][k] = i

AnswerInv == \A j \in Jobs : AnswerOf(j)

IInv == TypeOK /\ JobInv /\ IdInv /\ BlobInv /\ RowInv /\ AnswerInv

LEMMA Appended ==
    ASSUME NEW S, NEW a \in Seq(S), NEW x \in S
    PROVE  /\ a \o <<x>> \in Seq(S)
           /\ Len(a \o <<x>>) = Len(a) + 1
           /\ DOMAIN (a \o <<x>>) = 1 .. Len(a) + 1
           /\ \A k \in 1 .. Len(a) : (a \o <<x>>)[k] = a[k]
           /\ (a \o <<x>>)[Len(a) + 1] = x
           /\ DOMAIN a = 1 .. Len(a)
           /\ Len(a) \in Nat
OBVIOUS

Adds(b, a, x) == b = a \o <<x>>

LEMMA LastAdded ==
    ASSUME NEW S, NEW a \in Seq(S), NEW x \in S, NEW b, Adds(b, a, x)
    PROVE  /\ b \in Seq(S)
           /\ Len(b) = Len(a) + 1
           /\ Len(a) \in Nat
           /\ \A k \in DOMAIN a : k \in DOMAIN b /\ b[k] = a[k]
           /\ \A k \in DOMAIN b : k \in DOMAIN a \/ b[k] = x
           /\ \E k \in DOMAIN b : b[k] = x
<1>1. /\ b \in Seq(S) /\ Len(b) = Len(a) + 1
      /\ DOMAIN b = 1 .. Len(a) + 1 /\ DOMAIN a = 1 .. Len(a) /\ Len(a) \in Nat
      /\ \A k \in 1 .. Len(a) : b[k] = a[k]
      /\ b[Len(a) + 1] = x
  BY Appended DEF Adds
<1>2. Len(a) + 1 \in DOMAIN b
  BY <1>1
<1>3. \A k \in DOMAIN b : k \in DOMAIN a \/ k = Len(a) + 1
  BY <1>1
<1>4. \A k \in DOMAIN a : k \in DOMAIN b
  BY <1>1
<1> QED
  BY <1>1, <1>2, <1>3, <1>4

LEMMA NothingAppended ==
    ASSUME NEW S, NEW a \in Seq(S) PROVE a \o <<>> = a
OBVIOUS

\* A request names a roof, and its files are contents.
LEMMA RequestTyped ==
    ASSUME NEW r \in Requests
    PROVE  r.roof \in Roofs /\ r.files \in Seq(Contents) /\ Len(r.files) \in Nat
BY RequestsAssumption

\* Where an engine is there it has a place, and every roof has a category.
LEMMA PlaceTyped ==
    ASSUME config \in Configs, NEW roof \in Roofs
    PROVE  /\ Place(roof) \in Places \cup {None}
           /\ getItemCat(roof) \in Cats
BY ConfigAssumption DEF ConfigType, Place, S3Dial, getItemCat, Places, Cats

LEMMA InitInv == Init => IInv
<1> SUFFICES ASSUME Init PROVE IInv
  OBVIOUS
<1>1. TypeOK
  BY RequestsAssumption, ConfigAssumption
  DEF Init, EngineInit, TypeOK, EngineTypeOK, Ends, NoRequest
<1>2. JobInv /\ IdInv /\ BlobInv /\ RowInv
  BY DEF Init, EngineInit, JobInv, IdInv, BlobInv, JobBlob, RowInv, RowsOf, Live, Storing
<1>3. AnswerInv
  BY DEF Init, EngineInit, AnswerInv, AnswerOf, Live, NoRequest
<1> QED
  BY <1>1, <1>2, <1>3 DEF IInv

\* A job that is done with a file goes on with the next one or ends.
LEMMA AnsweredStep ==
    ASSUME IInv, NEW j \in Jobs, pc[j] \in Live, NEW told, NEW last,
           told = <<>> \/ \E x \in Ids \cup {Failed} : told = <<x>>,
           Answered(j, told, last)
    PROVE  /\ answer' \in [Jobs -> Seq(Ids \cup {Failed})]
           /\ at' \in [Jobs -> Nat \ {0}]
           /\ pc' \in [Jobs -> {"idle"} \cup Live \cup Ends]
           /\ \A k \in Jobs \ {j} : pc'[k] = pc[k] /\ answer'[k] = answer[k] /\ at'[k] = at[k]
           /\ pc'[j] \in {"next", "ended"}
           /\ pc'[j] = "next" => at[j] + 1 \in 1 .. Len(req[j].files)
           /\ at'[j] = at[j] + 1
           /\ Len(answer'[j]) = Len(answer[j]) + Len(told)
           /\ Len(answer[j]) \in Nat
           /\ pc'[j] = "ended" => last \/ at[j] = Len(req[j].files)
           /\ \A k \in DOMAIN answer[j] :
                k \in DOMAIN answer'[j] /\ answer'[j][k] = answer[j][k]
           /\ \A k \in DOMAIN answer'[j] :
                k \in DOMAIN answer[j] \/ told = <<answer'[j][k]>>
           /\ \A x : told = <<x>> => \E k \in DOMAIN answer'[j] : answer'[j][k] = x
<1>1. /\ answer' = [answer EXCEPT ![j] = answer[j] \o told]
      /\ at' = [at EXCEPT ![j] = at[j] + 1]
      /\ pc' = [pc EXCEPT ![j] = IF last \/ at[j] = Len(req[j].files) THEN "ended" ELSE "next"]
  BY DEF Answered
<1>2. /\ answer \in [Jobs -> Seq(Ids \cup {Failed})]
      /\ at \in [Jobs -> Nat \ {0}]
      /\ pc \in [Jobs -> {"idle"} \cup Live \cup Ends]
  BY DEF IInv, TypeOK, Live
<1>3. at[j] \in 1 .. Len(req[j].files) /\ Len(req[j].files) \in Nat
  BY RequestTyped DEF IInv, JobInv, Live
<1>4. /\ answer'[j] \in Seq(Ids \cup {Failed})
      /\ Len(answer'[j]) = Len(answer[j]) + Len(told)
      /\ Len(answer[j]) \in Nat
      /\ \A k \in DOMAIN answer[j] :
           k \in DOMAIN answer'[j] /\ answer'[j][k] = answer[j][k]
      /\ \A k \in DOMAIN answer'[j] :
           k \in DOMAIN answer[j] \/ told = <<answer'[j][k]>>
      /\ \A x : told = <<x>> => \E k \in DOMAIN answer'[j] : answer'[j][k] = x
  <2>1. answer[j] \in Seq(Ids \cup {Failed}) /\ answer'[j] = answer[j] \o told
    BY <1>1, <1>2
  <2>2. CASE told = <<>>
    BY <2>1, <2>2, NothingAppended
  <2>3. ASSUME NEW x \in Ids \cup {Failed}, told = <<x>>
        PROVE  <1>4!:
    <3>1. /\ answer'[j] \in Seq(Ids \cup {Failed})
          /\ Len(answer'[j]) = Len(answer[j]) + 1
          /\ Len(answer[j]) \in Nat
          /\ \A k \in DOMAIN answer[j] :
               k \in DOMAIN answer'[j] /\ answer'[j][k] = answer[j][k]
          /\ \A k \in DOMAIN answer'[j] : k \in DOMAIN answer[j] \/ answer'[j][k] = x
          /\ \E k \in DOMAIN answer'[j] : answer'[j][k] = x
      <4>1. Adds(answer'[j], answer[j], x)
        BY <2>1, <2>3 DEF Adds
      <4> DEFINE S == Ids \cup {Failed}
      <4>2. answer[j] \in Seq(S) /\ x \in S
        BY <2>1, <2>3
      <4> HIDE DEF S
      <4>3. /\ answer'[j] \in Seq(S)
            /\ Len(answer'[j]) = Len(answer[j]) + 1
            /\ Len(answer[j]) \in Nat
            /\ \A k \in DOMAIN answer[j] :
                 k \in DOMAIN answer'[j] /\ answer'[j][k] = answer[j][k]
            /\ \A k \in DOMAIN answer'[j] : k \in DOMAIN answer[j] \/ answer'[j][k] = x
            /\ \E k \in DOMAIN answer'[j] : answer'[j][k] = x
        BY <4>1, <4>2, LastAdded
      <4> QED
        BY <4>3 DEF S
    <3>2. Len(told) = 1
      BY <2>3
    <3>3. \A k \in DOMAIN answer'[j] : k \in DOMAIN answer[j] \/ told = <<answer'[j][k]>>
      BY <2>3, <3>1
    <3>4. \A y : told = <<y>> => \E k \in DOMAIN answer'[j] : answer'[j][k] = y
      <4>1. \A y : told = <<y>> => y = x
        BY <2>3
      <4> QED
        BY <3>1, <4>1
    <3> QED
      BY <3>1, <3>2, <3>3, <3>4
  <2> QED
    BY <2>2, <2>3
<1>5. at'[j] = at[j] + 1 /\ at' \in [Jobs -> Nat \ {0}]
  BY <1>1, <1>2, SMT
<1>6. pc'[j] = IF last \/ at[j] = Len(req[j].files) THEN "ended" ELSE "next"
  BY <1>1, <1>2
<1>7. pc'[j] = "next" => at[j] + 1 \in 1 .. Len(req[j].files)
  BY <1>3, <1>6, SMT
<1> QED
  BY <1>1, <1>2, <1>4, <1>5, <1>6, <1>7 DEF Live, Ends

\* What may be told is the same when the tables, and what is excused, do not change.
LEMMA ToldKept ==
    ASSUME UNCHANGED <<mapping, gone, dropped, lost>> PROVE Told' = Told
BY DEF Told, Spent, Excused

LEMMA ToldTyped == ASSUME IInv PROVE Told \subseteq Ids
BY DEF Told, Spent, Excused, IInv, TypeOK, EngineTypeOK, Mapped

\* The rows do not mind a step that leaves them alone and takes no image out of
\* the mapping but a deleted one.
LEMMA RowsKept ==
    ASSUME RowInv, UNCHANGED <<prepared, dropped, lost>>, used \subseteq used',
           gone \subseteq gone', \A m \in mapping : m \in mapping' \/ m.id \in gone',
           \A k \in Jobs : pc'[k] \in Storing =>
             pc[k] \in Storing /\ id'[k] = id[k] /\ File(k)' = File(k)
    PROVE  RowInv'
<1>1. \A r \in prepared' : r.id \in used'
  BY DEF RowInv
<1>2. ASSUME NEW d \in dropped' PROVE TwinHasIt(d)'
  <2>1. TwinHasIt(d)
    BY <1>2 DEF RowInv
  <2> QED
    BY <2>1 DEF TwinHasIt
<1>3. ASSUME NEW k \in Jobs PROVE RowsOf(k)'
  BY <1>3 DEF RowInv, RowsOf, Excused
<1> QED
  BY <1>1, <1>2, <1>3 DEF RowInv

\* The blob of a mapped id is as good as before where the blobs of the id are the same.
LEMMA OwnBlobKept ==
    ASSUME NEW m, OwnBlob(m), \A b : b.id = m.id => (b \in blobs' <=> b \in blobs)
    PROVE  OwnBlob(m)'
<1>1. PICK b \in blobs : b.place = m.place /\ b.cat = m.cat /\ b.id = m.id
  BY DEF OwnBlob, At
<1>2. b \in At(m.place, m.cat, m.id)'
  BY <1>1 DEF At
<1>3. \A d \in blobs' : d.id = m.id => d.whole /\ d.content = m.content
  BY DEF OwnBlob
<1> QED
  BY <1>2, <1>3 DEF OwnBlob

\* So is the blob of a job that does not move.
LEMMA JobBlobKept ==
    ASSUME NEW k, JobBlob(k), pc'[k] = pc[k], id'[k] = id[k], sev'[k] = sev[k],
           File(k)' = File(k), \A b : b.id = id[k] => (b \in blobs' <=> b \in blobs)
    PROVE  JobBlob(k)'
<1>1. pc'[k] = "push" => \A b \in blobs' : b.id # id'[k]
  BY DEF JobBlob
<1>2. pc'[k] = "write" =>
        /\ sev'[k].place = "local" /\ sev'[k].cat \in Cats
        /\ \A b \in blobs' : b.id = id'[k] => b.place = "local" /\ b.cat = sev'[k].cat
  BY DEF JobBlob
<1>3. ASSUME pc'[k] = "setDone"
      PROVE  /\ sev'[k].place \in Places /\ sev'[k].cat \in Cats
             /\ \A b \in blobs' : b.id = id'[k] => b.whole /\ b.content = File(k)'
             /\ At(sev[k].place, sev[k].cat, id[k])' # {}
  <2>1. PICK b \in blobs : b.place = sev[k].place /\ b.cat = sev[k].cat /\ b.id = id[k]
    BY <1>3 DEF JobBlob, At
  <2>2. b \in At(sev[k].place, sev[k].cat, id[k])'
    BY <2>1 DEF At
  <2>3. \A d \in blobs' : d.id = id'[k] => d.whole /\ d.content = File(k)'
    BY <1>3 DEF JobBlob
  <2> QED
    BY <1>3, <2>2, <2>3 DEF JobBlob
<1> QED
  BY <1>1, <1>2, <1>3 DEF JobBlob

\* What has been told so far stays true of a job that does not move.
LEMMA AnswerKept ==
    ASSUME NEW k, AnswerOf(k), Told \subseteq Told',
           req'[k] = req[k], pc'[k] = pc[k], answer'[k] = answer[k],
           at'[k] = at[k], id'[k] = id[k], stored'[k] = stored[k]
    PROVE  AnswerOf(k)'
<1>1. /\ req[k].front = "web" =>
           /\ pc[k] \in Live => at[k] = Len(answer[k]) + 1
           /\ pc[k] = "ended" => Len(answer[k]) = Len(req[k].files)
      /\ pc[k] = "load" => id[k] \in Told
      /\ \A n \in DOMAIN answer[k] : answer[k][n] \in Told \cup {Failed}
      /\ \A i \in stored[k] :
            req[k].size # NoSize \/ \E n \in DOMAIN answer[k] : answer[k][n] = i
  BY DEF AnswerOf
<1>2. \A n \in DOMAIN answer'[k] : answer'[k][n] \in Told' \cup {Failed}
  BY <1>1
<1>3. \A i \in stored'[k] :
        req'[k].size # NoSize \/ \E n \in DOMAIN answer'[k] : answer'[k][n] = i
  BY <1>1
<1> QED
  BY <1>1, <1>2, <1>3 DEF AnswerOf

\* A job that leaves a file behind, at most one told, changes no other job.
LEMMA AnsweredJobs ==
    ASSUME IInv, NEW j \in Jobs, pc[j] \in Live, NEW told, NEW last,
           told = <<>> \/ \E x \in Told' \cup {Failed} : told = <<x>>,
           req[j].front = "web" => Len(told) = 1 /\ last = FALSE,
           Answered(j, told, last), req' = req,
           Told \subseteq Told', Told' \subseteq Ids,
           \A k \in Jobs \ {j} : id'[k] = id[k] /\ stored'[k] = stored[k],
           \A i \in stored'[j] : i \in stored[j] \/ req[j].size # NoSize \/ told = <<i>>
    PROVE  /\ JobInv' /\ AnswerInv'
           /\ answer' \in [Jobs -> Seq(Ids \cup {Failed})]
           /\ at' \in [Jobs -> Nat \ {0}]
           /\ pc' \in [Jobs -> {"idle"} \cup Live \cup Ends]
<1>1. told = <<>> \/ \E x \in Ids \cup {Failed} : told = <<x>>
  OBVIOUS
<1>2. /\ answer' \in [Jobs -> Seq(Ids \cup {Failed})]
      /\ at' \in [Jobs -> Nat \ {0}]
      /\ pc' \in [Jobs -> {"idle"} \cup Live \cup Ends]
      /\ \A k \in Jobs \ {j} : pc'[k] = pc[k] /\ answer'[k] = answer[k] /\ at'[k] = at[k]
      /\ pc'[j] \in {"next", "ended"}
      /\ pc'[j] = "next" => at[j] + 1 \in 1 .. Len(req[j].files)
      /\ at'[j] = at[j] + 1
      /\ Len(answer'[j]) = Len(answer[j]) + Len(told)
      /\ Len(answer[j]) \in Nat
      /\ pc'[j] = "ended" => last \/ at[j] = Len(req[j].files)
      /\ \A k \in DOMAIN answer[j] :
           k \in DOMAIN answer'[j] /\ answer'[j][k] = answer[j][k]
      /\ \A k \in DOMAIN answer'[j] :
           k \in DOMAIN answer[j] \/ told = <<answer'[j][k]>>
      /\ \A x : told = <<x>> => \E k \in DOMAIN answer'[j] : answer'[j][k] = x
  BY <1>1, AnsweredStep
<1>3. pc[j] # "idle"
  BY DEF Live
<1>4. JobInv'
  <2> SUFFICES ASSUME NEW k \in Jobs
               PROVE  /\ pc'[k] # "idle" => req[k] \in Requests
                      /\ pc'[k] \in Live => at'[k] \in 1 .. Len(req[k].files)
                      /\ pc'[k] = "idle" => answer'[k] = <<>> /\ stored'[k] = {} /\ at'[k] = 1
    BY DEF JobInv
  <2>1. CASE k = j
    BY <1>2, <1>3, <2>1 DEF IInv, JobInv, Live
  <2>2. CASE k # j
    BY <1>2, <2>2 DEF IInv, JobInv
  <2> QED
    BY <2>1, <2>2
<1>5. ASSUME req[j].front = "web"
      PROVE  /\ pc'[j] \in Live => at'[j] = Len(answer'[j]) + 1
             /\ pc'[j] = "ended" => Len(answer'[j]) = Len(req[j].files)
  <2>1. at[j] = Len(answer[j]) + 1 /\ at[j] \in Nat
    BY <1>5 DEF IInv, AnswerInv, AnswerOf, TypeOK
  <2>2. Len(told) = 1
    BY <1>5
  <2>3. Len(answer'[j]) = at[j] /\ at'[j] = Len(answer'[j]) + 1
    BY <1>2, <2>1, <2>2, SMT
  <2>4. pc'[j] = "ended" => at[j] = Len(req[j].files)
    BY <1>2, <1>5
  <2> QED
    BY <2>3, <2>4
<1>6. \A k \in DOMAIN answer'[j] : answer'[j][k] \in Told' \cup {Failed}
  <2> SUFFICES ASSUME NEW k \in DOMAIN answer'[j]
               PROVE  answer'[j][k] \in Told' \cup {Failed}
    OBVIOUS
  <2>1. CASE k \in DOMAIN answer[j]
    BY <1>2, <2>1 DEF IInv, AnswerInv, AnswerOf
  <2>2. CASE told = <<answer'[j][k]>>
    BY <2>2
  <2> QED
    BY <1>2, <2>1, <2>2
<1>7. \A i \in stored'[j] :
        req[j].size # NoSize \/ \E k \in DOMAIN answer'[j] : answer'[j][k] = i
  <2> SUFFICES ASSUME NEW i \in stored'[j], req[j].size = NoSize
               PROVE  \E k \in DOMAIN answer'[j] : answer'[j][k] = i
    OBVIOUS
  <2>1. CASE i \in stored[j]
    <3>1. PICK k \in DOMAIN answer[j] : answer[j][k] = i
      BY <2>1 DEF IInv, AnswerInv, AnswerOf
    <3> QED
      BY <1>2, <3>1
  <2>2. CASE told = <<i>>
    BY <1>2, <2>2
  <2> QED
    BY <2>1, <2>2
<1>8. AnswerInv'
  <2> SUFFICES ASSUME NEW k \in Jobs PROVE AnswerOf(k)'
    BY DEF AnswerInv
  <2>1. CASE k = j
    BY <1>2, <1>5, <1>6, <1>7, <2>1 DEF AnswerOf
  <2>2. CASE k # j
    <3>1. AnswerOf(k)
      BY DEF IInv, AnswerInv
    <3>2. /\ req'[k] = req[k] /\ pc'[k] = pc[k] /\ answer'[k] = answer[k]
          /\ at'[k] = at[k] /\ id'[k] = id[k] /\ stored'[k] = stored[k]
      BY <1>2, <2>2
    <3> QED
      BY <3>1, <3>2, AnswerKept
  <2> QED
    BY <2>1, <2>2
<1> QED
  BY <1>2, <1>4, <1>8

\* The blobs of an id that a job is storing are nobody else's business.
LEMMA FailsInv ==
    ASSUME IInv, NEW j \in Jobs, pc[j] \in Live, NEW what, FileFails(j, what),
           req[j].front = "web" => ~GivesUp("web", what),
           UNCHANGED <<config, mapping, gone, used, prepared, dropped, lost, restarts>>, blobs' \subseteq Blob,
           \A b \in (blobs \cup blobs') \ (blobs \cap blobs') :
              pc[j] \in Storing /\ b.id = id[j]
    PROVE  IInv'
<1> DEFINE told == IF Tells(req[j].front, what) THEN <<Failed>> ELSE <<>>
<1>1. /\ Answered(j, told, GivesUp(req[j].front, what))
      /\ UNCHANGED <<req, id, sev, stored>>
  BY DEF FileFails
<1>2. req[j].front = "web" => told = <<Failed>> /\ GivesUp(req[j].front, what) = FALSE
  BY DEF Tells, GivesUp
<1>3. Told' = Told /\ Told \subseteq Ids
  BY ToldKept, ToldTyped
<1>4. told = <<>> \/ told = <<Failed>>
  OBVIOUS
<1> HIDE DEF told
<1>5. /\ JobInv' /\ AnswerInv'
      /\ answer' \in [Jobs -> Seq(Ids \cup {Failed})]
      /\ at' \in [Jobs -> Nat \ {0}]
      /\ pc' \in [Jobs -> {"idle"} \cup Live \cup Ends]
  BY <1>1, <1>2, <1>3, <1>4, AnsweredJobs
<1>6. TypeOK'
  BY <1>1, <1>5 DEF IInv, TypeOK, EngineTypeOK, Live
<1>7. /\ \A k \in Jobs \ {j} : pc'[k] = pc[k] /\ at'[k] = at[k]
      /\ pc'[j] \in {"next", "ended"}
  BY <1>1 DEF Answered, IInv, TypeOK
<1>8. IdInv'
  BY <1>1, <1>7 DEF IInv, IdInv, Storing
<1>9. \A m \in mapping : \A b : b.id = m.id => (b \in blobs' <=> b \in blobs)
  BY DEF IInv, IdInv
<1>10. \A k \in Jobs \ {j} : pc[k] \in Storing =>
         \A b : b.id = id[k] => (b \in blobs' <=> b \in blobs)
  BY DEF IInv, IdInv
<1>11. ASSUME NEW k \in Jobs PROVE JobBlob(k)'
  <2>1. CASE k = j \/ pc[k] \notin Storing
    BY <1>7, <2>1 DEF JobBlob, Storing
  <2>2. CASE k # j /\ pc[k] \in Storing
    BY <1>1, <1>7, <1>10, <2>2, JobBlobKept DEF IInv, BlobInv, File
  <2> QED
    BY <2>1, <2>2
<1>12. \A m \in mapping : OwnBlob(m)'
  BY <1>9, OwnBlobKept DEF IInv, BlobInv
<1>13. BlobInv'
  BY <1>11, <1>12 DEF BlobInv
<1>14. RowInv'
  BY <1>1, <1>7, RowsKept DEF IInv, File, Storing
<1> QED
  BY <1>5, <1>6, <1>8, <1>13, <1>14 DEF IInv

-----------------------------------------------------------------------------
\* Ids, blobs and rows do not mind a job that stores nothing, nor a mapping that shrinks.
LEMMA BlobsKept ==
    ASSUME IInv, blobs' = blobs, mapping' \subseteq mapping,
           UNCHANGED <<used, prepared, dropped, lost>>,
           gone \subseteq gone', \A m \in mapping : m \in mapping' \/ m.id \in gone',
           \A k \in Jobs : pc'[k] \in Storing =>
             pc'[k] = pc[k] /\ id'[k] = id[k] /\ sev'[k] = sev[k] /\ File(k)' = File(k)
    PROVE  IdInv' /\ BlobInv' /\ RowInv'
<1>1. IdInv'
  BY DEF IInv, IdInv
<1>2. \A m \in mapping' : OwnBlob(m)'
  BY OwnBlobKept DEF IInv, BlobInv
<1>3. ASSUME NEW k \in Jobs PROVE JobBlob(k)'
  <2>1. CASE pc'[k] \in Storing
    BY <2>1, JobBlobKept DEF IInv, BlobInv
  <2>2. CASE pc'[k] \notin Storing
    BY <2>2 DEF JobBlob, Storing
  <2> QED
    BY <2>1, <2>2
<1>4. RowInv'
  BY RowsKept DEF IInv
<1> QED
  BY <1>1, <1>2, <1>3, <1>4 DEF BlobInv

\* A job that moves on with its file, or hangs, tells nothing.
LEMMA MovesJobs ==
    ASSUME IInv, NEW j \in Jobs, pc[j] \in Live, NEW x \in Storing \cup {"hung"},
           pc' = [pc EXCEPT ![j] = x],
           UNCHANGED <<req, at, answer, stored>>, Told \subseteq Told',
           \A k \in Jobs \ {j} : id'[k] = id[k]
    PROVE  /\ JobInv' /\ AnswerInv'
           /\ pc' \in [Jobs -> {"idle"} \cup Live \cup Ends]
           /\ pc'[j] = x /\ \A k \in Jobs \ {j} : pc'[k] = pc[k]
<1>1. /\ pc'[j] = x /\ \A k \in Jobs \ {j} : pc'[k] = pc[k]
      /\ pc' \in [Jobs -> {"idle"} \cup Live \cup Ends]
  BY DEF IInv, TypeOK, Live, Storing, Ends
<1>2. JobInv'
  BY <1>1 DEF IInv, JobInv, Live, Storing
<1>3. ASSUME NEW k \in Jobs \ {j} PROVE AnswerOf(k)'
  BY <1>1, AnswerKept DEF IInv, AnswerInv
<1>4. AnswerOf(j)'
  <2>1. AnswerOf(j)
    BY DEF IInv, AnswerInv
  <2> QED
    BY <1>1, <2>1 DEF AnswerOf, Storing, Live
<1> QED
  BY <1>1, <1>2, <1>3, <1>4 DEF AnswerInv

\* A job whose file is stored tells the id, or loads the image before.
LEMMA StoredJobs ==
    ASSUME IInv, NEW j \in Jobs, pc[j] \in Live, NEW i \in Told', FileStored(j, i),
           Told \subseteq Told', Told' \subseteq Ids
    PROVE  /\ JobInv' /\ AnswerInv'
           /\ answer' \in [Jobs -> Seq(Ids \cup {Failed})]
           /\ at' \in [Jobs -> Nat \ {0}]
           /\ pc' \in [Jobs -> {"idle"} \cup Live \cup Ends]
           /\ id' \in [Jobs -> Ids \cup {None}] /\ stored' \in [Jobs -> SUBSET Ids]
           /\ UNCHANGED <<req, sev>>
           /\ pc'[j] \notin Storing
           /\ \A k \in Jobs \ {j} : pc'[k] = pc[k] /\ id'[k] = id[k] /\ at'[k] = at[k]
<1>1. /\ stored' = [stored EXCEPT ![j] = stored[j] \cup {i}]
      /\ id' = [id EXCEPT ![j] = i]
      /\ UNCHANGED <<req, sev>>
  BY DEF FileStored
<1>2. /\ id' \in [Jobs -> Ids \cup {None}] /\ stored' \in [Jobs -> SUBSET Ids]
      /\ id'[j] = i /\ stored'[j] = stored[j] \cup {i}
      /\ \A k \in Jobs \ {j} : id'[k] = id[k] /\ stored'[k] = stored[k]
  BY <1>1 DEF IInv, TypeOK
<1>3. CASE req[j].size = NoSize /\ Answered(j, <<i>>, FALSE)
  <2>1. Len(<<i>>) = 1
    OBVIOUS
  <2>2. /\ JobInv' /\ AnswerInv'
        /\ answer' \in [Jobs -> Seq(Ids \cup {Failed})]
        /\ at' \in [Jobs -> Nat \ {0}]
        /\ pc' \in [Jobs -> {"idle"} \cup Live \cup Ends]
    BY <1>1, <1>2, <1>3, <2>1, AnsweredJobs
  <2>3. /\ pc'[j] \notin Storing
        /\ \A k \in Jobs \ {j} : pc'[k] = pc[k] /\ at'[k] = at[k]
    BY <1>3 DEF Answered, Storing, IInv, TypeOK
  <2> QED
    BY <1>1, <1>2, <2>2, <2>3
<1>4. CASE req[j].size # NoSize /\ pc' = [pc EXCEPT ![j] = "load"] /\ UNCHANGED <<answer, at>>
  <2>1. /\ pc'[j] = "load" /\ \A k \in Jobs \ {j} : pc'[k] = pc[k]
        /\ pc' \in [Jobs -> {"idle"} \cup Live \cup Ends]
    BY <1>4 DEF IInv, TypeOK, Live
  <2>2. JobInv'
    BY <1>1, <1>2, <1>4, <2>1 DEF IInv, JobInv, Live
  <2>3. ASSUME NEW k \in Jobs \ {j} PROVE AnswerOf(k)'
    BY <1>1, <1>2, <1>4, <2>1, AnswerKept DEF IInv, AnswerInv
  <2>4. AnswerOf(j)'
    <3>1. AnswerOf(j)
      BY DEF IInv, AnswerInv
    <3> QED
      BY <1>1, <1>2, <1>4, <2>1, <3>1 DEF AnswerOf, Live
  <2> QED
    BY <1>1, <1>2, <1>4, <2>1, <2>2, <2>3, <2>4 DEF AnswerInv, IInv, TypeOK, Storing
<1> QED
  BY <1>3, <1>4 DEF FileStored

LEMMA ArriveInv ==
    ASSUME IInv, NEW j \in Jobs, NEW r \in Requests, Arrive(j, r) PROVE IInv'
<1>1. /\ pc[j] = "idle"
      /\ req' = [req EXCEPT ![j] = r]
      /\ UNCHANGED <<engineVars, at, id, sev, answer, stored, used, prepared, dropped, lost, restarts>>
  BY DEF Arrive, tableVars
<1>2. UNCHANGED <<config, blobs, mapping, gone>>
  BY <1>1 DEF engineVars
<1>3. /\ pc'[j] \in {"next", "ended", "refused"}
      /\ pc'[j] = "next" => r.files # <<>>
      /\ pc'[j] = "ended" => r.files = <<>>
      /\ \A k \in Jobs \ {j} : pc'[k] = pc[k]
      /\ pc' \in [Jobs -> {"idle"} \cup Live \cup Ends]
  BY DEF Arrive, IInv, TypeOK, Live, Ends
<1>4. req'[j] = r /\ \A k \in Jobs \ {j} : req'[k] = req[k]
  BY <1>1 DEF IInv, TypeOK
<1>5. TypeOK'
  BY <1>1, <1>2, <1>3 DEF IInv, TypeOK, EngineTypeOK, Live
<1>6. answer[j] = <<>> /\ stored[j] = {} /\ at[j] = 1
  BY <1>1 DEF IInv, JobInv
<1>7. r.files # <<>> => 1 \in 1 .. Len(r.files)
  BY RequestTyped
<1>8. JobInv'
  BY <1>1, <1>3, <1>4, <1>6, <1>7 DEF IInv, JobInv, Live
<1>9. IdInv' /\ BlobInv' /\ RowInv'
  BY <1>1, <1>2, <1>3, <1>4, BlobsKept DEF File, Storing
<1>10. Told' = Told
  BY <1>1, <1>2, ToldKept
<1>11. ASSUME NEW k \in Jobs \ {j} PROVE AnswerOf(k)'
  BY <1>1, <1>3, <1>4, <1>10, AnswerKept DEF IInv, AnswerInv
<1>12. Len(<<>>) = 0 /\ DOMAIN <<>> = {}
  OBVIOUS
<1>13. AnswerOf(j)'
  BY <1>1, <1>3, <1>4, <1>6, <1>12 DEF AnswerOf, Live
<1> QED
  BY <1>5, <1>8, <1>9, <1>11, <1>13 DEF IInv, AnswerInv

\* The failures of a file, before the engine and in it.
LEMMA FailureInv ==
    ASSUME IInv, NEW j \in Jobs,
           PrepareFails(j) \/ StoreFails(j) \/ PushFails(j) \/ SetDoneFails(j)
    PROVE  IInv'
<1>1. /\ pc[j] \in Live
      /\ UNCHANGED <<config, blobs, mapping, gone, used, prepared, dropped, lost, restarts>>
      /\ \E what \in FrontFails(req[j].front) \cup {"store"} : FileFails(j, what)
  BY DEF PrepareFails, StoreFails, PushFails, SetDoneFails, Live, engineVars, tableVars
<1>2. PICK what \in FrontFails(req[j].front) \cup {"store"} : FileFails(j, what)
  BY <1>1
<1>3. req[j].front = "web" => ~GivesUp("web", what)
  BY <1>2 DEF FrontFails, GivesUp
<1>4. blobs' \subseteq Blob
  BY <1>1 DEF IInv, TypeOK, EngineTypeOK
<1> QED
  BY <1>1, <1>2, <1>3, <1>4, FailsInv

LEMMA StoreKnownInv ==
    ASSUME IInv, NEW j \in Jobs, StoreKnown(j) PROVE IInv'
<1>1. PICK m \in Known(j) : FileStored(j, m.id)
  BY DEF StoreKnown
<1>2. /\ pc[j] = "next" /\ pc[j] \in Live
      /\ UNCHANGED <<config, blobs, mapping, gone, used, prepared, dropped, lost, restarts>>
  BY DEF StoreKnown, engineVars, Live, tableVars
<1>3. Told' = Told /\ Told \subseteq Ids /\ m.id \in Told
  BY <1>1, <1>2, ToldKept, ToldTyped DEF Known, Told, Spent
<1>4. /\ JobInv' /\ AnswerInv'
      /\ answer' \in [Jobs -> Seq(Ids \cup {Failed})]
      /\ at' \in [Jobs -> Nat \ {0}]
      /\ pc' \in [Jobs -> {"idle"} \cup Live \cup Ends]
      /\ id' \in [Jobs -> Ids \cup {None}] /\ stored' \in [Jobs -> SUBSET Ids]
      /\ UNCHANGED <<req, sev>>
      /\ pc'[j] \notin Storing
      /\ \A k \in Jobs \ {j} : pc'[k] = pc[k] /\ id'[k] = id[k] /\ at'[k] = at[k]
  BY <1>1, <1>2, <1>3, StoredJobs
<1>5. TypeOK'
  BY <1>2, <1>4 DEF IInv, TypeOK, EngineTypeOK, Live
<1>6. IdInv' /\ BlobInv' /\ RowInv'
  BY <1>2, <1>4, BlobsKept DEF File
<1> QED
  BY <1>4, <1>5, <1>6 DEF IInv

LEMMA StoreHangsInv ==
    ASSUME IInv, NEW j \in Jobs, StoreHangs(j) PROVE IInv'
<1>1. /\ pc[j] \in Live
      /\ pc' = [pc EXCEPT ![j] = "hung"]
      /\ UNCHANGED <<config, blobs, mapping, gone, req, at, id, sev, answer, stored, used, prepared, dropped, lost, restarts>>
  BY DEF StoreHangs, engineVars, Live, tableVars
<1>2. /\ JobInv' /\ AnswerInv'
      /\ pc' \in [Jobs -> {"idle"} \cup Live \cup Ends]
      /\ pc'[j] = "hung" /\ \A k \in Jobs \ {j} : pc'[k] = pc[k]
  BY <1>1, MovesJobs, ToldKept
<1>3. TypeOK'
  BY <1>1, <1>2 DEF IInv, TypeOK, EngineTypeOK, Live
<1>4. IdInv' /\ BlobInv' /\ RowInv'
  BY <1>1, <1>2, BlobsKept DEF File, Storing
<1> QED
  BY <1>2, <1>3, <1>4 DEF IInv

\* The file a job is at is a content, its roof a roof.
LEMMA FileTyped ==
    ASSUME IInv, NEW j \in Jobs, pc[j] \in Live
    PROVE  File(j) \in Contents /\ req[j].roof \in Roofs
<1>1. req[j] \in Requests /\ at[j] \in 1 .. Len(req[j].files)
  BY DEF IInv, JobInv, Live
<1>2. req[j].files \in Seq(Contents) /\ req[j].roof \in Roofs
  BY <1>1, RequestTyped
<1> QED
  BY <1>1, <1>2 DEF File

\* Ready announces the id, unless it is lost or another row has its content.
LEMMA ReadyAnnounces ==
    ASSUME IInv, NEW j \in Jobs, NEW i \in Ids, File(j) \in Contents, Ready(j, i)
    PROVE  /\ prepared' \subseteq [id : Ids, content : Contents]
           /\ dropped' \subseteq [id : Ids, content : Contents, twin : Ids]
           /\ lost' \subseteq Ids
           /\ prepared \subseteq prepared' /\ dropped \subseteq dropped' /\ lost \subseteq lost'
           /\ \A r \in prepared' : r \in prepared \/ (r.id = i /\ r.content = File(j))
           /\ \A d \in dropped' :
                d \in dropped \/ \E r \in prepared : r.id = d.twin /\ r.content = d.content
           /\ i \in lost' \cup {d.id : d \in dropped'} \cup {r.id : r \in prepared'}
<1>1. /\ prepared \subseteq [id : Ids, content : Contents]
      /\ dropped \subseteq [id : Ids, content : Contents, twin : Ids]
      /\ lost \subseteq Ids
  BY DEF IInv, TypeOK
<1>2. CASE /\ prepared' = prepared \cup {[id |-> i, content |-> File(j)]}
           /\ UNCHANGED <<dropped, lost>>
  <2> DEFINE n == [id |-> i, content |-> File(j)]
  <2>1. n \in [id : Ids, content : Contents] /\ n.id = i /\ n.content = File(j)
    OBVIOUS
  <2>2. prepared' = prepared \cup {n}
    BY <1>2
  <2> HIDE DEF n
  <2> QED
    BY <1>1, <1>2, <2>1, <2>2
<1>3. CASE lost' = lost \cup {i} /\ UNCHANGED <<prepared, dropped>>
  BY <1>1, <1>3
<1>4. CASE /\ \E r \in Rows(j) :
                dropped' = dropped \cup {[id |-> i, content |-> File(j), twin |-> r.id]}
           /\ UNCHANGED <<prepared, lost>>
  <2>1. PICK r \in Rows(j) :
          dropped' = dropped \cup {[id |-> i, content |-> File(j), twin |-> r.id]}
    BY <1>4
  <2>2. r \in prepared /\ r.content = File(j) /\ r.id \in Ids
    BY <1>1, <2>1 DEF Rows
  <2> DEFINE d == [id |-> i, content |-> File(j), twin |-> r.id]
  <2>3. /\ d \in [id : Ids, content : Contents, twin : Ids]
        /\ d.id = i /\ d.content = File(j) /\ d.twin = r.id
    BY <2>2
  <2>4. dropped' = dropped \cup {d}
    BY <2>1
  <2> HIDE DEF d
  <2> QED
    BY <1>1, <1>4, <2>2, <2>3, <2>4
<1> QED
  BY <1>2, <1>3, <1>4 DEF Ready

\* A fresh id has no blob and no mapping, and no other job stores under it.
LEMMA StoreNewInv ==
    ASSUME IInv, NEW j \in Jobs, StoreNew(j) PROVE IInv'
<1>1. PICK i \in Ids \ used : used' = used \cup {i} /\ id' = [id EXCEPT ![j] = i] /\ Ready(j, i)
  BY DEF StoreNew
<1>2. /\ pc[j] \in Live
      /\ pc' = [pc EXCEPT ![j] = "push"]
      /\ UNCHANGED <<config, blobs, mapping, gone, req, at, sev, answer, stored, restarts>>
  BY DEF StoreNew, engineVars, Live
<1>3. id' \in [Jobs -> Ids \cup {None}] /\ id'[j] = i /\ \A k \in Jobs \ {j} : id'[k] = id[k]
  BY <1>1 DEF IInv, TypeOK
<1>4. File(j) \in Contents /\ \A k \in Jobs : File(k)' = File(k)
  BY <1>2, FileTyped DEF File
<1>5. /\ prepared' \subseteq [id : Ids, content : Contents]
      /\ dropped' \subseteq [id : Ids, content : Contents, twin : Ids]
      /\ lost' \subseteq Ids
      /\ prepared \subseteq prepared' /\ dropped \subseteq dropped' /\ lost \subseteq lost'
      /\ \A r \in prepared' : r \in prepared \/ (r.id = i /\ r.content = File(j))
      /\ \A d \in dropped' : d \in dropped \/ \E r \in prepared : r.id = d.twin /\ r.content = d.content
      /\ i \in lost' \cup {d.id : d \in dropped'} \cup {r.id : r \in prepared'}
  BY <1>1, <1>4, ReadyAnnounces
<1>6. Told \subseteq Told'
  BY <1>2, <1>5 DEF Told, Spent, Excused
<1>7. /\ JobInv' /\ AnswerInv'
      /\ pc' \in [Jobs -> {"idle"} \cup Live \cup Ends]
      /\ pc'[j] = "push" /\ \A k \in Jobs \ {j} : pc'[k] = pc[k]
  BY <1>2, <1>3, <1>6, MovesJobs DEF Storing
<1>8. TypeOK'
  BY <1>1, <1>2, <1>3, <1>5, <1>7 DEF IInv, TypeOK, EngineTypeOK, Live
<1>9. IdInv'
  BY <1>1, <1>2, <1>3, <1>7 DEF IInv, IdInv, Storing
<1>10. \A m \in mapping : OwnBlob(m)'
  BY <1>2, OwnBlobKept DEF IInv, BlobInv
<1>11. \A k \in Jobs \ {j} : JobBlob(k)'
  BY <1>2, <1>3, <1>7, JobBlobKept DEF IInv, BlobInv, File
<1>12. JobBlob(j)'
  BY <1>1, <1>2, <1>3, <1>7 DEF IInv, IdInv, JobBlob
<1>13. RowInv'
  <2>1. \A r \in prepared' : r.id \in used'
    BY <1>1, <1>5 DEF IInv, RowInv
  <2>2. ASSUME NEW d \in dropped' PROVE TwinHasIt(d)'
    <3>1. TwinHasIt(d) \/ \E r \in prepared : r.id = d.twin /\ r.content = d.content
      BY <1>5, <2>2 DEF IInv, RowInv
    <3> QED
      BY <1>2, <1>5, <3>1 DEF TwinHasIt
  <2>3. ASSUME NEW k \in Jobs \ {j}, pc[k] \in Storing PROVE RowsOf(k)'
    <3>1. id[k] # i /\ RowsOf(k)
      BY <1>1, <2>3 DEF IInv, IdInv, RowInv
    <3> QED
      BY <1>3, <1>4, <1>5, <2>3, <3>1 DEF RowsOf, Excused
  <2>4. RowsOf(j)'
    <3>1. \A r \in prepared' : r.id = i => r.content = File(j)
      BY <1>1, <1>5 DEF IInv, RowInv
    <3> QED
      BY <1>3, <1>4, <1>5, <3>1 DEF RowsOf, Excused
  <2> QED
    BY <1>7, <2>1, <2>2, <2>3, <2>4 DEF RowInv, RowsOf
<1> QED
  BY <1>2, <1>7, <1>8, <1>9, <1>10, <1>11, <1>12, <1>13 DEF IInv, BlobInv

\* Where job j writes, and what it leaves of the other blobs.
LEMMA TargetTyped ==
    ASSUME IInv, NEW j \in Jobs, pc[j] \in Live, Target(j).place # None
    PROVE  Target(j).place \in Places /\ Target(j).cat \in Cats
           /\ Target(j) = [place |-> Target(j).place, cat |-> Target(j).cat]
<1>1. req[j].roof \in Roofs /\ config \in Configs
  BY RequestTyped DEF IInv, JobInv, TypeOK, EngineTypeOK, Live
<1> QED
  BY <1>1, PlaceTyped DEF Target

\* Under what and what job j stores.
LEMMA StoringTyped ==
    ASSUME IInv, NEW j \in Jobs, pc[j] \in Storing
    PROVE  id[j] \in Ids /\ File(j) \in Contents
BY FileTyped DEF IInv, IdInv, TypeOK, Storing, Live

\* A blob of an id that job j is storing is written: nobody else is concerned.
LEMMA WrittenInv ==
    ASSUME IInv, NEW j \in Jobs, pc[j] \in Storing, NEW n \in Blob, n.id = id[j],
           blobs' = (blobs \ At(n.place, n.cat, n.id)) \cup {n}
    PROVE  /\ blobs' \subseteq Blob
           /\ \A b \in blobs' : b.id \in used
           /\ \A b : b.id # id[j] => (b \in blobs' <=> b \in blobs)
           /\ n \in blobs'
           /\ (\A b \in blobs : b.id = id[j] => b.place = n.place /\ b.cat = n.cat) =>
                \A b \in blobs' : b.id = id[j] => b = n
<1>1. id[j] \in used
  BY DEF IInv, IdInv
<1>2. blobs' \subseteq Blob /\ \A b \in blobs' : b.id \in used
  BY <1>1 DEF IInv, IdInv, TypeOK, EngineTypeOK
<1>3. \A b : b.id # id[j] => (b \in blobs' <=> b \in blobs)
  BY DEF At
<1>4. (\A b \in blobs : b.id = id[j] => b.place = n.place /\ b.cat = n.cat) =>
         \A b \in blobs' : b.id = id[j] => b = n
  BY DEF At
<1> QED
  BY <1>2, <1>3, <1>4

\* The others' blobs, mapped or being stored, are as they were.
LEMMA OthersKept ==
    ASSUME IInv, NEW j \in Jobs, pc[j] \in Storing,
           UNCHANGED <<mapping, gone, used, prepared, dropped, lost, id, req, at>>,
           \A k \in Jobs \ {j} : pc'[k] = pc[k] /\ sev'[k] = sev[k],
           \A b \in blobs' : b.id \in used,
           \A b : b.id # id[j] => (b \in blobs' <=> b \in blobs)
    PROVE  /\ IdInv' /\ RowInv'
           /\ \A m \in mapping' : OwnBlob(m)'
           /\ \A k \in Jobs \ {j} : JobBlob(k)'
<1>1. IdInv'
  BY DEF IInv, IdInv
<1>2. \A m \in mapping' : OwnBlob(m)'
  BY OwnBlobKept DEF IInv, IdInv, BlobInv
<1>3. \A k \in Jobs \ {j} : pc[k] \in Storing => id[k] # id[j]
  BY DEF IInv, IdInv
<1>4. ASSUME NEW k \in Jobs \ {j} PROVE JobBlob(k)'
  <2>1. CASE pc[k] \in Storing
    BY <1>3, <2>1, JobBlobKept DEF IInv, BlobInv, File
  <2>2. CASE pc[k] \notin Storing
    BY <2>2 DEF JobBlob, Storing
  <2> QED
    BY <2>1, <2>2
<1>5. RowInv'
  BY RowsKept DEF IInv, File
<1> QED
  BY <1>1, <1>2, <1>4, <1>5

LEMMA PutBeginsInv ==
    ASSUME IInv, NEW j \in Jobs, PutBegins(j) PROVE IInv'
<1> DEFINE c == Target(j).cat
           n == [place |-> "local", cat |-> c, id |-> id[j], content |-> File(j), whole |-> FALSE]
<1>1. /\ pc[j] = "push" /\ pc[j] \in Live /\ pc[j] \in Storing
      /\ pc' = [pc EXCEPT ![j] = "write"]
      /\ sev' = [sev EXCEPT ![j] = Target(j)]
      /\ blobs' = (blobs \ At("local", c, id[j])) \cup {n}
      /\ UNCHANGED <<config, mapping, gone, req, at, id, answer, stored, used, prepared, dropped, lost, restarts>>
      /\ Target(j).place = "local"
  BY DEF PutBegins, Live, Storing, Written, tableVars
<1>2. c \in Cats /\ "local" \in Places /\ Target(j) = [place |-> "local", cat |-> c]
  BY <1>1, TargetTyped, ConfigAssumption
<1>3. /\ sev' \in [Jobs -> [place : Places \cup {None}, cat : Cats \cup {None}]]
      /\ sev'[j].place = "local" /\ sev'[j].cat = c
      /\ \A k \in Jobs \ {j} : sev'[k] = sev[k]
  BY <1>1, <1>2 DEF IInv, TypeOK
<1>4. n \in Blob /\ n.place = "local" /\ n.cat = c /\ n.id = id[j]
  BY <1>1, <1>2, StoringTyped DEF Blob
<1> HIDE DEF c, n
<1>5. /\ blobs' \subseteq Blob
      /\ \A b \in blobs' : b.id \in used
      /\ \A b : b.id # id[j] => (b \in blobs' <=> b \in blobs)
      /\ (\A b \in blobs : b.id = id[j] => b.place = n.place /\ b.cat = n.cat) =>
           \A b \in blobs' : b.id = id[j] => b = n
  BY <1>1, <1>4, WrittenInv
<1>6. /\ JobInv' /\ AnswerInv'
      /\ pc' \in [Jobs -> {"idle"} \cup Live \cup Ends]
      /\ pc'[j] = "write" /\ \A k \in Jobs \ {j} : pc'[k] = pc[k]
  BY <1>1, MovesJobs, ToldKept DEF Storing
<1>7. TypeOK'
  BY <1>1, <1>3, <1>5, <1>6 DEF IInv, TypeOK, EngineTypeOK, Live
<1>8. IdInv' /\ RowInv' /\ (\A m \in mapping' : OwnBlob(m)') /\ \A k \in Jobs \ {j} : JobBlob(k)'
  BY <1>1, <1>3, <1>5, <1>6, OthersKept
<1>9. \A b \in blobs' : b.id = id[j] => b.place = "local" /\ b.cat = c
  BY <1>1, <1>4, <1>5 DEF IInv, BlobInv, JobBlob
<1>10. JobBlob(j)'
  BY <1>1, <1>2, <1>3, <1>6, <1>9 DEF JobBlob
<1> QED
  BY <1>6, <1>7, <1>8, <1>10 DEF IInv, BlobInv

LEMMA PutEndsInv ==
    ASSUME IInv, NEW j \in Jobs, PutEnds(j) PROVE IInv'
<1> DEFINE n == [place |-> "local", cat |-> sev[j].cat, id |-> id[j],
                 content |-> File(j), whole |-> TRUE]
<1>1. /\ pc[j] = "write" /\ pc[j] \in Live /\ pc[j] \in Storing
      /\ pc' = [pc EXCEPT ![j] = "setDone"]
      /\ blobs' = (blobs \ At("local", sev[j].cat, id[j])) \cup {n}
      /\ UNCHANGED <<config, mapping, gone, req, at, id, sev, answer, stored, used, prepared, dropped, lost, restarts>>
  BY DEF PutEnds, Live, Storing, Written, tableVars
<1>2. /\ sev[j].cat \in Cats /\ sev[j].place = "local" /\ "local" \in Places
      /\ \A b \in blobs : b.id = id[j] => b.place = "local" /\ b.cat = sev[j].cat
  BY <1>1 DEF IInv, BlobInv, JobBlob, Places
<1>3. n \in Blob /\ n.place = "local" /\ n.cat = sev[j].cat /\ n.id = id[j] /\ n.content = File(j)
  BY <1>1, <1>2, StoringTyped DEF Blob
<1>4. n.whole
  OBVIOUS
<1> HIDE DEF n
<1>5. /\ blobs' \subseteq Blob
      /\ \A b \in blobs' : b.id \in used
      /\ \A b : b.id # id[j] => (b \in blobs' <=> b \in blobs)
      /\ n \in blobs'
      /\ (\A b \in blobs : b.id = id[j] => b.place = n.place /\ b.cat = n.cat) =>
           \A b \in blobs' : b.id = id[j] => b = n
  BY <1>1, <1>3, WrittenInv
<1>6. /\ JobInv' /\ AnswerInv'
      /\ pc' \in [Jobs -> {"idle"} \cup Live \cup Ends]
      /\ pc'[j] = "setDone" /\ \A k \in Jobs \ {j} : pc'[k] = pc[k]
  BY <1>1, MovesJobs, ToldKept DEF Storing
<1>7. TypeOK'
  BY <1>1, <1>5, <1>6 DEF IInv, TypeOK, EngineTypeOK, Live
<1>8. n \in At(sev[j].place, sev[j].cat, id[j])'
  BY <1>1, <1>2, <1>3, <1>5 DEF At
<1>9. \A b \in blobs' : b.id = id'[j] => b.whole /\ b.content = File(j)'
  BY <1>1, <1>2, <1>3, <1>4, <1>5 DEF File
<1>10. JobBlob(j)'
  BY <1>1, <1>2, <1>6, <1>8, <1>9 DEF JobBlob
<1>11. IdInv' /\ RowInv' /\ (\A m \in mapping' : OwnBlob(m)') /\ \A k \in Jobs \ {j} : JobBlob(k)'
  BY <1>1, <1>5, <1>6, OthersKept
<1> QED
  BY <1>6, <1>7, <1>10, <1>11 DEF IInv, BlobInv

\* A write that failed may have left the whole file.
LEMMA PutFailsInv ==
    ASSUME IInv, NEW j \in Jobs, PutFails(j) PROVE IInv'
<1> DEFINE n == [place |-> "local", cat |-> sev[j].cat, id |-> id[j],
                 content |-> File(j), whole |-> TRUE]
<1>1. /\ pc[j] = "write" /\ pc[j] \in Live /\ pc[j] \in Storing
      /\ UNCHANGED <<config, mapping, gone, used, prepared, dropped, lost, restarts>>
      /\ FileFails(j, "store")
      /\ blobs' = blobs \/ blobs' = (blobs \ At("local", sev[j].cat, id[j])) \cup {n}
  BY DEF PutFails, Live, Storing, Written, tableVars
<1>2. sev[j].cat \in Cats /\ "local" \in Places
  BY <1>1 DEF IInv, BlobInv, JobBlob, Places
<1>3. n \in Blob /\ n.place = "local" /\ n.cat = sev[j].cat /\ n.id = id[j]
  BY <1>1, <1>2, StoringTyped DEF Blob
<1> HIDE DEF n
<1>4. blobs' \subseteq Blob /\ \A b : b.id # id[j] => (b \in blobs' <=> b \in blobs)
  <2>1. CASE blobs' = blobs
    BY <2>1 DEF IInv, TypeOK, EngineTypeOK
  <2>2. CASE blobs' = (blobs \ At("local", sev[j].cat, id[j])) \cup {n}
    BY <1>1, <1>3, <2>2, WrittenInv
  <2> QED
    BY <1>1, <2>1, <2>2
<1>5. ~GivesUp("web", "store")
  BY DEF GivesUp
<1> QED
  BY <1>1, <1>4, <1>5, FailsInv

LEMMA PutObjectInv ==
    ASSUME IInv, NEW j \in Jobs, PutObject(j) PROVE IInv'
<1> DEFINE p == Target(j).place
           c == Target(j).cat
           n == [place |-> p, cat |-> c, id |-> id[j], content |-> File(j), whole |-> TRUE]
<1>1. /\ pc[j] = "push" /\ pc[j] \in Live /\ pc[j] \in Storing
      /\ blobs' = (blobs \ At(p, c, id[j])) \cup {n}
      /\ UNCHANGED <<config, mapping, gone, used, prepared, dropped, lost, restarts>>
      /\ p \in Buckets
  BY DEF PutObject, Live, Storing, Written, tableVars
<1>2. p \in Places /\ c \in Cats /\ Target(j) = [place |-> p, cat |-> c]
  BY <1>1, TargetTyped, ConfigAssumption
<1>3. n \in Blob /\ n.place = p /\ n.cat = c /\ n.id = id[j] /\ n.content = File(j)
  BY <1>1, <1>2, StoringTyped DEF Blob
<1>4. n.whole
  OBVIOUS
<1> HIDE DEF p, c, n
<1>5. /\ blobs' \subseteq Blob
      /\ \A b \in blobs' : b.id \in used
      /\ \A b : b.id # id[j] => (b \in blobs' <=> b \in blobs)
      /\ n \in blobs'
      /\ (\A b \in blobs : b.id = id[j] => b.place = n.place /\ b.cat = n.cat) =>
           \A b \in blobs' : b.id = id[j] => b = n
  BY <1>1, <1>3, WrittenInv
<1>6. CASE FileFails(j, "store")
  <2>1. ~GivesUp("web", "store")
    BY DEF GivesUp
  <2> QED
    BY <1>1, <1>5, <1>6, <2>1, FailsInv
<1>7. CASE /\ sev' = [sev EXCEPT ![j] = Target(j)]
           /\ pc' = [pc EXCEPT ![j] = "setDone"]
           /\ UNCHANGED <<req, at, id, answer, stored>>
  <2>1. /\ sev' \in [Jobs -> [place : Places \cup {None}, cat : Cats \cup {None}]]
        /\ sev'[j].place = p /\ sev'[j].cat = c
        /\ \A k \in Jobs \ {j} : sev'[k] = sev[k]
    BY <1>2, <1>7 DEF IInv, TypeOK
  <2>2. \A b \in blobs' : b.id = id[j] => b.whole /\ b.content = File(j)
    BY <1>1, <1>3, <1>4, <1>5 DEF IInv, BlobInv, JobBlob
  <2>3. /\ JobInv' /\ AnswerInv'
        /\ pc' \in [Jobs -> {"idle"} \cup Live \cup Ends]
        /\ pc'[j] = "setDone" /\ \A k \in Jobs \ {j} : pc'[k] = pc[k]
    BY <1>1, <1>7, MovesJobs, ToldKept DEF Storing
  <2>4. TypeOK'
    BY <1>1, <1>5, <1>7, <2>1, <2>3 DEF IInv, TypeOK, EngineTypeOK, Live
  <2>5. n \in At(sev[j].place, sev[j].cat, id[j])'
    BY <1>3, <1>5, <1>7, <2>1 DEF At
  <2>6. JobBlob(j)'
    BY <1>2, <1>7, <2>1, <2>2, <2>3, <2>5 DEF JobBlob, File
  <2>7. IdInv' /\ RowInv' /\ (\A m \in mapping' : OwnBlob(m)') /\ \A k \in Jobs \ {j} : JobBlob(k)'
    BY <1>1, <1>5, <1>7, <2>1, <2>3, OthersKept
  <2> QED
    BY <2>3, <2>4, <2>6, <2>7 DEF IInv, BlobInv
<1> QED
  BY <1>6, <1>7 DEF PutObject

\* SetDone publishes the row of its id, loses the commit, or finds no row.
LEMMA SetDoneTables ==
    ASSUME IInv, NEW j \in Jobs, SetDone(j)
    PROVE  /\ UNCHANGED <<config, blobs, gone, used, dropped, restarts>>
           /\ lost \subseteq lost' /\ lost' \subseteq Ids
           /\ \A r \in prepared' : r \in prepared
           /\ \A r \in prepared : r \in prepared' \/ r.id = id[j]
           /\ mapping' \subseteq Mapped
           /\ \A m \in mapping : m \in mapping'
           /\ \A m \in mapping' \ mapping :
                /\ m.id = id[j] /\ m.content = File(j)
                /\ m.place = sev[j].place /\ m.cat = sev[j].cat
           /\ \A r \in prepared \ prepared' :
                \E m \in mapping' : m.id = id[j] /\ m.content = File(j)
           /\ id[j] \in Told'
<1> DEFINE n == [id |-> id[j], roof |-> req[j].roof, cat |-> sev[j].cat,
                 content |-> File(j), place |-> sev[j].place]
<1>1. /\ pc[j] = "setDone" /\ pc[j] \in Live /\ pc[j] \in Storing
      /\ UNCHANGED <<config, blobs, gone, used, dropped, restarts>>
  BY DEF SetDone, Publish, Live, Storing, engineVars
<1>2. /\ id[j] \in Ids /\ sev[j].place \in Places /\ sev[j].cat \in Cats
      /\ File(j) \in Contents /\ req[j].roof \in Roofs
  BY <1>1, StoringTyped, FileTyped DEF IInv, BlobInv, JobBlob
<1>3. n \in Mapped
  BY <1>2 DEF Mapped
<1>4. /\ n.id = id[j] /\ n.content = File(j)
      /\ n.place = sev[j].place /\ n.cat = sev[j].cat
  OBVIOUS
<1>5. mapping \subseteq Mapped /\ lost \subseteq Ids
  BY DEF IInv, TypeOK, EngineTypeOK
<1>6. CASE /\ Publish(id[j], req[j].roof, sev[j].cat, File(j), sev[j].place)
           /\ prepared' = prepared \ Announced(j) /\ UNCHANGED lost
  <2>1. mapping' = mapping \cup {n}
    BY <1>6 DEF Publish
  <2> HIDE DEF n
  <2>2. id[j] \in Told'
    BY <1>4, <2>1 DEF Told, Spent
  <2>3. \A r \in prepared : r \in prepared' \/ r.id = id[j]
    BY <1>6 DEF Announced
  <2>4. \E m \in mapping' : m.id = id[j] /\ m.content = File(j)
    BY <1>4, <2>1
  <2> QED
    BY <1>1, <1>3, <1>4, <1>5, <1>6, <2>1, <2>2, <2>3, <2>4
<1>7. CASE lost' = lost \cup {id[j]} /\ UNCHANGED <<engineVars, prepared>>
  <2>1. id[j] \in Told'
    BY <1>7 DEF Told, Excused
  <2> QED
    BY <1>1, <1>2, <1>5, <1>7, <2>1 DEF engineVars
<1>8. CASE Announced(j) = {} /\ UNCHANGED <<engineVars, prepared, lost>>
  <2>1. id[j] \in Excused
    BY <1>1, <1>8 DEF IInv, RowInv, RowsOf, Announced
  <2>2. id[j] \in Told'
    BY <1>1, <1>8, <2>1 DEF Told, Excused
  <2> QED
    BY <1>1, <1>5, <1>8, <2>2 DEF engineVars
<1> QED
  BY <1>6, <1>7, <1>8 DEF SetDone

\* The blob is whole before its id is mapped.
LEMMA SetDoneInv ==
    ASSUME IInv, NEW j \in Jobs, SetDone(j) PROVE IInv'
<1>1. /\ pc[j] = "setDone" /\ pc[j] \in Live /\ pc[j] \in Storing
      /\ FileStored(j, id[j])
  BY DEF SetDone, Live, Storing
<1>2. /\ UNCHANGED <<config, blobs, gone, used, dropped, restarts>>
      /\ lost \subseteq lost' /\ lost' \subseteq Ids
      /\ \A r \in prepared' : r \in prepared
      /\ \A r \in prepared : r \in prepared' \/ r.id = id[j]
      /\ mapping' \subseteq Mapped
      /\ \A m \in mapping : m \in mapping'
      /\ \A m \in mapping' \ mapping :
           /\ m.id = id[j] /\ m.content = File(j)
           /\ m.place = sev[j].place /\ m.cat = sev[j].cat
      /\ \A r \in prepared \ prepared' :
           \E m \in mapping' : m.id = id[j] /\ m.content = File(j)
      /\ id[j] \in Told'
  BY SetDoneTables
<1>3. /\ id[j] \in used
      /\ At(sev[j].place, sev[j].cat, id[j]) # {}
      /\ \A b \in blobs : b.id = id[j] => b.whole /\ b.content = File(j)
  BY <1>1 DEF IInv, IdInv, BlobInv, JobBlob
<1>4. Told \subseteq Told'
  BY <1>2 DEF Told, Spent, Excused
<1>5. Told' \subseteq Ids
  BY <1>2 DEF Told, Spent, Excused, Mapped, IInv, TypeOK, EngineTypeOK
<1>6. /\ JobInv' /\ AnswerInv'
      /\ answer' \in [Jobs -> Seq(Ids \cup {Failed})]
      /\ at' \in [Jobs -> Nat \ {0}]
      /\ pc' \in [Jobs -> {"idle"} \cup Live \cup Ends]
      /\ id' \in [Jobs -> Ids \cup {None}] /\ stored' \in [Jobs -> SUBSET Ids]
      /\ UNCHANGED <<req, sev>>
      /\ pc'[j] \notin Storing
      /\ \A k \in Jobs \ {j} : pc'[k] = pc[k] /\ id'[k] = id[k] /\ at'[k] = at[k]
  BY <1>1, <1>2, <1>4, <1>5, StoredJobs
<1>7. TypeOK'
  BY <1>2, <1>6 DEF IInv, TypeOK, EngineTypeOK, Live
<1>8. \A k \in Jobs : pc'[k] \in Storing =>
        /\ k # j /\ pc[k] \in Storing /\ id'[k] = id[k] /\ id[k] # id[j]
        /\ File(k)' = File(k)
  BY <1>1, <1>6 DEF IInv, IdInv, File
<1>9. IdInv'
  BY <1>2, <1>3, <1>8 DEF IInv, IdInv
<1>10. ASSUME NEW m \in mapping' PROVE OwnBlob(m)'
  <2>1. CASE m \notin mapping
    <3>1. At(m.place, m.cat, m.id)' = At(sev[j].place, sev[j].cat, id[j])
      BY <1>2, <1>10, <2>1 DEF At
    <3> QED
      BY <1>2, <1>3, <1>10, <2>1, <3>1 DEF OwnBlob
  <2>2. CASE m \in mapping
    BY <1>2, <2>2, OwnBlobKept DEF IInv, BlobInv
  <2> QED
    BY <2>1, <2>2
<1>11. ASSUME NEW k \in Jobs PROVE JobBlob(k)'
  <2>1. CASE k = j
    BY <1>6, <2>1 DEF JobBlob, Storing
  <2>2. CASE k # j
    BY <1>2, <1>6, <2>2, JobBlobKept DEF IInv, BlobInv, File
  <2> QED
    BY <2>1, <2>2
<1>12. RowInv'
  <2>1. \A r \in prepared' : r.id \in used'
    BY <1>2 DEF IInv, RowInv
  <2>2. ASSUME NEW d \in dropped' PROVE TwinHasIt(d)'
    <3>1. TwinHasIt(d)
      BY <1>2, <2>2 DEF IInv, RowInv
    <3>2. ASSUME NEW r \in prepared \ prepared'
          PROVE  \E m \in mapping' : m.id = r.id /\ m.content = r.content
      <4>1. r.id = id[j] /\ r.content = File(j)
        BY <1>1, <1>2, <3>2 DEF IInv, RowInv, RowsOf
      <4> QED
        BY <1>2, <3>2, <4>1
    <3> QED
      BY <1>2, <3>1, <3>2 DEF TwinHasIt
  <2>3. ASSUME NEW k \in Jobs, pc'[k] \in Storing PROVE RowsOf(k)'
    <3>1. RowsOf(k)
      BY DEF IInv, RowInv
    <3> QED
      BY <1>2, <1>8, <2>3, <3>1 DEF RowsOf, Excused
  <2> QED
    BY <2>1, <2>2, <2>3 DEF RowInv, RowsOf
<1> QED
  BY <1>6, <1>7, <1>9, <1>10, <1>11, <1>12 DEF IInv, BlobInv

LEMMA LoadInv ==
    ASSUME IInv, NEW j \in Jobs, LoadOk(j) \/ LoadFails(j) PROVE IInv'
<1>1. /\ pc[j] = "load" /\ pc[j] \in Live
      /\ UNCHANGED <<config, blobs, mapping, gone, req, id, sev, stored, used, prepared, dropped, lost, restarts>>
      /\ Answered(j, <<id[j]>>, FALSE) \/ Answered(j, <<Failed>>, FALSE)
  BY DEF LoadOk, LoadFails, engineVars, Live, tableVars
<1>2. PICK x \in {id[j], Failed} : Answered(j, <<x>>, FALSE)
  BY <1>1
<1>3. id[j] \in Told
  BY <1>1 DEF IInv, AnswerInv, AnswerOf
<1>4. Told' = Told /\ Told \subseteq Ids
  BY <1>1, ToldKept, ToldTyped
<1>5. Len(<<x>>) = 1 /\ <<x>> # <<>>
  OBVIOUS
<1>6. /\ JobInv' /\ AnswerInv'
      /\ answer' \in [Jobs -> Seq(Ids \cup {Failed})]
      /\ at' \in [Jobs -> Nat \ {0}]
      /\ pc' \in [Jobs -> {"idle"} \cup Live \cup Ends]
  BY <1>1, <1>2, <1>3, <1>4, <1>5, AnsweredJobs
<1>7. /\ pc'[j] \notin Storing
      /\ \A k \in Jobs \ {j} : pc'[k] = pc[k] /\ at'[k] = at[k]
  BY <1>2 DEF Answered, Storing, IInv, TypeOK
<1>8. TypeOK'
  BY <1>1, <1>6 DEF IInv, TypeOK, EngineTypeOK, Live
<1>9. IdInv' /\ BlobInv' /\ RowInv'
  BY <1>1, <1>7, BlobsKept DEF File
<1> QED
  BY <1>6, <1>8, <1>9 DEF IInv

\* A deleted id was published, and its blob stays.
LEMMA RemoveInv ==
    ASSUME IInv, NEW i \in Ids, Remove(i) PROVE IInv'
<1>1. /\ mapping' = {m \in mapping : m.id # i}
      /\ gone' = gone \cup {m.id : m \in {n \in mapping : n.id = i}}
      /\ UNCHANGED <<config, blobs, pc, req, at, id, sev, answer, stored, used, prepared, dropped, lost, restarts>>
  BY DEF Remove, Delete, jobVars, tableVars
<1>2. TypeOK'
  BY <1>1 DEF IInv, TypeOK, EngineTypeOK, Mapped
<1>3. JobInv'
  BY <1>1 DEF IInv, JobInv
<1>4. IdInv' /\ BlobInv' /\ RowInv'
  BY <1>1, BlobsKept DEF File
<1>5. Told \subseteq Told'
  BY <1>1 DEF Told, Spent, Excused
<1>6. AnswerInv'
  BY <1>1, <1>5, AnswerKept DEF IInv, AnswerInv
<1> QED
  BY <1>2, <1>3, <1>4, <1>6 DEF IInv

LEMMA RestartInv ==
    ASSUME IInv, NEW c \in Configs, Restart(c) PROVE IInv'
<1>1. /\ config' = c
      /\ pc' = [k \in Jobs |-> IF pc[k] \in Ends \cup {"idle"} THEN pc[k] ELSE "dead"]
      /\ UNCHANGED <<blobs, mapping, gone, req, at, id, sev, answer, stored, used, prepared, dropped, lost>>
      /\ restarts < MaxRestarts /\ restarts' = restarts + 1
  BY DEF Restart, tableVars
<1>2. restarts' \in 0 .. MaxRestarts
  BY <1>1, RequestsAssumption, SMT DEF IInv, TypeOK
<1>3. \A k \in Jobs : pc'[k] = pc[k] \/ (pc[k] # "idle" /\ pc'[k] = "dead")
  BY <1>1
<1>4. \A k \in Jobs : pc'[k] \in Ends \cup {"idle"}
  BY <1>1 DEF Ends
<1>5. TypeOK'
  BY <1>1, <1>2, <1>4 DEF IInv, TypeOK, EngineTypeOK
<1>6. JobInv'
  BY <1>1, <1>3 DEF IInv, JobInv, Live
<1>7. IdInv' /\ BlobInv' /\ RowInv'
  BY <1>1, <1>4, BlobsKept DEF Storing, Ends
<1>8. Told' = Told
  BY <1>1, ToldKept
<1>9. ASSUME NEW k \in Jobs PROVE AnswerOf(k)'
  <2>1. AnswerOf(k)
    BY DEF IInv, AnswerInv
  <2>2. CASE pc'[k] = pc[k]
    BY <1>1, <1>8, <2>1, <2>2, AnswerKept
  <2>3. CASE pc'[k] = "dead"
    BY <1>1, <1>8, <2>1, <2>3 DEF AnswerOf, Live
  <2> QED
    BY <1>3, <2>2, <2>3
<1> QED
  BY <1>5, <1>6, <1>7, <1>9 DEF IInv, AnswerInv

\* Every step preserves the invariant.
LEMMA StepInv == IInv /\ [Next]_vars => IInv'
<1> SUFFICES ASSUME IInv, [Next]_vars PROVE IInv'
  OBVIOUS
<1>1. ASSUME NEW j \in Jobs, Step(j) PROVE IInv'
  BY <1>1, FailureInv, StoreKnownInv, StoreHangsInv, StoreNewInv, PutBeginsInv, PutEndsInv,
     PutFailsInv, PutObjectInv, SetDoneInv, LoadInv DEF Step
<1>2. CASE UNCHANGED vars
  <2>1. UNCHANGED <<config, blobs, mapping, gone, pc, req, at, id, sev, answer, stored, used, prepared, dropped, lost, restarts>>
    BY <1>2 DEF vars, engineVars, jobVars, tableVars
  <2>2. TypeOK' /\ JobInv'
    BY <2>1 DEF IInv, TypeOK, EngineTypeOK, JobInv
  <2>3. IdInv' /\ BlobInv' /\ RowInv'
    BY <2>1, BlobsKept DEF File
  <2>4. AnswerInv'
    BY <2>1, ToldKept, AnswerKept DEF IInv, AnswerInv
  <2> QED
    BY <2>2, <2>3, <2>4 DEF IInv
<1> QED
  BY <1>1, <1>2, ArriveInv, RemoveInv, RestartInv DEF Next

\* What every job, id, blob and answer stands for, in every state.
THEOREM Invariance == Spec => []IInv
BY InitInv, StepInv, PTL DEF Spec

\* Every state of Intake is well typed.
THEOREM TypeCorrect == Spec => []TypeOK
<1>1. IInv => TypeOK
  BY DEF IInv
<1> QED
  BY <1>1, Invariance, PTL

\* A GET of a mapped image pulls the whole of its own content, or nothing after
\* its roof was given another engine or bucket (pullWith).
THEOREM PullsAreOwn == Spec => []PulledIsOwn
<1>1. IInv => PulledIsOwn
  <2> SUFFICES ASSUME IInv, NEW m \in mapping
               PROVE  \/ /\ Pull(m) # {}
                         /\ \A b \in Pull(m) : b.whole /\ b.content = m.content
                      \/ Pull(m) = {} /\ Place(m.roof) # m.place
    BY DEF PulledIsOwn
  <2>1. /\ At(m.place, m.cat, m.id) # {}
        /\ \A b \in blobs : b.id = m.id => b.whole /\ b.content = m.content
    BY DEF IInv, BlobInv, OwnBlob
  <2>2. \A b \in Pull(m) : b.whole /\ b.content = m.content
    BY <2>1 DEF Pull, At
  <2>3. Place(m.roof) = m.place => Pull(m) # {}
    BY <2>1 DEF Pull
  <2> QED
    BY <2>2, <2>3
<1> QED
  BY <1>1, Invariance, PTL

\* Whatever fails, an answer has what it should: every file of a form, every id that
\* was stored, and of ids only those that were published, lost to a commit, or
\* lost to a row of meta__prepared under which the content is announced at least.
THEOREM AnswersAreComplete == Spec => []AnswerIsComplete
<1>1. IInv => AnswerIsComplete
  <2> SUFFICES ASSUME IInv, NEW j \in Jobs
               PROVE  /\ pc[j] = "ended" /\ req[j].front = "web" =>
                           Len(answer[j]) = Len(req[j].files)
                      /\ \A k \in DOMAIN answer[j] :
                           \/ answer[j][k] \in Spent \cup lost \cup {Failed}
                           \/ \E d \in dropped : d.id = answer[j][k] /\ TwinHasIt(d)
                      /\ pc[j] = "ended" =>
                           \A i \in stored[j] :
                             req[j].size # NoSize \/ \E k \in DOMAIN answer[j] : answer[j][k] = i
    BY DEF AnswerIsComplete
  <2>1. AnswerOf(j) /\ \A d \in dropped : TwinHasIt(d)
    BY DEF IInv, AnswerInv, RowInv
  <2> QED
    BY <2>1 DEF AnswerOf, Told, Excused
<1> QED
  BY <1>1, Invariance, PTL

-----------------------------------------------------------------------------
\* An id that is gone was drawn, is not mapped, and nobody stores under it.
GoneInv ==
    /\ gone \subseteq used
    /\ \A m \in mapping : m.id \notin gone
    /\ \A j \in Jobs : pc[j] \in Storing => id[j] \notin gone

\* Nothing is gone yet.
LEMMA InitGone == Init => GoneInv
BY DEF Init, EngineInit, GoneInv, Storing

\* The ids that are mapped, with their contents.
Images == {[id |-> m.id, content |-> m.content] : m \in mapping}

\* The blob of a mapped id is the whole of its content, so that what is kept is
\* what is mapped.
LEMMA KeptIsMapped == IInv => Kept = Images
<1> SUFFICES ASSUME IInv PROVE Kept = Images
  OBVIOUS
<1>1. ASSUME NEW m \in mapping, NEW b \in At(m.place, m.cat, m.id)
      PROVE  b.whole /\ b.content = m.content
  BY DEF IInv, BlobInv, OwnBlob, At
<1>2. \A m \in mapping : At(m.place, m.cat, m.id) # {} /\ m.id \in Ids /\ m.content \in Contents
  BY DEF IInv, BlobInv, OwnBlob, TypeOK, EngineTypeOK, Mapped
<1>3. ASSUME NEW s \in Kept PROVE \E m \in mapping : s = [id |-> m.id, content |-> m.content]
  <2>1. PICK m \in mapping : \E b \in At(m.place, m.cat, m.id) :
                               m.id = s.id /\ b.whole /\ b.content = s.content
    BY DEF Kept
  <2>2. s \in [id : Ids, content : Contents] /\ s.id = m.id /\ s.content = m.content
    BY <1>1, <2>1 DEF Kept
  <2>3. s = [id |-> s.id, content |-> s.content]
    BY <2>2
  <2> QED
    BY <2>2, <2>3
<1>4. ASSUME NEW m \in mapping PROVE [id |-> m.id, content |-> m.content] \in Kept
  <2>1. PICK b \in At(m.place, m.cat, m.id) : TRUE
    BY <1>2
  <2> QED
    BY <1>1, <1>2, <2>1 DEF Kept
<1> QED
  BY <1>3, <1>4 DEF Images

\* So it is after a step.
LEMMA KeptIsMappedNext == (IInv => Kept = Images)'
BY KeptIsMapped, PTL

\* A step that leaves the mapping and what is gone alone is a stutter.
LEMMA SameRegistry ==
    ASSUME IInv, IInv', UNCHANGED <<mapping, gone>> PROVE UNCHANGED <<Kept, Spent>>
<1>1. Kept = Images /\ Kept' = Images'
  BY KeptIsMapped, KeptIsMappedNext
<1> QED
  BY <1>1 DEF Images, Spent

\* SetDone publishes the id its job drew.
LEMMA SetDonePublishes ==
    ASSUME IInv, IInv', GoneInv, NEW j \in Jobs, pc[j] = "setDone",
           Publish(id[j], req[j].roof, sev[j].cat, File(j), sev[j].place)
    PROVE  registry!Publish(id[j], File(j))
<1> DEFINE n == [id |-> id[j], roof |-> req[j].roof, cat |-> sev[j].cat,
                 content |-> File(j), place |-> sev[j].place]
<1>1. /\ pc[j] \in Storing
      /\ mapping' = mapping \cup {n}
      /\ UNCHANGED gone
  BY DEF Publish, Storing
<1>2. n.id = id[j] /\ n.content = File(j)
  OBVIOUS
<1> HIDE DEF n
<1>3. id[j] \notin Spent
  BY <1>1 DEF IInv, IdInv, GoneInv, Spent
<1>4. Spent' = Spent \cup {id[j]}
  BY <1>1, <1>2 DEF Spent
<1>5. /\ Kept = {[id |-> m.id, content |-> m.content] : m \in mapping}
      /\ Kept' = {[id |-> m.id, content |-> m.content] : m \in mapping'}
  BY KeptIsMapped, KeptIsMappedNext DEF Images
<1>6. Kept' = Kept \cup {[id |-> id[j], content |-> File(j)]}
  BY <1>1, <1>2, <1>5
<1> QED
  BY <1>3, <1>4, <1>6 DEF registry!Publish

\* Delete withdraws the id.
LEMMA RemoveWithdraws ==
    ASSUME IInv, IInv', NEW i \in Ids, Remove(i) PROVE registry!Withdraw(i)
<1>1. /\ mapping' = {m \in mapping : m.id # i}
      /\ gone' = gone \cup {m.id : m \in {n \in mapping : n.id = i}}
  BY DEF Remove, Delete
<1>2. /\ Kept = {[id |-> m.id, content |-> m.content] : m \in mapping}
      /\ Kept' = {[id |-> m.id, content |-> m.content] : m \in mapping'}
  BY KeptIsMapped, KeptIsMappedNext DEF Images
<1>3. Kept' = {s \in Kept : s.id # i}
  BY <1>1, <1>2
<1>4. Spent' = Spent
  BY <1>1 DEF Spent
<1> QED
  BY <1>3, <1>4 DEF registry!Withdraw

\* The other steps map nothing and delete nothing.
LEMMA OtherSteps ==
    ASSUME [Next]_vars, \A j \in Jobs : ~SetDone(j), \A i \in Ids : ~Remove(i)
    PROVE  UNCHANGED <<mapping, gone>>
BY DEF Next, Step, Arrive, PrepareFails, StoreKnown, StoreFails, StoreHangs, StoreNew, PushFails,
   PutBegins, PutEnds, PutFails, PutObject, SetDoneFails, LoadOk, LoadFails, Restart,
   engineVars, vars

\* Nobody draws an id that is gone: who is storing after a step was storing under
\* the same id before it, or has just drawn a new one.
LEMMA DrawnOnce ==
    ASSUME IInv, [Next]_vars, NEW k \in Jobs, pc'[k] \in Storing
    PROVE  (pc[k] \in Storing /\ id'[k] = id[k]) \/ id'[k] \notin used
<1>1. /\ pc \in [Jobs -> {"idle"} \cup Live \cup Ends]
      /\ id \in [Jobs -> Ids \cup {None}]
  BY DEF IInv, TypeOK, Live
<1>2. ASSUME NEW j \in Jobs, Step(j)
      PROVE  (pc[k] \in Storing /\ id'[k] = id[k]) \/ id'[k] \notin used
  <2>1. CASE \/ LoadOk(j) \/ LoadFails(j) \/ \E what \in {"open", "read", "decode", "store"} : FileFails(j, what)
    <3>1. pc' = [pc EXCEPT ![j] = pc'[j]] /\ pc'[j] \in {"ended", "next"} /\ id' = id
      BY <1>1, <2>1 DEF LoadOk, LoadFails, FileFails, Answered
    <3> QED
      BY <1>1, <3>1 DEF Storing
  <2>2. CASE StoreKnown(j) \/ SetDone(j)
    <3>1. PICK i : FileStored(j, i)
      BY <2>2 DEF StoreKnown, SetDone
    <3>2. /\ pc' = [pc EXCEPT ![j] = pc'[j]] /\ pc'[j] \in {"ended", "next", "load"}
          /\ id' = [id EXCEPT ![j] = i]
      BY <1>1, <3>1 DEF FileStored, Answered
    <3> QED
      BY <1>1, <3>2 DEF Storing
  <2>3. CASE StoreHangs(j)
    BY <1>1, <2>3 DEF StoreHangs, Storing
  <2>4. CASE StoreNew(j)
    BY <1>1, <2>4 DEF StoreNew, Storing
  <2>5. ASSUME pc[j] \in Storing, NEW x, pc' = [pc EXCEPT ![j] = x], id' = id
        PROVE  (pc[k] \in Storing /\ id'[k] = id[k]) \/ id'[k] \notin used
    BY <1>1, <2>5
  <2>6. CASE PutBegins(j) \/ PutEnds(j)
    BY <2>5, <2>6 DEF PutBegins, PutEnds, Storing
  <2>7. CASE PutObject(j) /\ ~FileFails(j, "store")
    BY <2>5, <2>7 DEF PutObject, Storing
  <2> QED
    BY <1>2, <2>1, <2>2, <2>3, <2>4, <2>6, <2>7
    DEF Step, PrepareFails, FrontFails, StoreFails, PushFails, PutFails, SetDoneFails
<1>3. CASE \E j \in Jobs, r \in Requests : Arrive(j, r)
  BY <1>1, <1>3 DEF Arrive, Storing
<1>4. CASE \E c \in Configs : Restart(c)
  BY <1>1, <1>4 DEF Restart, Storing, Ends
<1>5. CASE (\E i \in Ids : Remove(i)) \/ UNCHANGED vars
  BY <1>5 DEF Remove, vars, jobVars
<1> QED
  BY <1>2, <1>3, <1>4, <1>5 DEF Next

\* Every step keeps an id that is gone from coming back.
LEMMA StepGone == IInv /\ IInv' /\ GoneInv /\ [Next]_vars => GoneInv'
<1> SUFFICES ASSUME IInv, IInv', GoneInv, [Next]_vars PROVE GoneInv'
  OBVIOUS
<1>1. used \subseteq used'
  BY DEF Next, Step, Arrive, PrepareFails, StoreKnown, StoreFails, StoreHangs, StoreNew, PushFails,
     PutBegins, PutEnds, PutFails, PutObject, SetDone, SetDoneFails, LoadOk, LoadFails, Remove,
     Restart, tableVars, vars
<1>2. ASSUME gone' = gone, \A m \in mapping' : m \in mapping \/ m.id \notin gone PROVE GoneInv'
  <2>1. \A k \in Jobs : pc'[k] \in Storing => id'[k] \notin gone
    BY DrawnOnce DEF GoneInv
  <2> QED
    BY <1>1, <1>2, <2>1 DEF GoneInv
<1>3. ASSUME NEW j \in Jobs, SetDone(j) PROVE GoneInv'
  <2>1. gone' = gone /\ \A m \in mapping' : m \in mapping \/ m.id = id[j]
    BY <1>3 DEF SetDone, Publish, engineVars
  <2>2. id[j] \notin gone
    BY <1>3 DEF SetDone, Storing, GoneInv
  <2> QED
    BY <1>2, <2>1, <2>2
<1>4. ASSUME NEW i \in Ids, Remove(i) PROVE GoneInv'
  <2>1. /\ mapping' = {m \in mapping : m.id # i}
        /\ gone' = gone \cup {m.id : m \in {n \in mapping : n.id = i}}
        /\ UNCHANGED <<pc, id, used>>
    BY <1>4 DEF Remove, Delete, jobVars, tableVars
  <2>2. gone' \subseteq used /\ \A m \in mapping' : m.id \notin gone'
    BY <2>1 DEF GoneInv, IInv, IdInv
  <2>3. \A k \in Jobs : pc[k] \in Storing => id[k] \notin gone'
    BY <2>1 DEF GoneInv, IInv, IdInv
  <2> QED
    BY <2>1, <2>2, <2>3 DEF GoneInv
<1>5. CASE (\A j \in Jobs : ~SetDone(j)) /\ (\A i \in Ids : ~Remove(i))
  <2>1. UNCHANGED <<mapping, gone>>
    BY <1>5, OtherSteps
  <2> QED
    BY <1>2, <2>1
<1> QED
  BY <1>3, <1>4, <1>5

\* Every step of Intake is a step of the registry or a stutter.
LEMMA RegistryStep ==
    IInv /\ IInv' /\ GoneInv /\ [Next]_vars => [registry!Next]_<<Kept, Spent>>
<1> SUFFICES ASSUME IInv, IInv', GoneInv, [Next]_vars
             PROVE  [registry!Next]_<<Kept, Spent>>
  OBVIOUS
<1>1. ASSUME NEW j \in Jobs, SetDone(j) PROVE registry!Next \/ UNCHANGED <<Kept, Spent>>
  <2>1. pc[j] = "setDone" /\ id[j] \in Ids /\ File(j) \in Contents
    BY <1>1, StoringTyped DEF SetDone, Storing
  <2>2. CASE Publish(id[j], req[j].roof, sev[j].cat, File(j), sev[j].place)
    BY <2>1, <2>2, SetDonePublishes DEF registry!Next
  <2>3. CASE UNCHANGED engineVars
    BY <2>3, SameRegistry DEF engineVars
  <2> QED
    BY <1>1, <2>2, <2>3 DEF SetDone
<1>2. ASSUME NEW i \in Ids, Remove(i) PROVE registry!Next
  BY <1>2, RemoveWithdraws DEF registry!Next
<1>3. CASE (\A j \in Jobs : ~SetDone(j)) /\ (\A i \in Ids : ~Remove(i))
  BY <1>3, OtherSteps, SameRegistry
<1> QED
  BY <1>1, <1>2, <1>3

\* Whatever the front, the engine and the configuration, and whatever fails: an id gets
\* the whole of one content at SetDone, keeps it until Delete, and never comes back.
THEOREM Refinement == Spec => ImplementsRegistry
<1>1. Init => registry!Init
  BY DEF Init, EngineInit, registry!Init, Kept, Spent
<1>2. Spec => [](IInv /\ GoneInv)
  BY InitGone, StepGone, InitInv, StepInv, PTL DEF Spec
<1> QED
  BY <1>1, <1>2, RegistryStep, PTL DEF Spec, ImplementsRegistry, registry!Spec

-----------------------------------------------------------------------------
\* A number between the bounds is a valid dimension.
LEMMA ValidDimension ==
    ASSUME NEW d \in Nat, minDimension <= d, d <= maxDimension PROVE isValidDimension(d)
BY SMT DEF isValidDimension, minDimension, maxDimension

\* The two ways a size is read differ on few texts: what the path of a GET accepts
\* and ParseSize refuses has a letter at its end or a number below minDimension,
\* and what ParseSize accepts and a path refuses has a number of five digits or more,
\* or one of a single digit.
THEOREM SizesDiffer ==
    ASSUME NEW s, IsSize(s)
    PROVE  /\ PathAccepts(s) /\ ~ParseSizeAccepts(s) =>
                s.mop \/ s.width.value < minDimension \/ s.height.value < minDimension
           /\ ParseSizeAccepts(s) /\ ~PathAccepts(s) =>
                \E n \in {s.width, s.height} : n.digits \notin 2 .. 4
<1>1. /\ s.width \in Numeral /\ s.height \in Numeral
      /\ s.square => s.height = s.width
  BY DEF IsSize, Size
<1>2. \A n \in Numeral :
        /\ n.digits \in Nat \ {0} /\ n.value \in Nat
        /\ n.digits \in 2 .. 4 => n.value <= maxDimension
  BY SMT DEF Numeral, maxDimension
<1>3. ASSUME PathAccepts(s), ~s.mop, minDimension <= s.width.value, minDimension <= s.height.value
      PROVE  ParseSizeAccepts(s)
  <2>1. s.width.digits \in 2 .. 4 /\ s.height.digits \in 2 .. 4 /\ s.mode \in Modes
    BY <1>3 DEF PathAccepts
  <2>2. s.width.digits # 1 /\ s.width.digits >= 2
    BY <2>1, SMT
  <2>3. ParsedWidth(s) = s.width.value /\ ParsedHeight(s) = s.height.value
    BY <1>3, <2>2 DEF ParsedWidth, ParsedHeight
  <2>4. isValidDimension(s.width.value) /\ isValidDimension(s.height.value)
    <3>1. /\ s.width.value \in Nat /\ s.width.value <= maxDimension
          /\ s.height.value \in Nat /\ s.height.value <= maxDimension
      BY <1>1, <1>2, <2>1
    <3>2. minDimension <= s.width.value /\ minDimension <= s.height.value
      BY <1>3
    <3> QED
      BY <3>1, <3>2, ValidDimension
  <2> QED
    BY <2>1, <2>2, <2>3, <2>4 DEF ParseSizeAccepts
<1>4. ~PathAccepts(s) /\ s.mode \in Modes =>
        \E n \in {s.width, s.height} : n.digits \notin 2 .. 4
  BY DEF PathAccepts
<1>5. /\ minDimension <= s.width.value \/ s.width.value < minDimension
      /\ minDimension <= s.height.value \/ s.height.value < minDimension
  BY <1>1, <1>2, SMT DEF minDimension
<1> QED
  BY <1>3, <1>4, <1>5 DEF ParseSizeAccepts
=============================================================================
