------------------------------- MODULE Engine -------------------------------
(***************************************************************************)
(* The storage engines and what leads back to a blob.  Each roof has an    *)
(* engine and a prefix in the configuration, which changes from one start  *)
(* of the servers to the next.  The file engine writes in place under one  *)
(* local root for all roofs; s3 writes an object whole, in the bucket of   *)
(* the roof.  Put answers with what it needs to be read again (sev), which *)
(* SetDone keeps in the mapping: of that, pullWith uses the category.      *)
(***************************************************************************)
EXTENDS Integers, FiniteSets

CONSTANTS
    Roofs, Ids, Contents,
    Prefixes,   \* the configured prefixes
    Buckets,    \* the buckets of s3
    Configs,    \* the configurations the servers are started with
    None        \* not configured

ConfigType ==
    [engine : [Roofs -> {"file", "s3", "unknown", None}],
     prefix : [Roofs -> Prefixes \cup {None}],
     bucket : [Roofs -> Buckets \cup {None}],
     dft : Buckets \cup {None}]

ASSUME ConfigAssumption ==
    /\ Ids \subseteq Nat
    /\ Configs \subseteq ConfigType
    /\ Prefixes \cap Roofs = {}
    /\ None \notin Prefixes \cup Roofs \cup Buckets \cup {"local"}
    /\ "local" \notin Buckets

VARIABLES
    config,     \* config.Current and the environment of s3
    blobs,      \* the objects of the engines, whole or not
    mapping,    \* mapping_xx, as far as a pull reads it
    gone        \* ghost: ids that were deleted

Places == Buckets \cup {"local"}
Cats == Roofs \cup Prefixes

Blob == [place : Places, cat : Cats, id : Ids, content : Contents, whole : BOOLEAN]

\* place is a ghost: where Put wrote.
Mapped == [id : Ids, roof : Roofs, cat : Cats, content : Contents, place : Places]

engineVars == <<config, blobs, mapping, gone>>

EngineTypeOK ==
    /\ config \in Configs
    /\ blobs \subseteq Blob
    /\ mapping \subseteq Mapped
    /\ gone \subseteq Ids

EngineInit ==
    /\ config \in Configs
    /\ blobs = {} /\ mapping = {} /\ gone = {}

HasSection(roof) == config.engine[roof] # None

\* The bucket of all roofs counts only when no roof has one of its own.
S3Dial(roof) ==
    IF config.bucket[roof] # None THEN config.bucket[roof]
    ELSE IF \A r \in Roofs : config.bucket[r] = None THEN config.dft ELSE None

\* FarmEngine: where the engine of a roof keeps its objects, None when it fails.
Place(roof) ==
    CASE config.engine[roof] = "file" -> "local"
      [] config.engine[roof] = "s3" -> S3Dial(roof)
      [] OTHER -> None

getItemCat(roof) == IF config.prefix[roof] = None THEN roof ELSE config.prefix[roof]

At(place, cat, id) == {b \in blobs : b.place = place /\ b.cat = cat /\ b.id = id}

Written(place, cat, id, content, whole) ==
    (blobs \ At(place, cat, id))
        \cup {[place |-> place, cat |-> cat, id |-> id, content |-> content, whole |-> whole]}

\* Mutant of Pull: the category is the one the roof has now.
PullWithPrefix(m) == At(Place(m.roof), getItemCat(m.roof), m.id)

\* pullWith: the engine the roof has now, the category the blob was put under.
Pull(m) == At(Place(m.roof), m.cat, m.id)

Publish(id, roof, cat, content, place) ==
    /\ mapping' = mapping \cup
         {[id |-> id, roof |-> roof, cat |-> cat, content |-> content, place |-> place]}
    /\ UNCHANGED <<config, blobs, gone>>

\* deleteHandler, Delete: the blob stays.
Delete(id) ==
    /\ mapping' = {m \in mapping : m.id # id}
    /\ gone' = gone \cup {m.id : m \in {n \in mapping : n.id = id}}
    /\ UNCHANGED <<config, blobs>>

-----------------------------------------------------------------------------
\* What a GET of a mapped image pulls is the whole of its own content; it finds
\* nothing only after the roof was given another engine or bucket, whatever
\* prefixes the configurations gave it since (pullWith reads the category of the
\* put back from the mapping, and the engine from the configuration).
PulledIsOwn ==
    \A m \in mapping :
        \/ /\ Pull(m) # {}
           /\ \A b \in Pull(m) : b.whole /\ b.content = m.content
        \/ Pull(m) = {} /\ Place(m.roof) # m.place
=============================================================================
