---------------------------- MODULE LibraryProofs ----------------------------
(***************************************************************************)
(* What a tag call asked for is lost only to a call that undid it, and     *)
(* what a list or an export answers is off by no more than the rows that   *)
(* came and went: for every table, every set of calls and of walks and any *)
(* number of outages.                                                      *)
(***************************************************************************)
EXTENDS Library, FiniteSetTheorems, FunctionTheorems, TLAPS

\* What is lost and what was done before another call is done, and a call is
\* about a row that was there when it began.
CallInv ==
    /\ \A c \in lost : pc[c] = "done"
    /\ \A c \in Calls : \A o \in before[c] : pc[o] = "done"
    /\ \A c \in Calls : pc[c] \in {"read", "broken", "done"} => Target[c] \in born

\* A call that has read the row read what c left there, unless c counts it among
\* the racers or was undone already.
ReadersInv ==
    \A c, o \in Calls :
        /\ pc[c] = "done" /\ c \notin lost /\ o # c
        /\ pc[o] = "read" /\ Target[o] = Target[c] /\ Target[c] \in rows
        => Holds(c, seen[o]) \/ o \in racers[c] \/ Undone(c)

IInv == TableTypeOK /\ CallInv /\ ReadersInv /\ TagLostOnlyToRacer

\* The properties speak of the rows, the tags and the calls, not of the walk.
LEMMA SameCalls ==
    ASSUME IInv, UNCHANGED <<rows, born, tags, pc, seen, lost, before, racers>>, PoolTypeOK'
    PROVE  IInv'
BY DEF IInv, TableTypeOK, CallInv, ReadersInv, TagLostOnlyToRacer, Holds, Undone

LEMMA InitInv == Init => IInv
BY LibraryAssumption, PoolAssumption, SMT
DEF Init, IInv, TableTypeOK, PoolInit, PoolTypeOK, CallInv, ReadersInv, TagLostOnlyToRacer

\* The pool changes in three ways only.
LEMMA PoolInv ==
    ASSUME PoolTypeOK, GoesDown \/ Recover \/ Ping \/ UNCHANGED poolVars
    PROVE  PoolTypeOK'
<1>1. up' \in BOOLEAN
  BY DEF PoolTypeOK, GoesDown, Recover, Ping, poolVars
<1>2. outages' = outages \/ (outages < MaxOutages /\ outages' = outages + 1)
  BY DEF GoesDown, Recover, Ping, poolVars
<1>3. pools' = pools \/ (pools < MaxPools /\ pools' = pools + 1)
  BY DEF GoesDown, Recover, Ping, poolVars
<1>4. outages \in 0 .. MaxOutages /\ pools \in 1 .. MaxPools
  BY DEF PoolTypeOK
<1>5. outages' \in 0 .. MaxOutages /\ pools' \in 1 .. MaxPools
  BY <1>2, <1>3, <1>4, PoolAssumption, SMT
<1> QED
  BY <1>1, <1>5 DEF PoolTypeOK

\* A row that comes is new: no call is about it yet.
LEMMA PublishInv ==
    ASSUME IInv, NEW i \in Ids, Publish(i) PROVE IInv'
<1>1. /\ i \notin born
      /\ rows' = rows \cup {i} /\ born' = born \cup {i}
      /\ tags' = [tags EXCEPT ![i] = Uploaded[i]]
      /\ UNCHANGED <<up, outages, pools, pc, seen, lost, before, racers>>
  BY DEF Publish, poolVars
<1>2. TableTypeOK'
  BY <1>1, LibraryAssumption DEF IInv, TableTypeOK, PoolTypeOK, TagTexts
<1>3. CallInv'
  BY <1>1 DEF IInv, CallInv
<1>4. \A c \in Calls : pc[c] = "done" => Target[c] # i
  BY <1>1 DEF IInv, CallInv
<1>5. ReadersInv'
  BY <1>1, <1>4 DEF IInv, TableTypeOK, ReadersInv, Holds, Undone
<1>6. TagLostOnlyToRacer'
  BY <1>1, <1>4 DEF IInv, TableTypeOK, TagLostOnlyToRacer, Holds, Undone
<1> QED
  BY <1>2, <1>3, <1>5, <1>6 DEF IInv

LEMMA RemoveInv ==
    ASSUME IInv, NEW i \in Ids, Remove(i) PROVE IInv'
<1>1. rows' = rows \ {i} /\ UNCHANGED <<up, outages, pools, born, tags, pc, seen, lost, before, racers>>
  BY DEF Remove, poolVars, tagVars
<1>2. TableTypeOK'
  BY <1>1 DEF IInv, TableTypeOK, PoolTypeOK
<1>3. CallInv' /\ ReadersInv' /\ TagLostOnlyToRacer'
  BY <1>1 DEF IInv, CallInv, ReadersInv, TagLostOnlyToRacer, Holds, Undone
<1> QED
  BY <1>2, <1>3 DEF IInv

\* A call that begins is done at once when there is nothing to do, or has read
\* what the calls done so far left.
LEMMA TagReadInv ==
    ASSUME IInv, NEW o \in Calls, TagRead(o) PROVE IInv'
<1>1. /\ pc[o] = "idle" /\ Target[o] \in born
      /\ UNCHANGED <<up, outages, pools, rows, born, tags, lost>>
  BY DEF TagRead, poolVars
<1>2. pc \in [Calls -> {"idle", "read", "broken", "done", "failed", "panicked"}]
  BY DEF IInv, TableTypeOK
<1>3. CASE pc' = [pc EXCEPT ![o] = "panicked"] /\ UNCHANGED <<seen, before, racers>>
  <2>1. TableTypeOK' /\ CallInv'
    BY <1>1, <1>3 DEF IInv, TableTypeOK, PoolTypeOK, CallInv
  <2>2. ReadersInv' /\ TagLostOnlyToRacer'
    BY <1>1, <1>2, <1>3 DEF IInv, ReadersInv, TagLostOnlyToRacer, Holds, Undone
  <2> QED
    BY <2>1, <2>2 DEF IInv
<1>4. CASE NothingToDo(o) /\ Finish(o) /\ UNCHANGED seen
  <2>1. /\ pc' = [pc EXCEPT ![o] = "done"]
        /\ before' = [before EXCEPT ![o] = {d \in Calls : pc[d] = "done"}]
        /\ racers' = [racers EXCEPT ![o] = Readers(o)]
    BY <1>4 DEF Finish
  <2>2. TableTypeOK'
    BY <1>1, <1>4, <2>1 DEF IInv, TableTypeOK, PoolTypeOK, Readers
  <2>3. CallInv'
    BY <1>1, <2>1 DEF IInv, TableTypeOK, CallInv
  <2>4. \A c \in Calls \ {o} : Undone(c) => Undone(c)'
    BY <1>1, <1>2, <2>1 DEF IInv, TableTypeOK, Undone
  <2>5. Target[o] \in rows => Holds(o, tags[Target[o]])
    BY <1>4, LibraryAssumption DEF NothingToDo, Holds
  <2>6. ReadersInv'
    BY <1>1, <1>2, <1>4, <2>1, <2>4 DEF IInv, TableTypeOK, ReadersInv, Holds, Readers
  <2>7. TagLostOnlyToRacer'
    BY <1>1, <1>2, <2>1, <2>4, <2>5 DEF IInv, TagLostOnlyToRacer, Holds
  <2> QED
    BY <2>2, <2>3, <2>6, <2>7 DEF IInv
<1>5. CASE /\ ~NothingToDo(o)
           /\ pc' = [pc EXCEPT ![o] = "read"]
           /\ seen' = [seen EXCEPT ![o] = tags[Target[o]]]
           /\ UNCHANGED <<before, racers>>
  <2>1. Target[o] \in Ids
    BY LibraryAssumption
  <2>2. TableTypeOK'
    BY <1>1, <1>5, <2>1 DEF IInv, TableTypeOK, PoolTypeOK
  <2>3. CallInv'
    BY <1>1, <1>5 DEF IInv, TableTypeOK, CallInv
  <2>4. \A c \in Calls : Undone(c) => Undone(c)'
    BY <1>1, <1>2, <1>5 DEF Undone
  <2>5. ReadersInv'
    BY <1>1, <1>2, <1>5, <2>4 DEF IInv, TableTypeOK, ReadersInv, TagLostOnlyToRacer, Holds
  <2>6. TagLostOnlyToRacer'
    BY <1>1, <1>2, <1>5, <2>4 DEF IInv, TagLostOnlyToRacer, Holds
  <2> QED
    BY <2>2, <2>3, <2>5, <2>6 DEF IInv
<1> QED
  BY <1>3, <1>4, <1>5 DEF TagRead

\* A call writes back what it read, with what it was asked for: a call done since
\* counts it among its racers, and one for the same tag is done again or undone.
LEMMA TagWriteInv ==
    ASSUME IInv, NEW o \in Calls, TagWrite(o) PROVE IInv'
<1>1. /\ pc[o] = "read"
      /\ pc' = [pc EXCEPT ![o] = "done"]
      /\ before' = [before EXCEPT ![o] = {d \in Calls : pc[d] = "done"}]
      /\ racers' = [racers EXCEPT ![o] = Readers(o)]
      /\ tags' = IF Target[o] \in rows THEN [tags EXCEPT ![Target[o]] = Merged(o)] ELSE tags
      /\ UNCHANGED <<up, outages, pools, rows, born, seen, lost>>
  BY DEF TagWrite, Finish, poolVars
<1>2. /\ pc \in [Calls -> {"idle", "read", "broken", "done", "failed", "panicked"}]
      /\ Target[o] \in Ids
  BY LibraryAssumption DEF IInv, TableTypeOK
<1>3. Merged(o) \in SUBSET TagTexts /\ Holds(o, Merged(o))
  BY <1>1, LibraryAssumption DEF IInv, TableTypeOK, Merged, TagTexts, Holds
<1>4. TableTypeOK'
  BY <1>1, <1>2, <1>3 DEF IInv, TableTypeOK, PoolTypeOK, Readers
<1>5. CallInv'
  BY <1>1 DEF IInv, TableTypeOK, CallInv
<1>6. o \notin lost /\ \A c \in Calls : o \notin before[c]
  BY <1>1 DEF IInv, CallInv
<1>7. \A c \in Calls \ {o} : Undone(c) => Undone(c)'
  BY <1>1, <1>2 DEF IInv, TableTypeOK, Undone
<1>8. \A c \in Calls \ {o} :
        Target[o] = Target[c] /\ (o \in racers[c] \/ Text(o) = Text(c)) => Undone(c)'
  BY <1>1, <1>2, <1>6 DEF IInv, TableTypeOK, Undone
<1>9. ReadersInv'
  BY <1>1, <1>2, <1>7 DEF IInv, TableTypeOK, ReadersInv, Holds, Readers
<1>10. ASSUME NEW c \in Calls, pc'[c] = "done", c \notin lost, Target[c] \in rows
       PROVE  Holds(c, tags'[Target[c]]) \/ Undone(c)'
  <2>1. CASE c = o
    BY <1>1, <1>2, <1>3, <1>10, <2>1 DEF IInv, TableTypeOK
  <2>2. CASE c # o /\ Target[c] # Target[o]
    <3>1. Holds(c, tags[Target[c]]) \/ Undone(c)
      BY <1>1, <1>2, <1>10, <2>2 DEF IInv, TagLostOnlyToRacer
    <3>2. tags'[Target[c]] = tags[Target[c]]
      BY <1>1, <1>2, <2>2, LibraryAssumption DEF IInv, TableTypeOK
    <3> QED
      BY <1>7, <2>2, <3>1, <3>2
  <2>3. CASE c # o /\ Target[c] = Target[o] /\ o \notin racers[c] /\ Text(o) # Text(c)
    <3>1. Holds(c, seen[o]) \/ Undone(c)
      BY <1>1, <1>2, <1>10, <2>3 DEF IInv, ReadersInv
    <3>2. tags'[Target[c]] = Merged(o)
      BY <1>1, <1>2, <1>10, <2>3 DEF IInv, TableTypeOK
    <3>3. Text(c) \in Merged(o) <=> Text(c) \in seen[o]
      BY <2>3 DEF Merged
    <3> QED
      BY <1>7, <2>3, <3>1, <3>2, <3>3 DEF Holds
  <2> QED
    BY <1>8, <2>1, <2>2, <2>3
<1>11. TagLostOnlyToRacer'
  BY <1>1, <1>10 DEF TagLostOnlyToRacer, Holds
<1> QED
  BY <1>4, <1>5, <1>9, <1>11 DEF IInv

LEMMA TagFailsInv ==
    ASSUME IInv, NEW o \in Calls, TagFails(o) PROVE IInv'
<1>1. /\ pc[o] \in {"read", "broken"}
      /\ pc' = [pc EXCEPT ![o] = "failed"]
      /\ UNCHANGED <<up, outages, pools, rows, born, tags, seen, lost, before, racers>>
  BY DEF TagFails, poolVars
<1>2. TableTypeOK' /\ CallInv'
  BY <1>1 DEF IInv, TableTypeOK, PoolTypeOK, CallInv
<1>3. ReadersInv' /\ TagLostOnlyToRacer'
  BY <1>1 DEF IInv, TableTypeOK, ReadersInv, TagLostOnlyToRacer, Holds, Undone
<1> QED
  BY <1>2, <1>3 DEF IInv

\* The database goes away: what had read the row is broken and writes no more.
LEMMA OutageInv ==
    ASSUME IInv, Outage \/ WalkCut PROVE IInv'
<1>1. /\ pc' = Cut /\ GoesDown
      /\ UNCHANGED <<rows, born, tags, seen, lost, before, racers>>
  BY DEF Outage, WalkCut
<1>2. PoolTypeOK'
  BY <1>1, PoolInv DEF IInv, TableTypeOK
<1>3. TableTypeOK' /\ CallInv'
  BY <1>1, <1>2 DEF IInv, TableTypeOK, CallInv, Cut
<1>4. \A c \in Calls : pc'[c] # "read" /\ (pc'[c] = "done" <=> pc[c] = "done")
  BY <1>1 DEF Cut
<1>5. ReadersInv' /\ TagLostOnlyToRacer'
  BY <1>1, <1>4 DEF IInv, ReadersInv, TagLostOnlyToRacer, Holds, Undone
<1> QED
  BY <1>3, <1>5 DEF IInv

LEMMA CommitLostInv ==
    ASSUME IInv, NEW o \in Calls, CommitLost(o) PROVE IInv'
<1>1. /\ pc[o] = "read"
      /\ pc' = [Cut EXCEPT ![o] = "done"]
      /\ before' = [before EXCEPT ![o] = {d \in Calls : pc[d] = "done"}]
      /\ lost' = lost \cup {o}
      /\ UNCHANGED <<rows, born, tags, seen, racers>>
  BY DEF CommitLost
<1>2. PoolTypeOK'
  BY PoolInv DEF CommitLost, IInv, TableTypeOK
<1>3. TableTypeOK'
  BY <1>1, <1>2 DEF IInv, TableTypeOK, Cut
<1>4. \A c \in Calls : pc'[c] # "read" /\ (pc'[c] = "done" <=> pc[c] = "done" \/ c = o)
  BY <1>1 DEF Cut
<1>5. CallInv'
  BY <1>1, <1>4 DEF IInv, TableTypeOK, CallInv, Cut
<1>6. \A c \in Calls \ {o} : Undone(c) => Undone(c)'
  BY <1>1, <1>4 DEF IInv, TableTypeOK, Undone
<1>7. ReadersInv' /\ TagLostOnlyToRacer'
  BY <1>1, <1>4, <1>6 DEF IInv, ReadersInv, TagLostOnlyToRacer, Holds
<1> QED
  BY <1>3, <1>5, <1>7 DEF IInv

\* Every step preserves the invariant.
LEMMA StepInv == IInv /\ [Next]_vars => IInv'
<1> SUFFICES ASSUME IInv, [Next]_vars PROVE IInv'
  OBVIOUS
<1>1. CASE \E i \in Ids : Publish(i) \/ Remove(i)
  BY <1>1, PublishInv, RemoveInv
<1>2. CASE \E c \in Calls : TagStep(c)
  BY <1>2, TagReadInv, TagWriteInv, TagFailsInv, CommitLostInv DEF TagStep
<1>3. CASE Outage \/ WalkCut
  BY <1>3, OutageInv
<1>4. CASE \/ \E w \in Walks : WalkStart(w)
           \/ WalkPage \/ WalkFails \/ DumpFails \/ PoolStep \/ UNCHANGED vars
  <2>1. UNCHANGED <<rows, born, tags, pc, seen, lost, before, racers>>
    BY <1>4 DEF WalkStart, WalkPage, WalkFails, DumpFails, PoolStep, vars, tagVars
  <2>2. UNCHANGED poolVars \/ Recover \/ Ping
    BY <1>4 DEF WalkStart, WalkPage, WalkFails, DumpFails, PoolStep, vars
  <2>3. PoolTypeOK'
    BY <2>2, PoolInv DEF IInv, TableTypeOK
  <2> QED
    BY <2>1, <2>3, SameCalls
<1> QED
  BY <1>1, <1>2, <1>3, <1>4 DEF Next, WalkStep

\* What every call has read and every call that is done left, in every state.
THEOREM Invariance == Spec => []IInv
BY InitInv, StepInv, PTL DEF Spec

\* MapTags and UnmapTags, each a read, a merge and a write back: what an answered
\* call asked for stays until a call that undoes it, or that had read before.
THEOREM TagsAreLostToRacers == Spec => []TagLostOnlyToRacer
<1>1. IInv => TagLostOnlyToRacer
  BY DEF IInv
<1> QED
  BY <1>1, Invariance, PTL

---------------------------------------------------------------------------
(* The walks.  How many rows a query puts ahead of one. *)

\* The rank of a row is the number of rows ahead of it in its query.
Rank(i, view, sort) == Cardinality(Ahead(i, view, sort))

\* A rank is below the number of rows.
LEMMA RankIsBelow ==
    ASSUME NEW view, view \subseteq Nat, IsFiniteSet(view), NEW sort, NEW i \in view
    PROVE  Rank(i, view, sort) \in 0 .. Cardinality(view) - 1
<1> DEFINE A == Ahead(i, view, sort)
           B == view \ {i}
<1>1. IsFiniteSet(B) /\ Cardinality(B) = Cardinality(view) - 1
  BY FS_RemoveElement
<1>2. A \in SUBSET B
  BY DEF Ahead
<1> HIDE DEF A, B
<1>3. IsFiniteSet(A) /\ Cardinality(A) <= Cardinality(B)
  BY <1>1, <1>2, FS_Subset
<1>4. Cardinality(A) \in Nat /\ Cardinality(view) \in Nat
  BY <1>3, FS_CardinalityType
<1>5. Rank(i, view, sort) = Cardinality(A)
  BY DEF Rank, A
<1> QED
  BY <1>1, <1>3, <1>4, <1>5, SMT

\* The row that is ahead of another has the lower rank.
LEMMA RanksDiffer ==
    ASSUME NEW view, view \subseteq Nat, IsFiniteSet(view), NEW sort,
           NEW i \in view, NEW j \in Ahead(i, view, sort)
    PROVE  Rank(j, view, sort) < Rank(i, view, sort)
<1> DEFINE A == Ahead(i, view, sort)
           B == A \ {j}
           C == Ahead(j, view, sort)
<1>1. A \in SUBSET view /\ C \in SUBSET B
  <2>1. i \in Nat /\ j \in Nat /\ j \in view
    BY DEF Ahead
  <2>2. ASSUME NEW k \in C PROVE k \in A /\ k # j
    <3>1. k \in Nat /\ k \in view
      BY DEF Ahead
    <3>2. CASE sort = "asc"
      BY <2>1, <3>1, <3>2, SMT DEF Ahead
    <3>3. CASE sort # "asc"
      BY <2>1, <3>1, <3>3, SMT DEF Ahead
    <3> QED
      BY <3>2, <3>3
  <2>3. A \subseteq view
    BY DEF Ahead
  <2> QED
    BY <2>2, <2>3
<1>2. IsFiniteSet(A) /\ Cardinality(A) \in Nat
  BY <1>1, FS_Subset, FS_CardinalityType
<1>3. IsFiniteSet(B) /\ Cardinality(B) = Cardinality(A) - 1
  BY <1>2, FS_RemoveElement
<1>4. /\ Rank(j, view, sort) = Cardinality(C)
      /\ Rank(i, view, sort) = Cardinality(A)
  BY DEF Rank
<1> HIDE DEF A, B, C
<1>5. Cardinality(C) \in Nat /\ Cardinality(C) <= Cardinality(B)
  BY <1>1, <1>3, FS_Subset, FS_CardinalityType
<1> QED
  BY <1>2, <1>3, <1>4, <1>5, SMT

\* No two rows have the same rank.
LEMMA RankIsInjective ==
    ASSUME NEW view, view \subseteq Nat, IsFiniteSet(view), NEW sort,
           NEW i \in view, NEW j \in view, Rank(i, view, sort) = Rank(j, view, sort)
    PROVE  i = j
<1>1. /\ Rank(i, view, sort) \in 0 .. Cardinality(view) - 1
      /\ Cardinality(view) \in Nat
  BY RankIsBelow, FS_CardinalityType
<1>2. i # j => i \in Ahead(j, view, sort) \/ j \in Ahead(i, view, sort)
  BY SMT DEF Ahead
<1>3. ~(Rank(i, view, sort) < Rank(j, view, sort)) /\ ~(Rank(j, view, sort) < Rank(i, view, sort))
  BY <1>1, SMT
<1> QED
  BY <1>2, <1>3, RanksDiffer

\* Every rank below the number of rows is the rank of a row.
LEMMA RanksAreFilled ==
    ASSUME NEW view, view \subseteq Nat, IsFiniteSet(view), NEW sort,
           NEW k \in 0 .. Cardinality(view) - 1
    PROVE  \E i \in view : Rank(i, view, sort) = k
<1> DEFINE f == [i \in view |-> Rank(i, view, sort)]
           T == 0 .. Cardinality(view) - 1
<1>1. Cardinality(view) \in Nat
  BY FS_CardinalityType
<1>2. IsFiniteSet(T) /\ Cardinality(T) = Cardinality(view)
  BY <1>1, FS_Interval, SMT
<1>3. f \in [view -> T]
  BY RankIsBelow
<1>4. \A i, j \in view : f[i] = f[j] => i = j
  BY RankIsInjective
<1> HIDE DEF T
<1>5. f \in Injection(view, T)
  BY <1>3, <1>4, Fun_IsInj
<1>6. f \in Surjection(view, T)
  <2> HIDE DEF f
  <2> QED BY <1>2, <1>5, FS_Injection
<1>7. k \in T
  BY DEF T
<1> QED
  BY <1>6, <1>7 DEF Surjection

\* The rows whose ranks are in an interval.
Slice(view, sort, a, b) == {i \in view : Rank(i, view, sort) \in a .. b}

\* Ranks a to b are those of at most b - a + 1 rows.
LEMMA SliceBound ==
    ASSUME NEW view, view \subseteq Nat, IsFiniteSet(view), NEW sort,
           NEW a \in Int, NEW n \in Nat
    PROVE  Cardinality(Slice(view, sort, a, a + n - 1)) <= n
<1> DEFINE S == Slice(view, sort, a, a + n - 1)
           T == a .. (a + n - 1)
           f == [i \in S |-> Rank(i, view, sort)]
<1>1. IsFiniteSet(T) /\ Cardinality(T) = n
  BY FS_Interval, SMT
<1>2. f \in [S -> T] /\ \A i, j \in S : f[i] = f[j] => i = j
  BY RankIsInjective DEF Slice
<1> HIDE DEF S, T, f
<1>3. f \in Injection(S, T)
  BY <1>2, Fun_IsInj
<1>4. Cardinality(S) <= Cardinality(T)
  BY <1>1, <1>3, FS_Injection
<1> QED
  BY <1>1, <1>4 DEF S

\* A page: size rows from rank a on, or what there is of them.
LEMMA SliceSize ==
    ASSUME NEW view, view \subseteq Nat, IsFiniteSet(view), NEW sort,
           NEW a \in Nat, NEW size \in Nat
    PROVE  Cardinality(Slice(view, sort, a, a + size - 1))
             = Least(size, Most(Cardinality(view) - a, 0))
<1> DEFINE n == Cardinality(view)
           m == Least(size, Most(n - a, 0))
           S == Slice(view, sort, a, a + size - 1)
           T == a .. (a + m - 1)
           f == [i \in S |-> Rank(i, view, sort)]
<1>1. n \in Nat
  BY FS_CardinalityType
<1> HIDE DEF n
<1>2. m \in Nat /\ (m = 0 => n - a <= 0 \/ size = 0) /\ m <= size /\ (m > 0 => a + m <= n)
      /\ (m = size \/ a + m >= n)
  BY <1>1, SMT DEF Least, Most
<1> HIDE DEF m
<1>3. IsFiniteSet(T) /\ Cardinality(T) = m
  <2> DEFINE b == a + m - 1
  <2>1. b \in Int /\ (a > b <=> m = 0) /\ b - a + 1 = m
    BY <1>2, SMT
  <2> HIDE DEF b
  <2>2. IsFiniteSet(a .. b) /\ Cardinality(a .. b) = m
    BY <1>2, <2>1, FS_Interval
  <2> QED
    BY <2>2 DEF b
<1>4. \A k \in Int : k \in T <=> k \in 0 .. n - 1 /\ k \in a .. (a + size - 1)
  BY <1>1, <1>2, SMT
<1>5. \A i \in S : i \in view /\ Rank(i, view, sort) \in T
  <2>1. ASSUME NEW i \in S PROVE i \in view /\ Rank(i, view, sort) \in T
    <3>1. i \in view /\ Rank(i, view, sort) \in a .. (a + size - 1)
      BY DEF Slice
    <3>2. Rank(i, view, sort) \in 0 .. n - 1
      BY <3>1, RankIsBelow DEF n
    <3>3. Rank(i, view, sort) \in Int
      BY <3>2, SMT
    <3> HIDE DEF T
    <3> QED
      BY <1>4, <3>1, <3>2, <3>3
  <2> QED
    BY <2>1
<1>6. f \in [S -> T] /\ \A i, j \in S : f[i] = f[j] => i = j
  BY <1>5, RankIsInjective
<1>7. ASSUME NEW k \in T PROVE \E i \in S : f[i] = k
  <2>1. k \in 0 .. n - 1 /\ k \in a .. (a + size - 1)
    BY <1>4
  <2>2. PICK i \in view : Rank(i, view, sort) = k
    BY <2>1, RanksAreFilled DEF n
  <2> QED
    BY <2>1, <2>2 DEF Slice
<1> HIDE DEF T, f, S
<1>8. f \in Bijection(S, T)
  BY <1>6, <1>7, Fun_IsBij
<1>9. S \in SUBSET view /\ IsFiniteSet(S)
  BY FS_Subset DEF S, Slice
<1>10. Cardinality(S) = Cardinality(T)
  BY <1>8, <1>9, FS_Bijection DEF ExistsBijection
<1> QED
  BY <1>3, <1>10 DEF S, m, n

\* The rows LIMIT and OFFSET leave of a view of n rows.
PageRows(n, limit, offset) == Least(Most(limit, 1), Most(n - Most(offset, 0), 0))

\* A page of any query has as many rows as LIMIT and OFFSET leave of the view.
LEMMA PageSize ==
    ASSUME NEW view \in SUBSET Nat, IsFiniteSet(view), NEW sort \in {"asc", "desc", "none"},
           NEW limit \in Int, NEW offset \in Int,
           NEW page \in Pages(view, sort, limit, offset)
    PROVE  /\ page \subseteq view
           /\ Cardinality(page) = PageRows(Cardinality(view), limit, offset)
<1> DEFINE start == Most(offset, 0)
           size == Most(limit, 1)
<1>1. start \in Nat /\ size \in Nat
  BY SMT DEF Most
<1>2. CASE sort = "none"
  BY <1>2 DEF Pages, PageRows
<1>3. CASE sort # "none"
  <2>1. page = Slice(view, sort, start, start + size - 1)
    BY <1>3 DEF Pages, Slice, Rank
  <2> HIDE DEF start, size
  <2>2. Cardinality(page) = Least(size, Most(Cardinality(view) - start, 0))
    BY <1>1, <2>1, SliceSize
  <2> QED
    BY <2>1, <2>2 DEF Slice, PageRows, start, size
<1> QED
  BY <1>2, <1>3

\* How far apart two views are, and their sizes.
LEMMA ViewsDiffer ==
    ASSUME NEW S, NEW T, IsFiniteSet(S), IsFiniteSet(T)
    PROVE  /\ Cardinality(S) \in Nat /\ Cardinality(T) \in Nat
           /\ Cardinality(S \ T) \in Nat /\ Cardinality(T \ S) \in Nat
           /\ Cardinality((S \ T) \cup (T \ S)) = Cardinality(S \ T) + Cardinality(T \ S)
           /\ Cardinality(T) = Cardinality(S) - Cardinality(S \ T) + Cardinality(T \ S)
<1>1. /\ IsFiniteSet(S \ T) /\ IsFiniteSet(T \ S) /\ IsFiniteSet(S \cap T)
      /\ Cardinality(S \ T) = Cardinality(S) - Cardinality(S \cap T)
      /\ Cardinality(T \ S) = Cardinality(T) - Cardinality(T \cap S)
  BY FS_Difference, FS_Intersection
<1>2. /\ Cardinality(S) \in Nat /\ Cardinality(T) \in Nat /\ Cardinality(S \cap T) \in Nat
      /\ Cardinality(S \ T) \in Nat /\ Cardinality(T \ S) \in Nat
  BY <1>1, FS_CardinalityType
<1>3. S \cap T = T \cap S /\ (S \ T) \cap (T \ S) = {}
  OBVIOUS
<1>4. Cardinality((S \ T) \cup (T \ S)) = Cardinality(S \ T) + Cardinality(T \ S)
  <2>1. Cardinality((S \ T) \cup (T \ S)) =
          Cardinality(S \ T) + Cardinality(T \ S) - Cardinality((S \ T) \cap (T \ S))
    BY <1>1, FS_Union
  <2>2. Cardinality((S \ T) \cap (T \ S)) = 0
    BY <1>3, FS_EmptySet
  <2> QED
    BY <1>2, <2>1, <2>2, SMT
<1>5. Cardinality(T \cap S) = Cardinality(S \cap T)
  BY <1>3
<1> QED
  BY <1>1, <1>2, <1>4, <1>5, SMT

\* One row more.
LEMMA OneMore ==
    ASSUME NEW S, IsFiniteSet(S), NEW y, NEW T, T \subseteq S \cup {y}
    PROVE  /\ IsFiniteSet(T)
           /\ Cardinality(T) \in Nat /\ Cardinality(S) \in Nat
           /\ Cardinality(T) <= Cardinality(S) + 1
<1>1. IsFiniteSet(S \cup {y}) /\ Cardinality(S) \in Nat
      /\ Cardinality(S \cup {y}) = IF y \in S THEN Cardinality(S) ELSE Cardinality(S) + 1
  BY FS_AddElement, FS_CardinalityType
<1>2. T \in SUBSET (S \cup {y})
  OBVIOUS
<1>3. IsFiniteSet(T) /\ Cardinality(T) <= Cardinality(S \cup {y})
  BY <1>1, <1>2, FS_Subset
<1>4. Cardinality(T) \in Nat
  BY <1>3, FS_CardinalityType
<1> QED
  BY <1>1, <1>3, <1>4, SMT

\* A row that comes moves the rows behind it by one.
LEMMA RankWith ==
    ASSUME NEW view, view \subseteq Nat, IsFiniteSet(view), NEW x \in Nat \ view,
           NEW sort, NEW i \in view
    PROVE  /\ Rank(i, view, sort) \in Nat /\ Rank(i, view \cup {x}, sort) \in Nat
           /\ Rank(i, view, sort) <= Rank(i, view \cup {x}, sort)
           /\ Rank(i, view \cup {x}, sort) <= Rank(i, view, sort) + 1
           /\ x \notin Ahead(i, view \cup {x}, sort) =>
                Rank(i, view \cup {x}, sort) = Rank(i, view, sort)
<1> DEFINE A == Ahead(i, view, sort)
           B == Ahead(i, view \cup {x}, sort)
<1>1. x \notin A /\ A \in SUBSET view /\ B = IF x \in B THEN A \cup {x} ELSE A
  BY DEF Ahead
<1>2. Rank(i, view, sort) = Cardinality(A) /\ Rank(i, view \cup {x}, sort) = Cardinality(B)
  BY DEF Rank
<1> HIDE DEF A, B
<1>3. IsFiniteSet(A) /\ Cardinality(A) \in Nat
  BY <1>1, FS_Subset, FS_CardinalityType
<1>4. Cardinality(A \cup {x}) = Cardinality(A) + 1
  BY <1>1, <1>3, FS_AddElement
<1>5. Cardinality(B) = IF x \in B THEN Cardinality(A) + 1 ELSE Cardinality(A)
  BY <1>1, <1>4
<1>6. /\ Cardinality(B) \in Nat /\ Cardinality(A) <= Cardinality(B)
      /\ Cardinality(B) <= Cardinality(A) + 1
      /\ x \notin B => Cardinality(B) = Cardinality(A)
  BY <1>3, <1>5, SMT
<1> QED
  BY <1>2, <1>3, <1>6 DEF B

\* The row of a given rank.
RowAt(k, view, sort) == CHOOSE i \in view : Rank(i, view, sort) = k

LEMMA RowAtRank ==
    ASSUME NEW view, view \subseteq Nat, IsFiniteSet(view), NEW sort, NEW i \in view
    PROVE  RowAt(Rank(i, view, sort), view, sort) = i
<1> DEFINE j == RowAt(Rank(i, view, sort), view, sort)
<1>1. j \in view /\ Rank(j, view, sort) = Rank(i, view, sort)
  BY DEF RowAt
<1> HIDE DEF j
<1>2. j = i
  BY <1>1, RankIsInjective
<1> QED
  BY <1>2 DEF j

\* What a walk was to list, has passed and has not listed.
Missed(kept, found, view, sort, pos) == {i \in kept \ found : Rank(i, view, sort) < pos}

\* What it has listed or will list and was not to list.
Extra(kept, found, view, sort, pos) ==
    (found \ kept) \cup {i \in view \ (kept \cup found) : Rank(i, view, sort) >= pos}

\* A row that comes pushes rows back: none is passed that was not, and one at
\* most is in front of the walk that was not.
LEMMA RowComes ==
    ASSUME NEW view, view \subseteq Nat, IsFiniteSet(view), NEW x \in Nat \ view,
           NEW sort, NEW pos \in Int, NEW kept, kept \subseteq view, NEW found
    PROVE  /\ Missed(kept, found, view \cup {x}, sort, pos)
                \subseteq Missed(kept, found, view, sort, pos)
           /\ \E y : Extra(kept, found, view \cup {x}, sort, pos)
                       \subseteq Extra(kept, found, view, sort, pos) \cup {y}
<1> DEFINE next == view \cup {x}
<1>1. ASSUME NEW i \in view
      PROVE  /\ Rank(i, view, sort) \in Nat /\ Rank(i, next, sort) \in Nat
             /\ Rank(i, view, sort) <= Rank(i, next, sort)
             /\ Rank(i, next, sort) <= Rank(i, view, sort) + 1
             /\ x \notin Ahead(i, next, sort) => Rank(i, next, sort) = Rank(i, view, sort)
  BY RankWith
<1>2. next \subseteq Nat /\ IsFiniteSet(next) /\ x \in next /\ view \subseteq next
  BY FS_AddElement
<1> HIDE DEF next
<1>3. Missed(kept, found, next, sort, pos) \subseteq Missed(kept, found, view, sort, pos)
  <2>1. ASSUME NEW i \in view, Rank(i, next, sort) < pos PROVE Rank(i, view, sort) < pos
    BY <1>1, <2>1, SMT
  <2> QED
    BY <2>1 DEF Missed
<1>4. CASE Rank(x, next, sort) >= pos
  <2>1. ASSUME NEW i \in view, Rank(i, next, sort) >= pos
        PROVE  Rank(i, view, sort) >= pos
    <3>1. CASE x \in Ahead(i, next, sort)
      <4>1. Rank(x, next, sort) < Rank(i, next, sort)
        BY <1>2, <3>1, RanksDiffer
      <4>2. Cardinality(next) \in Nat /\ Rank(x, next, sort) \in 0 .. Cardinality(next) - 1
        BY <1>2, RankIsBelow, FS_CardinalityType
      <4> QED
        BY <1>1, <1>4, <4>1, <4>2, SMT
    <3>2. CASE x \notin Ahead(i, next, sort)
      BY <1>1, <2>1, <3>2
    <3> QED
      BY <3>1, <3>2
  <2>2. Extra(kept, found, next, sort, pos) \subseteq Extra(kept, found, view, sort, pos) \cup {x}
    BY <2>1 DEF Extra, next
  <2> QED
    BY <1>3, <2>2 DEF next
<1>5. CASE ~(Rank(x, next, sort) >= pos)
  <2> DEFINE y == RowAt(pos - 1, view, sort)
  <2>1. \A i \in view : Rank(i, view, sort) = pos - 1 => i = y
    BY RowAtRank
  <2> HIDE DEF y
  <2>2. ASSUME NEW i \in view, Rank(i, next, sort) >= pos, i # y
        PROVE  Rank(i, view, sort) >= pos
    <3>1. Rank(i, view, sort) # pos - 1
      BY <2>1, <2>2
    <3> QED
      BY <1>1, <2>2, <3>1, SMT
  <2>3. Extra(kept, found, next, sort, pos) \subseteq Extra(kept, found, view, sort, pos) \cup {y}
    BY <1>5, <2>2 DEF Extra, next
  <2> QED
    BY <1>3, <2>3 DEF next
<1> QED
  BY <1>4, <1>5

\* A row that goes pulls rows forward: one at most is passed that was not.
LEMMA RowGoes ==
    ASSUME NEW view, view \subseteq Nat, IsFiniteSet(view), NEW x \in view,
           NEW sort, NEW pos \in Int, NEW kept, kept \subseteq view, NEW found
    PROVE  /\ \E y : Missed(kept \ {x}, found, view \ {x}, sort, pos)
                       \subseteq Missed(kept, found, view, sort, pos) \cup {y}
           /\ Extra(kept \ {x}, found, view \ {x}, sort, pos)
                \subseteq Extra(kept, found, view, sort, pos) \cup {x}
<1> DEFINE next == view \ {x}
<1>1. /\ next \subseteq Nat /\ IsFiniteSet(next) /\ x \in Nat \ next /\ next \cup {x} = view
  BY FS_RemoveElement
<1> HIDE DEF next
<1>2. ASSUME NEW i \in next
      PROVE  /\ Rank(i, next, sort) \in Nat /\ Rank(i, view, sort) \in Nat
             /\ Rank(i, next, sort) <= Rank(i, view, sort)
             /\ Rank(i, view, sort) <= Rank(i, next, sort) + 1
  <2>1. view = next \cup {x}
    BY <1>1
  <2> QED
    BY <1>1, <2>1, RankWith
<1> DEFINE y == RowAt(pos, view, sort)
<1>3. \A i \in view : Rank(i, view, sort) = pos => i = y
  BY RowAtRank
<1> HIDE DEF y
<1>4. ASSUME NEW i \in next, Rank(i, next, sort) < pos, i # y
      PROVE  Rank(i, view, sort) < pos
  <2>1. Rank(i, view, sort) # pos
    BY <1>1, <1>3, <1>4
  <2> QED
    BY <1>2, <1>4, <2>1, SMT
<1>5. Missed(kept \ {x}, found, next, sort, pos) \subseteq Missed(kept, found, view, sort, pos) \cup {y}
  BY <1>4 DEF Missed, next
<1>6. ASSUME NEW i \in next, Rank(i, next, sort) >= pos
      PROVE  Rank(i, view, sort) >= pos
  BY <1>2, <1>6, SMT
<1>7. Extra(kept \ {x}, found, next, sort, pos) \subseteq Extra(kept, found, view, sort, pos) \cup {x}
  BY <1>6 DEF Extra, next
<1> QED
  BY <1>5, <1>7 DEF next

\* The rows that are passed with a page were passed before or are in the page, and
\* the page is of rows that were not passed.
LEMMA PageRanks ==
    ASSUME NEW view, view \subseteq Nat, IsFiniteSet(view), NEW sort, sort # "none",
           NEW limit \in Int, NEW pos \in Int, NEW page \in Pages(view, sort, limit, pos)
    PROVE  /\ \A i \in view : Rank(i, view, sort) < pos + limit =>
                i \in page \/ Rank(i, view, sort) < pos
           /\ \A i \in page : i \in view /\ Rank(i, view, sort) >= pos
           /\ limit > 0 =>
                \A i \in view : Rank(i, view, sort) >= pos + limit => Rank(i, view, sort) >= pos
<1> DEFINE a == Most(pos, 0)
           z == Most(pos, 0) + Most(limit, 1) - 1
<1>1. page = Slice(view, sort, a, z)
  BY DEF Pages, Slice, Rank
<1>2. /\ a \in Int /\ z \in Int /\ pos <= a
      /\ \A r \in Nat : ~(r \in a .. z) /\ r < pos + limit => r < pos
  BY SMT DEF Most
<1> HIDE DEF a, z
<1>3. ASSUME NEW i \in view PROVE Rank(i, view, sort) \in Nat
  <2>1. Cardinality(view) \in Nat /\ Rank(i, view, sort) \in 0 .. Cardinality(view) - 1
    BY RankIsBelow, FS_CardinalityType
  <2> QED
    BY <2>1, SMT
<1>4. ASSUME NEW i \in view, i \notin page, Rank(i, view, sort) < pos + limit
      PROVE  Rank(i, view, sort) < pos
  <2>1. ~(Rank(i, view, sort) \in a .. z)
    BY <1>1, <1>4 DEF Slice
  <2> QED
    BY <1>2, <1>3, <1>4, <2>1
<1>5. ASSUME NEW i \in page PROVE i \in view /\ Rank(i, view, sort) >= pos
  <2>1. i \in view /\ Rank(i, view, sort) \in a .. z
    BY <1>1 DEF Slice
  <2> QED
    BY <1>2, <2>1, SMT
<1>6. ASSUME limit > 0, NEW i \in view, Rank(i, view, sort) >= pos + limit
      PROVE  Rank(i, view, sort) >= pos
  BY <1>3, <1>6, SMT
<1> QED
  BY <1>4, <1>5, <1>6

\* At the end of the rows a walk has missed what it passed, and what is behind its end.
LEMMA MissedAtEnd ==
    ASSUME NEW view, view \subseteq Nat, IsFiniteSet(view), NEW sort,
           NEW pos \in Int, NEW kept, kept \subseteq view, NEW found
    PROVE  /\ Cardinality(kept \ found) \in Nat
           /\ Cardinality(Missed(kept, found, view, sort, pos)) \in Nat
           /\ Cardinality(kept \ found) <=
                Cardinality(Missed(kept, found, view, sort, pos))
                  + Most(Cardinality(view) - pos, 0)
<1> DEFINE n == Most(Cardinality(view) - pos, 0)
           M == Missed(kept, found, view, sort, pos)
           S == Slice(view, sort, pos, pos + n - 1)
           K == kept \ found
<1>1. Cardinality(view) \in Nat /\ n \in Nat /\ Cardinality(view) <= pos + n
  BY FS_CardinalityType, SMT DEF Most
<1>2. M \in SUBSET view /\ S \in SUBSET view /\ K \in SUBSET view
  BY DEF Missed, Slice
<1>3. \A i \in view : Rank(i, view, sort) \in 0 .. Cardinality(view) - 1
  BY RankIsBelow
<1>4. ASSUME NEW i \in K PROVE i \in M \cup S
  <2>1. i \in view /\ Rank(i, view, sort) \in Int /\ Rank(i, view, sort) < Cardinality(view)
    BY <1>1, <1>3, SMT
  <2> HIDE DEF n
  <2>2. Rank(i, view, sort) < pos \/ Rank(i, view, sort) \in pos .. (pos + n - 1)
    BY <1>1, <2>1, SMT
  <2> QED
    BY <2>1, <2>2 DEF Missed, Slice
<1> HIDE DEF n
<1>5. Cardinality(S) <= n
  BY <1>1, SliceBound
<1> HIDE DEF M, S, K
<1>6. IsFiniteSet(M) /\ IsFiniteSet(S) /\ IsFiniteSet(K)
  BY <1>2, FS_Subset
<1>7. IsFiniteSet(M \cup S) /\ IsFiniteSet(M \cap S)
      /\ Cardinality(M \cup S) = Cardinality(M) + Cardinality(S) - Cardinality(M \cap S)
  BY <1>6, FS_Union, FS_Intersection
<1>8. K \in SUBSET (M \cup S)
  BY <1>4
<1>9. Cardinality(K) <= Cardinality(M \cup S)
  BY <1>7, <1>8, FS_Subset
<1>10. /\ Cardinality(K) \in Nat /\ Cardinality(M) \in Nat /\ Cardinality(S) \in Nat
       /\ Cardinality(M \cap S) \in Nat /\ Cardinality(M \cup S) \in Nat
  BY <1>6, <1>7, FS_CardinalityType
<1>11. Cardinality(K) <= Cardinality(M) + n
  BY <1>1, <1>5, <1>7, <1>9, <1>10, SMT
<1> QED
  BY <1>10, <1>11 DEF K, M, n

\* What holds of a walk that pages through a view: how far the view has grown is
\* known from its changes, and so is how much was passed or will be listed in vain.
Paging(w, view) ==
    /\ w.kept \subseteq view
    /\ Cardinality(view) - w.total \in -w.changes .. w.changes
    /\ w.kind = "browse" => w.found = {} /\ w.pos = w.skip
    /\ w.kind = "export" =>
         /\ w.sort # "none"
         /\ 2 * Cardinality(Missed(w.kept, w.found, view, w.sort, w.pos))
              <= w.changes - (Cardinality(view) - w.total) + 2 * w.cut
         /\ w.limit <= 0 => w.pos < w.total
         /\ w.limit > 0 =>
              Cardinality(Extra(w.kept, w.found, view, w.sort, w.pos)) <= w.changes

\* What a walk that ended answers for.
Answered(w) ==
    /\ w.kind = "export" => /\ Cardinality(w.kept \ w.found) <= w.changes + w.cut
                            /\ Cardinality(w.found \ w.kept) <= w.changes
    /\ w.kind = "browse" =>
         Cardinality(w.found) - PageRows(w.total, w.limit, w.skip)
            \in -(w.changes + w.cut) .. w.changes

\* The fields of a walk.
LEMMA WalkFields ==
    ASSUME NEW w \in WalkRecord
    PROVE  /\ w.pc \in {"paging", "ended", "failed"} /\ w.kind \in {"browse", "export"}
           /\ w.limit \in Int /\ w.skip \in Int /\ w.sort \in {"asc", "desc", "none"}
           /\ w.filter \in SUBSET Tags /\ w.total \in Nat /\ w.pos \in Int
           /\ w.found \in SUBSET Ids /\ w.changes \in Nat /\ w.kept \in SUBSET Ids
           /\ w.cut \in Nat
BY DEF WalkRecord

\* What a walk watches is finite.
LEMMA WatchedIsFinite ==
    ASSUME NEW view, IsFiniteSet(view), NEW kept, kept \subseteq view,
           NEW found, IsFiniteSet(found), NEW sort, NEW pos
    PROVE  /\ IsFiniteSet(Missed(kept, found, view, sort, pos))
           /\ IsFiniteSet(Extra(kept, found, view, sort, pos))
           /\ Cardinality(Missed(kept, found, view, sort, pos)) \in Nat
           /\ Cardinality(Extra(kept, found, view, sort, pos)) \in Nat
<1>1. /\ Missed(kept, found, view, sort, pos) \in SUBSET view
      /\ Extra(kept, found, view, sort, pos) \in SUBSET (found \cup view)
  BY DEF Missed, Extra
<1>2. IsFiniteSet(found \cup view)
  BY FS_Union
<1> QED
  BY <1>1, <1>2, FS_Subset, FS_CardinalityType

\* Another row comes to the view of a walk.
LEMMA ViewGrows ==
    ASSUME NEW w \in WalkRecord, NEW view, view \subseteq Nat, IsFiniteSet(view),
           IsFiniteSet(w.found), NEW x \in Nat \ view, Paging(w, view),
           NEW v \in WalkRecord, v = [w EXCEPT !.changes = w.changes + 1]
    PROVE  Paging(v, view \cup {x})
<1> DEFINE next == view \cup {x}
           d == Cardinality(view) - w.total
           M == Missed(w.kept, w.found, view, w.sort, w.pos)
           N == Missed(w.kept, w.found, next, w.sort, w.pos)
           E == Extra(w.kept, w.found, view, w.sort, w.pos)
           F == Extra(w.kept, w.found, next, w.sort, w.pos)
<1>1. /\ v.kept = w.kept /\ v.found = w.found /\ v.kind = w.kind /\ v.pos = w.pos
      /\ v.skip = w.skip /\ v.sort = w.sort /\ v.limit = w.limit /\ v.total = w.total
      /\ v.changes = w.changes + 1 /\ v.cut = w.cut
  BY DEF WalkRecord
<1>2. /\ w.total \in Nat /\ w.pos \in Int /\ w.changes \in Nat /\ w.kept \subseteq view
  BY WalkFields DEF Paging
<1>3. /\ IsFiniteSet(next) /\ Cardinality(next) = Cardinality(view) + 1
      /\ Cardinality(view) \in Nat
  BY FS_AddElement, FS_CardinalityType
<1>4. N \subseteq M /\ \E y : F \subseteq E \cup {y}
  BY <1>2, RowComes
<1>5. /\ IsFiniteSet(M) /\ IsFiniteSet(E) /\ Cardinality(M) \in Nat
      /\ Cardinality(N) \in Nat /\ Cardinality(E) \in Nat /\ Cardinality(F) \in Nat
  BY <1>2, <1>3, WatchedIsFinite
<1> HIDE DEF M, N, E, F
<1>6. Cardinality(N) <= Cardinality(M)
  BY <1>4, <1>5, FS_Subset
<1>7. Cardinality(F) <= Cardinality(E) + 1
  BY <1>4, <1>5, OneMore
<1>8. Cardinality(next) - v.total \in -v.changes .. v.changes
  <2>1. d \in -w.changes .. w.changes /\ d \in Int /\ Cardinality(next) - v.total = d + 1
    BY <1>1, <1>2, <1>3, SMT DEF Paging
  <2> HIDE DEF d, next
  <2>2. d + 1 \in -(w.changes + 1) .. (w.changes + 1)
    BY <1>2, <2>1, SMT
  <2> QED
    BY <1>1, <2>1, <2>2
<1>9. ASSUME w.kind = "export"
      PROVE  /\ w.sort # "none"
             /\ 2 * Cardinality(N) <= (w.changes + 1) - (Cardinality(next) - w.total) + 2 * w.cut
             /\ w.limit <= 0 => w.pos < w.total
             /\ w.limit > 0 => Cardinality(F) <= w.changes + 1
  <2>1. /\ w.sort # "none"
        /\ 2 * Cardinality(M) <= w.changes - (Cardinality(view) - w.total) + 2 * w.cut
        /\ w.limit <= 0 => w.pos < w.total
        /\ w.limit > 0 => Cardinality(E) <= w.changes
        /\ w.cut \in Nat
    BY <1>9, WalkFields DEF Paging, M, E
  <2> QED
    BY <1>2, <1>3, <1>5, <1>6, <1>7, <2>1, SMT
<1> QED
  BY <1>1, <1>2, <1>8, <1>9 DEF Paging, N, F

\* A row of the view of a walk goes.
LEMMA ViewShrinks ==
    ASSUME NEW w \in WalkRecord, NEW view, view \subseteq Nat, IsFiniteSet(view),
           IsFiniteSet(w.found), NEW x \in view, Paging(w, view), NEW v \in WalkRecord,
           v = [w EXCEPT !.kept = w.kept \ {x}, !.changes = w.changes + 1]
    PROVE  Paging(v, view \ {x})
<1> DEFINE next == view \ {x}
           kept == w.kept \ {x}
           d == Cardinality(view) - w.total
           M == Missed(w.kept, w.found, view, w.sort, w.pos)
           N == Missed(kept, w.found, next, w.sort, w.pos)
           E == Extra(w.kept, w.found, view, w.sort, w.pos)
           F == Extra(kept, w.found, next, w.sort, w.pos)
<1>1. /\ v.kept = kept /\ v.found = w.found /\ v.kind = w.kind /\ v.pos = w.pos
      /\ v.skip = w.skip /\ v.sort = w.sort /\ v.limit = w.limit /\ v.total = w.total
      /\ v.changes = w.changes + 1 /\ v.cut = w.cut
  BY DEF WalkRecord
<1>2. /\ w.total \in Nat /\ w.pos \in Int /\ w.changes \in Nat /\ w.kept \subseteq view
      /\ kept \subseteq next
  BY WalkFields DEF Paging
<1>3. /\ IsFiniteSet(next) /\ Cardinality(next) = Cardinality(view) - 1
      /\ Cardinality(view) \in Nat
  BY FS_RemoveElement, FS_CardinalityType
<1>4. (\E y : N \subseteq M \cup {y}) /\ F \subseteq E \cup {x}
  BY <1>2, RowGoes
<1>5. /\ IsFiniteSet(M) /\ IsFiniteSet(E) /\ Cardinality(M) \in Nat
      /\ Cardinality(N) \in Nat /\ Cardinality(E) \in Nat /\ Cardinality(F) \in Nat
  BY <1>2, <1>3, WatchedIsFinite
<1> HIDE DEF M, N, E, F
<1>6. Cardinality(N) <= Cardinality(M) + 1
  BY <1>4, <1>5, OneMore
<1>7. Cardinality(F) <= Cardinality(E) + 1
  BY <1>4, <1>5, OneMore
<1>8. Cardinality(next) - v.total \in -v.changes .. v.changes
  <2>1. d \in -w.changes .. w.changes /\ d \in Int /\ Cardinality(next) - v.total = d - 1
    BY <1>1, <1>2, <1>3, SMT DEF Paging
  <2> HIDE DEF d, next
  <2>2. d - 1 \in -(w.changes + 1) .. (w.changes + 1)
    BY <1>2, <2>1, SMT
  <2> QED
    BY <1>1, <2>1, <2>2
<1>9. ASSUME w.kind = "export"
      PROVE  /\ w.sort # "none"
             /\ 2 * Cardinality(N) <= (w.changes + 1) - (Cardinality(next) - w.total) + 2 * w.cut
             /\ w.limit <= 0 => w.pos < w.total
             /\ w.limit > 0 => Cardinality(F) <= w.changes + 1
  <2>1. /\ w.sort # "none"
        /\ 2 * Cardinality(M) <= w.changes - (Cardinality(view) - w.total) + 2 * w.cut
        /\ w.limit <= 0 => w.pos < w.total
        /\ w.limit > 0 => Cardinality(E) <= w.changes
        /\ w.cut \in Nat
    BY <1>9, WalkFields DEF Paging, M, E
  <2> QED
    BY <1>2, <1>3, <1>5, <1>6, <1>7, <2>1, SMT
<1> QED
  BY <1>1, <1>2, <1>8, <1>9 DEF Paging, N, F

\* A list that takes one page of the view, or the part of it that came.
LEMMA ListAnswered ==
    ASSUME NEW view, view \subseteq Nat, IsFiniteSet(view), NEW sort \in {"asc", "desc", "none"},
           NEW limit \in Int, NEW skip \in Int, NEW total \in Nat, NEW changes \in Nat,
           Cardinality(view) - total \in -changes .. changes,
           NEW page \in Pages(view, sort, limit, skip), NEW part, part \subseteq page,
           NEW cut \in Nat
    PROVE  Cardinality(part) - PageRows(total, limit, skip)
             \in -(changes + (cut + Cardinality(page \ part))) .. changes
<1> DEFINE n == Cardinality(view)
           p == PageRows(n, limit, skip)
           q == PageRows(total, limit, skip)
           r == Cardinality(page \ part)
           s == Cardinality(part)
<1>1. n \in Nat /\ n - total <= changes /\ total - n <= changes
  BY FS_CardinalityType, SMT
<1>2. page \subseteq view /\ Cardinality(page) = p
  BY PageSize
<1>3. s \in Nat /\ r \in Nat /\ p = s + r
  <2>1. IsFiniteSet(page) /\ IsFiniteSet(part) /\ page \cap part = part
    BY <1>2, FS_Subset
  <2>2. Cardinality(page \ part) = Cardinality(page) - Cardinality(part)
    BY <2>1, FS_Difference
  <2>3. Cardinality(page) \in Nat /\ s \in Nat /\ r \in Nat
    BY <2>1, FS_Difference, FS_CardinalityType
  <2> HIDE DEF p, r, s
  <2> QED
    BY <1>2, <2>2, <2>3, SMT DEF r, s
<1> HIDE DEF n, r, s
<1>4. p \in Int /\ q \in Int /\ p - q <= changes /\ q - p <= changes
  BY <1>1, SMT DEF PageRows, Least, Most
<1> HIDE DEF p, q
<1>5. s - q \in -(changes + (cut + r)) .. changes
  BY <1>3, <1>4, SMT
<1> QED
  BY <1>5 DEF q, r, s

\* What an export takes of a page: it goes on as it was, or ends with what it answers for.
LEMMA ExportPage ==
    ASSUME NEW w \in WalkRecord, NEW view, view \subseteq Nat, IsFiniteSet(view),
           IsFiniteSet(w.found), Paging(w, view), w.kind = "export",
           NEW page \in Pages(view, w.sort, w.limit, w.pos), NEW part, part \subseteq page,
           NEW v \in WalkRecord,
           v.kind = w.kind, v.limit = w.limit, v.skip = w.skip, v.sort = w.sort,
           v.total = w.total, v.changes = w.changes, v.kept = w.kept,
           v.found = w.found \cup part, v.cut = w.cut + Cardinality(page \ part),
           v.pos = w.pos + w.limit
    PROVE  /\ w.pos + w.limit < w.total => Paging(v, view)
           /\ ~(w.pos + w.limit < w.total) => Answered(v)
<1> DEFINE next == w.pos + w.limit
           found == w.found \cup part
           rest == page \ part
           M == Missed(w.kept, w.found, view, w.sort, w.pos)
           N == Missed(w.kept, found, view, w.sort, next)
           E == Extra(w.kept, w.found, view, w.sort, w.pos)
           F == Extra(w.kept, found, view, w.sort, next)
<1>1. /\ v.kept = w.kept /\ v.found = found /\ v.kind = w.kind /\ v.pos = next
      /\ v.skip = w.skip /\ v.sort = w.sort /\ v.limit = w.limit /\ v.total = w.total
      /\ v.changes = w.changes /\ v.cut = w.cut + Cardinality(rest)
  OBVIOUS
<1>2. /\ w.total \in Nat /\ w.pos \in Int /\ w.limit \in Int /\ w.changes \in Nat /\ next \in Int
      /\ w.sort \in {"asc", "desc", "none"} /\ w.cut \in Nat
  BY WalkFields, SMT
<1>3. /\ w.kept \subseteq view /\ w.sort # "none"
      /\ Cardinality(view) - w.total \in -w.changes .. w.changes
      /\ 2 * Cardinality(M) <= w.changes - (Cardinality(view) - w.total) + 2 * w.cut
      /\ w.limit <= 0 => w.pos < w.total
      /\ w.limit > 0 => Cardinality(E) <= w.changes
  BY DEF Paging
<1>4. /\ IsFiniteSet(found) /\ Cardinality(view) \in Nat
      /\ IsFiniteSet(rest) /\ Cardinality(rest) \in Nat
  <2>1. page \subseteq view
    BY <1>2, PageSize
  <2>2. IsFiniteSet(part) /\ IsFiniteSet(rest)
    BY <2>1, FS_Subset
  <2> QED
    BY <2>2, FS_Union, FS_CardinalityType
<1>5. /\ IsFiniteSet(M) /\ IsFiniteSet(E) /\ IsFiniteSet(F)
      /\ Cardinality(M) \in Nat /\ Cardinality(N) \in Nat
      /\ Cardinality(E) \in Nat /\ Cardinality(F) \in Nat
  BY <1>3, <1>4, WatchedIsFinite
<1>6. N \subseteq M \cup rest /\ (w.limit > 0 => F \subseteq E)
  <2> DEFINE rank(i) == Rank(i, view, w.sort)
  <2>1. /\ \A i \in view : rank(i) < next => i \in page \/ rank(i) < w.pos
        /\ \A i \in page : i \in view /\ rank(i) >= w.pos
        /\ w.limit > 0 => \A i \in view : rank(i) >= next => rank(i) >= w.pos
    <3> DEFINE sort == w.sort
               limit == w.limit
               pos == w.pos
    <3>1. /\ limit \in Int /\ pos \in Int /\ sort # "none"
          /\ page \in Pages(view, sort, limit, pos)
      BY <1>2, <1>3
    <3> HIDE DEF sort, limit, pos
    <3>2. /\ \A i \in view : Rank(i, view, sort) < pos + limit =>
                i \in page \/ Rank(i, view, sort) < pos
          /\ \A i \in page : i \in view /\ Rank(i, view, sort) >= pos
          /\ limit > 0 =>
                \A i \in view : Rank(i, view, sort) >= pos + limit => Rank(i, view, sort) >= pos
      BY <3>1, PageRanks
    <3> QED
      BY <3>2 DEF sort, limit, pos
  <2> HIDE DEF next
  <2>2. N \subseteq M \cup rest
    BY <1>3, <2>1 DEF Missed
  <2>3. w.limit > 0 => F \subseteq E
    BY <1>3, <2>1 DEF Extra
  <2> QED
    BY <2>2, <2>3
<1>7. /\ Cardinality(w.kept \ found) \in Nat
      /\ Cardinality(w.kept \ found) <= Cardinality(N) + Most(Cardinality(view) - next, 0)
  <2> HIDE DEF next, found
  <2> QED
    BY <1>2, <1>3, MissedAtEnd
<1>8. found \ w.kept \in SUBSET F
  BY DEF Extra
<1> HIDE DEF M, N, E, F, rest
<1>9. Cardinality(N) <= Cardinality(M) + Cardinality(rest)
  <2>1. /\ IsFiniteSet(M \cup rest) /\ Cardinality(M \cap rest) \in Nat
        /\ Cardinality(M \cup rest) = Cardinality(M) + Cardinality(rest) - Cardinality(M \cap rest)
    BY <1>4, <1>5, FS_Union, FS_Intersection, FS_CardinalityType
  <2>2. Cardinality(N) <= Cardinality(M \cup rest)
    BY <1>6, <2>1, FS_Subset
  <2> QED
    BY <1>4, <1>5, <2>1, <2>2, SMT
<1>10. w.limit > 0 => Cardinality(F) <= Cardinality(E)
  BY <1>5, <1>6, FS_Subset
<1>11. Cardinality(found \ w.kept) \in Nat /\ Cardinality(found \ w.kept) <= Cardinality(F)
  BY <1>5, <1>8, FS_Subset, FS_CardinalityType
<1>12. ASSUME next < w.total PROVE Paging(v, view)
  <2>1. /\ 2 * Cardinality(N) <= w.changes - (Cardinality(view) - w.total)
                                    + 2 * (w.cut + Cardinality(rest))
        /\ w.limit > 0 => Cardinality(F) <= w.changes
    BY <1>2, <1>3, <1>4, <1>5, <1>9, <1>10, SMT
  <2> QED
    BY <1>1, <1>3, <1>12, <2>1 DEF Paging, N, F
<1>13. ASSUME ~(next < w.total) PROVE Answered(v)
  <2>1. w.limit > 0
    BY <1>2, <1>3, <1>13, SMT
  <2>2. Cardinality(found \ w.kept) <= w.changes
    BY <1>2, <1>3, <1>5, <1>10, <1>11, <2>1, SMT
  <2> HIDE DEF next, found
  <2>3. Cardinality(w.kept \ found) <= w.changes + (w.cut + Cardinality(rest))
    BY <1>2, <1>3, <1>4, <1>5, <1>7, <1>9, <1>13, SMT DEF Most
  <2> QED
    BY <1>1, <2>2, <2>3 DEF Answered
<1> QED
  BY <1>12, <1>13

\* What a walk finds when it begins: it has missed nothing yet.
LEMMA WalkBegins ==
    ASSUME NEW w \in WalkRecord, NEW view, view \subseteq Nat, IsFiniteSet(view),
           w.kept = {i \in view : Rank(i, view, w.sort) >= w.skip}, w.found = {},
           w.pos = w.skip, w.total = Cardinality(view), w.changes = 0, w.cut = 0,
           w.kind = "export" => w.sort # "none"
    PROVE  /\ (w.kind = "export" => w.skip < w.total) => Paging(w, view)
           /\ w.kind = "export" /\ (w.total = 0 \/ w.skip >= w.total) => Answered(w)
<1>1. /\ Cardinality(view) \in Nat /\ w.skip \in Int /\ w.kind \in {"browse", "export"}
      /\ \A i \in view : Rank(i, view, w.sort) \in 0 .. Cardinality(view) - 1
  BY WalkFields, FS_CardinalityType, RankIsBelow
<1>2. Missed(w.kept, w.found, view, w.sort, w.pos) = {}
  <2>1. ASSUME NEW i \in view
        PROVE  ~(Rank(i, view, w.sort) >= w.skip /\ Rank(i, view, w.sort) < w.skip)
    <3>1. Rank(i, view, w.sort) \in Int
      BY <1>1
    <3> QED
      BY <1>1, <3>1, SMT
  <2> QED
    BY <2>1 DEF Missed
<1>3. Extra(w.kept, w.found, view, w.sort, w.pos) = {}
  BY DEF Extra
<1>4. Cardinality({}) = 0
  BY FS_EmptySet
<1>5. ASSUME w.kind = "export" => w.skip < w.total PROVE Paging(w, view)
  <2>1. Cardinality(view) - w.total = 0 /\ -w.changes .. w.changes = 0 .. 0 /\ 0 \in 0 .. 0
    BY <1>1, SMT
  <2>2. 2 * 0 <= 0 - 0 + 2 * 0 /\ 0 <= 0
    BY SMT
  <2> QED
    BY <1>2, <1>3, <1>4, <1>5, <2>1, <2>2 DEF Paging
<1>6. ASSUME w.kind = "export", w.total = 0 \/ w.skip >= w.total PROVE Answered(w)
  <2>1. w.kept = {}
    <3>1. ASSUME NEW i \in view PROVE ~(Rank(i, view, w.sort) >= w.skip)
      <4>1. Rank(i, view, w.sort) \in Int /\ Rank(i, view, w.sort) < Cardinality(view)
        <5>1. Rank(i, view, w.sort) \in 0 .. Cardinality(view) - 1
          BY <1>1
        <5> QED
          BY <1>1, <5>1, SMT
      <4>2. w.total # 0
        BY FS_EmptySet
      <4> QED
        BY <1>1, <1>6, <4>1, <4>2, SMT
    <3> QED
      BY <3>1
  <2>2. Cardinality(w.kept \ w.found) = 0 /\ Cardinality(w.found \ w.kept) = 0 /\ 0 <= 0 + 0
    BY <1>4, <2>1, SMT
  <2> QED
    BY <1>6, <2>2 DEF Answered
<1> QED
  BY <1>5, <1>6

\* A walk of a view that becomes another.
Watched(w, view, next) ==
    [w EXCEPT !.kept = w.kept \cap next,
              !.changes = w.changes + Cardinality((view \ next) \cup (next \ view))]

\* One row at most comes to the view of a walk, or goes.
LEMMA ViewWatched ==
    ASSUME NEW w \in WalkRecord, IsFiniteSet(w.found),
           NEW view \in SUBSET Ids, IsFiniteSet(view), Paging(w, view),
           NEW next \in SUBSET Ids, NEW x \in Ids, next \ {x} = view \ {x}
    PROVE  /\ Watched(w, view, next) \in WalkRecord
           /\ Watched(w, view, next).found = w.found
           /\ Watched(w, view, next).kept = w.kept \cap next
           /\ Watched(w, view, next).pc = w.pc
           /\ Watched(w, view, next).filter = w.filter
           /\ Paging(Watched(w, view, next), next)
<1> DEFINE v == Watched(w, view, next)
<1>1. Ids \subseteq Nat /\ w.kept \subseteq view /\ w.changes \in Nat
  BY LibraryAssumption, WalkFields DEF Paging
<1>2. /\ v.found = w.found /\ v.kept = w.kept \cap next
      /\ v.pc = w.pc /\ v.filter = w.filter
  BY DEF WalkRecord, Watched
<1>3. CASE next = view
  <2>1. Cardinality((view \ next) \cup (next \ view)) = 0 /\ w.kept \cap next = w.kept
    BY <1>1, <1>3, FS_EmptySet
  <2>2. w.changes + 0 = w.changes
    BY <1>1, SMT
  <2>3. v = w
    BY <2>1, <2>2 DEF WalkRecord, Watched
  <2> QED
    BY <1>2, <1>3, <2>3
<1>4. CASE x \in next /\ x \notin view
  <2>1. next = view \cup {x} /\ (view \ next) \cup (next \ view) = {x} /\ w.kept \cap next = w.kept
    BY <1>1, <1>4
  <2>2. Cardinality({x}) = 1 /\ w.changes + 1 \in Nat
    <3>1. Cardinality({x}) = 1
      BY FS_Singleton
    <3> QED
      BY <1>1, <3>1, SMT
  <2>3. v = [w EXCEPT !.changes = w.changes + 1]
    BY <2>1, <2>2 DEF WalkRecord, Watched
  <2>4. v \in WalkRecord
    BY <2>2, <2>3 DEF WalkRecord
  <2>5. Paging(v, view \cup {x})
    BY <1>1, <1>4, <2>3, <2>4, ViewGrows
  <2> QED
    BY <1>2, <2>1, <2>4, <2>5
<1>5. CASE x \notin next /\ x \in view
  <2>1. next = view \ {x} /\ (view \ next) \cup (next \ view) = {x}
        /\ w.kept \cap next = w.kept \ {x}
    BY <1>1, <1>5
  <2>2. Cardinality({x}) = 1 /\ w.changes + 1 \in Nat
    <3>1. Cardinality({x}) = 1
      BY FS_Singleton
    <3> QED
      BY <1>1, <3>1, SMT
  <2>3. v = [w EXCEPT !.kept = w.kept \ {x}, !.changes = w.changes + 1]
    BY <2>1, <2>2 DEF Watched
  <2>4. v \in WalkRecord
    BY <2>2, <2>3 DEF WalkRecord
  <2>5. Paging(v, view \ {x})
    BY <1>1, <1>5, <2>3, <2>4, ViewShrinks
  <2> QED
    BY <1>2, <2>1, <2>4, <2>5
<1> QED
  BY <1>3, <1>4, <1>5

\* What holds of the walk at work: it is finite, and what it is to answer for in
\* the end is true of it already, up to the page it is at.
WalkInv ==
    /\ IsFiniteSet(rows)
    /\ walk \in {NoWalk} \cup WalkRecord
    /\ walk # NoWalk => IsFiniteSet(walk.found) /\ IsFiniteSet(walk.kept)
    /\ walk.pc = "paging" => Paging(walk, Matching(walk.filter, rows, tags))
    /\ walk.pc = "ended" => Answered(walk)

\* The rows a query sees.
LEMMA ViewIsFinite ==
    ASSUME TableTypeOK, IsFiniteSet(rows), NEW filter
    PROVE  /\ Matching(filter, rows, tags) \in SUBSET Ids
           /\ Matching(filter, rows, tags) \in SUBSET Nat
           /\ IsFiniteSet(Matching(filter, rows, tags))
<1>1. Matching(filter, rows, tags) \in SUBSET rows
  BY DEF Matching
<1> QED
  BY <1>1, FS_Subset, LibraryAssumption DEF TableTypeOK

\* A walk that has begun.
LEMMA WalkIsRecord ==
    ASSUME WalkInv, walk.pc # "idle"
    PROVE  walk \in WalkRecord /\ IsFiniteSet(walk.found) /\ IsFiniteSet(walk.kept)
BY DEF WalkInv, NoWalk

\* No walk has begun yet.
LEMMA InitWalk == Init => WalkInv
BY FS_EmptySet DEF Init, WalkInv, NoWalk

\* Count, for every request of the walks.
LEMMA WalkStartWalk ==
    ASSUME IInv, WalkInv, NEW r \in Walks, WalkStart(r) PROVE WalkInv'
<1> DEFINE view == Matching(r.filter, rows, tags)
           total == Cardinality(view)
           limit == IF r.kind = "export" /\ total < MaxLimit THEN total ELSE r.limit
<1>1. /\ view \in SUBSET Ids /\ view \in SUBSET Nat /\ IsFiniteSet(view) /\ total \in Nat
  BY ViewIsFinite, FS_CardinalityType DEF IInv, WalkInv
<1>2. /\ r.kind \in {"browse", "export"} /\ r.limit \in Int /\ r.skip \in Int
      /\ r.sort \in {"asc", "desc", "none"} /\ r.filter \in SUBSET Tags
      /\ r.kind = "export" => r.sort # "none"
  <2>1. r \in ListRequest \/ r \in ViewRequest \/ r \in ExportRequest
    BY WalksAssumption
  <2>2. CASE r \in ListRequest
    BY <2>2, SMT DEF ListRequest
  <2>3. CASE r \in ViewRequest
    BY <2>3 DEF ViewRequest
  <2>4. CASE r \in ExportRequest
    BY <2>4 DEF ExportRequest
  <2> QED
    BY <2>1, <2>2, <2>3, <2>4
<1> HIDE DEF view
<1>3. PICK fails \in BOOLEAN :
        /\ walk' = [pc |-> IF fails THEN "failed"
                           ELSE IF r.kind = "export" /\ (total = 0 \/ r.skip >= total)
                           THEN "ended"
                           ELSE "paging",
                    kind |-> r.kind, limit |-> limit, skip |-> r.skip,
                    sort |-> r.sort, filter |-> r.filter, total |-> total,
                    pos |-> r.skip, found |-> {}, changes |-> 0,
                    kept |-> {i \in view : Cardinality(Ahead(i, view, r.sort)) >= r.skip},
                    cut |-> 0]
        /\ UNCHANGED <<rows, tags>>
  BY DEF WalkStart, tagVars, view
<1>4. limit \in Int
  BY <1>1, <1>2, SMT
<1> HIDE DEF limit
<1>5. walk' \in WalkRecord
  BY <1>1, <1>2, <1>3, <1>4 DEF WalkRecord
<1>6. /\ walk'.kept = {i \in view : Rank(i, view, r.sort) >= r.skip}
      /\ walk'.found = {} /\ walk'.pos = r.skip /\ walk'.total = total /\ walk'.changes = 0
      /\ walk'.skip = r.skip /\ walk'.sort = r.sort /\ walk'.kind = r.kind
      /\ walk'.filter = r.filter /\ walk'.cut = 0
      /\ walk'.pc = "ended" => r.kind = "export" /\ (total = 0 \/ r.skip >= total)
      /\ walk'.pc = "paging" => ~(r.kind = "export" /\ r.skip >= total)
  BY <1>3 DEF Rank
<1>7. /\ (r.kind = "export" => r.skip < total) => Paging(walk', view)
      /\ r.kind = "export" /\ (total = 0 \/ r.skip >= total) => Answered(walk')
  BY <1>1, <1>2, <1>5, <1>6, WalkBegins
<1>8. r.skip >= total \/ r.skip < total
  BY <1>1, <1>2, SMT
<1>9. Matching(walk'.filter, rows', tags') = view
  BY <1>3, <1>6 DEF view, Matching
<1>10. walk'.pc = "paging" => Paging(walk', Matching(walk'.filter, rows', tags'))
  BY <1>6, <1>7, <1>8, <1>9
<1>11. walk'.pc = "ended" => Answered(walk')
  BY <1>6, <1>7
<1>12. IsFiniteSet(rows') /\ IsFiniteSet(walk'.found) /\ IsFiniteSet(walk'.kept)
  <2>1. walk'.kept \in SUBSET view
    BY <1>6
  <2> QED
    BY <1>1, <1>3, <1>6, <2>1, FS_EmptySet, FS_Subset DEF WalkInv
<1> QED
  BY <1>5, <1>10, <1>11, <1>12 DEF WalkInv, Paging, Answered

\* A page or what came of it: a list ends with it, an export goes on or ends.
LEMMA ListedWalk ==
    ASSUME IInv, WalkInv, walk.pc = "paging", UNCHANGED <<rows, tags>>,
           NEW page \in Pages(Matching(walk.filter, rows, tags), walk.sort, walk.limit, walk.pos),
           NEW part \in SUBSET page, Listed(page, part)
    PROVE  WalkInv'
<1> DEFINE w == walk
           v == walk'
           view == Matching(w.filter, rows, tags)
           far == w.pos + w.limit
<1>1. w.pc = "paging" /\ UNCHANGED <<rows, tags>> /\ page \in Pages(view, w.sort, w.limit, w.pos)
  OBVIOUS
<1>2. v = [w EXCEPT !.found = w.found \cup part, !.cut = w.cut + Cardinality(page \ part),
                    !.pos = far,
                    !.pc = IF w.kind = "export" /\ far < w.total THEN w.pc ELSE "ended"]
  BY DEF Listed
<1>3. w \in WalkRecord /\ IsFiniteSet(w.found) /\ IsFiniteSet(w.kept) /\ Paging(w, view)
  BY <1>1, WalkIsRecord DEF WalkInv
<1>4. /\ view \in SUBSET Ids /\ view \in SUBSET Nat /\ IsFiniteSet(view)
  BY ViewIsFinite DEF IInv, WalkInv
<1>5. /\ w.limit \in Int /\ w.pos \in Int /\ w.skip \in Int /\ w.total \in Nat
      /\ w.changes \in Nat /\ far \in Int /\ w.sort \in {"asc", "desc", "none"}
      /\ w.kind \in {"browse", "export"} /\ w.found \in SUBSET Ids /\ w.cut \in Nat
  BY <1>3, WalkFields, SMT
<1> HIDE DEF view
<1>6. /\ IsFiniteSet(w.found \cup part) /\ w.found \cup part \in SUBSET Ids
      /\ w.cut + Cardinality(page \ part) \in Nat
  <2>1. page \subseteq view
    BY <1>1, <1>4, <1>5, PageSize
  <2>2. IsFiniteSet(part) /\ IsFiniteSet(page \ part)
    BY <1>4, <2>1, FS_Subset
  <2>3. Cardinality(page \ part) \in Nat
    BY <2>2, FS_CardinalityType
  <2>4. w.cut + Cardinality(page \ part) \in Nat
    BY <1>5, <2>3, SMT
  <2> QED
    BY <1>3, <1>4, <1>5, <2>1, <2>2, <2>4, FS_Union
<1>7. v \in WalkRecord
  <2> HIDE DEF far
  <2>1. (IF w.kind = "export" /\ far < w.total THEN w.pc ELSE "ended") \in {"paging", "ended"}
    BY <1>1
  <2> QED
    BY <1>2, <1>3, <1>5, <1>6, <2>1 DEF WalkRecord
<1>8. /\ v.found = w.found \cup part /\ v.kept = w.kept /\ v.filter = w.filter /\ v.kind = w.kind
      /\ v.total = w.total /\ v.limit = w.limit /\ v.skip = w.skip /\ v.changes = w.changes
      /\ v.cut = w.cut + Cardinality(page \ part) /\ v.sort = w.sort /\ v.pos = far
      /\ v.pc = IF w.kind = "export" /\ far < w.total THEN "paging" ELSE "ended"
  BY <1>1, <1>2, <1>3 DEF WalkRecord
<1>9. ASSUME w.kind = "export"
      PROVE  /\ v.pc = "paging" => Paging(v, view)
             /\ v.pc = "ended" => Answered(v)
  <2>1. /\ far < w.total => Paging(v, view)
        /\ ~(far < w.total) => Answered(v)
    BY <1>1, <1>3, <1>4, <1>7, <1>8, <1>9, ExportPage
  <2> QED
    BY <1>8, <1>9, <2>1
<1>10. ASSUME w.kind = "browse" PROVE v.pc = "ended" /\ Answered(v)
  <2>1. w.found = {} /\ w.pos = w.skip /\ Cardinality(view) - w.total \in -w.changes .. w.changes
    BY <1>3, <1>10 DEF Paging
  <2>2. Cardinality(part) - PageRows(w.total, w.limit, w.skip)
          \in -(w.changes + (w.cut + Cardinality(page \ part))) .. w.changes
    BY <1>1, <1>4, <1>5, <2>1, ListAnswered
  <2> QED
    BY <1>8, <1>10, <2>1, <2>2 DEF Answered
<1>11. Matching(v.filter, rows', tags') = view
  BY <1>1, <1>8 DEF view, Matching
<1>12. /\ v.pc = "paging" => Paging(v, Matching(v.filter, rows', tags'))
       /\ v.pc = "ended" => Answered(v)
  BY <1>5, <1>8, <1>9, <1>10, <1>11
<1> HIDE DEF v
<1>13. IsFiniteSet(v.found) /\ IsFiniteSet(v.kept) /\ IsFiniteSet(rows')
  BY <1>1, <1>3, <1>6, <1>8 DEF WalkInv
<1> QED
  BY <1>7, <1>12, <1>13 DEF WalkInv, v, Paging, Answered

\* Browse, and a Browse whose connection is lost while it reads.
LEMMA WalkPageWalk ==
    ASSUME IInv, WalkInv, WalkPage \/ WalkCut PROVE WalkInv'
<1>1. walk.pc = "paging" /\ UNCHANGED <<rows, tags>>
  BY DEF WalkPage, WalkCut, tagVars
<1>2. \E page \in Pages(Matching(walk.filter, rows, tags), walk.sort, walk.limit, walk.pos) :
        \E part \in SUBSET page : Listed(page, part)
  BY DEF WalkPage, WalkCut, Begun
<1> QED
  BY <1>1, <1>2, ListedWalk

\* A walk that fails answers for nothing.
LEMMA WalkFailsWalk ==
    ASSUME WalkInv, WalkFails \/ DumpFails PROVE WalkInv'
<1>1. /\ walk.pc = "paging" /\ walk' = [walk EXCEPT !.pc = "failed"]
      /\ UNCHANGED <<rows, tags>>
  BY DEF WalkFails, DumpFails, tagVars
<1>2. walk \in WalkRecord /\ IsFiniteSet(walk.found) /\ IsFiniteSet(walk.kept)
  BY <1>1, WalkIsRecord
<1>3. /\ walk' \in WalkRecord /\ walk'.pc = "failed"
      /\ walk'.found = walk.found /\ walk'.kept = walk.kept
  BY <1>1, <1>2 DEF WalkRecord
<1> QED
  BY <1>1, <1>2, <1>3 DEF WalkInv

\* A step that changes one row at most, and what the walk watches of it.
LEMMA WatchWalk ==
    ASSUME IInv, WalkInv, TableTypeOK', IsFiniteSet(rows'), NEW x \in Ids,
           rows' \ {x} = rows \ {x}, \A i \in Ids \ {x} : tags'[i] = tags[i],
           Watch(rows', tags')
    PROVE  WalkInv'
<1>1. CASE walk.pc # "paging"
  <2>1. walk' = walk
    BY <1>1 DEF Watch
  <2> QED
    BY <1>1, <2>1 DEF WalkInv, Answered
<1>2. CASE walk.pc = "paging"
  <2> DEFINE w == walk
             v == walk'
             view == Matching(w.filter, rows, tags)
             next == Matching(w.filter, rows', tags')
  <2>1. w \in WalkRecord /\ IsFiniteSet(w.found) /\ IsFiniteSet(w.kept) /\ Paging(w, view)
    BY <1>2, WalkIsRecord DEF WalkInv
  <2>2. view \in SUBSET Ids /\ IsFiniteSet(view)
    BY ViewIsFinite DEF IInv, WalkInv
  <2>3. rows \subseteq Ids /\ rows' \subseteq Ids
    BY DEF IInv, TableTypeOK
  <2>4. next \in SUBSET Ids /\ next \ {x} = view \ {x}
    BY <2>3 DEF Matching
  <2>5. v = Watched(w, view, next)
    BY <1>2 DEF Watch, Watched
  <2> HIDE DEF view, next
  <2>6. /\ v \in WalkRecord /\ v.found = w.found /\ v.kept = w.kept \cap next
        /\ v.pc = w.pc /\ v.filter = w.filter
        /\ Paging(v, next)
    BY <2>1, <2>2, <2>4, <2>5, ViewWatched
  <2>7. Paging(v, Matching(v.filter, rows', tags'))
    BY <2>6 DEF next
  <2>8. v.pc # "ended" /\ IsFiniteSet(v.found) /\ IsFiniteSet(v.kept)
    BY <1>2, <2>1, <2>6, FS_Subset
  <2> HIDE DEF v
  <2> QED
    BY <2>6, <2>7, <2>8 DEF WalkInv, v, Paging
<1> QED
  BY <1>1, <1>2

\* A row that comes, a row that goes, the tags of a row that are written.
LEMMA RowsWalk ==
    ASSUME IInv, IInv', WalkInv,
           (\E i \in Ids : Publish(i) \/ Remove(i)) \/ (\E c \in Calls : TagWrite(c))
    PROVE  WalkInv'
<1>1. TableTypeOK' /\ TableTypeOK /\ IsFiniteSet(rows)
  BY DEF IInv, WalkInv
<1>2. ASSUME NEW i \in Ids, Publish(i) PROVE WalkInv'
  <2>1. rows' = rows \cup {i} /\ tags' = [tags EXCEPT ![i] = Uploaded[i]] /\ Watch(rows', tags')
    BY <1>2 DEF Publish
  <2>2. IsFiniteSet(rows') /\ rows' \ {i} = rows \ {i}
    BY <1>1, <2>1, FS_AddElement
  <2>3. \A j \in Ids \ {i} : tags'[j] = tags[j]
    BY <1>1, <2>1 DEF TableTypeOK
  <2> QED
    BY <1>1, <2>1, <2>2, <2>3, WatchWalk
<1>3. ASSUME NEW i \in Ids, Remove(i) PROVE WalkInv'
  <2>1. rows' = rows \ {i} /\ tags' = tags /\ Watch(rows', tags')
    BY <1>3 DEF Remove, tagVars
  <2>2. IsFiniteSet(rows') /\ rows' \ {i} = rows \ {i}
    BY <1>1, <2>1, FS_RemoveElement, FS_Subset
  <2> QED
    BY <1>1, <2>1, <2>2, WatchWalk
<1>4. ASSUME NEW c \in Calls, TagWrite(c) PROVE WalkInv'
  <2>1. /\ rows' = rows /\ Watch(rows, tags')
        /\ tags' = IF Target[c] \in rows THEN [tags EXCEPT ![Target[c]] = Merged(c)] ELSE tags
    BY <1>4 DEF TagWrite
  <2>2. Target[c] \in Ids
    BY LibraryAssumption
  <2>3. \A j \in Ids \ {Target[c]} : tags'[j] = tags[j]
    BY <1>1, <2>1 DEF TableTypeOK
  <2> QED
    BY <1>1, <2>1, <2>2, <2>3, WatchWalk
<1> QED
  BY <1>2, <1>3, <1>4

\* Every step preserves what holds of the walk.
LEMMA StepWalk == IInv /\ IInv' /\ WalkInv /\ [Next]_vars => WalkInv'
<1> SUFFICES ASSUME IInv, IInv', WalkInv, [Next]_vars PROVE WalkInv'
  OBVIOUS
<1>1. CASE (\E i \in Ids : Publish(i) \/ Remove(i)) \/ (\E c \in Calls : TagWrite(c))
  BY <1>1, RowsWalk
<1>2. CASE \E r \in Walks : WalkStart(r)
  BY <1>2, WalkStartWalk
<1>3. CASE WalkStep \/ DumpFails
  BY <1>3, WalkPageWalk, WalkFailsWalk DEF WalkStep
<1>4. CASE \/ \E c \in Calls : TagRead(c) \/ TagFails(c) \/ CommitLost(c)
           \/ Outage \/ PoolStep \/ UNCHANGED vars
  <2>1. UNCHANGED <<rows, tags, walk>>
    BY <1>4 DEF TagRead, TagFails, CommitLost, Outage, PoolStep, vars, tagVars
  <2> QED
    BY <2>1 DEF WalkInv, Matching
<1> QED
  BY <1>1, <1>2, <1>3, <1>4 DEF Next, TagStep

\* What every walk has listed and passed, in every state.
THEOREM WalkInvariance == Spec => []WalkInv
<1>1. Spec => []IInv
  BY Invariance
<1> QED
  BY <1>1, InitWalk, StepWalk, PTL DEF Spec

\* Every state of Library is well typed, whatever the bounds.
THEOREM TypeCorrect == Spec => []TypeOK
<1>1. IInv /\ WalkInv => TypeOK
  BY DEF IInv, WalkInv, TypeOK
<1> QED
  BY <1>1, Invariance, WalkInvariance, PTL

\* The export tool pages by offset, for every page size, skip and start of an order:
\* a page is an interval of ranks, a row that comes or goes moves a rank by one, and
\* an export that ends has missed no more rows that stayed than came and went, and
\* than a lost connection cut off.
THEOREM ExportsMissLittle == Spec => []ExportMisses
<1>1. WalkInv => ExportMisses
  BY DEF WalkInv, Answered, ExportMisses
<1> QED
  BY <1>1, WalkInvariance, PTL

\* Nor has it listed more rows it was not to list than came and went.
THEOREM ExportsAddLittle == Spec => []ExportAdds
<1>1. WalkInv => ExportAdds
  BY DEF WalkInv, Answered, ExportAdds
<1> QED
  BY <1>1, WalkInvariance, PTL

\* Count and Browse, two queries of one answer: the rows listed are as many as the
\* total, the limit and the skip say, up to the rows that came and went in between,
\* and less those a lost connection cut off.
THEOREM AnswersAgree == Spec => []AnswerAgrees
<1>1. WalkInv => AnswerAgrees
  BY DEF WalkInv, Answered, AnswerAgrees, PageRows
<1> QED
  BY <1>1, WalkInvariance, PTL

\* An export of a table that does not change, no result of which is cut off, lists
\* what it was asked for.
ExportIsExact ==
    walk.pc = "ended" /\ walk.kind = "export" /\ walk.changes + walk.cut = 0 =>
        walk.found = walk.kept

\* Nothing missed and nothing added, for every table, when no row came or went and
\* no connection was lost while rows were read.
THEOREM QuietExportsAreExact == Spec => []ExportIsExact
<1>1. WalkInv => ExportIsExact
  <2> SUFFICES ASSUME WalkInv, walk.pc = "ended", walk.kind = "export",
                      walk.changes + walk.cut = 0
               PROVE  walk.found = walk.kept
    BY DEF ExportIsExact
  <2> DEFINE missed == walk.kept \ walk.found
             added == walk.found \ walk.kept
  <2>1. IsFiniteSet(missed) /\ IsFiniteSet(added)
    BY WalkIsRecord, FS_Difference
  <2>2. Cardinality(missed) <= 0 /\ Cardinality(added) <= 0
    <3>1. walk.changes = 0
      BY WalkIsRecord, WalkFields, SMT
    <3> QED
      BY <3>1 DEF WalkInv, Answered
  <2> HIDE DEF missed, added
  <2>3. Cardinality(missed) = 0 /\ Cardinality(added) = 0
    BY <2>1, <2>2, FS_CardinalityType, SMT
  <2>4. missed = {} /\ added = {}
    BY <2>1, <2>3, FS_EmptySet
  <2> QED
    BY <2>4 DEF missed, added
<1> QED
  BY <1>1, WalkInvariance, PTL
==============================================================================
