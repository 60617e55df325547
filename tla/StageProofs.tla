---------------------------- MODULE StageProofs ----------------------------
(***************************************************************************)
(* Proofs of the safety properties of Stage for any number of requests and *)
(* sizes.  Its types and the fate of the lock need nothing of flock; the   *)
(* properties of the files are proved as long as flock works.              *)
(***************************************************************************)
EXTENDS Stage, TLAPS

Writing == WritesOrig \cup WritesDst

\* The lock is held by the one request that is in prepare.
LockInv ==
    \A r \in Requests : pc[r] \in Critical <=> holder = r

\* What a request knows of the cache at each of its steps.
PhaseInv ==
    \A r \in Requests :
        /\ pc[r] \in {"load", "open"} => ~Filled(Orig)
        /\ pc[r] = "writeOrig" => cache[Orig] = "empty"
        /\ pc[r] = "endOrig" => cache[Orig] = "part"
        /\ pc[r] = "thumb" => Filled(Orig)
        /\ pc[r] = "writeDst" => cache[want[r].file] = "empty"
        /\ pc[r] = "endDst" => cache[want[r].file] = "part"
        /\ pc[r] \in WritesDst => want[r].file # Orig

\* A file that a client is being sent is there, and nobody writes it.
WalkInv ==
    \A r \in Requests : pc[r] \in {"walk", "serve"} =>
        /\ Filled(want[r].file)
        /\ \A w \in Requests : pc[w] \in Writing => Target(w) # want[r].file

IInv == TypeOK /\ LockInv /\ PhaseInv /\ WalkInv

LEMMA InitIInv == Init => IInv
  BY StageAssumption
  DEF Init, IInv, TypeOK, LockInv, PhaseInv, WalkInv, Critical, Answers, WritesOrig,
      WritesDst, Writing, Files

LEMMA TypeStep ==
  ASSUME TypeOK, [Next]_vars
  PROVE  TypeOK'
<1> USE DEF TypeOK, Goto, Leave
<1>1. ASSUME NEW r \in Requests, Step(r) PROVE TypeOK'
  <2>1. CASE Refuse(r) \/ LockFileFails(r) \/ Lock(r) \/ LockFails(r) \/ CacheHit(r) \/ CacheMiss(r)
    BY <2>1, StageAssumption
    DEF Refuse, LockFileFails, Lock, LockFails, CacheHit, CacheMiss, Critical, Answers
  <2>2. CASE GetMapping(r) \/ LoadFails(r) \/ OpenOrig(r)
    BY <2>2 DEF GetMapping, LoadFails, OpenOrig, Critical, Answers, WritesOrig, WritesDst, Files
  <2>3. CASE Thumbnail(r) \/ WriteFails(r) \/ Walk(r) \/ Serve(r)
    BY <2>3 DEF Thumbnail, OpenSize, WriteFails, Walk, Serve, Unfinished, Target, Critical, Answers,
               WritesOrig, WritesDst, Files
  <2>4. CASE WriteSome(r) \/ WriteRest(r)
    BY <2>4 DEF WriteSome, WriteRest, Target, Critical, Answers, WritesOrig, WritesDst, Files
  <2> QED BY <1>1, <2>1, <2>2, <2>3, <2>4 DEF Step, Proceed
<1>2. CASE Unmap
  BY <1>2 DEF Unmap
<1>3. ASSUME NEW dying \in SUBSET Requests, Crash(dying) PROVE TypeOK'
  BY <1>3 DEF Crash, Unfinished, Target, Answers, Critical, WritesOrig, WritesDst, Files
<1>4. CASE UNCHANGED vars
  BY <1>4 DEF vars
<1> QED BY <1>1, <1>2, <1>3, <1>4 DEF Next, Terminating

\* Every state of Stage is well typed, whatever fails.
THEOREM TypeCorrect == Spec => []TypeOK
<1>1. Init => TypeOK
  BY InitIInv DEF IInv
<1>2. TypeOK /\ [Next]_vars => TypeOK'
  BY TypeStep
<1> QED BY <1>1, <1>2, PTL DEF Spec

-----------------------------------------------------------------------------
\* A request that holds the lock stays in prepare or frees it, and none frees the
\* lock of another or takes one that is held.
LEMMA HolderStep ==
  ASSUME TypeOK, HolderIsInPrepare, [Next]_vars
  PROVE  HolderIsInPrepare'
<1> USE StageAssumption DEF TypeOK, HolderIsInPrepare, Goto, Leave
<1>1. ASSUME NEW u \in Requests, Step(u) PROVE HolderIsInPrepare'
  <2>1. CASE Refuse(u) \/ LockFileFails(u) \/ Lock(u) \/ LockFails(u)
    BY <2>1 DEF Refuse, LockFileFails, Lock, LockFails, Critical, WritesOrig, WritesDst
  <2>2. CASE CacheHit(u) \/ CacheMiss(u) \/ GetMapping(u) \/ LoadFails(u) \/ OpenOrig(u)
    BY <2>2 DEF CacheHit, CacheMiss, GetMapping, LoadFails, OpenOrig, Critical, WritesOrig,
               WritesDst
  <2>3. CASE Thumbnail(u) \/ WriteSome(u) \/ WriteRest(u) \/ WriteFails(u)
    BY <2>3 DEF Thumbnail, OpenSize, WriteSome, WriteRest, WriteFails, Critical, WritesOrig, WritesDst
  <2>4. CASE Walk(u) \/ Serve(u)
    BY <2>4 DEF Walk, Serve, Critical, WritesOrig, WritesDst
  <2> QED BY <1>1, <2>1, <2>2, <2>3, <2>4 DEF Step, Proceed
<1>2. ASSUME NEW dying \in SUBSET Requests, Crash(dying) PROVE HolderIsInPrepare'
  BY <1>2 DEF Crash
<1>3. CASE UNCHANGED <<pc, holder>>
  BY <1>3
<1> QED BY <1>1, <1>2, <1>3 DEF Next, Unmap, Terminating, vars

\* The lock is always with a request that is in prepare: none that ends leaves it
\* behind, also when flock fails.
THEOREM LocksArePassedOn == Spec => []HolderIsInPrepare
<1>1. Init => HolderIsInPrepare
  BY DEF Init, HolderIsInPrepare
<1>2. TypeOK /\ HolderIsInPrepare /\ [Next]_vars => HolderIsInPrepare'
  BY HolderStep
<1> QED BY <1>1, <1>2, TypeCorrect, PTL DEF Spec

-----------------------------------------------------------------------------
LEMMA LockStep ==
  ASSUME "lock" \notin Faults, TypeOK, LockInv, [Next]_vars
  PROVE  LockInv'
<1> USE StageAssumption DEF TypeOK, LockInv, Goto, Leave
<1>1. ASSUME NEW u \in Requests, Step(u) PROVE LockInv'
  <2>1. CASE Refuse(u) \/ LockFileFails(u) \/ Lock(u) \/ CacheHit(u) \/ CacheMiss(u)
    BY <2>1 DEF Refuse, LockFileFails, Lock, CacheHit, CacheMiss, Critical, WritesOrig, WritesDst
  <2>2. CASE GetMapping(u) \/ LoadFails(u) \/ OpenOrig(u) \/ Thumbnail(u)
    BY <2>2 DEF GetMapping, LoadFails, OpenOrig, Thumbnail, OpenSize, Critical, WritesOrig, WritesDst
  <2>3. CASE WriteSome(u) \/ WriteRest(u) \/ WriteFails(u)
    BY <2>3 DEF WriteSome, WriteRest, WriteFails, Critical, WritesOrig, WritesDst
  <2>4. CASE Walk(u) \/ Serve(u)
    BY <2>4 DEF Walk, Serve, Critical, WritesOrig, WritesDst
  <2> QED BY <1>1, <2>1, <2>2, <2>3, <2>4 DEF Step, Proceed, LockFails
<1>2. ASSUME NEW dying \in SUBSET Requests, Crash(dying) PROVE LockInv'
  BY <1>2 DEF Crash, Critical, Answers, WritesOrig, WritesDst
<1>3. CASE UNCHANGED <<pc, holder>>
  BY <1>3
<1> QED BY <1>1, <1>2, <1>3 DEF Next, Unmap, Terminating, vars

\* While a request writes or loads, no other is in prepare.
LEMMA Alone ==
  ASSUME LockInv, TypeOK, NEW u \in Requests, NEW r \in Requests,
         pc[u] \in Critical, pc[r] \in Critical
  PROVE  r = u
  BY DEF LockInv

\* A step of u changes u's program counter only, and the cache only from prepare.
LEMMA StepFrame ==
  ASSUME TypeOK, NEW u \in Requests, Step(u)
  PROVE  /\ want' = want
         /\ \A r \in Requests \ {u} : pc'[r] = pc[r]
         /\ pc[u] \notin Critical => cache' = cache
  BY DEF TypeOK, Step, Proceed, Refuse, LockFileFails, Lock, LockFails, CacheHit, CacheMiss, GetMapping, LoadFails,
         OpenOrig, Thumbnail, OpenSize, WriteSome, WriteRest, WriteFails, Walk, Serve, Goto, Leave,
         Critical, WritesOrig, WritesDst

\* What a file can become in a step: files are made, never lost, and only a file
\* that is not filled or is being written by u changes.
LEMMA CacheStep ==
  ASSUME IInv, NEW u \in Requests, Step(u), NEW f \in Files
  PROVE  /\ Filled(f) => Filled(f)'
         /\ cache'[f] # cache[f] => ~Filled(f) \/ (pc[u] \in Writing /\ Target(u) = f)
         /\ cache[f] = "whole" => cache'[f] = "whole"
<1> USE DEF IInv, TypeOK, PhaseInv, Filled, Goto, Leave
<1>1. CASE OpenOrig(u)
  BY <1>1 DEF OpenOrig
<1>2. CASE Thumbnail(u)
  BY <1>2 DEF Thumbnail, OpenSize
<1>3. CASE WriteSome(u)
  BY <1>3 DEF WriteSome, Target, Writing, WritesOrig, WritesDst
<1>4. CASE WriteRest(u)
  BY <1>4 DEF WriteRest, Target, Writing, WritesOrig, WritesDst
<1>5. CASE UNCHANGED cache
  BY <1>5
<1> QED
  BY <1>1, <1>2, <1>3, <1>4, <1>5
  DEF Step, Proceed, Refuse, LockFileFails, Lock, LockFails, CacheHit, CacheMiss, GetMapping, LoadFails,
      WriteFails, Walk, Serve

LEMMA PhaseStep ==
  ASSUME "lock" \notin Faults, IInv, [Next]_vars
  PROVE  PhaseInv'
<1> USE DEF IInv
<1>1. ASSUME NEW u \in Requests, Step(u) PROVE PhaseInv'
  <2> SUFFICES ASSUME NEW r \in Requests
               PROVE  /\ pc'[r] \in {"load", "open"} => ~Filled(Orig)'
                      /\ pc'[r] = "writeOrig" => cache'[Orig] = "empty"
                      /\ pc'[r] = "endOrig" => cache'[Orig] = "part"
                      /\ pc'[r] = "thumb" => Filled(Orig)'
                      /\ pc'[r] = "writeDst" => cache'[want'[r].file] = "empty"
                      /\ pc'[r] = "endDst" => cache'[want'[r].file] = "part"
                      /\ pc'[r] \in WritesDst => want'[r].file # Orig
    BY DEF PhaseInv
  <2>1. CASE r # u
    <3>1. want' = want /\ pc'[r] = pc[r]
      BY <1>1, <2>1, StepFrame
    <3>2. CASE pc[r] \in Critical
      <4>1. pc[u] \notin Critical
        BY <2>1, <3>2, Alone
      <4>2. cache' = cache
        BY <1>1, <4>1, StepFrame
      <4> QED BY <3>1, <4>2 DEF PhaseInv, Filled
    <3>3. CASE pc[r] \notin Critical
      BY <3>1, <3>3 DEF Critical, WritesOrig, WritesDst
    <3> QED BY <3>2, <3>3
  <2>2. CASE r = u
    <3> USE <2>2 DEF TypeOK, PhaseInv, Filled, Goto, Leave, WritesOrig, WritesDst
    <3>1. CASE Refuse(u) \/ LockFileFails(u) \/ Lock(u) \/ LockFails(u) \/ CacheHit(u) \/ Walk(u) \/ Serve(u)
      BY <3>1 DEF Refuse, LockFileFails, Lock, LockFails, CacheHit, Walk, Serve
    <3>2. CASE CacheMiss(u) \/ GetMapping(u)
      BY <3>2 DEF CacheMiss, GetMapping
    <3>3. CASE LoadFails(u) \/ WriteFails(u)
      BY <3>3 DEF LoadFails, WriteFails
    <3>4. CASE OpenOrig(u)
      BY <3>4 DEF OpenOrig, Files
    <3>5. CASE Thumbnail(u)
      <4>1. want[u].file \in Files
        BY <3>5 DEF Thumbnail, OpenSize, Answers
      <4> QED BY <3>5, <4>1 DEF Thumbnail, OpenSize, Files
    <3>6. CASE WriteSome(u) \/ WriteRest(u)
      <4>1. want[u].file \in Files /\ Orig \in Files
        BY <3>6 DEF WriteSome, WriteRest, Answers, Files
      <4> QED BY <3>6, <4>1 DEF WriteSome, WriteRest, Target
    <3> QED BY <1>1, <3>1, <3>2, <3>3, <3>4, <3>5, <3>6 DEF Step, Proceed
  <2> QED BY <2>1, <2>2
<1>2. ASSUME NEW dying \in SUBSET Requests, Crash(dying) PROVE PhaseInv'
  BY <1>2 DEF Crash, PhaseInv, Filled, WritesDst, TypeOK
<1>3. CASE UNCHANGED <<pc, want, cache>>
  BY <1>3 DEF PhaseInv, Filled
<1> QED BY <1>1, <1>2, <1>3 DEF Next, Unmap, Terminating, vars

\* Who enters the walk found its file filled; who starts to write found it not filled.
LEMMA WalkStep ==
  ASSUME "lock" \notin Faults, IInv, [Next]_vars
  PROVE  WalkInv'
<1> USE DEF IInv
<1>1. ASSUME NEW u \in Requests, Step(u) PROVE WalkInv'
  <2>1. /\ want' = want
        /\ \A r \in Requests \ {u} : pc'[r] = pc[r]
    BY <1>1, StepFrame
  <2>2. ASSUME NEW r \in Requests, pc'[r] \in {"walk", "serve"}
        PROVE  want[r].file \in Files /\ Filled(want[r].file)'
    <3>1. CASE pc[r] \in {"walk", "serve"}
      <4>1. want[r].file \in Files /\ Filled(want[r].file)
        BY <3>1 DEF TypeOK, Answers, WalkInv
      <4>2. \A f \in Files : Filled(f) => Filled(f)'
        BY <1>1, CacheStep
      <4> QED BY <2>1, <4>1, <4>2 DEF Filled
    <3>2. CASE pc[r] \notin {"walk", "serve"}
      <4>1. r = u
        BY <2>1, <2>2, <3>2
      <4>2. CacheHit(u) \/ Thumbnail(u) \/ WriteRest(u)
        BY <1>1, <2>2, <3>2, <4>1
        DEF Step, Proceed, Refuse, LockFileFails, Lock, LockFails, CacheMiss, GetMapping, LoadFails, OpenOrig,
            WriteSome, WriteFails, Walk, Serve, Goto, Leave, TypeOK
      <4>3. want[u].file \in Files
        BY <4>2 DEF CacheHit, Thumbnail, WriteRest, TypeOK, Answers
      <4>4. Filled(want[u].file)'
        <5>1. CASE CacheHit(u)
          BY <5>1 DEF CacheHit, Filled
        <5>2. CASE Thumbnail(u)
          BY <2>2, <4>1, <5>2 DEF Thumbnail, OpenSize, Filled, PhaseInv, Goto, Leave, TypeOK
        <5>3. CASE WriteRest(u)
          BY <2>2, <4>1, <4>3, <5>3
          DEF WriteRest, Filled, PhaseInv, Goto, Leave, TypeOK, Target, WritesOrig, WritesDst
        <5> QED BY <4>2, <5>1, <5>2, <5>3
      <4> QED BY <4>1, <4>3, <4>4
    <3> QED BY <3>1, <3>2
  <2>3. ASSUME NEW r \in Requests, pc'[r] \in {"walk", "serve"},
               NEW w \in Requests, pc'[w] \in Writing
        PROVE  Target(w)' # want[r].file
    <3>1. CASE pc[w] \in Writing /\ pc[r] \in {"walk", "serve"}
      <4>1. Target(w)' = Target(w)
        BY <1>1, <2>1, <2>3, <3>1
        DEF Target, Writing, WritesOrig, WritesDst, Step, Proceed, Refuse, LockFileFails, Lock, LockFails, CacheHit,
            CacheMiss, GetMapping, LoadFails, OpenOrig, Thumbnail, OpenSize, WriteSome, WriteRest,
            WriteFails, Walk, Serve, Goto, Leave, TypeOK
      <4> QED BY <3>1, <4>1 DEF WalkInv
    <3>2. CASE pc[w] \in Writing /\ pc[r] \notin {"walk", "serve"}
      <4>1. r = u
        BY <2>1, <2>3, <3>2
      <4>2. pc[u] \in Critical
        BY <1>1, <2>3, <3>2, <4>1
        DEF Step, Proceed, Refuse, LockFileFails, Lock, LockFails, CacheHit, CacheMiss, GetMapping, LoadFails,
            OpenOrig, Thumbnail, OpenSize, WriteSome, WriteRest, WriteFails, Walk, Serve, Goto, Leave,
            TypeOK, Critical, WritesOrig, WritesDst
      <4>3. w = u
        BY <3>2, <4>2, Alone DEF Writing, Critical
      <4> QED BY <2>3, <4>1, <4>3 DEF Writing, WritesOrig, WritesDst
    <3>3. CASE pc[w] \notin Writing
      <4>1. w = u /\ r # u /\ pc[r] \in {"walk", "serve"}
        BY <2>1, <2>3, <3>3 DEF Writing, WritesOrig, WritesDst
      <4>2. Filled(want[r].file)
        BY <4>1 DEF WalkInv
      <4>3. CASE OpenOrig(u)
        <5>1. Target(u)' = Orig /\ ~Filled(Orig)
          BY <4>3 DEF OpenOrig, Goto, Target, WritesOrig, PhaseInv, TypeOK
        <5> QED BY <4>1, <4>2, <5>1
      <4>4. CASE Thumbnail(u)
        <5>1. Target(u)' = want[u].file /\ ~Filled(want[u].file)
          BY <2>3, <4>1, <4>4
          DEF Thumbnail, OpenSize, Goto, Leave, Target, Writing, WritesOrig, WritesDst, TypeOK
        <5> QED BY <4>1, <4>2, <5>1
      <4> QED
        BY <1>1, <2>3, <3>3, <4>1, <4>3, <4>4
        DEF Step, Proceed, Refuse, LockFileFails, Lock, LockFails, CacheHit, CacheMiss, GetMapping, LoadFails,
            WriteSome, WriteRest, WriteFails, Walk, Serve, Goto, Leave, TypeOK,
            Writing, WritesOrig, WritesDst
    <3> QED BY <3>1, <3>2, <3>3
  <2> QED BY <2>1, <2>2, <2>3 DEF WalkInv
<1>2. ASSUME NEW dying \in SUBSET Requests, Crash(dying) PROVE WalkInv'
  <2>1. /\ want' = want /\ cache' = cache
        /\ \A r \in Requests : pc'[r] = "dead" \/ pc'[r] = pc[r]
    BY <1>2 DEF Crash, TypeOK
  <2> QED BY <2>1 DEF WalkInv, Filled, Target, Writing, WritesOrig, WritesDst
<1>3. CASE UNCHANGED <<pc, want, cache>>
  BY <1>3 DEF WalkInv, Filled, Target
<1> QED BY <1>1, <1>2, <1>3 DEF Next, Unmap, Terminating, vars

\* The inductive invariant, for any number of requests and sizes.
THEOREM Invariance ==
  ASSUME "lock" \notin Faults
  PROVE  Spec => []IInv
<1>1. IInv /\ [Next]_vars => IInv'
  BY TypeStep, LockStep, PhaseStep, WalkStep DEF IInv
<1> QED BY <1>1, InitIInv, PTL DEF Spec

\* A complete file is neither truncated nor made again, so the engine is asked once.
THEOREM WholeFilesStay ==
  ASSUME "lock" \notin Faults
  PROVE  Spec => WholeStaysWhole
<1>1. IInv /\ [Next]_vars => [\A f \in Files : cache[f] = "whole" => cache'[f] = "whole"]_vars
  <2> SUFFICES ASSUME IInv, Next, NEW f \in Files, cache[f] = "whole"
               PROVE  cache'[f] = "whole"
    OBVIOUS
  <2>1. ASSUME NEW u \in Requests, Step(u) PROVE cache'[f] = "whole"
    BY <2>1, CacheStep
  <2> QED BY <2>1 DEF Next, Unmap, Crash, Terminating, vars
<1> QED BY <1>1, Invariance, PTL DEF Spec, WholeStaysWhole

\* Nobody writes the file a client is being sent, although it is read unlocked.
THEOREM ServedFilesAreStable ==
  ASSUME "lock" \notin Faults
  PROVE  Spec => ServedIsStable
<1>1. IInv /\ [Next]_vars =>
        [\A r \in Requests : pc[r] = "serve" => cache'[want[r].file] = cache[want[r].file]]_vars
  <2> SUFFICES ASSUME IInv, Next, NEW r \in Requests, pc[r] = "serve"
               PROVE  cache'[want[r].file] = cache[want[r].file]
    OBVIOUS
  <2>1. /\ want[r].file \in Files /\ Filled(want[r].file)
        /\ \A w \in Requests : pc[w] \in Writing => Target(w) # want[r].file
    BY DEF IInv, TypeOK, WalkInv, Answers
  <2>2. ASSUME NEW u \in Requests, Step(u)
        PROVE  cache'[want[r].file] = cache[want[r].file]
    <3>1. \A f \in Files : cache'[f] # cache[f] =>
            ~Filled(f) \/ (pc[u] \in Writing /\ Target(u) = f)
      BY <2>2, CacheStep
    <3> QED BY <2>1, <3>1
  <2> QED BY <2>2 DEF Next, Unmap, Crash, Terminating, vars
<1> QED BY <1>1, Invariance, PTL DEF Spec, ServedIsStable

-----------------------------------------------------------------------------
\* A file that is not finished is being written, or its writer was stopped.
UnfinishedInv ==
    \A f \in Files : cache[f] \in {"empty", "part"} =>
        f \in torn \/ \E w \in Requests : pc[w] \in Writing /\ Target(w) = f

LEMMA UnfinishedStep ==
  ASSUME "lock" \notin Faults, IInv, UnfinishedInv, [Next]_vars
  PROVE  UnfinishedInv'
<1> USE DEF IInv
<1>1. ASSUME NEW u \in Requests, Step(u) PROVE UnfinishedInv'
  <2>1. /\ want' = want
        /\ \A r \in Requests \ {u} : pc'[r] = pc[r]
    BY <1>1, StepFrame
  <2>2. torn \subseteq torn'
    BY <1>1
    DEF Step, Proceed, Refuse, LockFileFails, Lock, LockFails, CacheHit, CacheMiss, GetMapping, LoadFails,
        OpenOrig, Thumbnail, OpenSize, WriteSome, WriteRest, WriteFails, Walk, Serve
  <2>3. SUFFICES ASSUME NEW f \in Files, cache'[f] \in {"empty", "part"}, f \notin torn'
                 PROVE  \E w \in Requests : pc'[w] \in Writing /\ Target(w)' = f
    BY DEF UnfinishedInv
  <2>4. CASE OpenOrig(u)
    <3>1. pc'[u] \in Writing /\ Target(u)' = Orig
      BY <2>4 DEF OpenOrig, Goto, Writing, WritesOrig, Target, TypeOK
    <3>2. CASE f = Orig
      BY <3>1, <3>2
    <3>3. CASE f # Orig
      <4>1. PICK w \in Requests : pc[w] \in Writing /\ Target(w) = f
        BY <2>2, <2>3, <2>4, <3>3 DEF OpenOrig, UnfinishedInv, TypeOK
      <4>2. w = u
        BY <2>4, <4>1, Alone DEF OpenOrig, Writing, Critical
      <4> QED BY <2>4, <4>1, <4>2 DEF OpenOrig, Writing, WritesOrig, WritesDst
    <3> QED BY <3>2, <3>3
  <2>5. CASE Thumbnail(u)
    <3>1. \A w \in Requests : pc[w] \notin Writing
      BY <2>5, Alone DEF Thumbnail, OpenSize, Writing, Critical, WritesOrig, WritesDst
    <3>2. cache[f] \notin {"empty", "part"}
      BY <2>2, <2>3, <3>1 DEF UnfinishedInv
    <3>3. f = want[u].file /\ pc'[u] = "writeDst"
      BY <2>3, <2>5, <3>2 DEF Thumbnail, OpenSize, Goto, TypeOK
    <3> QED BY <2>1, <3>3 DEF Writing, WritesDst, Target, WritesOrig
  <2>6. CASE WriteSome(u) \/ WriteRest(u)
    <3>1. pc[u] \in Writing /\ pc[u] \in Critical
      BY <2>6 DEF WriteSome, WriteRest, Writing, WritesOrig, WritesDst, Critical
    <3>2. \A w \in Requests : pc[w] \in Writing => w = u
      BY <3>1, Alone DEF Writing, Critical
    <3>3. Target(u) \in Files
      BY <3>1 DEF Target, TypeOK, Files, Answers, Writing, WritesOrig, WritesDst
    <3>4. CASE f = Target(u)
      <4>1. WriteSome(u)
        BY <2>3, <2>6, <3>4 DEF WriteRest, TypeOK
      <4>2. pc'[u] \in Writing /\ Target(u)' = Target(u)
        BY <2>1, <4>1 DEF WriteSome, Goto, Writing, WritesOrig, WritesDst, Target, TypeOK
      <4> QED BY <3>4, <4>2
    <3>5. CASE f # Target(u)
      <4>1. cache[f] \in {"empty", "part"}
        BY <2>3, <2>6, <3>5 DEF WriteSome, WriteRest, TypeOK
      <4> QED BY <2>2, <2>3, <3>2, <3>5, <4>1 DEF UnfinishedInv
    <3> QED BY <3>4, <3>5
  <2>7. CASE WriteFails(u)
    <3>1. cache' = cache /\ (pc[u] \in Writing => Target(u) \in torn')
      BY <2>7 DEF WriteFails, Unfinished, Writing
    <3>2. PICK w \in Requests : pc[w] \in Writing /\ Target(w) = f
      BY <2>2, <2>3, <3>1 DEF UnfinishedInv
    <3>3. w # u /\ pc'[w] = pc[w]
      BY <2>1, <2>3, <3>1, <3>2
    <3> QED BY <2>1, <3>2, <3>3 DEF Target
  <2>8. CASE pc[u] \notin Writing /\ cache' = cache
    <3>1. PICK w \in Requests : pc[w] \in Writing /\ Target(w) = f
      BY <2>2, <2>3, <2>8 DEF UnfinishedInv
    <3>2. pc'[w] = pc[w]
      BY <2>1, <2>8, <3>1
    <3> QED BY <2>1, <3>1, <3>2 DEF Target
  <2> QED
    BY <1>1, <2>4, <2>5, <2>6, <2>7, <2>8
    DEF Step, Proceed, Refuse, LockFileFails, Lock, LockFails, CacheHit, CacheMiss, GetMapping, LoadFails,
        Walk, Serve, Writing, WritesOrig, WritesDst
<1>2. ASSUME NEW dying \in SUBSET Requests, Crash(dying) PROVE UnfinishedInv'
  <2>1. /\ cache' = cache /\ want' = want /\ torn \subseteq torn'
        /\ \A r \in Requests : pc'[r] = IF r \in dying /\ pc[r] \notin Answers THEN "dead" ELSE pc[r]
    BY <1>2 DEF Crash
  <2>2. \A r \in dying : pc[r] \in Writing => Target(r) \in torn'
    BY <1>2 DEF Crash, Unfinished, Writing
  <2>3. ASSUME NEW f \in Files, cache'[f] \in {"empty", "part"}, f \notin torn'
        PROVE  \E w \in Requests : pc'[w] \in Writing /\ Target(w)' = f
    <3>1. PICK w \in Requests : pc[w] \in Writing /\ Target(w) = f
      BY <2>1, <2>3 DEF UnfinishedInv
    <3>2. pc'[w] = pc[w]
      BY <2>1, <2>2, <2>3, <3>1
    <3> QED BY <2>1, <3>1, <3>2 DEF Target
  <2> QED BY <2>3 DEF UnfinishedInv
<1>3. CASE UNCHANGED <<pc, want, cache, torn>>
  BY <1>3 DEF UnfinishedInv, Target
<1> QED BY <1>1, <1>2, <1>3 DEF Next, Unmap, Terminating, vars

LEMMA UnfinishedInvariance ==
  ASSUME "lock" \notin Faults
  PROVE  Spec => []UnfinishedInv
<1>1. Init => UnfinishedInv
  BY DEF Init, UnfinishedInv
<1>2. IInv /\ UnfinishedInv /\ [Next]_vars => UnfinishedInv'
  BY UnfinishedStep
<1> QED BY <1>1, <1>2, Invariance, PTL DEF Spec

\* Who makes a size found nobody writing the original; and while it does, nobody is.
LEMMA SourceStep ==
  ASSUME "lock" \notin Faults, IInv, UnfinishedInv, SourceIsWhole, [Next]_vars
  PROVE  SourceIsWhole'
<1> USE DEF IInv
<1>1. torn \subseteq torn'
  BY DEF Next, Step, Proceed, Refuse, LockFileFails, Lock, LockFails, CacheHit, CacheMiss,
         GetMapping, LoadFails, OpenOrig, Thumbnail, OpenSize, WriteSome, WriteRest,
         WriteFails, Walk, Serve, Unmap, Crash, Terminating, vars
<1>2. Orig \in Files
  BY DEF Files
<1>3. SUFFICES ASSUME NEW r \in Requests, pc'[r] \in WritesDst
               PROVE  cache'[Orig] = "whole" \/ Orig \in torn
  BY <1>1 DEF SourceIsWhole
<1>4. ASSUME NEW u \in Requests, Step(u)
      PROVE  cache'[Orig] = "whole" \/ Orig \in torn
  <2>1. CASE pc[r] \in WritesDst
    <3>1. cache[Orig] = "whole" \/ Orig \in torn
      BY <2>1 DEF SourceIsWhole
    <3> QED BY <1>2, <1>4, <3>1, CacheStep
  <2>2. CASE pc[r] \notin WritesDst
    <3>1. r = u
      BY <1>3, <1>4, <2>2, StepFrame
    <3>2. Thumbnail(u) /\ want[u].file # Orig /\ pc[u] = "thumb"
      BY <1>3, <1>4, <2>2, <3>1
      DEF Step, Proceed, Refuse, LockFileFails, Lock, LockFails, CacheHit, CacheMiss,
          GetMapping, LoadFails, OpenOrig, Thumbnail, OpenSize, WriteSome, WriteRest,
          WriteFails, Walk, Serve, Goto, Leave, TypeOK, WritesDst
    <3>3. cache'[Orig] = cache[Orig]
      BY <1>2, <3>2 DEF Thumbnail, OpenSize, TypeOK
    <3>4. \A w \in Requests : pc[w] \notin Writing
      BY <3>2, Alone DEF Writing, Critical, WritesOrig, WritesDst
    <3>5. cache[Orig] \in {"part", "whole"}
      BY <3>2 DEF PhaseInv, Filled
    <3>6. cache[Orig] = "whole" \/ Orig \in torn
      BY <1>2, <3>4, <3>5 DEF UnfinishedInv
    <3> QED BY <3>3, <3>6
  <2> QED BY <2>1, <2>2
<1>5. CASE UNCHANGED cache /\ (pc'[r] = pc[r] \/ pc'[r] = "dead")
  BY <1>3, <1>5 DEF SourceIsWhole, WritesDst
<1>6. ASSUME NEW dying \in SUBSET Requests, Crash(dying)
      PROVE  UNCHANGED cache /\ (pc'[r] = pc[r] \/ pc'[r] = "dead")
  BY <1>6 DEF Crash
<1> QED BY <1>4, <1>5, <1>6 DEF Next, Unmap, Terminating, vars

\* No size is made of an original that is being written: the original is whole, or
\* its writer failed or died.
THEOREM SourcesAreWhole ==
  ASSUME "lock" \notin Faults
  PROVE  Spec => []SourceIsWhole
<1>1. Init => SourceIsWhole
  BY DEF Init, SourceIsWhole, WritesDst
<1>2. IInv /\ UnfinishedInv /\ SourceIsWhole /\ [Next]_vars => SourceIsWhole'
  BY SourceStep
<1> QED BY <1>1, <1>2, Invariance, UnfinishedInvariance, PTL DEF Spec

\* A client is sent a whole file, unless the writer of that file or of its original
\* failed or died.
THEOREM ServedFilesAreWhole ==
  ASSUME "lock" \notin Faults
  PROVE  Spec => []ServedIsWhole
<1>1. IInv /\ UnfinishedInv => ServedIsWhole
  <2> SUFFICES ASSUME IInv, UnfinishedInv, NEW r \in Requests, pc[r] = "serve"
               PROVE  cache[want[r].file] = "whole" \/ want[r].file \in torn
    BY DEF ServedIsWhole
  <2>1. /\ want[r].file \in Files /\ Filled(want[r].file)
        /\ \A w \in Requests : pc[w] \in Writing => Target(w) # want[r].file
    BY DEF IInv, TypeOK, WalkInv, Answers
  <2> QED BY <2>1 DEF UnfinishedInv, Filled
<1> QED BY <1>1, Invariance, UnfinishedInvariance, PTL
=============================================================================
