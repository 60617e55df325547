------------------------------- MODULE Stage -------------------------------
(***************************************************************************)
(* The image cache: GETs of StageHandler (and rpcImage.Fetch) that call    *)
(* storage.LoadPath, which makes a thumbnail of one image under the file   *)
(* lock of its original (storage/thumbs/thumber.go).                       *)
(*                                                                         *)
(* The lock file is named after the original, so images do not interact:   *)
(* the module is about one image, its original and its sizes.  Requests    *)
(* may run in several processes that share the cache directory; flock      *)
(* excludes them all, and is released when a process dies.                 *)
(***************************************************************************)
CONSTANTS
    Requests,   \* GETs
    Sizes,      \* the size operations asked for: a file each
    Orig,       \* the file of the original
    Bad,        \* a path, a size or a watermark size that is refused
    Nobody,     \* the holder of a free lock
    Faults      \* the failures the environment may inject, from FaultKinds

FaultKinds ==
    { "engine",     \* the query of GetMapping or the engine's Get fails
      "disk",       \* a file cannot be created, or is not written to its end
      "lock",       \* flock fails; prepare does not look at its error
      "crash" }     \* a server process dies

ASSUME StageAssumption ==
    /\ Orig \notin Sizes
    /\ Bad \notin Sizes \cup {Orig}
    /\ Nobody \notin Requests
    /\ Faults \subseteq FaultKinds

VARIABLES
    pc,         \* what the request does next, or its answer
    want,       \* the file it asks for, and whether the path carries a mop letter
    holder,     \* who holds the file lock
    cache,      \* the state of each file under the cache root
    mapped,     \* whether mapping_xx has the image
    torn        \* ghost: files whose writer failed or died, and sizes made of an
                \* original that was not whole

vars == <<pc, want, holder, cache, mapped, torn>>

Files == Sizes \cup {Orig}
WritesOrig == {"writeOrig", "endOrig"}
WritesDst == {"writeDst", "endDst"}
Critical == {"check", "load", "open", "thumb"} \cup WritesOrig \cup WritesDst
Answers == {"done", "failed", "dead"}

TypeOK ==
    /\ pc \in [Requests -> {"parse", "walk", "serve"} \cup Critical \cup Answers]
    /\ want \in [Requests -> [file: Files \cup {Bad}, mop: BOOLEAN]]
    /\ \A r \in Requests : pc[r] \notin {"parse"} \cup Answers => want[r].file # Bad
    /\ holder \in Requests \cup {Nobody}
    /\ cache \in [Files -> {"none", "empty", "part", "whole"}]
    /\ mapped \in BOOLEAN
    /\ torn \subseteq Files

\* The original may be in the cache from its upload, or from nowhere yet.
Init ==
    /\ pc = [r \in Requests |-> "parse"]
    /\ want \in [Requests -> [file: Files \cup {Bad}, mop: BOOLEAN]]
    /\ holder = Nobody
    /\ \E state \in {"none", "whole"} :
          cache = [f \in Files |-> IF f = Orig THEN state ELSE "none"]
    /\ mapped = TRUE
    /\ torn = {}

\* os.Stat succeeds with a size above zero.
Filled(f) == cache[f] \in {"part", "whole"}

\* The file a request that writes is writing.
Target(r) == IF pc[r] \in WritesOrig THEN Orig ELSE want[r].file

\* The files that the given requests are writing.
Unfinished(rs) == {Target(r) : r \in {q \in rs : pc[q] \in WritesOrig \cup WritesDst}}

Goto(r, label) == pc' = [pc EXCEPT ![r] = label]

\* The deferred Unlock of prepare, and what follows it.
Leave(r, label) ==
    /\ holder' = IF holder = r THEN Nobody ELSE holder
    /\ Goto(r, label)

-----------------------------------------------------------------------------
\* ParseFromPath and the size checks come before the lock.
Refuse(r) ==
    /\ pc[r] = "parse"
    /\ want[r].file = Bad
    /\ Goto(r, "failed")
    /\ UNCHANGED <<want, holder, cache, mapped, torn>>

\* ReadyDir or NewFLock fails.
LockFileFails(r) ==
    /\ pc[r] = "parse"
    /\ "disk" \in Faults
    /\ Goto(r, "failed")
    /\ UNCHANGED <<want, holder, cache, mapped, torn>>

\* Mutant of Lock: flock(LOCK_SH).
LockShared(r) ==
    /\ pc[r] = "parse"
    /\ want[r].file # Bad
    /\ holder' = r
    /\ Goto(r, "check")
    /\ UNCHANGED <<want, cache, mapped, torn>>

\* Mutant of Lock: a refused size is not noticed.
LockUnchecked(r) ==
    /\ pc[r] = "parse"
    /\ holder = Nobody
    /\ holder' = r
    /\ Goto(r, "check")
    /\ UNCHANGED <<want, cache, mapped, torn>>

Lock(r) ==
    /\ pc[r] = "parse"
    /\ want[r].file # Bad
    /\ holder = Nobody
    /\ holder' = r
    /\ Goto(r, "check")
    /\ UNCHANGED <<want, cache, mapped, torn>>

\* prepare calls Lock and goes on whatever it returns.
LockFails(r) ==
    /\ pc[r] = "parse"
    /\ want[r].file # Bad
    /\ "lock" \in Faults
    /\ Goto(r, "check")
    /\ UNCHANGED <<want, holder, cache, mapped, torn>>

CacheHit(r) ==
    /\ pc[r] = "check"
    /\ ~want[r].mop
    /\ Filled(want[r].file)
    /\ Leave(r, "walk")
    /\ UNCHANGED <<want, cache, mapped, torn>>

\* Mutant of CacheMiss: the lock is not held while the original is loaded.
CacheMissUnlocks(r) ==
    /\ pc[r] = "check"
    /\ want[r].mop \/ ~Filled(want[r].file)
    /\ Leave(r, IF Filled(Orig) THEN "thumb" ELSE "load")
    /\ UNCHANGED <<want, cache, mapped, torn>>

\* Mutant of CacheMiss: the original is loaded whether it is there or not.
CacheMissReloads(r) ==
    /\ pc[r] = "check"
    /\ want[r].mop \/ ~Filled(want[r].file)
    /\ Goto(r, "load")
    /\ UNCHANGED <<want, holder, cache, mapped, torn>>

CacheMiss(r) ==
    /\ pc[r] = "check"
    /\ want[r].mop \/ ~Filled(want[r].file)
    /\ Goto(r, IF Filled(Orig) THEN "thumb" ELSE "load")
    /\ UNCHANGED <<want, holder, cache, mapped, torn>>

\* The loader of LoadPath: GetMapping, pullWith, SaveFile.
GetMapping(r) ==
    /\ pc[r] = "load"
    /\ mapped
    /\ Goto(r, "open")
    /\ UNCHANGED <<want, holder, cache, mapped, torn>>

LoadFails(r) ==
    /\ \/ pc[r] = "load" /\ ~mapped
       \/ pc[r] \in {"load", "open"} /\ "engine" \in Faults
    /\ Leave(r, "failed")
    /\ UNCHANGED <<want, cache, mapped, torn>>

\* The blob is in memory; WriteFile opens the original with O_TRUNC.
OpenOrig(r) ==
    /\ pc[r] = "open"
    /\ cache' = [cache EXCEPT ![Orig] = "empty"]
    /\ Goto(r, "writeOrig")
    /\ UNCHANGED <<want, holder, mapped, torn>>

\* ThumbnailFile opens the size and writes it; of a part of an original it makes
\* what it can.
OpenSize(r) ==
    /\ cache' = [cache EXCEPT ![want[r].file] = "empty"]
    /\ torn' = IF cache[Orig] = "whole" THEN torn ELSE torn \cup {want[r].file}
    /\ Goto(r, "writeDst")
    /\ UNCHANGED holder

\* Mutant of Thumbnail: the size of the file is not looked at a second time.
ThumbnailAlways(r) ==
    /\ pc[r] = "thumb"
    /\ \/ /\ want[r].file = Orig
          /\ Leave(r, "walk")
          /\ UNCHANGED <<cache, torn>>
       \/ /\ want[r].file # Orig /\ cache[Orig] # "whole"
          /\ Leave(r, "failed")
          /\ UNCHANGED <<cache, torn>>
       \/ want[r].file # Orig /\ OpenSize(r)
    /\ UNCHANGED <<want, mapped>>

\* Nothing to do for the original or for a file that is there.  Otherwise
\* imagi.ThumbnailFile decodes the original, which nobody looks at before: when it
\* is not whole, decoding may fail or not.
Thumbnail(r) ==
    /\ pc[r] = "thumb"
    /\ \/ /\ want[r].file = Orig \/ Filled(want[r].file)
          /\ Leave(r, "walk")
          /\ UNCHANGED <<cache, torn>>
       \/ /\ want[r].file # Orig /\ ~Filled(want[r].file) /\ cache[Orig] # "whole"
          /\ Leave(r, "failed")
          /\ UNCHANGED <<cache, torn>>
       \/ want[r].file # Orig /\ ~Filled(want[r].file) /\ OpenSize(r)
    /\ UNCHANGED <<want, mapped>>

\* A file is written in place: for a while it holds a part of its bytes.
WriteSome(r) ==
    /\ pc[r] \in {"writeOrig", "writeDst"}
    /\ cache' = [cache EXCEPT ![Target(r)] = "part"]
    /\ Goto(r, IF pc[r] = "writeOrig" THEN "endOrig" ELSE "endDst")
    /\ UNCHANGED <<want, holder, mapped, torn>>

WriteRest(r) ==
    /\ \/ pc[r] = "endOrig" /\ Goto(r, "thumb") /\ UNCHANGED holder
       \/ pc[r] = "endDst" /\ Leave(r, "walk")
    /\ cache' = [cache EXCEPT ![Target(r)] = "whole"]
    /\ UNCHANGED <<want, mapped, torn>>

\* Mutant of WriteFails: the error return comes before the deferred Unlock.
WriteFailsLocked(r) ==
    /\ pc[r] \in {"open"} \cup WritesOrig \cup WritesDst
    /\ "disk" \in Faults
    /\ Goto(r, "failed")
    /\ torn' = torn \cup Unfinished({r})
    /\ UNCHANGED <<want, holder, cache, mapped>>

\* The error is returned; what was written stays.
WriteFails(r) ==
    /\ pc[r] \in {"open"} \cup WritesOrig \cup WritesDst
    /\ "disk" \in Faults
    /\ Leave(r, "failed")
    /\ torn' = torn \cup Unfinished({r})
    /\ UNCHANGED <<want, cache, mapped>>

\* Walk opens the file after the lock was released.
Walk(r) ==
    /\ pc[r] = "walk"
    /\ \/ cache[want[r].file] # "none" /\ Goto(r, "serve")
       \/ "disk" \in Faults /\ Goto(r, "failed")
    /\ UNCHANGED <<want, holder, cache, mapped, torn>>

\* The walk function has sent the file to its end.
Serve(r) ==
    /\ pc[r] = "serve"
    /\ Goto(r, "done")
    /\ UNCHANGED <<want, holder, cache, mapped, torn>>

\* What a request does by itself: it waits for the lock, not for a failure.
Proceed(r) ==
    \/ Refuse(r) \/ Lock(r) \/ CacheHit(r) \/ CacheMiss(r)
    \/ GetMapping(r) \/ LoadFails(r) \/ OpenOrig(r) \/ Thumbnail(r)
    \/ WriteSome(r) \/ WriteRest(r) \/ Walk(r) \/ Serve(r)

Step(r) == Proceed(r) \/ LockFileFails(r) \/ LockFails(r) \/ WriteFails(r)

\* entry_delete removes the mapping; the blob and the cached files stay.
Unmap ==
    /\ mapped
    /\ mapped' = FALSE
    /\ UNCHANGED <<pc, want, holder, cache, torn>>

\* A process dies with the requests it runs; their files stay, the lock is freed.
Crash(dying) ==
    /\ "crash" \in Faults
    /\ \E r \in dying : pc[r] \notin Answers
    /\ pc' = [r \in Requests |->
                IF r \in dying /\ pc[r] \notin Answers THEN "dead" ELSE pc[r]]
    /\ holder' = IF holder \in dying THEN Nobody ELSE holder
    /\ torn' = torn \cup Unfinished(dying)
    /\ UNCHANGED <<want, cache, mapped>>

Terminating ==
    /\ \A r \in Requests : pc[r] \in Answers
    /\ UNCHANGED vars

Next ==
    \/ \E r \in Requests : Step(r)
    \/ Unmap
    \/ \E dying \in SUBSET Requests : Crash(dying)
    \/ Terminating

Spec == Init /\ [][Next]_vars

\* Request goroutines are scheduled and the calls they make return; flock returns
\* when the lock is free.
FairSpec == Spec /\ \A r \in Requests : WF_vars(Proceed(r))

-----------------------------------------------------------------------------
\* prepare: a client is sent a whole file, never one that is still being written,
\* unless the writer of that very file failed or died, or it is a size that was
\* made of such an original: either has a size above zero, so it passes for the
\* file from then on.  Needs a working flock.
ServedIsWhole ==
    \A r \in Requests : pc[r] = "serve" =>
        cache[want[r].file] = "whole" \/ want[r].file \in torn

\* Walk reads without the lock: still, nobody writes the file a client is being
\* sent.  Needs a working flock.
ServedIsStable ==
    [][\A r \in Requests :
          pc[r] = "serve" => cache'[want[r].file] = cache[want[r].file]]_vars

\* ThumbnailFile reads the original without a copy and nobody checks it: still, no
\* size is made of an original that is being written or that is truncated under
\* it, by any request.  Only an original whose writer failed or died is in part,
\* and is taken for whole.  Needs a working flock.
SourceIsWhole ==
    \A r \in Requests : pc[r] \in WritesDst => cache[Orig] = "whole" \/ Orig \in torn

\* The deferred Unlock of prepare: the lock is never left with a request that was
\* answered, failed or died, nor with one that is sending a file.  It holds when
\* flock fails, too: who never had the lock does not free that of another.
HolderIsInPrepare == holder # Nobody => pc[holder] \in Critical

\* The engine is asked once: a complete file is never truncated or made again.
WholeStaysWhole ==
    [][\A f \in Files : cache[f] = "whole" => cache'[f] = "whole"]_vars

\* Every GET is answered: the file lock is always passed on, also by a request
\* that fails or dies.
GetAnswered == \A r \in Requests : <>(pc[r] \in Answers)
=============================================================================
