------------------------------ MODULE MCUpload ------------------------------
(* Instances of Upload for TLC. *)
EXTENDS UploadInv, TLC

CONSTANTS r1, r2, i1, i2, i3, u1, u2, u3, raw, jpg, tiny

\* raw is stored as jpg; jpg, uploaded again, is stored as tiny, which stays.
MCRecode == (raw :> jpg) @@ (jpg :> tiny) @@ (tiny :> tiny)

\* Uploads and ids are interchangeable: nothing orders them.
MCSymmetry == Permutations(Uploads) \cup Permutations(Ids)
=============================================================================
