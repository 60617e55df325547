------------------------------ MODULE MCIntake ------------------------------
(* An instance of Intake for TLC. *)
EXTENDS Intake, TLC

CONSTANTS r1, r2, p, b1, b2, x, y, big, j1, j2

\* r1 has the local root, with and without a prefix, then a bucket; r2 a bucket
\* of its own, the bucket of all roofs, an engine that is not there, and none.
MCConfigs ==
    {[engine |-> (r1 :> "file") @@ (r2 :> "s3"), prefix |-> (r1 :> None) @@ (r2 :> p),
      bucket |-> (r1 :> None) @@ (r2 :> b1), dft |-> b2],
     [engine |-> (r1 :> "file") @@ (r2 :> "unknown"), prefix |-> (r1 :> p) @@ (r2 :> None),
      bucket |-> (r1 :> None) @@ (r2 :> b1), dft |-> None],
     [engine |-> (r1 :> "s3") @@ (r2 :> None), prefix |-> (r1 :> p) @@ (r2 :> None),
      bucket |-> (r1 :> None) @@ (r2 :> None), dft |-> b2]}

Number(d, v) == [digits |-> d, value |-> v]
Square(m, n) == [mode |-> m, width |-> n, height |-> n, square |-> TRUE, mop |-> FALSE]

\* One size that parses and one that does not.
MCRequests ==
    {[front |-> "web", roof |-> r1, size |-> NoSize, files |-> <<x, y>>],
     [front |-> "web", roof |-> r1, size |-> NoSize, files |-> <<>>],
     [front |-> "zip", roof |-> r1, size |-> NoSize, files |-> <<big, y>>],
     [front |-> "args", roof |-> r2, size |-> NoSize, files |-> <<x>>],
     [front |-> "cmd", roof |-> r2, size |-> NoSize, files |-> <<big>>],
     [front |-> "rpc", roof |-> r1, size |-> Square("s", Number(3, 120)), files |-> <<x>>],
     [front |-> "fetch", roof |-> r2, size |-> Square("w", Number(5, 12345)), files |-> <<y>>]}
=============================================================================
