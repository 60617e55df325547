----------------------------- MODULE MCLibrary ------------------------------
(* An instance of Library for TLC. *)
EXTENDS Library, TLC

CONSTANTS a, b, c1, c2, c3

\* Two calls add different tags to one row, a third takes one of them away.
MCOp == (c1 :> "map") @@ (c2 :> "map") @@ (c3 :> "unmap")
MCTarget == (c1 :> 1) @@ (c2 :> 1) @@ (c3 :> 1)
MCList == (c1 :> {a}) @@ (c2 :> {a, b}) @@ (c3 :> {a})
MCUploaded == (1 :> {}) @@ (2 :> {a}) @@ (3 :> {a}) @@ (4 :> {})

\* Exports by pages of one and two rows (and of none), from the start, from before it
\* and from the second row; lists of every order, with and without a filter; the view
\* command with values that Browse corrects.
MCWalks ==
    [kind : {"export"}, limit : {0, 1, 2}, skip : {-1, 0, 1}, sort : {"desc"}, filter : {{}}]
    \cup [kind : {"browse"}, limit : {1, 2}, skip : {0, 1},
          sort : {"asc", "desc", "none"}, filter : {{}, {a}}]
    \cup [kind : {"browse"}, limit : {0}, skip : {-1}, sort : {"desc"}, filter : {{}}]
=============================================================================
