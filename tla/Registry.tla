------------------------------ MODULE Registry ------------------------------
(***************************************************************************)
(* What the image store promises to whoever holds the id of an image: the  *)
(* id starts to be served at one instant, serves one content as long as it *)
(* is served at all, and once withdrawn is never served again.             *)
(***************************************************************************)
CONSTANTS Ids, Contents

VARIABLES
    served,     \* [id, content] of every image a GET can load
    spent       \* ids that are or have been served

Init == served = {} /\ spent = {}

Publish(id, content) ==
    /\ id \notin spent
    /\ spent' = spent \cup {id}
    /\ served' = served \cup {[id |-> id, content |-> content]}

Withdraw(id) ==
    /\ served' = {s \in served : s.id # id}
    /\ UNCHANGED spent

Next == \E id \in Ids : Withdraw(id) \/ \E c \in Contents : Publish(id, c)

Spec == Init /\ [][Next]_<<served, spent>>
=============================================================================
