-------------------------------- MODULE Pool --------------------------------
(***************************************************************************)
(* Database access: the package variable dbc, the pool of connections every*)
(* query of a process goes through, and the reaper that pings it.  A ping  *)
(* that fails opens another pool and never closes the one it replaces; a   *)
(* transaction begun before keeps its connection in the old one.           *)
(***************************************************************************)
EXTENDS Integers

CONSTANTS
    MaxOutages,     \* bound: how often the database goes away
    MaxPools        \* bound: how many pools the reaper opens

ASSUME PoolAssumption == MaxOutages \in Nat /\ MaxPools \in Nat \ {0}

VARIABLES
    up,             \* the database answers
    outages,        \* how often it went away
    pools           \* pools opened so far, the last of them is dbc

poolVars == <<up, outages, pools>>

PoolTypeOK ==
    /\ up \in BOOLEAN
    /\ outages \in 0 .. MaxOutages
    /\ pools \in 1 .. MaxPools

\* InitMetaTables runs before any command: it opens the pool, or the process ends.
PoolInit == up = TRUE /\ outages = 0 /\ pools = 1

GoesDown ==
    /\ up
    /\ outages < MaxOutages
    /\ up' = FALSE
    /\ outages' = outages + 1
    /\ UNCHANGED pools

Recover ==
    /\ ~up
    /\ up' = TRUE
    /\ UNCHANGED <<outages, pools>>

\* A ping that succeeds changes nothing.
Ping ==
    /\ ~up
    /\ pools < MaxPools
    /\ pools' = pools + 1
    /\ UNCHANGED <<up, outages>>
=============================================================================
