------------------------------ MODULE MCTicket ------------------------------
(* Instances of Ticket for TLC. *)
EXTENDS Ticket, TLC

CONSTANTS a1, a2, q1, q2, q3, q4, v1, v2, k1, k2

\* Requests, servers, apps and ticket ids are each interchangeable.
MCSymmetry ==
    Permutations(Apps) \cup Permutations(Requests)
        \cup Permutations(Servers) \cup Permutations(TicketIds)
=============================================================================
