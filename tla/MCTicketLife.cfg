SPECIFICATION Spec
CONSTANTS
    a1 = a1  a2 = a2
    q1 = q1  q2 = q2  q3 = q3  q4 = q4
    v1 = v1  v2 = v2
    k1 = k1  k2 = k2
    Apps = {a1, a2}
    Requests = {q1, q2, q3}
    Servers = {v1, v2}
    TicketIds = {k1, k2}
    LifeTime = 3
    MaxSkew = 1
    MaxTime = 4
    NoToken = NoToken
    NoTicket = NoTicket
SYMMETRY MCSymmetry
INVARIANTS TypeOK TokenNamesItsTicket LoadsOwnTicket AcceptedInTime TicketsAreRooted
