------------------------------- MODULE Ticket -------------------------------
(***************************************************************************)
(* Apps, tokens and upload tickets (storage/appkey.go, token.go and        *)
(* ticket.go; tokenHandler, ticketHandlerPost, ticketHandlerGet and the    *)
(* first part of storedHandler).                                           *)
(*                                                                         *)
(* A token is not kept by the server: it carries its kind, a value and the *)
(* clock of the server that stamped it, under a hash with the salt of its  *)
(* app, and any server that shares the database accepts it for LifeTime by *)
(* its own clock.  A ticket is a row that a ticket token names.            *)
(***************************************************************************)
EXTENDS Integers

CONSTANTS
    Apps,       \* apps with distinct keys and salts (NewApp)
    Requests,   \* requests of clients, each with its own user id
    Servers,
    TicketIds,  \* the sequence of upload_ticket
    LifeTime,   \* min_life_time
    MaxSkew,    \* bound: how far the clocks of two servers differ
    MaxTime,    \* bound: time stops here
    NoToken, NoTicket

ASSUME TicketAssumption ==
    /\ LifeTime \in Nat \ {0}
    /\ MaxSkew \in Nat
    /\ MaxTime \in Nat
    /\ NoTicket \notin TicketIds

VARIABLES
    listed,     \* the table apps
    now,        \* the true time
    skew,       \* what the clock of a server is ahead of it
    tickets,    \* upload_ticket: [id, app, author, done]
    tokens,     \* the tokens clients hold
    pc,         \* what the request does next, or how it ended
    req,        \* the operation, the app, the server and the token of the request
    verifiedAt, \* for the properties: the true time of VerifyToken
    ticketOf    \* the id of the ticket the request inserted or loaded

vars == <<listed, now, skew, tickets, tokens, pc, req, verifiedAt, ticketOf>>

Ops == {"token", "ticket", "load", "upload"}
Kinds == {"VC_TOKEN", "VC_TICKET"}
Ends == {"answered", "refused", "failed", "panicked"}

\* The value of a plain token is the user id, 4 bytes; of a ticket token the ticket id, 8.
\* born is for the properties: the true time at which the token was stamped.
TokenType ==
    [app: Apps, vc: Kinds, value: Requests \cup TicketIds,
     stamp: 0 .. (MaxTime + MaxSkew), born: 0 .. MaxTime]

TypeOK ==
    /\ listed \subseteq Apps
    /\ now \in 0 .. MaxTime
    /\ skew \in [Servers -> 0 .. MaxSkew]
    /\ tickets \subseteq [id: TicketIds, app: Apps, author: Requests, done: BOOLEAN]
    /\ tokens \subseteq TokenType
    /\ pc \in [Requests -> {"start", "verify", "sign", "select", "store"} \cup Ends]
    /\ req \in [Requests -> [op: Ops, app: Apps, server: Servers,
                             token: TokenType \cup {NoToken}]]
    /\ verifiedAt \in [Requests -> 0 .. MaxTime]
    /\ ticketOf \in [Requests -> TicketIds \cup {NoTicket}]

Init ==
    /\ listed = {}
    /\ now = 0
    /\ skew \in [Servers -> 0 .. MaxSkew]
    /\ tickets = {}
    /\ tokens = {}
    /\ pc = [r \in Requests |-> "start"]
    /\ req \in [Requests -> [op: Ops, app: Apps, server: Servers, token: {NoToken}]]
    /\ verifiedAt = [r \in Requests |-> 0]
    /\ ticketOf = [r \in Requests |-> NoTicket]

Goto(r, label) == pc' = [pc EXCEPT ![r] = label]
Clock(r) == now + skew[req[r].server]

\* SetValue and String: the token is stamped with the clock of the server.
Signed(r, vc, value) ==
    [app |-> req[r].app, vc |-> vc, value |-> value, stamp |-> Clock(r), born |-> now]

-----------------------------------------------------------------------------
\* The command auth: a key that is there already keeps its row and its salt.
SaveApp(a) ==
    /\ listed' = listed \cup {a}
    /\ UNCHANGED <<now, skew, tickets, tokens, pc, req, verifiedAt, ticketOf>>

\* CheckAPIKey: no row of apps has the key of the request, or the query fails; whether
\* the app is disabled is read and not looked at.
LoadAppFails(r) ==
    /\ pc[r] = "start"
    /\ Goto(r, "refused")
    /\ UNCHANGED <<listed, now, skew, tickets, tokens, req, verifiedAt, ticketOf>>

\* RequestNewToken: a plain token for the user.
RequestNewToken(r) ==
    /\ pc[r] = "start"
    /\ req[r].app \in listed
    /\ req[r].op = "token"
    /\ tokens' = tokens \cup {Signed(r, "VC_TOKEN", r)}
    /\ Goto(r, "answered")
    /\ UNCHANGED <<listed, now, skew, tickets, req, verifiedAt, ticketOf>>

\* A client sends a token it holds, or none; the other operations verify it first.
Arrive(r) ==
    /\ pc[r] = "start"
    /\ req[r].app \in listed
    /\ req[r].op \in {"load", "upload"}
    /\ \E t \in tokens \cup {NoToken} : req' = [req EXCEPT ![r].token = t]
    /\ Goto(r, "verify")
    /\ UNCHANGED <<listed, now, skew, tickets, tokens, verifiedAt, ticketOf>>

\* Mutant of SaveNew: the id is the largest in the table, plus one, read beforehand.
SaveNewReusesId(r) ==
    /\ pc[r] = "start"
    /\ req[r].app \in listed
    /\ req[r].op = "ticket"
    /\ \E t \in tokens \cup {NoToken} : req' = [req EXCEPT ![r].token = t]
    /\ \E id \in TicketIds :
          /\ tickets' = tickets \cup
                 {[id |-> id, app |-> req[r].app, author |-> r, done |-> FALSE]}
          /\ ticketOf' = [ticketOf EXCEPT ![r] = id]
    /\ Goto(r, "verify")
    /\ UNCHANGED <<listed, now, skew, tokens, verifiedAt>>

\* Mutant of SaveNew: the id that the INSERT returns is not kept.
SaveNewForgetsId(r) ==
    /\ pc[r] = "start"
    /\ req[r].app \in listed
    /\ req[r].op = "ticket"
    /\ \E t \in tokens \cup {NoToken} : req' = [req EXCEPT ![r].token = t]
    /\ \E id \in TicketIds :
          /\ \A row \in tickets : row.id # id
          /\ tickets' = tickets \cup
                 {[id |-> id, app |-> req[r].app, author |-> r, done |-> FALSE]}
    /\ Goto(r, "verify")
    /\ UNCHANGED <<listed, now, skew, tokens, verifiedAt, ticketOf>>

\* TicketRequestNew: the row is inserted before the token is looked at, and stays if the
\* token is refused.
SaveNew(r) ==
    /\ pc[r] = "start"
    /\ req[r].app \in listed
    /\ req[r].op = "ticket"
    /\ \E t \in tokens \cup {NoToken} : req' = [req EXCEPT ![r].token = t]
    /\ \E id \in TicketIds :
          /\ \A row \in tickets : row.id # id
          /\ tickets' = tickets \cup
                 {[id |-> id, app |-> req[r].app, author |-> r, done |-> FALSE]}
          /\ ticketOf' = [ticketOf EXCEPT ![r] = id]
    /\ Goto(r, "verify")
    /\ UNCHANGED <<listed, now, skew, tokens, verifiedAt>>

\* The INSERT, or the SELECT of a ticket, fails.
QueryFails(r) ==
    /\ \/ pc[r] = "start" /\ req[r].op = "ticket"
       \/ pc[r] = "select"
    /\ Goto(r, "failed")
    /\ UNCHANGED <<listed, now, skew, tickets, tokens, req, verifiedAt, ticketOf>>

\* isExpired, by the clock of the server that verifies.
IsExpired(r, t) == ~ (Clock(r) >= t.stamp /\ Clock(r) - t.stamp < LifeTime)

\* Mutant of Verifies: the hash is not compared.
VerifiesAnyHash(r) ==
    /\ req[r].token # NoToken
    /\ ~ IsExpired(r, req[r].token)

\* Mutant of Verifies: a token of the future is accepted, and the life time is doubled.
VerifiesLongLife(r) ==
    /\ req[r].token # NoToken
    /\ Clock(r) - req[r].token.stamp < 2 * LifeTime
    /\ req[r].token.app = req[r].app

\* Mutant of Verifies: a token stamped in this very tick is taken for one of the future.
VerifiesLaterOnly(r) ==
    /\ req[r].token # NoToken
    /\ ~ IsExpired(r, req[r].token)
    /\ Clock(r) > req[r].token.stamp
    /\ req[r].token.app = req[r].app

\* VerifyToken: in time, and hashed with the salt of this app.  The kind is not looked at.
Verifies(r) ==
    /\ req[r].token # NoToken
    /\ ~ IsExpired(r, req[r].token)
    /\ req[r].token.app = req[r].app

Refuse(r) ==
    /\ pc[r] = "verify"
    /\ ~ Verifies(r)
    /\ verifiedAt' = [verifiedAt EXCEPT ![r] = now]
    /\ Goto(r, "refused")
    /\ UNCHANGED <<listed, now, skew, tickets, tokens, req, ticketOf>>

\* What the operation does with a token that verifies.  A load decodes the value as 8
\* bytes, which panics on the 4 bytes of a plain token.
Accept(r) ==
    /\ pc[r] = "verify"
    /\ Verifies(r)
    /\ verifiedAt' = [verifiedAt EXCEPT ![r] = now]
    /\ \/ req[r].op = "ticket" /\ Goto(r, "sign") /\ UNCHANGED ticketOf
       \/ req[r].op = "upload" /\ Goto(r, "store") /\ UNCHANGED ticketOf
       \/ /\ req[r].op = "load" /\ req[r].token.vc = "VC_TICKET"
          /\ ticketOf' = [ticketOf EXCEPT ![r] = req[r].token.value]
          /\ Goto(r, "select")
       \/ /\ req[r].op = "load" /\ req[r].token.vc = "VC_TOKEN"
          /\ Goto(r, "panicked")
          /\ UNCHANGED ticketOf
    /\ UNCHANGED <<listed, now, skew, tickets, tokens, req>>

\* TicketRequestNew: the verified token is given the ticket's id and a new stamp.
SignTicket(r) ==
    /\ pc[r] = "sign"
    /\ tokens' = tokens \cup {Signed(r, "VC_TICKET", ticketOf[r])}
    /\ Goto(r, "answered")
    /\ UNCHANGED <<listed, now, skew, tickets, req, verifiedAt, ticketOf>>

\* loadTicket; another author is only logged.
LoadTicket(r) ==
    /\ pc[r] = "select"
    /\ IF \E row \in tickets : row.id = ticketOf[r]
       THEN Goto(r, "answered")
       ELSE Goto(r, "failed")
    /\ UNCHANGED <<listed, now, skew, tickets, tokens, req, verifiedAt, ticketOf>>

\* storedHandler goes on to store the files; it has no use for the token any more, and
\* bindEntry, which would finish the ticket, has no caller.
StoreFiles(r) ==
    /\ pc[r] = "store"
    /\ Goto(r, "answered")
    /\ UNCHANGED <<listed, now, skew, tickets, tokens, req, verifiedAt, ticketOf>>

Tick ==
    /\ now < MaxTime
    /\ now' = now + 1
    /\ UNCHANGED <<listed, skew, tickets, tokens, pc, req, verifiedAt, ticketOf>>

Terminating == now = MaxTime /\ (\A r \in Requests : pc[r] \in Ends) /\ UNCHANGED vars

Next ==
    \/ \E a \in Apps : SaveApp(a)
    \/ \E r \in Requests :
          \/ LoadAppFails(r)
          \/ RequestNewToken(r) \/ Arrive(r) \/ SaveNew(r) \/ QueryFails(r)
          \/ Refuse(r) \/ Accept(r)
          \/ SignTicket(r) \/ LoadTicket(r) \/ StoreFiles(r)
    \/ Tick
    \/ Terminating

Spec == Init /\ [][Next]_vars

-----------------------------------------------------------------------------
\* A ticket token names one ticket, which was made for the app of the token, and the
\* tickets of two requests are never the same: no upload is put to another's ticket.
TokenNamesItsTicket ==
    /\ \A t \in tokens : t.vc = "VC_TICKET" =>
          \E row \in tickets : row.id = t.value /\ row.app = t.app
    /\ \A row, other \in tickets : row.id = other.id => row = other

\* A ticket is shown only to the app it was made for, though the query asks for the id
\* alone and the roof and the author of the request are not compared.
LoadsOwnTicket ==
    \A r \in Requests :
        req[r].op = "load" /\ pc[r] = "answered" =>
            \E row \in tickets : row.id = ticketOf[r] /\ row.app = req[r].app

\* A token is accepted within its life time and refused after it, up to the difference of
\* the two servers' clocks, and refused when young only because of that difference.
AcceptedInTime ==
    \A r \in Requests :
        LET t == req[r].token
            age == verifiedAt[r] - t.born IN
        t # NoToken =>
            /\ pc[r] \in {"sign", "select", "store", "panicked"}
                  => age < LifeTime + MaxSkew
            /\ pc[r] = "refused" /\ t.app = req[r].app
                  => age >= LifeTime - MaxSkew \/ age < MaxSkew

\* However often tokens were exchanged for tickets, the first was a plain token that the
\* same app asked for, no later than the ticket token was signed.
TicketsAreRooted ==
    \A t \in tokens : t.vc = "VC_TICKET" =>
        \E root \in tokens :
            root.vc = "VC_TOKEN" /\ root.app = t.app /\ root.born <= t.born

-----------------------------------------------------------------------------
(* The inductive invariant.                                                *)

HasTicket(id, app) == \E row \in tickets : row.id = id /\ row.app = app

\* A token was stamped by the clock of a server, in the past.
TokensStamped ==
    \A t \in tokens :
        /\ t.born <= now
        /\ \E v \in Servers : t.stamp = t.born + skew[v]
        /\ t.vc = "VC_TICKET" => t.value \in TicketIds

\* A request presents a token that was handed out, and goes on only with one of its app.
TokensPresented ==
    \A r \in Requests :
        /\ req[r].token = NoToken \/ req[r].token \in tokens
        /\ pc[r] = "start" => req[r].token = NoToken
        /\ pc[r] \in {"sign", "select"} =>
              req[r].token # NoToken /\ req[r].token.app = req[r].app

\* Between its INSERT and the signature a ticket request has its ticket, and between
\* VerifyToken and the answer a load has the ticket of a token of its app.
TicketsHeld ==
    \A r \in Requests :
        /\ req[r].op = "ticket" /\ pc[r] \in {"verify", "sign"} =>
              HasTicket(ticketOf[r], req[r].app)
        /\ req[r].op = "load" /\ pc[r] \in {"select", "answered"} =>
              HasTicket(ticketOf[r], req[r].app)
        /\ pc[r] = "sign" => req[r].op = "ticket"
        /\ pc[r] = "select" => req[r].op = "load"
        /\ pc[r] = "store" => req[r].op = "upload"

IInv ==
    /\ TypeOK /\ TokensStamped /\ TokensPresented /\ TicketsHeld
    /\ TokenNamesItsTicket /\ AcceptedInTime /\ TicketsAreRooted
=============================================================================
