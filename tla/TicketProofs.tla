---------------------------- MODULE TicketProofs ----------------------------
(* IInv of Ticket is inductive, and with it what tokens and tickets promise. *)
EXTENDS Ticket, TLAPS

LEMMA InitInv == Init => IInv
BY TicketAssumption, SMT
DEF Init, IInv, TypeOK, TokensStamped, TokensPresented, TicketsHeld,
    TokenNamesItsTicket, AcceptedInTime, TicketsAreRooted, TokenType, Ends, Ops

\* What is signed is a token, stamped now by the clock of the server.
LEMMA SignedIsToken ==
    ASSUME TypeOK, NEW r \in Requests, NEW vc \in Kinds, NEW x \in Requests \cup TicketIds
    PROVE  /\ Signed(r, vc, x) \in TokenType
           /\ Signed(r, vc, x).app = req[r].app
           /\ Signed(r, vc, x).vc = vc
           /\ Signed(r, vc, x).value = x
           /\ Signed(r, vc, x).born = now
           /\ \E v \in Servers : Signed(r, vc, x).stamp = now + skew[v]
<1>1. req[r].server \in Servers /\ req[r].app \in Apps
  BY DEF TypeOK
<1>2. now \in 0 .. MaxTime /\ skew[req[r].server] \in 0 .. MaxSkew
  BY <1>1 DEF TypeOK
<1>3. Clock(r) \in 0 .. (MaxTime + MaxSkew)
  BY <1>2, TicketAssumption, SMT DEF Clock
<1> QED
  BY <1>1, <1>2, <1>3 DEF Signed, TokenType, Clock

\* A new plain token is stamped now; nothing else looks at it yet.
LEMMA RequestNewTokenInv ==
    ASSUME IInv, NEW r \in Requests, RequestNewToken(r) PROVE IInv'
<1> DEFINE t == Signed(r, "VC_TOKEN", r)
<1>1. /\ t \in TokenType
      /\ t.vc = "VC_TOKEN" /\ t.born = now
      /\ \E v \in Servers : t.stamp = now + skew[v]
  BY SignedIsToken DEF IInv, Kinds
<1>2. /\ tokens' = tokens \cup {t}
      /\ pc' = [pc EXCEPT ![r] = "answered"]
      /\ req[r].op = "token"
      /\ UNCHANGED <<listed, now, skew, tickets, req, verifiedAt, ticketOf>>
  BY DEF RequestNewToken, Goto
<1>3. now \in Int /\ now <= now
  BY SMT DEF IInv, TypeOK
<1> HIDE DEF t
<1>4. TypeOK'
  BY <1>1, <1>2 DEF IInv, TypeOK, Ends
<1>5. TokensStamped'
  BY <1>1, <1>2, <1>3 DEF IInv, TokensStamped
<1>6. TokensPresented'
  BY <1>2 DEF IInv, TypeOK, TokensPresented
<1>7. TicketsHeld'
  BY <1>2 DEF IInv, TypeOK, TicketsHeld, HasTicket
<1>8. TokenNamesItsTicket'
  BY <1>1, <1>2 DEF IInv, TokenNamesItsTicket
<1>9. AcceptedInTime'
  BY <1>2 DEF IInv, TypeOK, AcceptedInTime
<1>10. TicketsAreRooted'
  BY <1>1, <1>2 DEF IInv, TicketsAreRooted
<1> QED
  BY <1>4, <1>5, <1>6, <1>7, <1>8, <1>9, <1>10 DEF IInv

\* A request presents a token that was handed out, or none.
LEMMA ArriveInv ==
    ASSUME IInv, NEW r \in Requests, Arrive(r) PROVE IInv'
<1>1. TypeOK'
  BY SMT DEF Arrive, Goto, IInv, TypeOK
<1>2. TokensPresented'
  BY SMT DEF Arrive, Goto, IInv, TypeOK, TokensPresented
<1>3. TicketsHeld'
  BY SMT DEF Arrive, Goto, IInv, TypeOK, TicketsHeld, HasTicket
<1>4. AcceptedInTime'
  BY SMT DEF Arrive, Goto, IInv, TypeOK, AcceptedInTime
<1>5. TokensStamped' /\ TokenNamesItsTicket' /\ TicketsAreRooted'
  BY DEF Arrive, IInv, TokensStamped, TokenNamesItsTicket, TicketsAreRooted
<1> QED
  BY <1>1, <1>2, <1>3, <1>4, <1>5 DEF IInv

\* A row with a fresh id joins the tickets.
LEMMA SaveNewInv ==
    ASSUME IInv, NEW r \in Requests, SaveNew(r) PROVE IInv'
<1>1. PICK t \in tokens \cup {NoToken} : req' = [req EXCEPT ![r].token = t]
  BY DEF SaveNew
<1>2. PICK id \in TicketIds :
          /\ \A row \in tickets : row.id # id
          /\ tickets' = tickets \cup
                 {[id |-> id, app |-> req[r].app, author |-> r, done |-> FALSE]}
          /\ ticketOf' = [ticketOf EXCEPT ![r] = id]
  BY DEF SaveNew
<1> DEFINE new == [id |-> id, app |-> req[r].app, author |-> r, done |-> FALSE]
<1>3. /\ pc[r] = "start" /\ req[r].op = "ticket"
      /\ pc' = [pc EXCEPT ![r] = "verify"]
      /\ UNCHANGED <<listed, now, skew, tokens, verifiedAt>>
  BY DEF SaveNew, Goto
<1>4. /\ new \in [id: TicketIds, app: Apps, author: Requests, done: BOOLEAN]
      /\ new.id = id /\ new.app = req[r].app
      /\ tickets' = tickets \cup {new}
  BY <1>2 DEF IInv, TypeOK
<1> HIDE DEF new
<1>5. /\ \A q \in Requests : req'[q].op = req[q].op /\ req'[q].app = req[q].app
      /\ req' \in [Requests -> [op: Ops, app: Apps, server: Servers,
                                token: TokenType \cup {NoToken}]]
  BY <1>1, SMT DEF IInv, TypeOK
<1>6. TypeOK'
  <2>1. /\ pc' \in [Requests -> {"start", "verify", "sign", "select", "store"} \cup Ends]
        /\ ticketOf' \in [Requests -> TicketIds \cup {NoTicket}]
        /\ tickets' \subseteq [id: TicketIds, app: Apps, author: Requests, done: BOOLEAN]
    BY <1>2, <1>3, <1>4 DEF IInv, TypeOK
  <2> QED
    BY <1>3, <1>5, <2>1 DEF IInv, TypeOK
<1>7. TokensPresented'
  BY <1>1, <1>3, SMT DEF IInv, TypeOK, TokensPresented
<1>8. TicketsHeld'
  <2> SUFFICES ASSUME NEW q \in Requests
               PROVE  /\ req'[q].op = "ticket" /\ pc'[q] \in {"verify", "sign"} =>
                            HasTicket(ticketOf[q], req[q].app)'
                      /\ req'[q].op = "load" /\ pc'[q] \in {"select", "answered"} =>
                            HasTicket(ticketOf[q], req[q].app)'
                      /\ pc'[q] = "sign" => req'[q].op = "ticket"
                      /\ pc'[q] = "select" => req'[q].op = "load"
                      /\ pc'[q] = "store" => req'[q].op = "upload"
    BY DEF TicketsHeld
  <2>2. CASE q = r
    <3>1. ticketOf'[q] = id /\ pc'[q] = "verify"
      BY <1>2, <1>3, <2>2 DEF IInv, TypeOK
    <3>2. HasTicket(ticketOf[q], req[q].app)'
      BY <1>4, <1>5, <2>2, <3>1 DEF HasTicket
    <3> QED
      BY <1>3, <1>5, <2>2, <3>1, <3>2
  <2>3. CASE q # r
    <3>1. ticketOf'[q] = ticketOf[q] /\ pc'[q] = pc[q]
      BY <1>2, <1>3, <2>3 DEF IInv, TypeOK
    <3>2. HasTicket(ticketOf[q], req[q].app) => HasTicket(ticketOf[q], req[q].app)'
      BY <1>4, <1>5, <3>1 DEF HasTicket
    <3> QED
      BY <1>5, <3>1, <3>2 DEF IInv, TicketsHeld
  <2> QED
    BY <2>2, <2>3
<1>9. TokenNamesItsTicket'
  <2>1. \A row \in tickets' : row \in tickets \/ row = new
    BY <1>4
  <2>2. \A row, other \in tickets' : row.id = other.id => row = other
    BY <1>2, <1>4, <2>1 DEF IInv, TokenNamesItsTicket
  <2>3. \A x \in tokens' : x.vc = "VC_TICKET" =>
            \E row \in tickets' : row.id = x.value /\ row.app = x.app
    BY <1>3, <1>4 DEF IInv, TokenNamesItsTicket
  <2> QED
    BY <2>2, <2>3 DEF TokenNamesItsTicket
<1>10. AcceptedInTime'
  BY <1>1, <1>3, SMT DEF IInv, TypeOK, AcceptedInTime
<1>11. TokensStamped' /\ TicketsAreRooted'
  BY <1>3 DEF IInv, TokensStamped, TicketsAreRooted
<1> QED
  BY <1>6, <1>7, <1>8, <1>9, <1>10, <1>11 DEF IInv

\* A request ends, with an error or an answer, and only its label changes.
LEMMA EndInv ==
    ASSUME IInv, NEW r \in Requests, NEW label \in {"failed", "answered", "refused"},
           Goto(r, label),
           UNCHANGED <<listed, now, skew, tickets, tokens, req, verifiedAt, ticketOf>>,
           \/ label = "failed"
           \/ label = "refused" /\ req[r].token = NoToken
           \/ label = "answered" /\ pc[r] = "select"
           \/ label = "answered" /\ req[r].op = "upload"
    PROVE  IInv'
<1>1. /\ pc' \in [Requests -> {"start", "verify", "sign", "select", "store"} \cup Ends]
      /\ \A q \in Requests : pc'[q] = IF q = r THEN label ELSE pc[q]
  BY DEF Goto, IInv, TypeOK, Ends
<1>2. TypeOK'
  BY <1>1 DEF IInv, TypeOK
<1>3. TokensPresented'
  BY <1>1 DEF IInv, TokensPresented
<1>4. TicketsHeld'
  <2> SUFFICES ASSUME NEW q \in Requests
               PROVE  /\ req[q].op = "ticket" /\ pc'[q] \in {"verify", "sign"} =>
                            HasTicket(ticketOf[q], req[q].app)
                      /\ req[q].op = "load" /\ pc'[q] \in {"select", "answered"} =>
                            HasTicket(ticketOf[q], req[q].app)
                      /\ pc'[q] = "sign" => req[q].op = "ticket"
                      /\ pc'[q] = "select" => req[q].op = "load"
                      /\ pc'[q] = "store" => req[q].op = "upload"
    BY DEF TicketsHeld, HasTicket
  <2> QED
    BY <1>1 DEF IInv, TicketsHeld
<1>5. AcceptedInTime'
  BY <1>1 DEF IInv, AcceptedInTime
<1>6. TokensStamped' /\ TokenNamesItsTicket' /\ TicketsAreRooted'
  BY DEF IInv, TokensStamped, TokenNamesItsTicket, TicketsAreRooted
<1> QED
  BY <1>2, <1>3, <1>4, <1>5, <1>6 DEF IInv

\* A request of an app that is not loaded has presented no token yet.
LEMMA LoadAppFailsInv ==
    ASSUME IInv, NEW r \in Requests, LoadAppFails(r) PROVE IInv'
<1>1. req[r].token = NoToken
  BY DEF LoadAppFails, IInv, TokensPresented
<1> QED
  BY <1>1, EndInv DEF LoadAppFails

LEMMA SaveAppInv ==
    ASSUME IInv, NEW a \in Apps, SaveApp(a) PROVE IInv'
BY DEF SaveApp, IInv, TypeOK, TokensStamped, TokensPresented, TicketsHeld, HasTicket,
       TokenNamesItsTicket, AcceptedInTime, TicketsAreRooted

LEMMA QueryFailsInv ==
    ASSUME IInv, NEW r \in Requests, QueryFails(r) PROVE IInv'
BY EndInv DEF QueryFails

LEMMA LoadTicketInv ==
    ASSUME IInv, NEW r \in Requests, LoadTicket(r) PROVE IInv'
<1>1. CASE \E row \in tickets : row.id = ticketOf[r]
  BY <1>1, EndInv DEF LoadTicket
<1>2. CASE ~ \E row \in tickets : row.id = ticketOf[r]
  BY <1>2, EndInv DEF LoadTicket
<1> QED
  BY <1>1, <1>2

LEMMA StoreFilesInv ==
    ASSUME IInv, NEW r \in Requests, StoreFiles(r) PROVE IInv'
<1>1. req[r].op = "upload"
  BY DEF StoreFiles, IInv, TicketsHeld
<1> QED
  BY <1>1, EndInv DEF StoreFiles

\* A token of the request's own app and the age that it has by the two clocks: what the
\* verifying server measures differs from the true age by at most MaxSkew.
LEMMA MeasuredAge ==
    ASSUME IInv, NEW r \in Requests, req[r].token # NoToken
    PROVE  /\ req[r].token \in tokens
           /\ now - req[r].token.born \in Nat
           /\ Clock(r) - req[r].token.stamp \in Int
           /\ Clock(r) - req[r].token.stamp >= now - req[r].token.born - MaxSkew
           /\ Clock(r) - req[r].token.stamp =< now - req[r].token.born + MaxSkew
<1> DEFINE t == req[r].token
<1>1. t \in tokens /\ t \in TokenType
  BY DEF IInv, TypeOK, TokensPresented
<1>2. t.born \in 0 .. MaxTime /\ t.born <= now /\ now \in 0 .. MaxTime
  BY <1>1 DEF IInv, TypeOK, TokenType, TokensStamped
<1>3. PICK v \in Servers : t.stamp = t.born + skew[v]
  BY <1>1 DEF IInv, TokensStamped
<1>4. skew[v] \in 0 .. MaxSkew /\ skew[req[r].server] \in 0 .. MaxSkew
  BY DEF IInv, TypeOK
<1> HIDE DEF t
<1>5. /\ now - t.born \in Nat
      /\ Clock(r) - t.stamp \in Int
      /\ Clock(r) - t.stamp >= now - t.born - MaxSkew
      /\ Clock(r) - t.stamp =< now - t.born + MaxSkew
  BY <1>2, <1>3, <1>4, TicketAssumption, SMT DEF Clock
<1> QED
  BY <1>1, <1>5 DEF t

\* The refused token was too old, of another app, or young by a clock that is behind.
LEMMA RefuseInv ==
    ASSUME IInv, NEW r \in Requests, Refuse(r) PROVE IInv'
<1>1. TypeOK'
  BY SMT DEF Refuse, Goto, IInv, TypeOK, Ends
<1>2. TokensPresented'
  BY SMT DEF Refuse, Goto, IInv, TypeOK, TokensPresented
<1>3. TicketsHeld'
  BY SMT DEF Refuse, Goto, IInv, TypeOK, TicketsHeld, HasTicket
<1>4. AcceptedInTime'
  <2> SUFFICES ASSUME NEW q \in Requests, req[q].token # NoToken
               PROVE  LET age == verifiedAt'[q] - req[q].token.born IN
                      /\ pc'[q] \in {"sign", "select", "store", "panicked"}
                            => age < LifeTime + MaxSkew
                      /\ pc'[q] = "refused" /\ req[q].token.app = req[q].app
                            => age >= LifeTime - MaxSkew \/ age < MaxSkew
    BY DEF Refuse, AcceptedInTime
  <2>1. CASE q = r
    <3>1. pc'[q] = "refused" /\ verifiedAt'[q] = now
      BY <2>1 DEF Refuse, Goto, IInv, TypeOK
    <3>2. req[r].token.app = req[r].app => IsExpired(r, req[r].token)
      BY <2>1 DEF Refuse, Verifies
    <3>3. req[r].token.app = req[r].app =>
              \/ now - req[r].token.born >= LifeTime - MaxSkew
              \/ now - req[r].token.born < MaxSkew
      <4> DEFINE age == now - req[r].token.born
                 measured == Clock(r) - req[r].token.stamp
      <4>1. /\ age \in Nat /\ measured \in Int
            /\ measured >= age - MaxSkew /\ measured =< age + MaxSkew
        BY <2>1, MeasuredAge
      <4>2. req[r].token.app = req[r].app => measured < 0 \/ measured >= LifeTime
        <5>1. Clock(r) \in Int /\ req[r].token.stamp \in Int
          BY <2>1, SMT DEF Clock, IInv, TypeOK, TokenType
        <5> QED
          BY <3>2, <5>1, TicketAssumption, SMT DEF IsExpired
      <4> HIDE DEF age, measured
      <4>3. req[r].token.app = req[r].app => age >= LifeTime - MaxSkew \/ age < MaxSkew
        BY <4>1, <4>2, TicketAssumption, SMT
      <4> QED
        BY <4>3 DEF age
    <3> QED
      BY <2>1, <3>1, <3>3
  <2>2. CASE q # r
    <3>1. pc'[q] = pc[q] /\ verifiedAt'[q] = verifiedAt[q]
      BY <2>2 DEF Refuse, Goto, IInv, TypeOK
    <3> QED
      BY <3>1 DEF IInv, AcceptedInTime
  <2> QED
    BY <2>1, <2>2
<1>5. TokensStamped' /\ TokenNamesItsTicket' /\ TicketsAreRooted'
  BY DEF Refuse, IInv, TokensStamped, TokenNamesItsTicket, TicketsAreRooted
<1> QED
  BY <1>1, <1>2, <1>3, <1>4, <1>5 DEF IInv

\* The token was in time and of this app; a load takes the ticket it names.
LEMMA AcceptInv ==
    ASSUME IInv, NEW r \in Requests, Accept(r) PROVE IInv'
<1>1. PICK label \in {"sign", "store", "select", "panicked"} :
          /\ pc' = [pc EXCEPT ![r] = label]
          /\ label = "sign" => req[r].op = "ticket"
          /\ label = "store" => req[r].op = "upload"
          /\ label = "select" => /\ req[r].op = "load"
                                 /\ req[r].token.vc = "VC_TICKET"
                                 /\ ticketOf' = [ticketOf EXCEPT ![r] = req[r].token.value]
          /\ label # "select" => ticketOf' = ticketOf
  BY DEF Accept, Goto
<1>2. /\ pc[r] = "verify" /\ Verifies(r)
      /\ verifiedAt' = [verifiedAt EXCEPT ![r] = now]
      /\ UNCHANGED <<listed, now, skew, tickets, tokens, req>>
  BY DEF Accept
<1>3. \A q \in Requests :
          /\ pc'[q] = IF q = r THEN label ELSE pc[q]
          /\ verifiedAt'[q] = IF q = r THEN now ELSE verifiedAt[q]
          /\ q # r => ticketOf'[q] = ticketOf[q]
  BY <1>1, <1>2 DEF IInv, TypeOK
<1>4. /\ req[r].token # NoToken /\ req[r].token \in tokens
      /\ req[r].token.app = req[r].app
      /\ ~ IsExpired(r, req[r].token)
  BY <1>2, MeasuredAge DEF Verifies
<1>5. label = "select" => ticketOf'[r] \in TicketIds /\ ticketOf'[r] = req[r].token.value
  BY <1>1, <1>4 DEF IInv, TypeOK, TokensStamped
<1>6. TypeOK'
  <2>1. ticketOf' \in [Requests -> TicketIds \cup {NoTicket}]
    BY <1>1, <1>5 DEF IInv, TypeOK
  <2>2. pc' \in [Requests -> {"start", "verify", "sign", "select", "store"} \cup Ends]
    BY <1>1 DEF IInv, TypeOK, Ends
  <2>3. verifiedAt' \in [Requests -> 0 .. MaxTime]
    BY <1>2 DEF IInv, TypeOK
  <2> QED
    BY <1>2, <2>1, <2>2, <2>3 DEF IInv, TypeOK
<1>7. TokensPresented'
  BY <1>2, <1>3, <1>4 DEF IInv, TokensPresented
<1>8. TicketsHeld'
  <2> SUFFICES ASSUME NEW q \in Requests
               PROVE  /\ req[q].op = "ticket" /\ pc'[q] \in {"verify", "sign"} =>
                            HasTicket(ticketOf'[q], req[q].app)
                      /\ req[q].op = "load" /\ pc'[q] \in {"select", "answered"} =>
                            HasTicket(ticketOf'[q], req[q].app)
                      /\ pc'[q] = "sign" => req[q].op = "ticket"
                      /\ pc'[q] = "select" => req[q].op = "load"
                      /\ pc'[q] = "store" => req[q].op = "upload"
    BY <1>2 DEF TicketsHeld, HasTicket
  <2>1. CASE q = r /\ label = "select"
    <3>1. HasTicket(req[r].token.value, req[r].token.app)
      BY <1>1, <1>4, <2>1 DEF IInv, TokenNamesItsTicket, HasTicket
    <3> QED
      BY <1>1, <1>3, <1>4, <1>5, <2>1, <3>1
  <2>2. CASE q = r /\ label # "select"
    BY <1>1, <1>2, <1>3, <2>2 DEF IInv, TicketsHeld
  <2>3. CASE q # r
    BY <1>3, <2>3 DEF IInv, TicketsHeld
  <2> QED
    BY <2>1, <2>2, <2>3
<1>9. AcceptedInTime'
  <2>1. now - req[r].token.born < LifeTime + MaxSkew
    <3> DEFINE age == now - req[r].token.born
               measured == Clock(r) - req[r].token.stamp
    <3>1. age \in Nat /\ measured \in Int /\ measured >= age - MaxSkew
      BY <1>4, MeasuredAge
    <3>2. measured < LifeTime
      BY <1>4 DEF IsExpired
    <3> HIDE DEF age, measured
    <3>3. age < LifeTime + MaxSkew
      BY <3>1, <3>2, TicketAssumption, SMT
    <3> QED
      BY <3>3 DEF age
  <2> SUFFICES ASSUME NEW q \in Requests, req[q].token # NoToken
               PROVE  LET age == verifiedAt'[q] - req[q].token.born IN
                      /\ pc'[q] \in {"sign", "select", "store", "panicked"}
                            => age < LifeTime + MaxSkew
                      /\ pc'[q] = "refused" /\ req[q].token.app = req[q].app
                            => age >= LifeTime - MaxSkew \/ age < MaxSkew
    BY <1>2 DEF AcceptedInTime
  <2>2. CASE q = r
    BY <1>3, <2>1, <2>2
  <2>3. CASE q # r
    BY <1>3, <2>3 DEF IInv, AcceptedInTime
  <2> QED
    BY <2>2, <2>3
<1>10. TokensStamped' /\ TokenNamesItsTicket' /\ TicketsAreRooted'
  BY <1>2 DEF IInv, TokensStamped, TokenNamesItsTicket, TicketsAreRooted
<1> QED
  BY <1>6, <1>7, <1>8, <1>9, <1>10 DEF IInv

\* The ticket token names the row that the request inserted, and has the root of the
\* token that the request presented.
LEMMA SignTicketInv ==
    ASSUME IInv, NEW r \in Requests, SignTicket(r) PROVE IInv'
<1> DEFINE t == Signed(r, "VC_TICKET", ticketOf[r])
<1>1. /\ pc[r] = "sign"
      /\ tokens' = tokens \cup {t}
      /\ pc' = [pc EXCEPT ![r] = "answered"]
      /\ UNCHANGED <<listed, now, skew, tickets, req, verifiedAt, ticketOf>>
  BY DEF SignTicket, Goto
<1>2. req[r].op = "ticket" /\ HasTicket(ticketOf[r], req[r].app)
  BY <1>1 DEF IInv, TicketsHeld
<1>3. ticketOf[r] \in TicketIds
  BY <1>2 DEF IInv, TypeOK, HasTicket
<1>4. /\ t \in TokenType
      /\ t.vc = "VC_TICKET" /\ t.value = ticketOf[r] /\ t.app = req[r].app /\ t.born = now
      /\ \E v \in Servers : t.stamp = now + skew[v]
  BY <1>3, SignedIsToken DEF IInv, Kinds
<1>5. now \in Int /\ now <= now
  BY SMT DEF IInv, TypeOK
<1>6. /\ req[r].token \in tokens
      /\ req[r].token.app = req[r].app
  BY <1>1 DEF IInv, TokensPresented
<1> HIDE DEF t
<1>7. TypeOK'
  BY <1>1, <1>4 DEF IInv, TypeOK, Ends
<1>8. TokensStamped'
  BY <1>1, <1>3, <1>4, <1>5 DEF IInv, TokensStamped
<1>9. TokensPresented'
  BY <1>1 DEF IInv, TypeOK, TokensPresented
<1>10. TicketsHeld'
  BY <1>1, <1>2 DEF IInv, TypeOK, TicketsHeld, HasTicket
<1>11. TokenNamesItsTicket'
  BY <1>1, <1>2, <1>4 DEF IInv, TokenNamesItsTicket, HasTicket
<1>12. AcceptedInTime'
  BY <1>1 DEF IInv, TypeOK, AcceptedInTime
<1>13. TicketsAreRooted'
  <2>1. \E root \in tokens :
           root.vc = "VC_TOKEN" /\ root.app = req[r].app /\ root.born <= now
    <3>1. req[r].token.vc \in Kinds /\ \A x \in tokens : x.born <= now
      BY <1>6 DEF IInv, TypeOK, TokenType, TokensStamped
    <3> QED
      BY <1>6, <3>1 DEF IInv, TicketsAreRooted, Kinds
  <2> QED
    BY <1>1, <1>4, <2>1 DEF IInv, TicketsAreRooted
<1> QED
  BY <1>7, <1>8, <1>9, <1>10, <1>11, <1>12, <1>13 DEF IInv

\* Time passes: what was stamped in the past stays in the past.
LEMMA TickInv == ASSUME IInv, Tick PROVE IInv'
<1>1. /\ now \in 0 .. MaxTime /\ now' \in 0 .. MaxTime /\ now' = now + 1
      /\ UNCHANGED <<listed, skew, tickets, tokens, pc, req, verifiedAt, ticketOf>>
  BY TicketAssumption, SMT DEF Tick, IInv, TypeOK
<1>2. TypeOK'
  BY <1>1 DEF IInv, TypeOK
<1>3. TokensStamped'
  <2>1. \A t \in tokens : t.born \in 0 .. MaxTime
    BY DEF IInv, TypeOK, TokenType
  <2>2. \A t \in tokens : t.born <= now'
    BY <1>1, <2>1, SMT DEF IInv, TokensStamped
  <2> QED
    BY <1>1, <2>2 DEF IInv, TokensStamped
<1>4. TokensPresented' /\ TicketsHeld' /\ TokenNamesItsTicket'
  BY <1>1 DEF IInv, TokensPresented, TicketsHeld, HasTicket, TokenNamesItsTicket
<1>5. AcceptedInTime' /\ TicketsAreRooted'
  BY <1>1 DEF IInv, AcceptedInTime, TicketsAreRooted
<1> QED
  BY <1>2, <1>3, <1>4, <1>5 DEF IInv

LEMMA StutterInv == ASSUME IInv, UNCHANGED vars PROVE IInv'
BY DEF vars, IInv, TypeOK, TokensStamped, TokensPresented, TicketsHeld, HasTicket,
       TokenNamesItsTicket, AcceptedInTime, TicketsAreRooted

-----------------------------------------------------------------------------
\* Tokens, tickets and requests stay as the code keeps them.
THEOREM Invariance == Spec => []IInv
<1>1. ASSUME IInv, [Next]_vars PROVE IInv'
  <2>1. ASSUME NEW r \in Requests,
               \/ LoadAppFails(r)
               \/ RequestNewToken(r) \/ Arrive(r) \/ SaveNew(r) \/ QueryFails(r)
               \/ Refuse(r) \/ Accept(r)
               \/ SignTicket(r) \/ LoadTicket(r) \/ StoreFiles(r)
        PROVE  IInv'
    BY <1>1, <2>1, LoadAppFailsInv, RequestNewTokenInv, ArriveInv, SaveNewInv, QueryFailsInv, RefuseInv,
       AcceptInv, SignTicketInv, LoadTicketInv, StoreFilesInv
  <2> QED
    BY <1>1, <2>1, SaveAppInv, TickInv, StutterInv DEF Next, Terminating
<1> QED
  BY InitInv, <1>1, PTL DEF Spec

\* Every state of Ticket is well typed.
THEOREM TypeCorrect == Spec => []TypeOK
<1>1. IInv => TypeOK
  BY DEF IInv
<1> QED
  BY Invariance, <1>1, PTL

\* A ticket token names a ticket of its app, and no two requests share a ticket.
THEOREM TokensNameTickets == Spec => []TokenNamesItsTicket
<1>1. IInv => TokenNamesItsTicket
  BY DEF IInv
<1> QED
  BY Invariance, <1>1, PTL

\* A ticket is loaded by the app it was made for and by no other.
THEOREM LoadsAreOwn == Spec => []LoadsOwnTicket
<1>1. IInv => LoadsOwnTicket
  BY DEF IInv, TicketsHeld, HasTicket, LoadsOwnTicket
<1> QED
  BY Invariance, <1>1, PTL

\* Tokens are accepted in their life time, within the difference of the servers' clocks.
THEOREM AcceptanceIsTimely == Spec => []AcceptedInTime
<1>1. IInv => AcceptedInTime
  BY DEF IInv
<1> QED
  BY Invariance, <1>1, PTL

\* A chain of tickets begins with a plain token of the same app.
THEOREM ChainsAreRooted == Spec => []TicketsAreRooted
<1>1. IInv => TicketsAreRooted
  BY DEF IInv
<1> QED
  BY Invariance, <1>1, PTL
=============================================================================
