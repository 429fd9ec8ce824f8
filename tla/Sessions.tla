------------------------------- MODULE Sessions -------------------------------
(***************************************************************************)
(* Who a request speaks for: AuthMiddleware, AuthProvider and RolesGuard,  *)
(* with signIn and signOut of the auth controller.  A browser keeps the    *)
(* pair of cookies that the last response it received has set; its         *)
(* requests carry the pair it had when they were sent, so that requests in *)
(* parallel may each renew an expired access token, and their responses    *)
(* may come in any order or not at all.  Each action is the code from one  *)
(* await to the next.  Firebase keeps the accounts: what happens to them   *)
(* is the work of UserAccounts and is free here; only their role never     *)
(* changes, and nobody signs in before it is set.                          *)
(***************************************************************************)
EXTENDS Naturals

CONSTANTS
    Uids,          \* ids of Firebase accounts
    Browsers,      \* cookie jars
    Requests,      \* slots for requests in progress
    Roles,         \* company, investor, admin
    Routes,        \* the roles each route names with @Roles; {}: no decorator
    TokenLife,     \* how many ticks of the clock an id token lives
    MaxTime,       \* bound: ticks of the clock
    MaxPasswords,  \* bound: new passwords of an account
    NoToken, Nobody, NoBrowser

VARIABLES
    accounts,   \* Firebase: the account of each uid
    time,       \* the clock
    jar,        \* the cookies of each browser
    req,        \* the request in each slot
    held,       \* history: which verified accounts had which role, and when
    session,    \* history: who signed in last in each browser
    tangled     \* history: the browser had other requests under way then

vars == <<accounts, time, jar, req, held, session, tangled>>

ASSUME RoutesAssumption == Routes \subseteq SUBSET Roles
ASSUME TimeAssumption == TokenLife \in Nat /\ MaxTime \in Nat /\ MaxPasswords \in Nat

\* role: the custom claim; passwords: how often the password was replaced.  A
\* deleted account is one that is not verified and whose password was replaced.
Account == [role: Roles, verified: BOOLEAN, passwords: Nat]

\* The claims of an id token are those of the account when it was issued.
IdToken == [uid: Uids, role: Roles, verified: BOOLEAN, issued: Nat]

RefreshToken == [uid: Uids, passwords: Nat]

ASSUME NoTokenAssumption == NoToken \notin IdToken \cup RefreshToken
ASSUME NobodyAssumption == Nobody \notin Uids /\ NoBrowser \notin Browsers

\* After signOut both cookies are empty, as if there were none.
Cookies == [access: IdToken \cup {NoToken}, refresh: RefreshToken \cup {NoToken}]
Empty == [access |-> NoToken, refresh |-> NoToken]

\* A request: what it waits for, the browser, whether it calls a route or
\* signs in (who) or out, the route, the cookies it carries, the token that speaks
\* for it and when that was accepted, whether its response sets cookies and to
\* what, its status, and whether some call failed or came too late.
Request == [pc: {"idle", "verify", "refresh", "verifyNew", "guard", "handler", "getUser", "answer"},
            browser: Browsers \cup {NoBrowser}, op: {"none", "call", "signIn", "signOut"},
            signer: Uids \cup {Nobody},
            route: SUBSET Roles, sent: Cookies, user: IdToken \cup {NoToken}, accepted: Nat,
            sets: BOOLEAN, cookies: Cookies,
            status: {"none", "ok", "unauthorized", "forbidden"}, failed: BOOLEAN]

Idle == [pc |-> "idle", browser |-> NoBrowser, op |-> "none", signer |-> Nobody,
         route |-> {}, sent |-> Empty, user |-> NoToken, accepted |-> 0, sets |-> FALSE,
         cookies |-> Empty, status |-> "none", failed |-> FALSE]

\* Accounts, cookies and requests are in order.
TypeOK ==
    /\ accounts \in [Uids -> Account]
    /\ time \in Nat
    /\ jar \in [Browsers -> Cookies]
    /\ req \in [Requests -> Request]
    /\ held \subseteq Uids \X Roles \X Nat
    /\ session \in [Browsers -> Uids \cup {Nobody}]
    /\ tangled \in [Browsers -> BOOLEAN]

Init ==
    /\ \E role \in [Uids -> Roles] :
            accounts = [u \in Uids |-> [role |-> role[u], verified |-> FALSE, passwords |-> 0]]
    /\ time = 0
    /\ jar = [b \in Browsers |-> Empty]
    /\ req = [s \in Requests |-> Idle]
    /\ held = {}
    /\ session = [b \in Browsers |-> Nobody]
    /\ tangled = [b \in Browsers |-> FALSE]

-----------------------------------------------------------------------------
(***************************************************************************)
(* Firebase: its accounts, its tokens, the clock.                          *)
(***************************************************************************)

Holders(state, t) ==
    {<<u, state[u].role, t>> : u \in {v \in Uids : state[v].verified}}

ChangeAccount(u, account) ==
    /\ accounts' = [accounts EXCEPT ![u] = account]
    /\ held' = held \cup Holders(accounts', time)
    /\ UNCHANGED <<time, jar, req, session, tangled>>

setVerified(u) == ChangeAccount(u, [accounts[u] EXCEPT !.verified = ~@])

\* A new password takes the refresh tokens back.
newPassword(u) ==
    /\ accounts[u].passwords < MaxPasswords
    /\ ChangeAccount(u, [accounts[u] EXCEPT !.passwords = @ + 1])

tick ==
    /\ time < MaxTime
    /\ time' = time + 1
    /\ held' = held \cup Holders(accounts, time')
    /\ UNCHANGED <<accounts, jar, req, session, tangled>>

IssueIdToken(u) == [uid |-> u, role |-> accounts[u].role, verified |-> accounts[u].verified,
                    issued |-> time]

IssueRefreshToken(u) == [uid |-> u, passwords |-> accounts[u].passwords]

\* Broken: an expired token is let through.
NeverExpired(token) == FALSE

\* Only the signature and the time: revocation is not asked for.
Expired(token) == time > token.issued + TokenLife

RefreshTokenWorks(token) == accounts[token.uid].passwords = token.passwords

-----------------------------------------------------------------------------
(***************************************************************************)
(* The server.                                                             *)
(***************************************************************************)

outside == <<accounts, time, jar, held, session, tangled>>

Step(s, r) == req' = [req EXCEPT ![s] = r] /\ UNCHANGED outside

Answer(r, status) == [r EXCEPT !.pc = "answer", !.status = status, !.user = NoToken]

\* Broken: only the access token is set.
setAccessTokenToCookie(r, access, refresh) ==
    [r EXCEPT !.sets = TRUE, !.cookies = [access |-> access, refresh |-> r.sent.refresh]]

\* Both cookies in one response.
setTokenToCookie(r, access, refresh) ==
    [r EXCEPT !.sets = TRUE, !.cookies = [access |-> access, refresh |-> refresh]]

call(s, b, route) ==
    /\ req[s].pc = "idle"
    /\ Step(s, [Idle EXCEPT !.pc = "verify", !.browser = b, !.op = "call", !.route = route,
                            !.sent = jar[b]])

\* Broken: an expired token is answered 401 though it could be renewed.
verifyIdTokenOnly(s) ==
    LET r == req[s]
    IN /\ r.pc = "verify"
       /\ Step(s, IF r.sent.access = NoToken \/ Expired(r.sent.access)
                  THEN Answer(r, "unauthorized")
                  ELSE [r EXCEPT !.pc = "guard", !.user = r.sent.access, !.accepted = time])

\* A token that is valid speaks for the request as it is.
verifyIdToken(s) ==
    LET r == req[s]
    IN /\ r.pc = "verify"
       /\ \/ /\ r.sent.access = NoToken
             /\ Step(s, Answer(r, "unauthorized"))
          \/ /\ r.sent.access # NoToken
             /\ ~Expired(r.sent.access)
             /\ Step(s, [r EXCEPT !.pc = "guard", !.user = r.sent.access,
                               !.accepted = time])
          \/ /\ r.sent.access # NoToken
             /\ Expired(r.sent.access)
             /\ Step(s, IF r.sent.refresh = NoToken THEN Answer(r, "unauthorized")
                                                    ELSE [r EXCEPT !.pc = "refresh"])

\* The new pair goes into the response before the new token is verified.
refreshToken(s) ==
    LET r == req[s]
        token == IssueIdToken(r.sent.refresh.uid)
    IN /\ r.pc = "refresh"
       /\ Step(s, IF RefreshTokenWorks(r.sent.refresh)
                  THEN [setTokenToCookie(r, token, r.sent.refresh) EXCEPT
                          !.pc = "verifyNew", !.user = token]
                  ELSE Answer(r, "unauthorized"))

verifyNewToken(s) ==
    LET r == req[s]
    IN /\ r.pc = "verifyNew"
       /\ Step(s, IF Expired(r.user)
                  THEN Answer([r EXCEPT !.failed = TRUE], "unauthorized")
                  ELSE [r EXCEPT !.pc = "guard", !.accepted = time])

\* A call to Firebase fails.
verificationFails(s) ==
    /\ req[s].pc \in {"verify", "refresh", "verifyNew"}
    /\ req[s].sent.access # NoToken
    /\ Step(s, Answer([req[s] EXCEPT !.failed = TRUE], "unauthorized"))

canActivate(user, route) == route # {} => user.role \in route /\ user.verified

RolesGuard(s) ==
    LET r == req[s]
    IN /\ r.pc = "guard"
       /\ Step(s, IF canActivate(r.user, r.route) THEN [r EXCEPT !.pc = "handler"]
                                                  ELSE Answer(r, "forbidden"))

handle(s) ==
    /\ req[s].pc = "handler"
    /\ Step(s, Answer(req[s], "ok"))

_use(s) ==
    \/ verifyIdToken(s)
    \/ refreshToken(s)
    \/ verifyNewToken(s)
    \/ verificationFails(s)

\* The password is right; Firebase issues both tokens.
signIn(s, b, u) ==
    /\ req[s].pc = "idle"
    /\ accounts[u].verified
    /\ Step(s, [Idle EXCEPT
                  !.pc = "getUser", !.browser = b, !.op = "signIn", !.signer = u,
                  !.cookies = [access |-> IssueIdToken(u), refresh |-> IssueRefreshToken(u)]])

\* getUser and verifyUserRole: the row may be missing or of another role.
signedIn(s) ==
    LET r == req[s]
    IN /\ r.pc = "getUser"
       /\ \/ Step(s, Answer([r EXCEPT !.cookies = Empty], "unauthorized"))
          \/ Step(s, Answer(setTokenToCookie(r, r.cookies.access, r.cookies.refresh), "ok"))

\* Broken: the cookies stay.
signOutWithCookies(s, b) ==
    /\ req[s].pc = "idle"
    /\ Step(s, Answer([Idle EXCEPT !.browser = b, !.op = "signOut"], "ok"))

\* Broken: the cookies name nobody instead of being empty.
signOutAsNobody(s, b) ==
    /\ req[s].pc = "idle"
    /\ Step(s, Answer(setTokenToCookie([Idle EXCEPT !.browser = b, !.op = "signOut"],
                                       Nobody, Nobody), "ok"))

signOut(s, b) ==
    /\ req[s].pc = "idle"
    /\ Step(s, Answer(setTokenToCookie([Idle EXCEPT !.browser = b, !.op = "signOut"],
                                       NoToken, NoToken), "ok"))

-----------------------------------------------------------------------------
(***************************************************************************)
(* The browser.                                                            *)
(***************************************************************************)

UserOf(cookies) == IF cookies.access = NoToken THEN Nobody ELSE cookies.access.uid

OthersUnderWay(s) == \E o \in Requests \ {s} : req[o].browser = req[s].browser

receive(s) ==
    LET r == req[s]
        changes == r.op \in {"signIn", "signOut"} /\ r.status = "ok"
    IN /\ r.pc = "answer"
       /\ req' = [req EXCEPT ![s] = Idle]
       /\ jar' = IF r.sets THEN [jar EXCEPT ![r.browser] = r.cookies] ELSE jar
       /\ session' = IF changes THEN [session EXCEPT ![r.browser] = r.signer]
                                ELSE session
       /\ tangled' = IF changes THEN [tangled EXCEPT ![r.browser] = OthersUnderWay(s)]
                                ELSE tangled
       /\ UNCHANGED <<accounts, time, held>>

\* The answer, or the whole request, is lost on its way.
lose(s) ==
    /\ req[s].pc # "idle"
    /\ Step(s, Idle)

Firebase ==
    \/ tick
    \/ \E u \in Uids : setVerified(u) \/ newPassword(u)

Send(s) == \E b \in Browsers :
    \/ \E route \in Routes : call(s, b, route)
    \/ \E u \in Uids : signIn(s, b, u)
    \/ signOut(s, b)

Server(s) == _use(s) \/ RolesGuard(s) \/ handle(s) \/ signedIn(s)

Next == Firebase \/ \E s \in Requests : Send(s) \/ Server(s) \/ receive(s) \/ lose(s)

Spec == Init /\ [][Next]_vars

-----------------------------------------------------------------------------
(***************************************************************************)
(* Properties.                                                             *)
(***************************************************************************)

\* The access and the refresh token of a browser are of one account, whichever
\* of several parallel responses came last: setTokenToCookie sets both.
PairBelongsTogether ==
    \A b \in Browsers :
        \/ jar[b] = Empty
        \/ jar[b].access # NoToken /\ jar[b].refresh # NoToken
           /\ jar[b].access.uid = jar[b].refresh.uid

\* A route with @Roles runs only for an account that was verified and had one of
\* its roles not longer ago than a token lives when the token was accepted, however
\* the account has changed since the token was issued or the request was sent.
AdmittedWasEntitled ==
    \A s \in Requests :
        req[s].pc = "handler" /\ req[s].route # {} =>
            \E h \in held :
                /\ h[1] = req[s].user.uid
                /\ h[2] \in req[s].route
                /\ h[3] <= req[s].accepted /\ req[s].accepted <= h[3] + TokenLife

\* Nobody who is signed in is thrown out: a request that carries a refresh token is
\* answered 401 only if a call failed or Firebase has taken that token back.
NotThrownOut ==
    \A s \in Requests :
        req[s].op = "call" /\ req[s].status = "unauthorized" /\ req[s].sent.refresh # NoToken =>
            req[s].failed \/ ~RefreshTokenWorks(req[s].sent.refresh)

\* The cookies of a browser are those of the user who signed in last, and gone
\* after a sign-out, unless other requests were under way when the answer came:
\* their answers may bring back the user before.
JarFollowsUser == \A b \in Browsers : tangled[b] \/ UserOf(jar[b]) = session[b]
=============================================================================
