---------------------------- MODULE Sessions_proofs ----------------------------
(***************************************************************************)
(* What holds of sessions for any number of uids, browsers and parallel    *)
(* requests, and for every life of a token.                                *)
(*                                                                         *)
(* None of the properties is inductive: they are about tokens that have    *)
(* travelled through cookies, requests and responses.  SessionsInv says of *)
(* every pair of cookies, wherever it is, that it belongs together and     *)
(* that its tokens were issued by Firebase (CookiesOK), and of every       *)
(* request what it has established at each await (RequestOK).              *)
(***************************************************************************)
EXTENDS Sessions, TLAPS

\* An id token was issued and told the truth then.
IdTokenOK(token, now, h) ==
    token # NoToken =>
        /\ token.issued <= now
        /\ token.verified => <<token.uid, token.role, token.issued>> \in h

\* No refresh token is newer than the password of its account.
RefreshTokenOK(token, accts) ==
    token # NoToken => token.passwords <= accts[token.uid].passwords

\* Two tokens of one account, or none.
Together(c) ==
    \/ c.access = NoToken /\ c.refresh = NoToken
    \/ c.access # NoToken /\ c.refresh # NoToken /\ c.access.uid = c.refresh.uid

CookiesOK(c, now, h, accts) ==
    /\ Together(c)
    /\ IdTokenOK(c.access, now, h)
    /\ RefreshTokenOK(c.refresh, accts)

\* The token of a request was accepted in time, and the guard has seen it.
SpokenFor(r, now, h) ==
    /\ IdTokenOK(r.user, now, h)
    /\ r.pc \in {"verifyNew", "guard", "handler"} => r.user # NoToken
    /\ r.pc \in {"guard", "handler"} =>
        r.user.issued <= r.accepted /\ r.accepted <= r.user.issued + TokenLife
    /\ r.pc = "handler" => canActivate(r.user, r.route)

\* A call that is thrown out has failed or had its refresh token taken back.
Fair(r, accts) ==
    /\ r.pc = "refresh" => r.sent.refresh # NoToken
    /\ r.op = "call" /\ r.status = "unauthorized" /\ r.sent.refresh # NoToken =>
        r.failed \/ accts[r.sent.refresh.uid].passwords # r.sent.refresh.passwords

\* Sign-ins and sign-outs set cookies when they succeed, those of the signer;
\* calls set cookies of the user whose cookies they carry.
Signs(r) ==
    /\ r.pc \notin {"idle", "answer"} => r.status = "none"
    /\ r.pc = "getUser" => r.op = "signIn"
    /\ r.op = "none" => ~r.sets
    /\ r.pc \in {"verify", "refresh", "verifyNew", "guard", "handler"} => r.op = "call"
    /\ r.op \in {"signIn", "signOut"} =>
        /\ r.sets <=> r.status = "ok"
        /\ r.pc = "getUser" \/ r.sets => UserOf(r.cookies) = r.signer
    /\ r.op = "call" /\ r.sets => UserOf(r.cookies) = UserOf(r.sent)

RequestOK(r, now, h, accts) ==
    /\ CookiesOK(r.sent, now, h, accts)
    /\ CookiesOK(r.cookies, now, h, accts)
    /\ SpokenFor(r, now, h)
    /\ Fair(r, accts)
    /\ Signs(r)

\* A call carries the cookies of the user who signed in last.
Follows(r, ses, tan) ==
    r.op = "call" => tan[r.browser] \/ UserOf(r.sent) = ses[r.browser]

\* Whoever is verified now has been seen with the role.
HeldNow == \A u \in Uids : accounts[u].verified => <<u, accounts[u].role, time>> \in held

\* A request that is not idle has a browser.
Browsing(r) == r.op # "none" => r.browser \in Browsers

SessionsInv ==
    /\ TypeOK
    /\ HeldNow
    /\ \A b \in Browsers : CookiesOK(jar[b], time, held, accounts)
    /\ \A s \in Requests : RequestOK(req[s], time, held, accounts)
    /\ \A s \in Requests : Browsing(req[s])
    /\ JarFollowsUser
    /\ \A s \in Requests : Follows(req[s], session, tangled)

-----------------------------------------------------------------------------
(***************************************************************************)
(* Time and Firebase go on: what holds of cookies and requests stays.      *)
(***************************************************************************)

\* The state of Firebase only grows: time, history and passwords.
Grows(now1, h1, accts1, now2, h2, accts2) ==
    /\ now1 \in Nat /\ now2 \in Nat /\ now1 <= now2
    /\ h1 \subseteq h2
    /\ accts1 \in [Uids -> Account]
    /\ accts2 \in [Uids -> Account]
    /\ \A u \in Uids : accts1[u].passwords <= accts2[u].passwords

LEMMA CookiesStayOK ==
  ASSUME NEW c \in Cookies, NEW n1, NEW h1, NEW a1, NEW n2, NEW h2, NEW a2,
         Grows(n1, h1, a1, n2, h2, a2), CookiesOK(c, n1, h1, a1)
  PROVE  CookiesOK(c, n2, h2, a2)
  <1>1. IdTokenOK(c.access, n2, h2)
    BY DEF Grows, CookiesOK, IdTokenOK, Cookies, IdToken
  <1>2. RefreshTokenOK(c.refresh, a2)
    BY DEF Grows, CookiesOK, RefreshTokenOK, Cookies, RefreshToken, Account
  <1>. QED BY <1>1, <1>2 DEF CookiesOK

LEMMA RequestStaysOK ==
  ASSUME NEW r \in Request, NEW n1, NEW h1, NEW a1, NEW n2, NEW h2, NEW a2,
         Grows(n1, h1, a1, n2, h2, a2), RequestOK(r, n1, h1, a1)
  PROVE  RequestOK(r, n2, h2, a2)
  <1>1. CookiesOK(r.sent, n2, h2, a2) /\ CookiesOK(r.cookies, n2, h2, a2)
    BY CookiesStayOK DEF RequestOK, Request
  <1>2. SpokenFor(r, n2, h2)
    BY DEF Grows, RequestOK, SpokenFor, IdTokenOK, Request, IdToken
  <1>3. Fair(r, a2)
    <2>1. r.sent.refresh # NoToken => r.sent.refresh \in RefreshToken
      BY DEF Request, Cookies
    <2>2. r.sent.refresh # NoToken => r.sent.refresh.passwords <= a1[r.sent.refresh.uid].passwords
      BY DEF RequestOK, CookiesOK, RefreshTokenOK
    <2>3. \A u \in Uids : a1[u].passwords \in Nat /\ a2[u].passwords \in Nat
                          /\ a1[u].passwords <= a2[u].passwords
      BY DEF Grows, Account
    <2>. QED BY <2>1, <2>2, <2>3 DEF RequestOK, Fair, RefreshToken
  <1>. QED BY <1>1, <1>2, <1>3 DEF RequestOK

\* What every step of Firebase does.
Growth ==
    /\ UNCHANGED <<jar, req, session, tangled>>
    /\ held' = held \cup Holders(accounts', time')
    /\ time' \in Nat /\ time <= time'
    /\ accounts' \in [Uids -> Account]
    /\ \A u \in Uids : accounts[u].passwords <= accounts'[u].passwords

LEMMA FirebaseGrows ==
  ASSUME TypeOK, Firebase
  PROVE  Growth
  <1>1. CASE tick
    BY <1>1 DEF tick, TypeOK, Account, Growth
  <1>2. ASSUME NEW u \in Uids, setVerified(u) \/ newPassword(u)
        PROVE  Growth
    <2>1. accounts[u] \in Account
      BY DEF TypeOK
    <2>2. [accounts[u] EXCEPT !.verified = ~@] \in Account
      BY <2>1 DEF Account
    <2>4. PICK a \in Account : ChangeAccount(u, a) /\ accounts[u].passwords <= a.passwords
      <3>1. CASE setVerified(u)
        <4>1. [accounts[u] EXCEPT !.verified = ~@].passwords = accounts[u].passwords
          BY <2>1 DEF Account
        <4>. QED BY <2>1, <2>2, <3>1, <4>1 DEF setVerified, Account
      <3>2. CASE newPassword(u)
        <4>. DEFINE a == [accounts[u] EXCEPT !.passwords = @ + 1]
        <4>1. a \in Account /\ accounts[u].passwords <= a.passwords
          BY <2>1 DEF Account
        <4>2. ChangeAccount(u, a)
          BY <3>2 DEF newPassword
        <4>. HIDE DEF a
        <4>. QED BY <4>1, <4>2
      <3>. QED BY <1>2, <3>1, <3>2
    <2>5. \A v \in Uids : accounts[v].passwords \in Nat
      BY DEF TypeOK, Account
    <2>6. accounts' = [accounts EXCEPT ![u] = a]
      BY <2>4 DEF ChangeAccount
    <2>7. accounts' \in [Uids -> Account]
      BY <2>6 DEF TypeOK
    <2>8. \A v \in Uids : accounts[v].passwords <= accounts'[v].passwords
      BY <2>4, <2>5, <2>6 DEF TypeOK
    <2>9. time' = time /\ time \in Nat /\ UNCHANGED <<jar, req, session, tangled>>
      BY <2>4 DEF ChangeAccount, TypeOK
    <2>10. held' = held \cup Holders(accounts', time')
      BY <2>4, <2>9 DEF ChangeAccount, Holders
    <2>. QED
      BY <2>7, <2>8, <2>9, <2>10 DEF Growth
  <1>. QED BY <1>1, <1>2 DEF Firebase

LEMMA FirebaseKeepsInv ==
  ASSUME SessionsInv, Firebase
  PROVE  SessionsInv'
  <1>. USE DEF SessionsInv
  <1>1. Growth
    BY FirebaseGrows
  <1>2. TypeOK' /\ HeldNow'
    <2>1. \A u \in Uids : accounts'[u].role \in Roles
      BY <1>1 DEF Growth, Account
    <2>2. Holders(accounts', time') \subseteq Uids \X Roles \X Nat
      BY <1>1, <2>1 DEF Growth, Holders
    <2>3. HeldNow'
      BY <1>1 DEF Growth, Holders, HeldNow
    <2>. QED BY <1>1, <2>2, <2>3 DEF Growth, TypeOK
  <1>3. Grows(time, held, accounts, time', held', accounts')
    BY <1>1 DEF Growth, Grows, TypeOK
  <1>4. ASSUME NEW b \in Browsers
        PROVE  CookiesOK(jar[b], time, held, accounts)'
    <2>1. jar[b] \in Cookies /\ jar'[b] = jar[b]
      BY <1>1 DEF Growth, TypeOK
    <2>. QED BY <1>3, <2>1, CookiesStayOK
  <1>5. ASSUME NEW s \in Requests
        PROVE  RequestOK(req[s], time, held, accounts)'
    <2>1. req[s] \in Request /\ req'[s] = req[s]
      BY <1>1 DEF Growth, TypeOK
    <2>. QED BY <1>3, <2>1, RequestStaysOK
  <1>6. JarFollowsUser' /\ \A s \in Requests : Browsing(req[s])' /\ Follows(req[s], session, tangled)'
    BY <1>1 DEF Growth, JarFollowsUser, Follows, Browsing, UserOf
  <1>. QED BY <1>2, <1>4, <1>5, <1>6

-----------------------------------------------------------------------------
(***************************************************************************)
(* The server and the browsers: a step that only moves one request on.     *)
(***************************************************************************)

\* All that has to be shown of a step of the server.
LEMMA StepKeepsInv ==
  ASSUME SessionsInv, NEW s \in Requests, NEW r \in Request, Step(s, r),
         RequestOK(r, time, held, accounts), Browsing(r), Follows(r, session, tangled)
  PROVE  SessionsInv'
  <1>1. UNCHANGED <<accounts, time, jar, held, session, tangled>>
    BY DEF Step, outside
  <1>2. req' = [req EXCEPT ![s] = r] /\ req' \in [Requests -> Request]
    BY DEF Step, SessionsInv, TypeOK
  <1>3. \A o \in Requests : req'[o] = IF o = s THEN r ELSE req[o]
    BY <1>2 DEF SessionsInv, TypeOK
  <1>4. TypeOK' /\ HeldNow' /\ JarFollowsUser'
    BY <1>1, <1>2 DEF SessionsInv, TypeOK, HeldNow, JarFollowsUser, UserOf
  <1>5. \A b \in Browsers : CookiesOK(jar[b], time, held, accounts)'
    BY <1>1 DEF SessionsInv
  <1>6. \A o \in Requests : RequestOK(req[o], time, held, accounts)'
    BY <1>1, <1>3 DEF SessionsInv
  <1>7. \A o \in Requests : Browsing(req[o])' /\ Follows(req[o], session, tangled)'
    BY <1>1, <1>3 DEF SessionsInv
  <1>. QED BY <1>4, <1>5, <1>6, <1>7 DEF SessionsInv

LEMMA EmptyIsOK == Empty \in Cookies /\ UserOf(Empty) = Nobody
                   /\ \A n, h, a : CookiesOK(Empty, n, h, a)
  BY DEF Empty, Cookies, CookiesOK, Together, IdTokenOK, RefreshTokenOK, UserOf

LEMMA IdleIsOK == Idle \in Request /\ \A n, h, a : RequestOK(Idle, n, h, a)
  <1>1. Idle \in Request
    BY EmptyIsOK DEF Idle, Request
  <1>2. ASSUME NEW n, NEW h, NEW a
        PROVE  RequestOK(Idle, n, h, a)
    BY EmptyIsOK DEF Idle, RequestOK, SpokenFor, Fair, Signs, IdTokenOK
  <1>. QED BY <1>1, <1>2

\* What Firebase issues is in order.
LEMMA IssuedIsOK ==
  ASSUME SessionsInv, NEW u \in Uids
  PROVE  /\ IssueIdToken(u) \in IdToken
         /\ IssueIdToken(u) # NoToken
         /\ IdTokenOK(IssueIdToken(u), time, held)
         /\ IssueIdToken(u).uid = u
         /\ IssueRefreshToken(u) \in RefreshToken
         /\ IssueRefreshToken(u) # NoToken
         /\ RefreshTokenOK(IssueRefreshToken(u), accounts)
         /\ IssueRefreshToken(u).uid = u
  <1>1. accounts[u] \in Account /\ time \in Nat
    BY DEF SessionsInv, TypeOK
  <1>2. IssueIdToken(u) \in IdToken /\ IssueRefreshToken(u) \in RefreshToken
    BY <1>1 DEF IssueIdToken, IssueRefreshToken, IdToken, RefreshToken, Account
  <1>3. IdTokenOK(IssueIdToken(u), time, held)
    BY <1>1 DEF SessionsInv, HeldNow, IssueIdToken, IdTokenOK
  <1>4. RefreshTokenOK(IssueRefreshToken(u), accounts)
    BY <1>1 DEF IssueRefreshToken, RefreshTokenOK, Account
  <1>. QED
    BY <1>2, <1>3, <1>4, NoTokenAssumption DEF IssueIdToken, IssueRefreshToken

-----------------------------------------------------------------------------
(***************************************************************************)
(* Responses.                                                              *)
(***************************************************************************)

\* What a response never changes of its request.
Kept(r, q) ==
    /\ q.browser = r.browser /\ q.op = r.op /\ q.signer = r.signer
    /\ q.route = r.route /\ q.sent = r.sent

LEMMA SetCookies ==
  ASSUME NEW r \in Request, NEW access, NEW refresh,
         [access |-> access, refresh |-> refresh] \in Cookies
  PROVE  LET q == setTokenToCookie(r, access, refresh)
         IN  /\ q \in Request /\ Kept(r, q) /\ q.sets
             /\ q.cookies = [access |-> access, refresh |-> refresh]
             /\ q.pc = r.pc /\ q.status = r.status
  BY DEF setTokenToCookie, Request, Kept

LEMMA AnswerFields ==
  ASSUME NEW r \in Request, NEW st \in {"ok", "unauthorized", "forbidden"}
  PROVE  LET q == Answer(r, st)
         IN  /\ q \in Request /\ Kept(r, q)
             /\ q.pc = "answer" /\ q.status = st /\ q.user = NoToken
             /\ q.sets = r.sets /\ q.cookies = r.cookies /\ q.failed = r.failed
  BY DEF Answer, Request, Kept

\* What has to be shown of a request that is answered.
AnswerOK(q, st) ==
    /\ CookiesOK(q.sent, time, held, accounts)
    /\ CookiesOK(q.cookies, time, held, accounts)
    /\ Browsing(q) /\ Follows(q, session, tangled)
    /\ q.op = "call" /\ st = "unauthorized" /\ q.sent.refresh # NoToken =>
          q.failed \/ accounts[q.sent.refresh.uid].passwords # q.sent.refresh.passwords
    /\ q.op = "none" => ~q.sets
    /\ q.op \in {"signIn", "signOut"} =>
          (q.sets <=> st = "ok") /\ (q.sets => UserOf(q.cookies) = q.signer)
    /\ q.op = "call" /\ q.sets => UserOf(q.cookies) = UserOf(q.sent)

LEMMA AnswerKeepsInv ==
  ASSUME SessionsInv, NEW s \in Requests, NEW q \in Request,
         NEW st \in {"ok", "unauthorized", "forbidden"},
         Step(s, Answer(q, st)), AnswerOK(q, st)
  PROVE  SessionsInv'
  <1>. DEFINE r == Answer(q, st)
  <1>1. /\ r \in Request /\ Kept(q, r)
        /\ r.pc = "answer" /\ r.status = st /\ r.user = NoToken
        /\ r.sets = q.sets /\ r.cookies = q.cookies /\ r.failed = q.failed
    BY AnswerFields
  <1>2. Step(s, r)
    OBVIOUS
  <1>. HIDE DEF r
  <1>3. CookiesOK(r.sent, time, held, accounts) /\ CookiesOK(r.cookies, time, held, accounts)
    BY <1>1 DEF AnswerOK, Kept
  <1>4. SpokenFor(r, time, held)
    BY <1>1 DEF SpokenFor, IdTokenOK
  <1>5. Fair(r, accounts)
    BY <1>1 DEF Fair, AnswerOK, Kept
  <1>6. Signs(r)
    BY <1>1 DEF Signs, AnswerOK, Kept
  <1>7. Browsing(r) /\ Follows(r, session, tangled)
    BY <1>1 DEF AnswerOK, Kept, Browsing, Follows
  <1>. QED BY <1>1, <1>2, <1>3, <1>4, <1>5, <1>6, <1>7, StepKeepsInv DEF RequestOK

-----------------------------------------------------------------------------
LEMMA SendKeepsInv ==
  ASSUME SessionsInv, NEW s \in Requests, Send(s)
  PROVE  SessionsInv'
  <1>1. ASSUME NEW b \in Browsers, NEW route \in Routes, call(s, b, route)
        PROVE  SessionsInv'
    <2>. DEFINE r == [Idle EXCEPT !.pc = "verify", !.browser = b, !.op = "call",
                                  !.route = route, !.sent = jar[b]]
    <2>1. jar[b] \in Cookies /\ CookiesOK(jar[b], time, held, accounts) /\ route \subseteq Roles
      BY RoutesAssumption DEF SessionsInv, TypeOK
    <2>2. r \in Request
      BY <2>1, IdleIsOK DEF Idle, Request
    <2>3. RequestOK(r, time, held, accounts)
      BY <2>1, EmptyIsOK DEF Idle, RequestOK, SpokenFor, Fair, Signs, IdTokenOK
    <2>4. Browsing(r) /\ Follows(r, session, tangled)
      BY DEF Idle, Browsing, Follows, SessionsInv, JarFollowsUser
    <2>5. Step(s, r)
      BY <1>1 DEF call
    <2>. QED BY <2>2, <2>3, <2>4, <2>5, StepKeepsInv
  <1>2. ASSUME NEW b \in Browsers, NEW u \in Uids, signIn(s, b, u)
        PROVE  SessionsInv'
    <2>. DEFINE c == [access |-> IssueIdToken(u), refresh |-> IssueRefreshToken(u)]
                r == [Idle EXCEPT !.pc = "getUser", !.browser = b, !.op = "signIn",
                                  !.signer = u, !.cookies = c]
    <2>1. c \in Cookies /\ CookiesOK(c, time, held, accounts) /\ UserOf(c) = u
      BY IssuedIsOK DEF Cookies, CookiesOK, Together, UserOf
    <2>2. Step(s, r)
      BY <1>2 DEF signIn
    <2>. HIDE DEF c
    <2>3. r \in Request
      BY <2>1, IdleIsOK DEF Idle, Request
    <2>4. RequestOK(r, time, held, accounts)
      BY <2>1, EmptyIsOK DEF Idle, RequestOK, SpokenFor, Fair, Signs, IdTokenOK
    <2>5. Browsing(r) /\ Follows(r, session, tangled)
      BY DEF Idle, Browsing, Follows
    <2>. QED BY <2>2, <2>3, <2>4, <2>5, StepKeepsInv
  <1>3. ASSUME NEW b \in Browsers, signOut(s, b)
        PROVE  SessionsInv'
    <2>. DEFINE i == [Idle EXCEPT !.browser = b, !.op = "signOut"]
                q == setTokenToCookie(i, NoToken, NoToken)
    <2>1. Step(s, Answer(q, "ok"))
      BY <1>3 DEF signOut
    <2>2. /\ i \in Request /\ i.browser = b /\ i.op = "signOut" /\ i.signer = Nobody
          /\ i.sent = Empty
      BY IdleIsOK DEF Idle, Request
    <2>. HIDE DEF i
    <2>3. /\ q \in Request /\ Kept(i, q) /\ q.sets
          /\ q.cookies = [access |-> NoToken, refresh |-> NoToken]
      BY <2>2, SetCookies, EmptyIsOK DEF Empty
    <2>. HIDE DEF q
    <2>4. q.cookies = Empty /\ q.sent = Empty /\ q.browser = b /\ q.op = "signOut" /\ q.signer = Nobody
      BY <2>2, <2>3 DEF Empty, Kept
    <2>5. AnswerOK(q, "ok")
      BY <2>3, <2>4, EmptyIsOK DEF AnswerOK, Browsing, Follows
    <2>. QED BY <2>1, <2>3, <2>5, AnswerKeepsInv
  <1>. QED BY <1>1, <1>2, <1>3 DEF Send

-----------------------------------------------------------------------------
(***************************************************************************)
(* The steps of the server.                                                *)
(***************************************************************************)

\* What is known of a request in progress.
LEMMA RequestKnown ==
  ASSUME SessionsInv, NEW s \in Requests
  PROVE  /\ req[s] \in Request
         /\ RequestOK(req[s], time, held, accounts)
         /\ Browsing(req[s]) /\ Follows(req[s], session, tangled)
         /\ time \in Nat
  BY DEF SessionsInv, TypeOK

LEMMA VerifyKeepsInv ==
  ASSUME SessionsInv, NEW s \in Requests, verifyIdToken(s)
  PROVE  SessionsInv'
  <1>. DEFINE r == req[s]
  <1>1. /\ r \in Request /\ RequestOK(r, time, held, accounts)
        /\ Browsing(r) /\ Follows(r, session, tangled) /\ time \in Nat
    BY RequestKnown
  <1>2. r.pc = "verify" /\ r.op = "call"
    BY <1>1 DEF verifyIdToken, RequestOK, Signs
  <1>3. CookiesOK(r.sent, time, held, accounts) /\ r.sent \in Cookies
    BY <1>1 DEF RequestOK, Request
  <1>4. ASSUME r.sent.refresh = NoToken, Step(s, Answer(r, "unauthorized"))
        PROVE  SessionsInv'
    <2>1. AnswerOK(r, "unauthorized")
      BY <1>1, <1>2, <1>4 DEF AnswerOK, RequestOK, Signs
    <2>. QED BY <1>1, <1>4, <2>1, AnswerKeepsInv
  <1>5. ASSUME r.sent.refresh # NoToken, Step(s, [r EXCEPT !.pc = "refresh"])
        PROVE  SessionsInv'
    <2>. DEFINE q == [r EXCEPT !.pc = "refresh"]
    <2>1. /\ q \in Request /\ Kept(r, q) /\ q.pc = "refresh" /\ q.user = r.user
          /\ q.sets = r.sets /\ q.cookies = r.cookies /\ q.status = r.status
      BY <1>1 DEF Request, Kept
    <2>2. Step(s, q)
      BY <1>5
    <2>. HIDE DEF q
    <2>3. r.status = "none"
      BY <1>1, <1>2 DEF RequestOK, Signs
    <2>4. SpokenFor(q, time, held)
      BY <1>1, <2>1 DEF RequestOK, SpokenFor
    <2>5. Fair(q, accounts)
      BY <1>5, <2>1, <2>3 DEF Kept, Fair
    <2>6. Signs(q)
      BY <1>1, <1>2, <2>1, <2>3 DEF RequestOK, Kept, Signs
    <2>7. RequestOK(q, time, held, accounts)
      BY <1>1, <2>1, <2>4, <2>5, <2>6 DEF RequestOK, Kept
    <2>8. Browsing(q) /\ Follows(q, session, tangled)
      BY <1>1, <2>1 DEF Kept, Browsing, Follows
    <2>. QED BY <2>1, <2>2, <2>7, <2>8, StepKeepsInv
  <1>6. ASSUME r.sent.access # NoToken, ~Expired(r.sent.access),
               Step(s, [r EXCEPT !.pc = "guard", !.user = r.sent.access, !.accepted = time])
        PROVE  SessionsInv'
    <2>. DEFINE q == [r EXCEPT !.pc = "guard", !.user = r.sent.access, !.accepted = time]
    <2>1. /\ q \in Request /\ Kept(r, q) /\ q.pc = "guard" /\ q.user = r.sent.access
          /\ q.accepted = time
          /\ q.sets = r.sets /\ q.cookies = r.cookies /\ q.status = r.status
      BY <1>1, <1>3 DEF Request, Kept, Cookies
    <2>2. Step(s, q)
      BY <1>6
    <2>. HIDE DEF q
    <2>3. r.status = "none"
      BY <1>1, <1>2 DEF RequestOK, Signs
    <2>4. SpokenFor(q, time, held)
      <3>1. r.sent.access \in IdToken
        BY <1>3, <1>6 DEF Cookies
      <3>2. r.sent.access.issued \in Nat /\ r.sent.access.issued <= time
            /\ time <= r.sent.access.issued + TokenLife
        BY <1>1, <1>3, <1>6, <3>1, TimeAssumption DEF CookiesOK, IdTokenOK, Expired, IdToken
      <3>. QED BY <1>3, <1>6, <2>1, <3>2 DEF SpokenFor, CookiesOK
    <2>5. Fair(q, accounts)
      BY <2>1, <2>3 DEF Kept, Fair
    <2>6. Signs(q)
      BY <1>1, <1>2, <2>1, <2>3 DEF RequestOK, Kept, Signs
    <2>7. RequestOK(q, time, held, accounts)
      BY <1>1, <2>1, <2>4, <2>5, <2>6 DEF RequestOK, Kept
    <2>8. Browsing(q) /\ Follows(q, session, tangled)
      BY <1>1, <2>1 DEF Kept, Browsing, Follows
    <2>. QED BY <2>1, <2>2, <2>7, <2>8, StepKeepsInv
  <1>7. r.sent.access = NoToken => r.sent.refresh = NoToken
    BY <1>3 DEF CookiesOK, Together
  <1>. QED BY <1>4, <1>5, <1>6, <1>7 DEF verifyIdToken

LEMMA RefreshKeepsInv ==
  ASSUME SessionsInv, NEW s \in Requests, refreshToken(s)
  PROVE  SessionsInv'
  <1>. DEFINE r == req[s]
              refresh == r.sent.refresh
              token == IssueIdToken(refresh.uid)
  <1>1. /\ r \in Request /\ RequestOK(r, time, held, accounts)
        /\ Browsing(r) /\ Follows(r, session, tangled)
    BY RequestKnown
  <1>2. r.pc = "refresh" /\ r.op = "call" /\ r.status = "none" /\ refresh # NoToken
    BY <1>1 DEF refreshToken, RequestOK, Signs, Fair
  <1>3. CookiesOK(r.sent, time, held, accounts) /\ r.sent \in Cookies
    BY <1>1 DEF RequestOK, Request
  <1>4. refresh \in RefreshToken /\ refresh.uid \in Uids
    BY <1>2, <1>3 DEF Cookies, RefreshToken
  <1>5. token \in IdToken /\ token # NoToken /\ IdTokenOK(token, time, held) /\ token.uid = refresh.uid
    BY <1>4, IssuedIsOK
  <1>6. r.sent.access # NoToken /\ r.sent.access.uid = refresh.uid
    BY <1>2, <1>3 DEF CookiesOK, Together
  <1>7. CASE RefreshTokenWorks(refresh)
    <2>. DEFINE c == [access |-> token, refresh |-> refresh]
                p == setTokenToCookie(r, token, refresh)
                q == [p EXCEPT !.pc = "verifyNew", !.user = token]
    <2>1. Step(s, q)
      BY <1>7 DEF refreshToken
    <2>2. c \in Cookies /\ CookiesOK(c, time, held, accounts) /\ UserOf(c) = UserOf(r.sent)
      BY <1>3, <1>4, <1>5, <1>6 DEF Cookies, CookiesOK, Together, UserOf
    <2>3. p \in Request /\ Kept(r, p) /\ p.sets /\ p.cookies = c /\ p.status = "none"
      BY <1>1, <1>2, <2>2, SetCookies
    <2>. HIDE DEF c, p, token
    <2>4. /\ q \in Request /\ Kept(p, q) /\ q.sets /\ q.cookies = c /\ q.status = "none"
          /\ q.pc = "verifyNew" /\ q.user = token
      BY <1>5, <2>3 DEF Request, Kept
    <2>. HIDE DEF q
    <2>5. SpokenFor(q, time, held) /\ Fair(q, accounts)
      BY <1>5, <2>4 DEF SpokenFor, Fair
    <2>6. Signs(q) /\ Browsing(q) /\ Follows(q, session, tangled)
      BY <1>1, <1>2, <2>2, <2>3, <2>4 DEF Signs, Kept, Browsing, Follows
    <2>7. RequestOK(q, time, held, accounts)
      BY <1>3, <2>2, <2>3, <2>4, <2>5, <2>6 DEF RequestOK, Kept
    <2>. QED BY <2>1, <2>4, <2>6, <2>7, StepKeepsInv
  <1>8. CASE ~RefreshTokenWorks(refresh)
    <2>1. Step(s, Answer(r, "unauthorized"))
      BY <1>8 DEF refreshToken
    <2>2. AnswerOK(r, "unauthorized")
      BY <1>1, <1>2, <1>8 DEF AnswerOK, RequestOK, Signs, RefreshTokenWorks
    <2>. QED BY <1>1, <2>1, <2>2, AnswerKeepsInv
  <1>. QED BY <1>7, <1>8

\* A call that has failed may be answered 401.
LEMMA FailureKeepsInv ==
  ASSUME SessionsInv, NEW s \in Requests,
         req[s].pc \in {"verify", "refresh", "verifyNew"},
         Step(s, Answer([req[s] EXCEPT !.failed = TRUE], "unauthorized"))
  PROVE  SessionsInv'
  <1>. DEFINE r == req[s]
              q == [r EXCEPT !.failed = TRUE]
  <1>1. /\ r \in Request /\ RequestOK(r, time, held, accounts)
        /\ Browsing(r) /\ Follows(r, session, tangled)
    BY RequestKnown
  <1>2. r.op = "call"
    BY <1>1 DEF RequestOK, Signs
  <1>3. /\ q \in Request /\ Kept(r, q) /\ q.failed /\ q.sets = r.sets /\ q.cookies = r.cookies
    BY <1>1 DEF Request, Kept
  <1>. HIDE DEF q
  <1>4. AnswerOK(q, "unauthorized")
    BY <1>1, <1>2, <1>3 DEF AnswerOK, RequestOK, Signs, Kept, Browsing, Follows
  <1>. QED BY <1>3, <1>4, AnswerKeepsInv DEF q

LEMMA VerifyNewKeepsInv ==
  ASSUME SessionsInv, NEW s \in Requests, verifyNewToken(s)
  PROVE  SessionsInv'
  <1>. DEFINE r == req[s]
              q == [r EXCEPT !.pc = "guard", !.accepted = time]
  <1>1. /\ r \in Request /\ RequestOK(r, time, held, accounts)
        /\ Browsing(r) /\ Follows(r, session, tangled) /\ time \in Nat
    BY RequestKnown
  <1>2. CASE Expired(r.user)
    BY <1>2, FailureKeepsInv DEF verifyNewToken
  <1>3. CASE ~Expired(r.user)
    <2>1. Step(s, q) /\ r.pc = "verifyNew"
      BY <1>3 DEF verifyNewToken
    <2>2. /\ q \in Request /\ Kept(r, q) /\ q.pc = "guard" /\ q.user = r.user /\ q.accepted = time
          /\ q.sets = r.sets /\ q.cookies = r.cookies /\ q.status = r.status
      BY <1>1 DEF Request, Kept
    <2>. HIDE DEF q
    <2>3. r.op = "call" /\ r.status = "none" /\ r.user # NoToken
      BY <1>1, <2>1 DEF RequestOK, Signs, SpokenFor
    <2>4. r.user \in IdToken
      BY <1>1, <2>3 DEF Request
    <2>5. r.user.issued \in Nat /\ r.user.issued <= time /\ time <= r.user.issued + TokenLife
      BY <1>1, <1>3, <2>3, <2>4, TimeAssumption DEF RequestOK, SpokenFor, IdTokenOK, Expired, IdToken
    <2>6. SpokenFor(q, time, held) /\ Fair(q, accounts)
      BY <1>1, <2>2, <2>3, <2>5 DEF RequestOK, SpokenFor, Fair
    <2>7. Signs(q) /\ Browsing(q) /\ Follows(q, session, tangled)
      BY <1>1, <2>1, <2>2, <2>3 DEF RequestOK, Signs, Kept, Browsing, Follows
    <2>8. RequestOK(q, time, held, accounts)
      BY <1>1, <2>2, <2>6, <2>7 DEF RequestOK, Kept
    <2>. QED BY <2>1, <2>2, <2>7, <2>8, StepKeepsInv
  <1>. QED BY <1>2, <1>3

LEMMA GuardKeepsInv ==
  ASSUME SessionsInv, NEW s \in Requests, RolesGuard(s) \/ handle(s)
  PROVE  SessionsInv'
  <1>. DEFINE r == req[s]
              q == [r EXCEPT !.pc = "handler"]
  <1>1. /\ r \in Request /\ RequestOK(r, time, held, accounts)
        /\ Browsing(r) /\ Follows(r, session, tangled)
    BY RequestKnown
  <1>2. r.pc \in {"guard", "handler"} /\ r.op = "call" /\ r.status = "none"
    BY <1>1 DEF RolesGuard, handle, RequestOK, Signs
  <1>3. ASSUME NEW st \in {"ok", "forbidden"}, Step(s, Answer(r, st))
        PROVE  SessionsInv'
    <2>1. AnswerOK(r, st)
      BY <1>1, <1>2, <1>3 DEF AnswerOK, RequestOK, Signs
    <2>. QED BY <1>1, <1>3, <2>1, AnswerKeepsInv
  <1>4. ASSUME canActivate(r.user, r.route), r.pc = "guard", Step(s, q)
        PROVE  SessionsInv'
    <2>1. /\ q \in Request /\ Kept(r, q) /\ q.pc = "handler" /\ q.user = r.user
          /\ q.accepted = r.accepted
          /\ q.sets = r.sets /\ q.cookies = r.cookies /\ q.status = r.status
      BY <1>1 DEF Request, Kept
    <2>2. Step(s, q)
      BY <1>4
    <2>. HIDE DEF q
    <2>3. SpokenFor(q, time, held) /\ Fair(q, accounts)
      BY <1>1, <1>2, <1>4, <2>1 DEF RequestOK, SpokenFor, Fair, Kept
    <2>4. Signs(q) /\ Browsing(q) /\ Follows(q, session, tangled)
      BY <1>1, <1>2, <2>1 DEF RequestOK, Signs, Kept, Browsing, Follows
    <2>5. RequestOK(q, time, held, accounts)
      BY <1>1, <2>1, <2>3, <2>4 DEF RequestOK, Kept
    <2>. QED BY <2>1, <2>2, <2>4, <2>5, StepKeepsInv
  <1>5. CASE handle(s)
    BY <1>3, <1>5 DEF handle
  <1>6. CASE RolesGuard(s) /\ canActivate(r.user, r.route)
    BY <1>4, <1>6 DEF RolesGuard
  <1>7. CASE RolesGuard(s) /\ ~canActivate(r.user, r.route)
    BY <1>3, <1>7 DEF RolesGuard
  <1>. QED BY <1>5, <1>6, <1>7

LEMMA SignedInKeepsInv ==
  ASSUME SessionsInv, NEW s \in Requests, signedIn(s)
  PROVE  SessionsInv'
  <1>. DEFINE r == req[s]
              p == [r EXCEPT !.cookies = Empty]
              q == setTokenToCookie(r, r.cookies.access, r.cookies.refresh)
              c == [access |-> r.cookies.access, refresh |-> r.cookies.refresh]
  <1>1. /\ r \in Request /\ RequestOK(r, time, held, accounts)
        /\ Browsing(r) /\ Follows(r, session, tangled)
    BY RequestKnown
  <1>2. r.op = "signIn" /\ r.status = "none" /\ ~r.sets /\ UserOf(r.cookies) = r.signer
    BY <1>1 DEF signedIn, RequestOK, Signs
  <1>3. CASE Step(s, Answer(p, "unauthorized"))
    <2>1. p \in Request /\ Kept(r, p) /\ p.cookies = Empty /\ ~p.sets
      BY <1>1, <1>2, EmptyIsOK DEF Request, Kept
    <2>. HIDE DEF p
    <2>2. AnswerOK(p, "unauthorized")
      BY <1>1, <1>2, <2>1, EmptyIsOK DEF AnswerOK, RequestOK, Kept, Browsing, Follows
    <2>. QED BY <1>3, <2>1, <2>2, AnswerKeepsInv
  <1>4. CASE Step(s, Answer(q, "ok"))
    <2>1. r.cookies \in Cookies /\ CookiesOK(r.cookies, time, held, accounts)
      BY <1>1 DEF Request, RequestOK
    <2>2. c = r.cookies
      BY <2>1 DEF Cookies
    <2>3. q \in Request /\ Kept(r, q) /\ q.cookies = r.cookies /\ q.sets
      BY <1>1, <2>1, <2>2, SetCookies
    <2>. HIDE DEF q
    <2>4. AnswerOK(q, "ok")
      BY <1>1, <1>2, <2>3 DEF AnswerOK, RequestOK, Kept, Browsing, Follows
    <2>. QED BY <1>4, <2>3, <2>4, AnswerKeepsInv
  <1>. QED BY <1>3, <1>4 DEF signedIn

LEMMA ServerKeepsInv ==
  ASSUME SessionsInv, NEW s \in Requests, Server(s)
  PROVE  SessionsInv'
  <1>1. CASE verificationFails(s)
    BY <1>1, FailureKeepsInv DEF verificationFails
  <1>. QED
    BY <1>1, VerifyKeepsInv, RefreshKeepsInv, VerifyNewKeepsInv, GuardKeepsInv, SignedInKeepsInv
    DEF Server, _use

-----------------------------------------------------------------------------
(***************************************************************************)
(* What the browser receives.                                              *)
(***************************************************************************)

LEMMA LoseKeepsInv ==
  ASSUME SessionsInv, NEW s \in Requests, lose(s)
  PROVE  SessionsInv'
  <1>1. Browsing(Idle) /\ Follows(Idle, session, tangled)
    BY DEF Idle, Browsing, Follows
  <1>. QED BY <1>1, IdleIsOK, StepKeepsInv DEF lose

LEMMA ReceiveKeepsInv ==
  ASSUME SessionsInv, NEW s \in Requests, receive(s)
  PROVE  SessionsInv'
  <1>. DEFINE r == req[s]
              b == r.browser
              changes == r.op \in {"signIn", "signOut"} /\ r.status = "ok"
  <1>1. /\ r \in Request /\ RequestOK(r, time, held, accounts)
        /\ Browsing(r) /\ Follows(r, session, tangled)
    BY RequestKnown
  <1>2. UNCHANGED <<accounts, time, held>> /\ req' = [req EXCEPT ![s] = Idle]
    BY DEF receive
  <1>3. \A o \in Requests : req'[o] = IF o = s THEN Idle ELSE req[o]
    BY <1>2 DEF SessionsInv, TypeOK
  <1>4. r.sets \/ changes => b \in Browsers
    BY <1>1 DEF RequestOK, Signs, Browsing
  <1>5. \A d \in Browsers : jar'[d] = IF r.sets /\ d = b THEN r.cookies ELSE jar[d]
    BY DEF receive, SessionsInv, TypeOK
  <1>6. \A d \in Browsers : session'[d] = IF changes /\ d = b THEN r.signer ELSE session[d]
    BY DEF receive, SessionsInv, TypeOK
  <1>7. \A d \in Browsers :
           tangled'[d] = IF changes /\ d = b THEN OthersUnderWay(s) ELSE tangled[d]
    BY DEF receive, SessionsInv, TypeOK
  <1>8. TypeOK'
    <2>1. req' \in [Requests -> Request]
      BY <1>2, IdleIsOK DEF SessionsInv, TypeOK
    <2>2. jar' \in [Browsers -> Cookies]
      BY <1>1, <1>4 DEF receive, SessionsInv, TypeOK, Request
    <2>3. session' \in [Browsers -> Uids \cup {Nobody}]
      BY <1>1, <1>4 DEF receive, SessionsInv, TypeOK, Request
    <2>4. tangled' \in [Browsers -> BOOLEAN]
      BY <1>4 DEF receive, SessionsInv, TypeOK, OthersUnderWay
    <2>. QED BY <1>2, <2>1, <2>2, <2>3, <2>4 DEF SessionsInv, TypeOK
  <1>9. HeldNow'
    BY <1>2 DEF SessionsInv, HeldNow
  <1>10. \A d \in Browsers : CookiesOK(jar[d], time, held, accounts)'
    BY <1>1, <1>2, <1>5 DEF SessionsInv, RequestOK
  <1>11. \A o \in Requests : RequestOK(req[o], time, held, accounts)'
    BY <1>2, <1>3, IdleIsOK DEF SessionsInv
  <1>12. \A o \in Requests : Browsing(req[o])'
    BY <1>3 DEF SessionsInv, Browsing, Idle
  <1>13. JarFollowsUser'
    <2>. SUFFICES ASSUME NEW d \in Browsers
                  PROVE  tangled'[d] \/ UserOf(jar'[d]) = session'[d]
      BY DEF JarFollowsUser, UserOf
    <2>1. tangled[d] \/ UserOf(jar[d]) = session[d]
      BY DEF SessionsInv, JarFollowsUser
    <2>2. CASE changes
      BY <1>1, <1>5, <1>6, <1>7, <2>1, <2>2 DEF RequestOK, Signs
    <2>3. CASE ~changes /\ r.op = "call"
      BY <1>1, <1>5, <1>6, <1>7, <2>1, <2>3 DEF RequestOK, Signs, Follows
    <2>4. CASE ~changes /\ r.op # "call"
      <3>1. ~r.sets
        BY <1>1, <2>4 DEF RequestOK, Signs, Request
      <3>. QED BY <1>5, <1>6, <1>7, <2>1, <2>4, <3>1
    <2>. QED BY <2>2, <2>3, <2>4
  <1>14. \A o \in Requests : Follows(req[o], session, tangled)'
    <2>. SUFFICES ASSUME NEW o \in Requests, req'[o].op = "call"
                  PROVE  tangled'[req'[o].browser] \/ UserOf(req'[o].sent) = session'[req'[o].browser]
      BY DEF Follows
    <2>1. o # s /\ req'[o] = req[o]
      BY <1>3 DEF Idle
    <2>2. req[o].browser \in Browsers
      BY <2>1 DEF SessionsInv, Browsing
    <2>3. tangled[req[o].browser] \/ UserOf(req[o].sent) = session[req[o].browser]
      BY <2>1 DEF SessionsInv, Follows
    <2>4. CASE req[o].browser = b /\ changes
      BY <1>7, <2>1, <2>2, <2>4 DEF OthersUnderWay
    <2>5. CASE ~(req[o].browser = b /\ changes)
      BY <1>6, <1>7, <2>1, <2>2, <2>3, <2>5
    <2>. QED BY <2>4, <2>5
  <1>. QED
    BY <1>8, <1>9, <1>10, <1>11, <1>12, <1>13, <1>14 DEF SessionsInv

-----------------------------------------------------------------------------
(***************************************************************************)
(* The invariant.                                                          *)
(***************************************************************************)

LEMMA InitInv == Init => SessionsInv
  <1>. SUFFICES ASSUME Init PROVE SessionsInv
    OBVIOUS
  <1>1. PICK role \in [Uids -> Roles] :
           accounts = [u \in Uids |-> [role |-> role[u], verified |-> FALSE, passwords |-> 0]]
    BY DEF Init
  <1>2. TypeOK /\ HeldNow
    BY <1>1, EmptyIsOK, IdleIsOK DEF Init, TypeOK, Account, HeldNow
  <1>3. JarFollowsUser
    BY EmptyIsOK DEF Init, JarFollowsUser
  <1>4. \A s \in Requests : Browsing(req[s]) /\ Follows(req[s], session, tangled)
    BY DEF Init, Browsing, Follows, Idle
  <1>5. \A b \in Browsers : CookiesOK(jar[b], time, held, accounts)
    BY EmptyIsOK DEF Init
  <1>6. \A s \in Requests : RequestOK(req[s], time, held, accounts)
    BY IdleIsOK DEF Init
  <1>. QED BY <1>2, <1>3, <1>4, <1>5, <1>6 DEF SessionsInv

LEMMA NextInv == SessionsInv /\ [Next]_vars => SessionsInv'
  <1>. SUFFICES ASSUME SessionsInv, [Next]_vars PROVE SessionsInv'
    OBVIOUS
  <1>1. CASE Next
    BY <1>1, FirebaseKeepsInv, SendKeepsInv, ServerKeepsInv, ReceiveKeepsInv, LoseKeepsInv DEF Next
  <1>2. CASE UNCHANGED vars
    <2>1. UNCHANGED <<accounts, time, jar, req, held, session, tangled>>
      BY <1>2 DEF vars
    <2>. QED
      BY <2>1 DEF SessionsInv, TypeOK, HeldNow, JarFollowsUser, UserOf
  <1>. QED BY <1>1, <1>2

\* Every behaviour of browsers, server and Firebase keeps the invariant.
THEOREM SessionsInvHolds == Spec => []SessionsInv
  BY InitInv, NextInv, PTL DEF Spec

-----------------------------------------------------------------------------
(***************************************************************************)
(* What follows from it.                                                   *)
(***************************************************************************)

\* Accounts, cookies, requests and their histories keep their types.
THEOREM SessionsTypeCorrect == Spec => []TypeOK
  <1>1. SessionsInv => TypeOK
    BY DEF SessionsInv
  <1>. QED BY <1>1, SessionsInvHolds, PTL

\* The two cookies of a browser are of one account, whichever of the responses
\* to its parallel requests came last (setTokenToCookie).
THEOREM PairsBelongTogether == Spec => []PairBelongsTogether
  <1>1. SessionsInv => PairBelongsTogether
    <2>. SUFFICES ASSUME SessionsInv, NEW b \in Browsers
                  PROVE  \/ jar[b] = Empty
                         \/ jar[b].access # NoToken /\ jar[b].refresh # NoToken
                            /\ jar[b].access.uid = jar[b].refresh.uid
      BY DEF PairBelongsTogether
    <2>1. jar[b] \in Cookies /\ Together(jar[b])
      BY DEF SessionsInv, TypeOK, CookiesOK
    <2>2. CASE jar[b].access = NoToken /\ jar[b].refresh = NoToken
      BY <2>1, <2>2 DEF Cookies, Empty
    <2>. QED BY <2>1, <2>2 DEF Together
  <1>. QED BY <1>1, SessionsInvHolds, PTL

\* A route with @Roles runs only for an account that had the role and was verified
\* when the token was issued, and the token was accepted within its life
\* (AuthMiddleware, RolesGuard).
THEOREM AdmissionNeedsEntitlement == Spec => []AdmittedWasEntitled
  <1>1. SessionsInv => AdmittedWasEntitled
    <2>. SUFFICES ASSUME SessionsInv, NEW s \in Requests,
                         req[s].pc = "handler", req[s].route # {}
                  PROVE  \E h \in held :
                           /\ h[1] = req[s].user.uid
                           /\ h[2] \in req[s].route
                           /\ h[3] <= req[s].accepted /\ req[s].accepted <= h[3] + TokenLife
      BY DEF AdmittedWasEntitled
    <2>. DEFINE r == req[s]
                h == <<r.user.uid, r.user.role, r.user.issued>>
    <2>1. SpokenFor(r, time, held)
      BY RequestKnown DEF RequestOK
    <2>2. canActivate(r.user, r.route) /\ r.user # NoToken
      BY <2>1 DEF SpokenFor
    <2>3. h \in held
      BY <2>1, <2>2 DEF SpokenFor, IdTokenOK, canActivate
    <2>4. h[1] = r.user.uid /\ h[2] = r.user.role /\ h[3] = r.user.issued
      OBVIOUS
    <2>5. r.user.role \in r.route
      BY <2>2 DEF canActivate
    <2>6. r.user.issued <= r.accepted /\ r.accepted <= r.user.issued + TokenLife
      BY <2>1 DEF SpokenFor
    <2>. HIDE DEF h, r
    <2>. QED BY <2>3, <2>4, <2>5, <2>6 DEF r
  <1>. QED BY <1>1, SessionsInvHolds, PTL

\* A request that carries a refresh token is answered 401 only if a call failed or
\* Firebase has taken the token back (AuthMiddleware._use).
THEOREM NobodyIsThrownOut == Spec => []NotThrownOut
  <1>1. SessionsInv => NotThrownOut
    BY RequestKnown DEF RequestOK, Fair, NotThrownOut, RefreshTokenWorks
  <1>. QED BY <1>1, SessionsInvHolds, PTL

\* Unless other requests were under way at the last sign-in or sign-out, the
\* cookies are those of the user who signed in last.
THEOREM JarFollowsTheUser == Spec => []JarFollowsUser
  <1>1. SessionsInv => JarFollowsUser
    BY DEF SessionsInv
  <1>. QED BY <1>1, SessionsInvHolds, PTL
=============================================================================
