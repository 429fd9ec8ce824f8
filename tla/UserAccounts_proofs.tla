------------------------ MODULE UserAccounts_proofs ------------------------
(***************************************************************************)
(* What holds of the users and their accounts however many requests        *)
(* overlap and fail, and for every set of addresses, uids and tokens.      *)
(*                                                                         *)
(* That only addresses are verified that someone answered for is not       *)
(* inductive: a request verifies a uid and not an address.  AccountsInv    *)
(* adds that a uid stands for one address, in both stores and in every     *)
(* request that works on it, and what each request knows at each await.    *)
(***************************************************************************)
EXTENDS UserAccounts, TLAPS

\* The methods that make or change the account of an address.
AccountOps == {"createUser", "manualCreateUser", "repair", "createAdmin"}

\* What a request knows, given the rows rw and the addresses pr answered for.
RequestOK(r, rw, pr) ==
    /\ r.pc \in {"account", "lookup", "delete", "create", "update", "claims", "saveUser",
                 "commit", "firebaseUser"} => r.op \in AccountOps
    /\ r.pc \notin {"idle", "account", "create", "firebaseUser"} => r.uid \in Uids
    /\ r.op \in AccountOps => r.email \in Emails /\ r.role \in Roles
    /\ r.pc = "commit" => /\ r.pend \in UserRow
                          /\ r.pend.email = r.email
                          /\ r.pend.status = "active" => r.email \in pr
    /\ r.pc \in {"setVerified", "activate", "deleteToken", "findTokens", "deleteTokens",
                 "saveToken"} => rw[r.uid] # NoRow
    /\ r.pc \in {"setVerified", "activate"} => rw[r.uid].email \in pr
    /\ Vouched(r.op) => r.email \in pr
    /\ r.seen => r.email \in pr

Requests == \A c \in Clients : RequestOK(req[c], rows, proved)

\* Someone has it that the uid u stands for the address e.
Says(u, e) ==
    \/ accounts[u] # NoAccount /\ accounts[u].email = e
    \/ rows[u] # NoRow /\ rows[u].email = e
    \/ \E c \in Clients : req[c].op \in AccountOps /\ req[c].uid = u /\ req[c].email = e

\* A uid stands for one address.
OneAddress == \A u \in Uids : \A e, f \in Emails : Says(u, e) /\ Says(u, f) => e = f

\* A token belongs to a row.
TokenHasRow == \A t \in Tokens : tokens[t] # NoToken => rows[tokens[t].user] # NoRow

\* The inductive invariant.
AccountsInv ==
    TypeOK /\ Requests /\ OneAddress /\ TokenHasRow /\ OnlyProvedIsVerified

\* Rows stay, and keep their address.
RowsStay(rw, new) ==
    \A u \in Uids : rw[u] # NoRow => new[u] # NoRow /\ new[u].email = rw[u].email

-----------------------------------------------------------------------------

\* What a request knows stays true while others change the stores.
LEMMA KnowledgeLasts ==
  ASSUME NEW rw, NEW new, NEW pr, NEW newpr, NEW r,
         RowsStay(rw, new), pr \subseteq newpr, RequestOK(r, rw, pr)
  PROVE  RequestOK(r, new, newpr)
  <1>1. r.pc \in {"setVerified", "activate", "deleteToken", "findTokens", "deleteTokens",
                  "saveToken"} => rw[r.uid] # NoRow /\ r.uid \in Uids
    BY DEF RequestOK
  <1>2. QED
    BY <1>1 DEF RequestOK, RowsStay

\* The request of one slot goes on as r: every other one keeps what it knows.
LEMMA RequestsStep ==
  ASSUME AccountsInv, NEW c \in Clients, NEW r \in Request,
         req' = [req EXCEPT ![c] = r],
         RowsStay(rows, rows'), proved \subseteq proved', RequestOK(r, rows', proved')
  PROVE  Requests' /\ req' \in [Clients -> Request]
  <1>1. req \in [Clients -> Request]
    BY DEF AccountsInv, TypeOK
  <1>2. ASSUME NEW d \in Clients
        PROVE  RequestOK(req'[d], rows', proved')
    <2>1. CASE d = c
      BY <1>1, <2>1
    <2>2. CASE d # c
      <3>1. req'[d] = req[d]
        BY <1>1, <2>2
      <3>2. RequestOK(req[d], rows, proved)
        BY DEF AccountsInv, Requests
      <3>3. QED
        BY <3>1, <3>2, KnowledgeLasts
    <2>3. QED
      BY <2>1, <2>2
  <1>3. QED
    BY <1>1, <1>2 DEF Requests

\* A step by which nobody comes to say something new of a uid.
LEMMA AddressStep ==
  ASSUME AccountsInv,
         \A u \in Uids, e \in Emails : Says(u, e)' => Says(u, e)
  PROVE  OneAddress'
  BY DEF AccountsInv, OneAddress

\* A step that leaves the stores alone keeps the invariant when the request
\* it leaves behind is in order.
LEMMA QuietStep ==
  ASSUME AccountsInv, UNCHANGED stores, broken' \in BOOLEAN,
         proved \subseteq proved', proved' \subseteq Emails,
         NEW c \in Clients, NEW r \in Request, req' = [req EXCEPT ![c] = r],
         RequestOK(r, rows, proved'),
         r.op \in AccountOps /\ r.uid \in Uids => Says(r.uid, r.email)
  PROVE  AccountsInv'
  <1>1. RowsStay(rows, rows') /\ RequestOK(r, rows', proved')
    BY DEF stores, RowsStay
  <1>2. Requests' /\ req' \in [Clients -> Request]
    BY <1>1, RequestsStep
  <1>3. TypeOK'
    BY <1>2 DEF AccountsInv, TypeOK, stores
  <1>4. ASSUME NEW u \in Uids, NEW e \in Emails, Says(u, e)'
        PROVE  Says(u, e)
    BY <1>4 DEF AccountsInv, TypeOK, stores, Says
  <1>5. OneAddress'
    BY <1>4, AddressStep
  <1>6. TokenHasRow' /\ OnlyProvedIsVerified'
    BY DEF AccountsInv, TokenHasRow, OnlyProvedIsVerified, stores
  <1>7. QED
    BY <1>2, <1>3, <1>5, <1>6 DEF AccountsInv

LEMMA IdleIsOK == Idle \in Request /\ \A rw, pr : RequestOK(Idle, rw, pr)
  BY DEF Idle, Request, RequestOK, AccountOps, Vouched

\* A request that ends.
LEMMA EndStep ==
  ASSUME AccountsInv, NEW c \in Clients, End(c), UNCHANGED <<stores, proved>>,
         broken' \in BOOLEAN
  PROVE  AccountsInv'
  <1>1. proved \subseteq proved' /\ proved' \subseteq Emails
    BY DEF AccountsInv, TypeOK
  <1>2. Idle.op \notin AccountOps
    BY DEF Idle, AccountOps
  <1>3. QED
    BY <1>1, <1>2, IdleIsOK, QuietStep DEF End

\* A request that goes on to its next await.
LEMMA GoStep ==
  ASSUME AccountsInv, NEW c \in Clients, NEW p \in Waits, Go(c, p),
         UNCHANGED <<stores, proved>>, broken' \in BOOLEAN,
         RequestOK([req[c] EXCEPT !.pc = p], rows, proved)
  PROVE  AccountsInv'
  <1> DEFINE r == [req[c] EXCEPT !.pc = p]
  <1>1. req[c] \in Request /\ req \in [Clients -> Request]
    BY DEF AccountsInv, TypeOK
  <1>2. r \in Request /\ r.op = req[c].op /\ r.uid = req[c].uid /\ r.email = req[c].email
    BY <1>1 DEF Request
  <1>3. req' = [req EXCEPT ![c] = r]
    BY <1>1 DEF Go
  <1>4. r.op \in AccountOps /\ r.uid \in Uids => Says(r.uid, r.email)
    BY <1>2 DEF Says
  <1>5. proved \subseteq proved' /\ proved' \subseteq Emails
    BY DEF AccountsInv, TypeOK
  <1>6. RequestOK(r, rows, proved')
    OBVIOUS
  <1> HIDE DEF r
  <1>7. QED
    BY <1>2, <1>3, <1>4, <1>5, <1>6, QuietStep

-----------------------------------------------------------------------------

\* Arrivals.
LEMMA ArriveStep ==
  ASSUME AccountsInv, NEW c \in Clients, Arrive(c)
  PROVE  AccountsInv'
  <1>t. /\ proved \subseteq Emails /\ broken \in BOOLEAN
        /\ rows \in [Uids -> UserRow \cup {NoRow}]
        /\ tokens \in [Tokens -> Token \cup {NoToken}]
    BY DEF AccountsInv, TypeOK
  <1>1. ASSUME NEW email \in Emails, NEW role \in SignUpRoles, createUser(c, email, role)
        PROVE  AccountsInv'
    <2> DEFINE r == [Idle EXCEPT !.pc = "account", !.op = "createUser",
                                 !.email = email, !.role = role]
    <2>1. r \in Request /\ r.uid \notin Uids
      BY RolesAssumption, NoUidAssumption DEF Idle, Request, Waits, Ops, Roles
    <2>2. RequestOK(r, rows, proved)
      BY RolesAssumption DEF Idle, RequestOK, AccountOps, Roles, Vouched
    <2>3. req' = [req EXCEPT ![c] = r] /\ UNCHANGED <<stores, broken, proved>>
      BY <1>1 DEF createUser, Begin
    <2> HIDE DEF r
    <2>4. QED
      BY <1>t, <2>1, <2>2, <2>3, QuietStep
  <1>2. ASSUME NEW email \in Emails, manualCreateUser(c, email)
        PROVE  AccountsInv'
    <2> DEFINE r(p, op) == [Idle EXCEPT !.email = email, !.role = "company",
                                        !.pc = p, !.op = op]
    <2>1. r("account", "manualCreateUser") \in Request /\ r("firebaseUser", "repair") \in Request
          /\ r("account", "manualCreateUser").uid \notin Uids
          /\ r("firebaseUser", "repair").uid \notin Uids
      BY NoUidAssumption DEF Idle, Request, Waits, Ops, Roles
    <2>2. RequestOK(r("account", "manualCreateUser"), rows, proved \cup {email})
          /\ RequestOK(r("firebaseUser", "repair"), rows, proved \cup {email})
      BY DEF Idle, RequestOK, AccountOps, Roles, Vouched
    <2>3. /\ \/ req' = [req EXCEPT ![c] = r("account", "manualCreateUser")]
             \/ req' = [req EXCEPT ![c] = r("firebaseUser", "repair")]
          /\ UNCHANGED <<stores, broken>> /\ proved' = proved \cup {email}
      BY <1>2 DEF manualCreateUser, Begin, Idle
    <2> HIDE DEF r
    <2>4. QED
      BY <1>t, <2>1, <2>2, <2>3, QuietStep
  <1>3. ASSUME NEW email \in AdminEmails, createAdmin(c, email)
        PROVE  AccountsInv'
    <2> DEFINE r == [Idle EXCEPT !.pc = "account", !.op = "createAdmin",
                                 !.email = email, !.role = "admin"]
    <2>1. r \in Request /\ r.uid \notin Uids /\ email \in Emails
      BY EmailsAssumption, NoUidAssumption DEF Idle, Request, Waits, Ops, Roles
    <2>2. RequestOK(r, rows, proved \cup {email})
      BY <2>1 DEF Idle, RequestOK, AccountOps, Roles, Vouched
    <2>3. /\ req' = [req EXCEPT ![c] = r] /\ UNCHANGED <<stores, broken>>
          /\ proved' = proved \cup {email}
      BY <1>3 DEF createAdmin, Begin
    <2> HIDE DEF r
    <2>4. QED
      BY <1>t, <2>1, <2>2, <2>3, QuietStep
  <1>4. ASSUME NEW u \in Uids, signIn(c, u)
        PROVE  AccountsInv'
    <2> DEFINE r == [Idle EXCEPT !.pc = "getUser", !.op = "getUser", !.uid = u]
    <2>1. r \in Request /\ r.op \notin AccountOps
      BY DEF Idle, Request, Waits, Ops, AccountOps
    <2>2. RequestOK(r, rows, proved)
      BY DEF Idle, RequestOK, AccountOps, Vouched
    <2>3. req' = [req EXCEPT ![c] = r] /\ UNCHANGED <<stores, broken, proved>>
      BY <1>4 DEF signIn, Begin
    <2> HIDE DEF r
    <2>4. QED
      BY <1>t, <2>1, <2>2, <2>3, QuietStep
  <1>5. ASSUME NEW t \in Tokens, verifyUser(c, t) \/ resetPassword(c, t)
        PROVE  AccountsInv'
    <2> DEFINE u == tokens[t].user
               r(op) == [Idle EXCEPT !.pc = "setVerified", !.op = op, !.uid = u, !.found = {t}]
    <2>1. /\ tokens[t] # NoToken
          /\ \/ req' = [req EXCEPT ![c] = r("verifyUser")]
             \/ req' = [req EXCEPT ![c] = r("resetPassword")]
          /\ UNCHANGED <<stores, broken>> /\ proved' = proved \cup {rows[u].email}
      BY <1>5 DEF verifyUser, resetPassword, PresentToken, Begin
    <2>2. u \in Uids /\ rows[u] # NoRow /\ rows[u].email \in Emails
      BY <1>t, <2>1 DEF AccountsInv, TokenHasRow, Token, UserRow
    <2> HIDE DEF u
    <2>3. ASSUME NEW op \in {"verifyUser", "resetPassword"}
          PROVE  /\ r(op) \in Request /\ r(op).op \notin AccountOps
                 /\ RequestOK(r(op), rows, proved \cup {rows[u].email})
      BY <2>2 DEF Idle, Request, Waits, Ops, RequestOK, AccountOps, Vouched
    <2> HIDE DEF r
    <2>4. QED
      BY <1>t, <2>1, <2>2, <2>3, QuietStep
  <1>6. ASSUME NEW email \in Emails, forgotPassword(c, email)
        PROVE  AccountsInv'
    <2>1. PICK u \in getUserByEmailAndRole(email, "company") :
             Begin(c, [Idle EXCEPT !.pc = "findTokens", !.op = "forgotPassword", !.uid = u])
      BY <1>6 DEF forgotPassword
    <2> DEFINE r == [Idle EXCEPT !.pc = "findTokens", !.op = "forgotPassword", !.uid = u]
    <2>2. u \in Uids /\ rows[u] # NoRow
      BY DEF getUserByEmailAndRole, RowsOf
    <2>3. r \in Request /\ r.op \notin AccountOps /\ RequestOK(r, rows, proved)
      BY <2>2 DEF Idle, Request, Waits, Ops, RequestOK, AccountOps, Vouched
    <2>4. req' = [req EXCEPT ![c] = r] /\ UNCHANGED <<stores, broken, proved>>
      BY <1>6, <2>1 DEF forgotPassword, Begin
    <2> HIDE DEF r
    <2>5. QED
      BY <1>t, <2>3, <2>4, QuietStep
  <1>7. QED
    BY <1>1, <1>2, <1>3, <1>4, <1>5, <1>6 DEF Arrive

\* Steps and failures that leave the stores alone.
LEMMA QuietSteps ==
  ASSUME AccountsInv, NEW c \in Clients,
         \/ GetAccount(c) \/ Lookup(c) \/ GetFirebaseUser(c) \/ SaveUser(c)
         \/ GetUser(c) \/ FindTokens(c) \/ Caught(c) \/ Fail(c)
  PROVE  AccountsInv'
  <1>t. /\ req \in [Clients -> Request] /\ req[c] \in Request
        /\ proved \subseteq Emails /\ broken \in BOOLEAN
        /\ accounts \in [Uids -> Account \cup {NoAccount}]
        /\ rows \in [Uids -> UserRow \cup {NoRow}]
    BY DEF AccountsInv, TypeOK
  <1>k. RequestOK(req[c], rows, proved)
    BY DEF AccountsInv, Requests
  <1>w. {"create", "delete", "saveUser", "unknown", "deleteTokens", "undo"} \subseteq Waits
    BY DEF Waits
  <1>1. CASE GetAccount(c)
    <2>1. CASE Go(c, "create")
      <3>1. RequestOK([req[c] EXCEPT !.pc = "create"], rows, proved)
        BY <1>1, <1>t, <1>k DEF GetAccount, RequestOK, Request
      <3>2. QED
        BY <1>1, <1>t, <1>w, <2>1, <3>1, GoStep DEF GetAccount, history
    <2>2. CASE \E u \in AccountOf(req[c].email) :
                 req' = [req EXCEPT ![c].pc = "lookup", ![c].uid = u, ![c].seen = accounts[u].verified]
      <3>1. PICK u \in AccountOf(req[c].email) :
                 req' = [req EXCEPT ![c].pc = "lookup", ![c].uid = u, ![c].seen = accounts[u].verified]
        BY <2>2
      <3> DEFINE r == [req[c] EXCEPT !.pc = "lookup", !.uid = u, !.seen = accounts[u].verified]
      <3>2. /\ u \in Uids /\ accounts[u] # NoAccount /\ accounts[u] \in Account
            /\ accounts[u].email = req[c].email
        BY <1>t DEF AccountOf
      <3>3. /\ r \in Request /\ r.op = req[c].op /\ r.uid = u /\ r.email = req[c].email
            /\ req' = [req EXCEPT ![c] = r]
        BY <1>t, <3>1, <3>2 DEF Request, Waits, Account
      <3>4. accounts[u].verified => req[c].email \in proved
        BY <3>2 DEF AccountsInv, OnlyProvedIsVerified
      <3>5. RequestOK(r, rows, proved)
        BY <1>1, <1>t, <1>k, <3>2, <3>4 DEF GetAccount, RequestOK, Request
      <3>6. Says(r.uid, r.email)
        BY <3>2, <3>3 DEF Says
      <3>7. UNCHANGED <<stores, broken, proved>>
        BY <1>1 DEF GetAccount, history
      <3> HIDE DEF r
      <3>8. QED
        BY <1>t, <3>3, <3>5, <3>6, <3>7, QuietStep
    <2>3. QED
      BY <1>1, <2>1, <2>2 DEF GetAccount
  <1>2. CASE Lookup(c)
    <2>1. CASE Go(c, "delete")
      BY <1>2, <1>t, <1>k, <1>w, <2>1, GoStep DEF Lookup, Decide, RequestOK, history
    <2>2. CASE End(c)
      BY <1>2, <1>t, <2>2, EndStep DEF Lookup, Decide, history
    <2>3. CASE req' = [req EXCEPT ![c].pc = "update", ![c].insert = rows[req[c].uid] = NoRow]
      <3> DEFINE r == [req[c] EXCEPT !.pc = "update", !.insert = rows[req[c].uid] = NoRow]
      <3>1. /\ r \in Request /\ r.op = req[c].op /\ r.uid = req[c].uid /\ r.email = req[c].email
            /\ req' = [req EXCEPT ![c] = r]
        BY <1>t, <2>3 DEF Request, Waits
      <3>2. RequestOK(r, rows, proved)
        BY <1>2, <1>t, <1>k DEF Lookup, Decide, RequestOK, Request
      <3>3. r.op \in AccountOps => Says(r.uid, r.email)
        BY <3>1 DEF Says
      <3>4. UNCHANGED <<stores, broken, proved>>
        BY <1>2 DEF Lookup, Decide, history
      <3> HIDE DEF r
      <3>5. QED
        BY <1>t, <3>1, <3>2, <3>3, <3>4, QuietStep
    <2>4. QED
      BY <1>2, <2>1, <2>2, <2>3 DEF Lookup, Decide
  <1>3. CASE GetFirebaseUser(c)
    <2>1. CASE Go(c, "create")
      BY <1>3, <1>t, <1>k, <1>w, <2>1, GoStep DEF GetFirebaseUser, RequestOK, history
    <2>2. CASE End(c)
      BY <1>3, <1>t, <2>2, EndStep DEF GetFirebaseUser, history
    <2>3. QED
      BY <1>3, <2>1, <2>2 DEF GetFirebaseUser
  <1>4. CASE SaveUser(c)
    <2>1. CASE End(c)
      BY <1>4, <1>t, <2>1, EndStep DEF SaveUser, history
    <2>2. CASE req' = [req EXCEPT ![c].pc = "commit", ![c].pend = NewRow(c)]
      <3> DEFINE r == [req[c] EXCEPT !.pc = "commit", !.pend = NewRow(c)]
      <3>1. req[c].op \in AccountOps /\ req[c].email \in Emails /\ req[c].role \in Roles
        BY <1>4, <1>k DEF SaveUser, RequestOK
      <3>2. /\ NewRow(c) \in UserRow /\ NewRow(c).email = req[c].email
            /\ NewRow(c).status = "active" => req[c].email \in proved
        BY <1>k, <3>1 DEF NewRow, UserRow, RequestOK
      <3>3. /\ r \in Request /\ r.op = req[c].op /\ r.uid = req[c].uid /\ r.email = req[c].email
            /\ req' = [req EXCEPT ![c] = r]
        BY <1>t, <2>2, <3>2 DEF Request, Waits
      <3>4. RequestOK(r, rows, proved)
        BY <1>4, <1>t, <1>k, <3>2 DEF SaveUser, RequestOK, Request
      <3>5. r.op \in AccountOps => Says(r.uid, r.email)
        BY <3>3 DEF Says
      <3>6. UNCHANGED <<stores, broken, proved>>
        BY <1>4 DEF SaveUser, history
      <3> HIDE DEF r
      <3>7. QED
        BY <1>t, <3>3, <3>4, <3>5, <3>6, QuietStep
    <2>3. QED
      BY <1>4, <2>1, <2>2 DEF SaveUser
  <1>5. CASE GetUser(c)
    <2>1. CASE End(c)
      BY <1>5, <1>t, <2>1, EndStep DEF GetUser, history
    <2>2. CASE Go(c, "unknown")
      BY <1>5, <1>t, <1>k, <1>w, <2>2, GoStep DEF GetUser, RequestOK, history
    <2>3. QED
      BY <1>5, <2>1, <2>2 DEF GetUser
  <1>6. CASE FindTokens(c)
    <2> DEFINE mine == {t \in Tokens : tokens[t] = [user |-> req[c].uid, type |-> "reset_password"]}
               r == [req[c] EXCEPT !.pc = "deleteTokens", !.found = mine]
    <2>1. /\ r \in Request /\ r.op = req[c].op /\ r.uid = req[c].uid /\ r.email = req[c].email
          /\ req' = [req EXCEPT ![c] = r]
      BY <1>6, <1>t DEF FindTokens, Request, Waits
    <2>2. RequestOK(r, rows, proved)
      BY <1>6, <1>t, <1>k DEF FindTokens, RequestOK, Request
    <2>3. r.op \in AccountOps => Says(r.uid, r.email)
      BY <2>1 DEF Says
    <2>4. UNCHANGED <<stores, broken, proved>>
      BY <1>6 DEF FindTokens, history
    <2> HIDE DEF r
    <2>5. QED
      BY <1>t, <2>1, <2>2, <2>3, <2>4, QuietStep
  <1>7. CASE Caught(c)
    <2>1. PICK p \in {"create", "deleteTokens", "undo"} :
             /\ Go(c, p)
             /\ p = "create" => req[c].pc \in {"account", "firebaseUser"}
             /\ p = "deleteTokens" => req[c].pc = "findTokens"
             /\ p = "undo" => req[c].pc \in {"setVerified", "activate"}
      BY <1>7 DEF Caught
    <2>2. UNCHANGED <<stores, proved>> /\ broken' \in BOOLEAN
      BY <1>7 DEF Caught
    <2>3. RequestOK([req[c] EXCEPT !.pc = p], rows, proved)
      BY <1>t, <1>k, <2>1 DEF RequestOK, Request
    <2>4. QED
      BY <1>w, <2>1, <2>2, <2>3, GoStep
  <1>8. CASE Fail(c)
    BY <1>8, EndStep DEF Fail
  <1>9. QED
    BY <1>1, <1>2, <1>3, <1>4, <1>5, <1>6, <1>7, <1>8

-----------------------------------------------------------------------------

\* An account that is gone, or changed without its address, says nothing new.
LEMMA AccountStep ==
  ASSUME AccountsInv, UNCHANGED <<rows, tokens, proved, broken>>,
         NEW c \in Clients, NEW r \in Request, req' = [req EXCEPT ![c] = r],
         RequestOK(r, rows, proved), r.op \in AccountOps => r.uid \in {req[c].uid, NoUid},
         r.op \in AccountOps => req[c].op = r.op /\ req[c].email = r.email,
         NEW u \in Uids, NEW a \in Account \cup {NoAccount},
         accounts' = [accounts EXCEPT ![u] = a],
         a # NoAccount => /\ accounts[u] # NoAccount /\ a.email = accounts[u].email
                          /\ a.verified => a.email \in proved
  PROVE  AccountsInv'
  <1>t. /\ req \in [Clients -> Request] /\ accounts \in [Uids -> Account \cup {NoAccount}]
    BY DEF AccountsInv, TypeOK
  <1>1. RowsStay(rows, rows') /\ RequestOK(r, rows', proved') /\ proved \subseteq proved'
    BY DEF RowsStay
  <1>2. Requests' /\ req' \in [Clients -> Request]
    BY <1>1, RequestsStep
  <1>3. TypeOK'
    BY <1>2 DEF AccountsInv, TypeOK
  <1>4. ASSUME NEW v \in Uids, NEW e \in Emails, Says(v, e)'
        PROVE  Says(v, e)
    <2>1. CASE accounts'[v] # NoAccount /\ accounts'[v].email = e
      BY <1>t, <2>1 DEF Says
    <2>2. CASE rows'[v] # NoRow /\ rows'[v].email = e
      BY <2>2 DEF Says
    <2>3. CASE \E d \in Clients : req'[d].op \in AccountOps /\ req'[d].uid = v /\ req'[d].email = e
      BY <1>t, <2>3, NoUidAssumption DEF Says
    <2>4. QED
      BY <1>4, <2>1, <2>2, <2>3 DEF Says
  <1>5. OneAddress'
    BY <1>4, AddressStep
  <1>6. OnlyProvedIsVerified'
    BY <1>t DEF AccountsInv, OnlyProvedIsVerified
  <1>7. TokenHasRow'
    BY DEF AccountsInv, TokenHasRow
  <1>8. QED
    BY <1>2, <1>3, <1>5, <1>6, <1>7 DEF AccountsInv

\* Steps that change an account that exists.
LEMMA AccountSteps ==
  ASSUME AccountsInv, NEW c \in Clients,
         \/ DeleteAccount(c) \/ UpdateAccount(c) \/ SetClaims(c)
         \/ DeleteUnknownUser(c) \/ SetVerified(c) \/ Undo(c)
  PROVE  AccountsInv'
  <1> DEFINE u == req[c].uid
             go(p) == [req[c] EXCEPT !.pc = p]
  <1>t. /\ req \in [Clients -> Request] /\ req[c] \in Request
        /\ proved \subseteq Emails /\ broken \in BOOLEAN
        /\ accounts \in [Uids -> Account \cup {NoAccount}]
    BY DEF AccountsInv, TypeOK
  <1>k. RequestOK(req[c], rows, proved)
    BY DEF AccountsInv, Requests
  <1>u. u \in Uids
    BY <1>k DEF RequestOK, DeleteAccount, UpdateAccount, SetClaims, DeleteUnknownUser,
                SetVerified, Undo
  <1>a. /\ accounts[u] # NoAccount => accounts[u] \in Account
        /\ accounts[u] # NoAccount /\ accounts[u].verified => accounts[u].email \in proved
    BY <1>t, <1>u DEF AccountsInv, OnlyProvedIsVerified
  <1>i. Idle \in Request /\ RequestOK(Idle, rows, proved) /\ Idle.op \notin AccountOps
    BY IdleIsOK DEF Idle, AccountOps
  <1>e. ASSUME accounts' = accounts \/ accounts' = [accounts EXCEPT ![u] = NoAccount],
               End(c), UNCHANGED <<rows, tokens, proved, broken>>
        PROVE  AccountsInv'
    <2>1. CASE accounts' = accounts
      BY <1>t, <1>e, <2>1, EndStep DEF stores
    <2>2. CASE accounts' = [accounts EXCEPT ![u] = NoAccount]
      BY <1>e, <1>i, <1>u, <2>2, AccountStep DEF End
    <2>3. QED
      BY <1>e, <2>1, <2>2
  <1>g. ASSUME NEW p \in Waits
        PROVE  /\ go(p) \in Request /\ go(p).uid = u
               /\ go(p).op = req[c].op /\ go(p).email = req[c].email
    BY <1>t DEF Request
  <1>1. CASE DeleteAccount(c)
    <2>1. CASE End(c) /\ UNCHANGED accounts
      BY <1>1, <1>e, <2>1 DEF DeleteAccount, history
    <2>2. CASE /\ accounts' = [accounts EXCEPT ![u] = NoAccount]
               /\ req' = [req EXCEPT ![c].pc = "create", ![c].uid = NoUid]
      <3> DEFINE r == [req[c] EXCEPT !.pc = "create", !.uid = NoUid]
      <3>1. /\ r \in Request /\ r.uid = NoUid /\ r.op = req[c].op /\ r.email = req[c].email
            /\ req' = [req EXCEPT ![c] = r]
        BY <1>t, <2>2 DEF Request, Waits
      <3>2. RequestOK(r, rows, proved)
        BY <1>1, <1>t, <1>k DEF DeleteAccount, RequestOK, Request
      <3>3. UNCHANGED <<rows, tokens, proved, broken>>
        BY <1>1 DEF DeleteAccount, history
      <3> HIDE DEF r
      <3>4. QED
        BY <1>u, <2>2, <3>1, <3>2, <3>3, AccountStep
    <2>3. QED
      BY <1>1, <2>1, <2>2 DEF DeleteAccount
  <1>2. CASE UpdateAccount(c)
    <2>1. CASE End(c) /\ UNCHANGED accounts
      BY <1>2, <1>e, <2>1 DEF UpdateAccount, history
    <2>2. CASE accounts[u] # NoAccount
      <3> DEFINE a == [accounts[u] EXCEPT !.verified = Vouched(req[c].op) \/ req[c].seen]
      <3>1. accounts' = [accounts EXCEPT ![u] = a] /\ req' = [req EXCEPT ![c] = go("claims")]
        BY <1>2, <1>t, <1>u, <2>2 DEF UpdateAccount, Go
      <3>2. accounts[u].email = req[c].email
        BY <1>2, <1>a, <1>k, <1>u, <2>2
        DEF AccountsInv, OneAddress, Says, UpdateAccount, RequestOK, Account
      <3>3. a \in Account /\ a.email = accounts[u].email /\ (a.verified => a.email \in proved)
        BY <1>a, <1>k, <1>t, <2>2, <3>2 DEF Account, RequestOK, Vouched, Request
      <3>4. RequestOK(go("claims"), rows, proved)
        BY <1>2, <1>t, <1>k DEF UpdateAccount, RequestOK, Request
      <3>5. go("claims") \in Request /\ go("claims").uid = u
            /\ go("claims").op = req[c].op /\ go("claims").email = req[c].email
        BY <1>g DEF Waits
      <3>6. UNCHANGED <<rows, tokens, proved, broken>>
        BY <1>2 DEF UpdateAccount, history
      <3> HIDE DEF a, go
      <3>7. QED
        BY <1>u, <2>2, <3>1, <3>3, <3>4, <3>5, <3>6, AccountStep
    <2>3. QED
      BY <1>2, <2>1, <2>2 DEF UpdateAccount
  <1>3. CASE SetClaims(c)
    <2>1. CASE End(c) /\ UNCHANGED accounts
      BY <1>3, <1>e, <2>1 DEF SetClaims, history
    <2>2. CASE accounts[u] # NoAccount
      <3> DEFINE a == [accounts[u] EXCEPT !.role = req[c].role]
      <3>1. /\ accounts' = [accounts EXCEPT ![u] = a]
            /\ \/ req' = [req EXCEPT ![c] = go("saveUser")]
               \/ req' = [req EXCEPT ![c] = Idle]
        BY <1>3, <1>t, <1>u, <2>2 DEF SetClaims, AfterClaims, Go, End
      <3>2. req[c].role \in Roles
        BY <1>3, <1>k DEF SetClaims, RequestOK
      <3>3. a \in Account /\ a.email = accounts[u].email /\ (a.verified => a.email \in proved)
        BY <1>a, <2>2, <3>2 DEF Account
      <3>4. RequestOK(go("saveUser"), rows, proved)
        BY <1>3, <1>t, <1>k DEF SetClaims, RequestOK, Request
      <3>5. go("saveUser") \in Request /\ go("saveUser").uid = u
            /\ go("saveUser").op = req[c].op /\ go("saveUser").email = req[c].email
        BY <1>g DEF Waits
      <3>6. UNCHANGED <<rows, tokens, proved, broken>>
        BY <1>3 DEF SetClaims, history
      <3> HIDE DEF a, go
      <3>7. CASE req' = [req EXCEPT ![c] = go("saveUser")]
        BY <1>u, <2>2, <3>1, <3>3, <3>4, <3>5, <3>6, <3>7, AccountStep
      <3>8. CASE req' = [req EXCEPT ![c] = Idle]
        BY <1>i, <1>u, <2>2, <3>1, <3>3, <3>6, <3>8, AccountStep
      <3>9. QED
        BY <3>1, <3>7, <3>8
    <2>3. QED
      BY <1>3, <2>1, <2>2 DEF SetClaims
  <1>4. CASE DeleteUnknownUser(c)
    BY <1>4, <1>e DEF DeleteUnknownUser, history
  <1>5. CASE SetVerified(c)
    <2>1. CASE End(c) /\ UNCHANGED accounts
      BY <1>5, <1>e, <2>1 DEF SetVerified, history
    <2>2. CASE accounts[u] # NoAccount
      <3> DEFINE a == [accounts[u] EXCEPT !.verified = TRUE]
      <3>1. accounts' = [accounts EXCEPT ![u] = a] /\ req' = [req EXCEPT ![c] = go("activate")]
        BY <1>5, <1>t, <1>u, <2>2 DEF SetVerified, Go
      <3>2. rows[u] # NoRow /\ rows[u].email \in proved
        BY <1>5, <1>k DEF SetVerified, RequestOK
      <3>3. accounts[u].email = rows[u].email
        BY <1>a, <1>t, <1>u, <2>2, <3>2 DEF AccountsInv, OneAddress, Says, Account
      <3>4. a \in Account /\ a.email = accounts[u].email /\ (a.verified => a.email \in proved)
        BY <1>a, <2>2, <3>2, <3>3 DEF Account
      <3>5. RequestOK(go("activate"), rows, proved)
        BY <1>5, <1>t, <1>k DEF SetVerified, RequestOK, Request
      <3>6. go("activate") \in Request /\ go("activate").uid = u
            /\ go("activate").op = req[c].op /\ go("activate").email = req[c].email
        BY <1>g DEF Waits
      <3>7. UNCHANGED <<rows, tokens, proved, broken>>
        BY <1>5 DEF SetVerified, history
      <3> HIDE DEF a, go
      <3>8. QED
        BY <1>u, <2>2, <3>1, <3>4, <3>5, <3>6, <3>7, AccountStep
    <2>3. QED
      BY <1>5, <2>1, <2>2 DEF SetVerified
  <1>6. CASE Undo(c)
    <2>1. CASE accounts[u] = NoAccount
      <3>1. accounts' = accounts
        BY <1>6, <1>t, <1>u, <2>1 DEF Undo
      <3>2. QED
        BY <1>6, <1>e, <3>1 DEF Undo, history
    <2>2. CASE accounts[u] # NoAccount
      <3> DEFINE a == [accounts[u] EXCEPT !.verified = FALSE]
      <3>1. accounts' = [accounts EXCEPT ![u] = a] /\ req' = [req EXCEPT ![c] = Idle]
        BY <1>6, <1>t, <1>u, <2>2 DEF Undo, End
      <3>2. a \in Account /\ a.email = accounts[u].email /\ ~ a.verified
        BY <1>a, <2>2 DEF Account
      <3>3. UNCHANGED <<rows, tokens, proved, broken>>
        BY <1>6 DEF Undo, history
      <3> HIDE DEF a
      <3>4. QED
        BY <1>i, <1>u, <2>2, <3>1, <3>2, <3>3, AccountStep
    <2>3. QED
      BY <2>1, <2>2
  <1>7. QED
    BY <1>1, <1>2, <1>3, <1>4, <1>5, <1>6

-----------------------------------------------------------------------------

\* The id that Firebase gives: nobody says anything of it yet.
LEMMA NewUidIsFresh ==
  ASSUME HasNewUid
  PROVE  /\ NewUid \in Uids /\ accounts[NewUid] = NoAccount /\ rows[NewUid] = NoRow
         /\ \A d \in Clients : req[d].uid # NewUid
  BY DEF HasNewUid, NewUid, Fresh

\* A new account: its uid stands for the address it is made for.
LEMMA NewAccountStep ==
  ASSUME AccountsInv, HasNewUid, UNCHANGED <<rows, tokens, broken>>,
         proved \subseteq proved', proved' \subseteq Emails,
         NEW a \in Account, accounts' = [accounts EXCEPT ![NewUid] = a],
         a.verified => a.email \in proved',
         Requests' /\ req' \in [Clients -> Request],
         \A d \in Clients : \/ req'[d] = req[d]
                            \/ req'[d].uid = NewUid /\ req'[d].email = a.email
  PROVE  AccountsInv'
  <1>t. accounts \in [Uids -> Account \cup {NoAccount}]
    BY DEF AccountsInv, TypeOK
  <1>n. PICK n \in Uids : /\ n = NewUid /\ rows[n] = NoRow
                          /\ \A d \in Clients : req[d].uid # n
    BY NewUidIsFresh
  <1>1. TypeOK'
    BY <1>t, <1>n DEF AccountsInv, TypeOK
  <1>2. accounts'[n] = a /\ \A v \in Uids \ {n} : accounts'[v] = accounts[v]
    BY <1>t, <1>n
  <1>3. ASSUME NEW e \in Emails, Says(n, e)'
        PROVE  e = a.email
    BY <1>2, <1>3, <1>n DEF Says
  <1>4. ASSUME NEW v \in Uids \ {n}, NEW e \in Emails, Says(v, e)'
        PROVE  Says(v, e)
    BY <1>2, <1>4, <1>n DEF Says
  <1>5. OneAddress'
    BY <1>3, <1>4 DEF AccountsInv, OneAddress
  <1>6. OnlyProvedIsVerified'
    <2>1. ASSUME NEW v \in Uids, accounts'[v] # NoAccount, accounts'[v].verified
          PROVE  accounts'[v].email \in proved'
      BY <1>2, <2>1 DEF AccountsInv, OnlyProvedIsVerified
    <2>2. ASSUME NEW v \in Uids, rows'[v] # NoRow, rows'[v].status = "active"
          PROVE  rows'[v].email \in proved'
      BY <2>2 DEF AccountsInv, OnlyProvedIsVerified
    <2>3. QED
      BY <2>1, <2>2 DEF OnlyProvedIsVerified
  <1>7. TokenHasRow'
    BY DEF AccountsInv, TokenHasRow
  <1>8. QED
    BY <1>1, <1>5, <1>6, <1>7 DEF AccountsInv

LEMMA GoogleSignInStep ==
  ASSUME AccountsInv, NEW email \in Emails, GoogleSignIn(email)
  PROVE  AccountsInv'
  <1> DEFINE a == [email |-> email, verified |-> TRUE, role |-> "none"]
  <1>1. a \in Account /\ a.email \in proved'
    BY DEF Account, GoogleSignIn
  <1>2. proved \subseteq proved' /\ proved' \subseteq Emails
    BY DEF AccountsInv, TypeOK, GoogleSignIn
  <1>3. Requests' /\ req' \in [Clients -> Request]
    <2>1. RowsStay(rows, rows')
      BY DEF GoogleSignIn, RowsStay
    <2>2. \A d \in Clients : RequestOK(req[d], rows', proved')
      BY <1>2, <2>1, KnowledgeLasts DEF AccountsInv, Requests
    <2>3. QED
      BY <2>2 DEF AccountsInv, TypeOK, Requests, GoogleSignIn
  <1>4. HasNewUid /\ UNCHANGED <<rows, tokens, broken, req>>
        /\ accounts' = [accounts EXCEPT ![NewUid] = a]
    BY DEF GoogleSignIn
  <1> HIDE DEF a
  <1>5. QED
    BY <1>1, <1>2, <1>3, <1>4, NewAccountStep

LEMMA CreateAccountStep ==
  ASSUME AccountsInv, NEW c \in Clients, CreateAccount(c)
  PROVE  AccountsInv'
  <1>t. /\ req \in [Clients -> Request] /\ req[c] \in Request
        /\ proved \subseteq Emails /\ broken \in BOOLEAN
    BY DEF AccountsInv, TypeOK
  <1>k. RequestOK(req[c], rows, proved) /\ req[c].pc = "create"
    BY DEF AccountsInv, Requests, CreateAccount, MakeAccount
  <1>1. CASE End(c) /\ UNCHANGED accounts
    BY <1>1, <1>t, EndStep DEF CreateAccount, MakeAccount, history, stores
  <1>2. CASE ~ (End(c) /\ UNCHANGED accounts)
    <2> DEFINE a == [email |-> req[c].email, verified |-> Vouched(req[c].op), role |-> "none"]
               r == [req[c] EXCEPT !.pc = "claims", !.uid = NewUid]
    <2>1. /\ HasNewUid /\ accounts' = [accounts EXCEPT ![NewUid] = a]
          /\ req' = [req EXCEPT ![c].pc = "claims", ![c].uid = NewUid]
          /\ UNCHANGED <<rows, tokens, proved, broken>>
      BY <1>2 DEF CreateAccount, MakeAccount, history
    <2>2. NewUid \in Uids
      BY <2>1, NewUidIsFresh
    <2>3. a \in Account /\ (a.verified => a.email \in proved)
      <3>1. Vouched(req[c].op) \in BOOLEAN
        <4>1. CASE req[c].op \in {"manualCreateUser", "repair", "createAdmin"}
          BY <4>1 DEF Vouched
        <4>2. CASE req[c].op \notin {"manualCreateUser", "repair", "createAdmin"}
          BY <4>2 DEF Vouched
        <4>3. QED
          BY <4>1, <4>2
      <3>2. req[c].email \in Emails /\ (Vouched(req[c].op) => req[c].email \in proved)
        BY <1>k DEF RequestOK
      <3>3. QED
        BY <3>1, <3>2 DEF Account
    <2>4. /\ r \in Request /\ r.uid = NewUid /\ r.email = a.email
          /\ req' = [req EXCEPT ![c] = r]
      BY <1>t, <2>1, <2>2 DEF Request, Waits
    <2>5. RequestOK(r, rows, proved)
      BY <1>t, <1>k, <2>2 DEF RequestOK, Request
    <2> HIDE DEF a, r
    <2>6. RowsStay(rows, rows')
      BY <2>1 DEF RowsStay
    <2>7. Requests' /\ req' \in [Clients -> Request]
      BY <2>1, <2>4, <2>5, <2>6, RequestsStep
    <2>8. \A d \in Clients : \/ req'[d] = req[d]
                             \/ req'[d].uid = NewUid /\ req'[d].email = a.email
      BY <1>t, <2>4
    <2>9. QED
      BY <1>t, <2>1, <2>3, <2>7, <2>8, NewAccountStep
  <1>3. QED
    BY <1>1, <1>2

-----------------------------------------------------------------------------

\* A row is written for a uid: with the address that the uid stands for.
LEMMA RowStep ==
  ASSUME AccountsInv, UNCHANGED <<accounts, tokens, proved, broken>>,
         NEW c \in Clients, NEW r \in Request, req' = [req EXCEPT ![c] = r],
         RequestOK(r, rows', proved), r.op = req[c].op \/ r.op \notin AccountOps,
         r.uid = req[c].uid \/ r.op \notin AccountOps,
         r.email = req[c].email \/ r.op \notin AccountOps,
         NEW u \in Uids, NEW w \in UserRow, rows' = [rows EXCEPT ![u] = w],
         Says(u, w.email), w.status = "active" => w.email \in proved
  PROVE  AccountsInv'
  <1>t. /\ req \in [Clients -> Request] /\ rows \in [Uids -> UserRow \cup {NoRow}]
    BY DEF AccountsInv, TypeOK
  <1>w. w # NoRow /\ w.email \in Emails
    BY NoRowAssumption DEF UserRow
  <1>1. rows[u] # NoRow => rows[u].email = w.email
    <2>1. rows[u] # NoRow => rows[u].email \in Emails /\ Says(u, rows[u].email)
      BY <1>t DEF Says, UserRow
    <2>2. QED
      BY <1>w, <2>1 DEF AccountsInv, OneAddress
  <1>2. RowsStay(rows, rows')
    <2>1. ASSUME NEW v, rows[v] # NoRow
          PROVE  rows'[v] # NoRow /\ rows'[v].email = rows[v].email
      BY <1>t, <1>w, <1>1, <2>1
    <2>2. QED
      BY <2>1 DEF RowsStay
  <1>3. Requests' /\ req' \in [Clients -> Request]
    BY <1>2, RequestsStep
  <1>4. TypeOK'
    BY <1>t, <1>3 DEF AccountsInv, TypeOK
  <1>5. ASSUME NEW v \in Uids, NEW e \in Emails, Says(v, e)'
        PROVE  Says(v, e)
    <2>1. CASE accounts'[v] # NoAccount /\ accounts'[v].email = e
      BY <2>1 DEF Says
    <2>2. CASE rows'[v] # NoRow /\ rows'[v].email = e
      BY <1>t, <2>2 DEF Says
    <2>3. CASE \E d \in Clients : req'[d].op \in AccountOps /\ req'[d].uid = v /\ req'[d].email = e
      BY <1>t, <2>3 DEF Says
    <2>4. QED
      BY <1>5, <2>1, <2>2, <2>3 DEF Says
  <1>6. OneAddress'
    BY <1>5, AddressStep
  <1>7. OnlyProvedIsVerified'
    BY <1>t DEF AccountsInv, OnlyProvedIsVerified
  <1>8. TokenHasRow'
    BY <1>2 DEF AccountsInv, TypeOK, TokenHasRow, RowsStay, Token
  <1>9. QED
    BY <1>3, <1>4, <1>6, <1>7, <1>8 DEF AccountsInv

\* Steps that write rows or tokens.
LEMMA TableSteps ==
  ASSUME AccountsInv, NEW c \in Clients,
         \/ Commit(c) \/ Activate(c) \/ DeleteTokens(c)
         \/ sendVerificationEmail(c) \/ sendPasswordResetEmail(c)
  PROVE  AccountsInv'
  <1> DEFINE u == req[c].uid
  <1>t. /\ req \in [Clients -> Request] /\ req[c] \in Request
        /\ proved \subseteq Emails /\ broken \in BOOLEAN
        /\ rows \in [Uids -> UserRow \cup {NoRow}]
        /\ tokens \in [Tokens -> Token \cup {NoToken}]
    BY DEF AccountsInv, TypeOK
  <1>k. RequestOK(req[c], rows, proved)
    BY DEF AccountsInv, Requests
  <1>u. u \in Uids
    BY <1>k DEF RequestOK, Commit, Activate, sendVerificationEmail, sendPasswordResetEmail,
                createVerificationToken, DeleteTokens
  <1>i. Idle \in Request /\ (\A rw : RequestOK(Idle, rw, proved)) /\ Idle.op \notin AccountOps
    BY IdleIsOK DEF Idle, AccountOps
  <1>1. CASE Commit(c)
    <2> DEFINE w == req[c].pend
               r == [req[c] EXCEPT !.pc = "saveToken", !.pend = NoRow]
    <2>1. /\ req[c].op \in AccountOps /\ w \in UserRow /\ w.email = req[c].email
          /\ w.status = "active" => w.email \in proved
      BY <1>1, <1>k DEF Commit, RequestOK
    <2>2. /\ rows' = [rows EXCEPT ![u] = w] /\ UNCHANGED <<accounts, tokens, proved, broken>>
          /\ \/ req' = [req EXCEPT ![c] = r]
             \/ req' = [req EXCEPT ![c] = Idle]
      BY <1>1, <1>t DEF Commit, End, history
    <2>3. rows'[u] # NoRow
      BY <1>t, <1>u, <2>1, <2>2, NoRowAssumption
    <2>4. /\ r \in Request /\ RequestOK(r, rows', proved)
          /\ r.op = req[c].op /\ r.uid = u /\ r.email = req[c].email
      BY <1>1, <1>t, <1>k, <1>u, <2>3 DEF Commit, RequestOK, Request, Waits
    <2>5. Says(u, w.email)
      BY <2>1 DEF Says
    <2> HIDE DEF w, r
    <2>6. CASE req' = [req EXCEPT ![c] = r]
      BY <1>u, <2>1, <2>2, <2>4, <2>5, <2>6, RowStep
    <2>7. CASE req' = [req EXCEPT ![c] = Idle]
      BY <1>i, <1>u, <2>1, <2>2, <2>5, <2>7, RowStep
    <2>8. QED
      BY <2>2, <2>6, <2>7
  <1>2. CASE Activate(c)
    <2> DEFINE w == [rows[u] EXCEPT !.status = "active"]
               r == [req[c] EXCEPT !.pc = "deleteToken"]
    <2>1. rows[u] # NoRow /\ rows[u] \in UserRow /\ rows[u].email \in proved
      BY <1>2, <1>k, <1>t, <1>u DEF Activate, RequestOK
    <2>2. w \in UserRow /\ w.email = rows[u].email /\ Says(u, w.email)
      BY <2>1 DEF UserRow, Says
    <2>3. /\ rows' = [rows EXCEPT ![u] = w] /\ UNCHANGED <<accounts, tokens, proved, broken>>
          /\ req' = [req EXCEPT ![c] = r]
      BY <1>2, <1>t, <1>u DEF Activate, Go, history
    <2>4. rows'[u] # NoRow
      BY <1>t, <1>u, <2>2, <2>3, NoRowAssumption
    <2>5. /\ r \in Request /\ RequestOK(r, rows', proved)
          /\ r.op = req[c].op /\ r.uid = u /\ r.email = req[c].email
      BY <1>2, <1>t, <1>k, <1>u, <2>4 DEF Activate, RequestOK, Request, Waits
    <2> HIDE DEF w, r
    <2>6. QED
      BY <1>u, <2>1, <2>2, <2>3, <2>5, RowStep
  <1>3. ASSUME UNCHANGED <<accounts, rows, proved, broken>>,
               tokens' \in [Tokens -> Token \cup {NoToken}], TokenHasRow',
               NEW r \in Request, req' = [req EXCEPT ![c] = r], RequestOK(r, rows, proved),
               r.op \in AccountOps => /\ r.op = req[c].op /\ r.uid = u
                                      /\ r.email = req[c].email
        PROVE  AccountsInv'
    <2>1. RowsStay(rows, rows') /\ RequestOK(r, rows', proved') /\ proved \subseteq proved'
      BY <1>3 DEF RowsStay
    <2>2. Requests' /\ req' \in [Clients -> Request]
      BY <1>3, <2>1, RequestsStep
    <2>3. TypeOK'
      BY <1>3, <2>2 DEF AccountsInv, TypeOK
    <2>4. ASSUME NEW v \in Uids, NEW e \in Emails, Says(v, e)'
          PROVE  Says(v, e)
      BY <1>3, <1>t, <2>4 DEF Says
    <2>5. OneAddress'
      BY <2>4, AddressStep
    <2>6. OnlyProvedIsVerified'
      BY <1>3 DEF AccountsInv, OnlyProvedIsVerified
    <2>7. QED
      BY <1>3, <2>2, <2>3, <2>5, <2>6 DEF AccountsInv
  <1>4. CASE sendVerificationEmail(c) \/ sendPasswordResetEmail(c)
    <2>0. PICK type \in TokenActions : createVerificationToken(c, type)
      BY <1>4 DEF sendVerificationEmail, sendPasswordResetEmail, TokenActions
    <2> DEFINE t == CHOOSE t \in Tokens : tokens[t] = NoToken
               k == [user |-> u, type |-> type]
    <2>1. /\ tokens' = [tokens EXCEPT ![t] = k]
          /\ req' = [req EXCEPT ![c] = Idle] /\ UNCHANGED <<accounts, rows, proved, broken>>
      BY <2>0 DEF createVerificationToken, End, history
    <2>2. k \in Token /\ rows[k.user] # NoRow
      BY <1>k, <1>u, <2>0 DEF createVerificationToken, RequestOK, Token
    <2> HIDE DEF t, k
    <2>3. tokens' \in [Tokens -> Token \cup {NoToken}]
      BY <1>t, <2>1, <2>2
    <2>4. TokenHasRow'
      BY <1>t, <2>1, <2>2 DEF AccountsInv, TokenHasRow
    <2>5. QED
      BY <1>3, <1>i, <2>1, <2>3, <2>4
  <1>5. CASE DeleteTokens(c)
    <2> DEFINE r == [req[c] EXCEPT !.pc = "saveToken", !.found = {}]
    <2>1. /\ tokens' = [t \in Tokens |-> IF t \in req[c].found THEN NoToken ELSE tokens[t]]
          /\ UNCHANGED <<accounts, rows, proved, broken>>
          /\ \/ req' = [req EXCEPT ![c] = r]
             \/ req' = [req EXCEPT ![c] = Idle]
      BY <1>5, <1>t DEF DeleteTokens, End, history
    <2>2. tokens' \in [Tokens -> Token \cup {NoToken}] /\ TokenHasRow'
      BY <1>t, <2>1 DEF AccountsInv, TokenHasRow
    <2>3. /\ r \in Request /\ RequestOK(r, rows, proved)
          /\ r.op = req[c].op /\ r.uid = u /\ r.email = req[c].email
      BY <1>5, <1>t, <1>k DEF DeleteTokens, RequestOK, Request, Waits
    <2> HIDE DEF r
    <2>4. CASE req' = [req EXCEPT ![c] = r]
      BY <1>3, <2>1, <2>2, <2>3, <2>4
    <2>5. CASE req' = [req EXCEPT ![c] = Idle]
      BY <1>3, <1>i, <2>1, <2>2, <2>5
    <2>6. QED
      BY <2>1, <2>4, <2>5
  <1>6. QED
    BY <1>1, <1>2, <1>4, <1>5

-----------------------------------------------------------------------------

LEMMA AccountsInvInit == Init => AccountsInv
  <1> SUFFICES ASSUME Init PROVE AccountsInv
    OBVIOUS
  <1>1. TypeOK
    BY IdleIsOK DEF Init, TypeOK
  <1>2. Requests
    BY IdleIsOK DEF Init, Requests
  <1>3. OneAddress
    BY DEF Init, OneAddress, Says, Idle, AccountOps
  <1>4. TokenHasRow /\ OnlyProvedIsVerified
    BY DEF Init, TokenHasRow, OnlyProvedIsVerified
  <1>5. QED
    BY <1>1, <1>2, <1>3, <1>4 DEF AccountsInv

LEMMA AccountsInvStep == AccountsInv /\ [Next]_vars => AccountsInv'
  <1> SUFFICES ASSUME AccountsInv, [Next]_vars PROVE AccountsInv'
    OBVIOUS
  <1>1. CASE UNCHANGED vars
    BY <1>1 DEF vars, AccountsInv, TypeOK, Requests, OneAddress, Says, TokenHasRow,
                OnlyProvedIsVerified
  <1>2. CASE \E email \in Emails : GoogleSignIn(email)
    BY <1>2, GoogleSignInStep
  <1>3. ASSUME NEW c \in Clients, Arrive(c) \/ Step(c) \/ Caught(c) \/ Fail(c)
        PROVE  AccountsInv'
    <2>1. CASE Arrive(c)
      BY <2>1, ArriveStep
    <2>2. CASE Step(c)
      BY <2>2, QuietSteps, AccountSteps, CreateAccountStep, TableSteps DEF Step
    <2>3. CASE Caught(c) \/ Fail(c)
      BY <2>3, QuietSteps
    <2>4. QED
      BY <1>3, <2>1, <2>2, <2>3
  <1>4. QED
    BY <1>1, <1>2, <1>3 DEF Next

LEMMA AccountsInvariant == Spec => []AccountsInv
  BY AccountsInvInit, AccountsInvStep, PTL DEF Spec

\* The two stores and the requests keep their type, for any number of
\* overlapping requests.
THEOREM AccountsTypeCorrect == Spec => []TypeOK
  <1>1. AccountsInv => TypeOK
    BY DEF AccountsInv
  <1>2. QED
    BY <1>1, AccountsInvariant, PTL

\* However many requests overlap and fail, no address counts as verified
\* for which nobody has answered (setEmailVerified, updateVerificationStatus).
THEOREM VerificationNeedsProof == Spec => []OnlyProvedIsVerified
  <1>1. AccountsInv => OnlyProvedIsVerified
    BY DEF AccountsInv
  <1>2. QED
    BY <1>1, AccountsInvariant, PTL

-----------------------------------------------------------------------------
(***************************************************************************)
(* One request at a time.  The two stores can be told apart at almost      *)
(* every await, so that they agree between requests is not inductive:      *)
(* SerialInv says how far each request has brought its account and its row *)
(* at each of its awaits, whatever calls have failed before.               *)
(***************************************************************************)

OneAtATime == \A c, d \in Clients : c = d

\* Firebase keeps one account for an address.
OneAccount ==
    \A u, v \in Uids :
        /\ accounts[u] # NoAccount /\ accounts[v] # NoAccount
        /\ accounts[u].email = accounts[v].email
        => u = v

\* What a request has found out stays true, as no other one runs: ac are the
\* accounts, rw the rows.
SerialOK(r, ac, rw) ==
    /\ r.pc \in {"lookup", "delete", "update", "claims", "saveUser", "commit"} =>
         ac[r.uid] # NoAccount /\ ac[r.uid].email = r.email
    /\ r.pc = "delete" => \A u \in Uids : rw[u] # NoRow => rw[u].email # r.email
    /\ r.op = "repair" => /\ r.pc \in {"firebaseUser", "create"}
                          /\ \E u \in Uids : rw[u] # NoRow /\ rw[u].email = r.email
    /\ r.pc \in {"update", "claims", "saveUser"} /\ r.insert => rw[r.uid] = NoRow
    /\ r.pc = "unknown" => rw[r.uid] = NoRow

\* The awaits at which the account is ahead of the row.
Ahead == {"claims", "saveUser", "commit", "activate"}

\* The account a and the row w say the same of the user; a sign-up as admin
\* leaves an account that was verified with a row that is not active.
SayTheSame(a, w) ==
    /\ a.role = w.role
    /\ w.status = "active" => a.verified
    /\ a.verified => w.status = "active" \/ w.role = "admin"

\* How far a request has come, when no call has failed.
Progress(r, ac, rw) ==
    /\ r.pc = "update" /\ r.seen => Vouched(r.op) \/ r.role = "admin"
    /\ r.pc \in {"claims", "saveUser", "commit"} =>
         /\ Vouched(r.op) => ac[r.uid].verified
         /\ ac[r.uid].verified => Vouched(r.op) \/ r.role = "admin"
    /\ r.pc \in {"saveUser", "commit"} => ac[r.uid].role = r.role
    /\ r.pc = "commit" => /\ r.pend.role = r.role
                          /\ r.pend.status = "active" <=> Vouched(r.op)
    /\ r.pc = "activate" => ac[r.uid].role = rw[r.uid].role /\ ac[r.uid].verified
    /\ r.pc # "undo"

\* The inductive invariant of one request at a time.
SerialInv ==
    /\ AccountsInv
    /\ OneAccount
    /\ RowHasAccount
    /\ \A c \in Clients : SerialOK(req[c], accounts, rows)
    /\ ~ broken =>
        /\ \A c \in Clients : Progress(req[c], accounts, rows)
        /\ \A u \in Uids : rows[u] # NoRow /\ accounts[u] # NoAccount =>
              \/ SayTheSame(accounts[u], rows[u])
              \/ \E c \in Clients : req[c].uid = u /\ req[c].pc \in Ahead

\* What the invariant says of the stores besides the only request r.
StoresOK(r) ==
    \A u \in Uids : rows[u] # NoRow /\ accounts[u] # NoAccount =>
        SayTheSame(accounts[u], rows[u]) \/ (r.uid = u /\ r.pc \in Ahead)

LEMMA SerialFacts ==
  ASSUME OneAtATime, SerialInv, NEW c \in Clients
  PROVE  /\ SerialOK(req[c], accounts, rows)
         /\ ~ broken => Progress(req[c], accounts, rows) /\ StoresOK(req[c])
         /\ RequestOK(req[c], rows, proved)
         /\ req \in [Clients -> Request] /\ req[c] \in Request
         /\ accounts \in [Uids -> Account \cup {NoAccount}]
         /\ rows \in [Uids -> UserRow \cup {NoRow}]
  <1>1. \A d \in Clients : d = c
    BY DEF OneAtATime
  <1>2. ~ broken => StoresOK(req[c])
    BY <1>1 DEF SerialInv, StoresOK
  <1>3. QED
    BY <1>2 DEF SerialInv, AccountsInv, TypeOK, Requests

\* The request goes on as r.
LEMMA SerialStep ==
  ASSUME OneAtATime, SerialInv, AccountsInv', NEW c \in Clients, NEW r,
         req' = [req EXCEPT ![c] = r],
         OneAccount', RowHasAccount', SerialOK(r, accounts', rows'),
         ~ broken' => /\ Progress(r, accounts', rows')
                      /\ \A u \in Uids : rows'[u] # NoRow /\ accounts'[u] # NoAccount =>
                            \/ SayTheSame(accounts'[u], rows'[u])
                            \/ r.uid = u /\ r.pc \in Ahead
  PROVE  SerialInv'
  <1>1. req \in [Clients -> Request]
    BY SerialFacts
  <1>2. \A d \in Clients : d = c /\ req'[d] = r
    BY <1>1 DEF OneAtATime
  <1>3. \A d \in Clients : SerialOK(req'[d], accounts', rows')
    BY <1>2
  <1>4. ~ broken' => /\ \A d \in Clients : Progress(req'[d], accounts', rows')
                     /\ \A u \in Uids : rows'[u] # NoRow /\ accounts'[u] # NoAccount =>
                           \/ SayTheSame(accounts'[u], rows'[u])
                           \/ \E d \in Clients : req'[d].uid = u /\ req'[d].pc \in Ahead
    BY <1>2
  <1>5. QED
    BY <1>3, <1>4 DEF SerialInv, SayTheSame

\* Nothing is written: the request that stays must not have been ahead, or it is
\* ahead of the same row.
LEMMA SerialQuiet ==
  ASSUME OneAtATime, SerialInv, AccountsInv', NEW c \in Clients, NEW r,
         req' = [req EXCEPT ![c] = r], UNCHANGED <<accounts, rows>>,
         SerialOK(r, accounts, rows),
         ~ broken' => /\ ~ broken
                      /\ Progress(r, accounts, rows)
                      /\ req[c].pc \in Ahead => r.uid = req[c].uid /\ r.pc \in Ahead
  PROVE  SerialInv'
  <1>1. OneAccount' /\ RowHasAccount'
    BY DEF SerialInv, OneAccount, RowHasAccount
  <1>2. SerialOK(r, accounts', rows') /\ (~ broken' => Progress(r, accounts', rows'))
    BY DEF SerialOK, Progress
  <1>3. ASSUME ~ broken', NEW u \in Uids, rows'[u] # NoRow, accounts'[u] # NoAccount
        PROVE  SayTheSame(accounts'[u], rows'[u]) \/ (r.uid = u /\ r.pc \in Ahead)
    BY <1>3, SerialFacts DEF StoresOK, SayTheSame
  <1>4. QED
    BY <1>1, <1>2, <1>3, SerialStep

LEMMA IdleIsSerial ==
  \A ac, rw : SerialOK(Idle, ac, rw) /\ Progress(Idle, ac, rw)
  BY DEF Idle, SerialOK, Progress, Vouched

\* The request ends before it was ahead, or a call has failed.
LEMMA SerialEnd ==
  ASSUME OneAtATime, SerialInv, AccountsInv', NEW c \in Clients, End(c),
         UNCHANGED <<accounts, rows>>,
         ~ broken' => ~ broken /\ req[c].pc \notin Ahead
  PROVE  SerialInv'
  BY IdleIsSerial, SerialQuiet DEF End

\* A new request has found nothing out yet.
LEMMA SerialArrival ==
  ASSUME OneAtATime, SerialInv, NEW c \in Clients, Arrive(c)
  PROVE  SerialInv'
  <1>1. AccountsInv'
    BY ArriveStep DEF SerialInv
  <1>2. ASSUME NEW r, Begin(c, r), SerialOK(r, accounts, rows), Progress(r, accounts, rows)
        PROVE  SerialInv'
    <2>1. req[c].pc \notin Ahead
      BY <1>2 DEF Begin, Ahead
    <2>2. req' = [req EXCEPT ![c] = r] /\ UNCHANGED <<accounts, rows, broken>>
      BY <1>2 DEF Begin, stores
    <2>3. QED
      BY <1>1, <1>2, <2>1, <2>2, SerialQuiet
  <1>3. ASSUME NEW email \in Emails, NEW role \in SignUpRoles, createUser(c, email, role)
        PROVE  SerialInv'
    <2> DEFINE r == [Idle EXCEPT !.pc = "account", !.op = "createUser",
                                 !.email = email, !.role = role]
    <2>1. SerialOK(r, accounts, rows) /\ Progress(r, accounts, rows)
      BY DEF Idle, SerialOK, Progress
    <2>2. Begin(c, r)
      BY <1>3 DEF createUser
    <2> HIDE DEF r
    <2>3. QED
      BY <1>2, <2>1, <2>2
  <1>4. ASSUME NEW email \in Emails, manualCreateUser(c, email)
        PROVE  SerialInv'
    <2> DEFINE start == [Idle EXCEPT !.email = email, !.role = "company"]
               new == [start EXCEPT !.pc = "account", !.op = "manualCreateUser"]
               old == [start EXCEPT !.pc = "firebaseUser", !.op = "repair"]
    <2>1. SerialOK(new, accounts, rows) /\ Progress(new, accounts, rows)
      BY DEF Idle, SerialOK, Progress
    <2>2. RowsOf(email) # {} => SerialOK(old, accounts, rows) /\ Progress(old, accounts, rows)
      BY DEF Idle, SerialOK, Progress, RowsOf
    <2>3. Begin(c, new) \/ (Begin(c, old) /\ RowsOf(email) # {})
      BY <1>4 DEF manualCreateUser
    <2> HIDE DEF new, old
    <2>4. QED
      BY <1>2, <2>1, <2>2, <2>3
  <1>5. ASSUME NEW email \in AdminEmails, createAdmin(c, email)
        PROVE  SerialInv'
    <2> DEFINE r == [Idle EXCEPT !.pc = "account", !.op = "createAdmin",
                                 !.email = email, !.role = "admin"]
    <2>1. SerialOK(r, accounts, rows) /\ Progress(r, accounts, rows)
      BY DEF Idle, SerialOK, Progress
    <2>2. Begin(c, r)
      BY <1>5 DEF createAdmin
    <2> HIDE DEF r
    <2>3. QED
      BY <1>2, <2>1, <2>2
  <1>6. ASSUME NEW u \in Uids, signIn(c, u)
        PROVE  SerialInv'
    <2> DEFINE r == [Idle EXCEPT !.pc = "getUser", !.op = "getUser", !.uid = u]
    <2>1. SerialOK(r, accounts, rows) /\ Progress(r, accounts, rows)
      BY DEF Idle, SerialOK, Progress
    <2>2. Begin(c, r)
      BY <1>6 DEF signIn
    <2> HIDE DEF r
    <2>3. QED
      BY <1>2, <2>1, <2>2
  <1>7. ASSUME NEW t \in Tokens, verifyUser(c, t) \/ resetPassword(c, t)
        PROVE  SerialInv'
    <2> DEFINE r(op) == [Idle EXCEPT !.pc = "setVerified", !.op = op,
                                     !.uid = tokens[t].user, !.found = {t}]
    <2>1. ASSUME NEW op \in {"verifyUser", "resetPassword"}
          PROVE  SerialOK(r(op), accounts, rows) /\ Progress(r(op), accounts, rows)
      BY DEF Idle, SerialOK, Progress
    <2>2. Begin(c, r("verifyUser")) \/ Begin(c, r("resetPassword"))
      BY <1>7 DEF verifyUser, resetPassword, PresentToken
    <2> HIDE DEF r
    <2>3. QED
      BY <1>2, <2>1, <2>2
  <1>8. ASSUME NEW email \in Emails, forgotPassword(c, email)
        PROVE  SerialInv'
    <2> DEFINE r(u) == [Idle EXCEPT !.pc = "findTokens", !.op = "forgotPassword", !.uid = u]
    <2>1. PICK u \in getUserByEmailAndRole(email, "company") : Begin(c, r(u))
      BY <1>8 DEF forgotPassword
    <2>2. SerialOK(r(u), accounts, rows) /\ Progress(r(u), accounts, rows)
      BY DEF Idle, SerialOK, Progress
    <2> HIDE DEF r
    <2>3. QED
      BY <1>2, <2>1, <2>2
  <1>9. QED
    BY <1>3, <1>4, <1>5, <1>6, <1>7, <1>8 DEF Arrive

\* Steps and failures that leave both stores alone.
LEMMA SerialQuietSteps ==
  ASSUME OneAtATime, SerialInv, NEW c \in Clients,
         \/ GetAccount(c) \/ Lookup(c) \/ GetFirebaseUser(c) \/ SaveUser(c)
         \/ GetUser(c) \/ FindTokens(c) \/ Caught(c) \/ Fail(c)
         \/ DeleteTokens(c) \/ sendVerificationEmail(c) \/ sendPasswordResetEmail(c)
  PROVE  SerialInv'
  <1>i. AccountsInv'
    BY QuietSteps, TableSteps DEF SerialInv
  <1>f. /\ SerialOK(req[c], accounts, rows)
        /\ ~ broken => Progress(req[c], accounts, rows)
        /\ RequestOK(req[c], rows, proved) /\ req[c] \in Request
        /\ req \in [Clients -> Request]
    BY SerialFacts
  <1>g. ASSUME NEW p, Go(c, p), UNCHANGED <<accounts, rows>>,
               SerialOK([req[c] EXCEPT !.pc = p], accounts, rows),
               ~ broken' => /\ ~ broken /\ req[c].pc \notin Ahead
                            /\ Progress([req[c] EXCEPT !.pc = p], accounts, rows)
        PROVE  SerialInv'
    BY <1>i, <1>g, SerialQuiet DEF Go
  <1>1. CASE GetAccount(c)
    <2>1. UNCHANGED <<accounts, rows, broken>> /\ req[c].pc \notin Ahead /\ req[c].pc = "account"
      BY <1>1 DEF GetAccount, Ahead, stores, history
    <2>2. CASE Go(c, "create")
      BY <1>f, <1>g, <2>1, <2>2 DEF SerialOK, Progress, Request
    <2>3. CASE \E u \in AccountOf(req[c].email) :
                 req' = [req EXCEPT ![c].pc = "lookup", ![c].uid = u, ![c].seen = accounts[u].verified]
      <3>1. PICK u \in AccountOf(req[c].email) :
                 req' = [req EXCEPT ![c].pc = "lookup", ![c].uid = u, ![c].seen = accounts[u].verified]
        BY <2>3
      <3> DEFINE r == [req[c] EXCEPT !.pc = "lookup", !.uid = u, !.seen = accounts[u].verified]
      <3>2. req' = [req EXCEPT ![c] = r]
        BY <1>f, <3>1
      <3>3. SerialOK(r, accounts, rows) /\ (~ broken => Progress(r, accounts, rows))
        BY <1>f, <2>1 DEF SerialOK, Progress, Request, AccountOf
      <3> HIDE DEF r
      <3>4. QED
        BY <1>i, <2>1, <3>2, <3>3, SerialQuiet
    <2>4. QED
      BY <1>1, <2>2, <2>3 DEF GetAccount
  <1>2. CASE Lookup(c)
    <2>1. UNCHANGED <<accounts, rows, broken>> /\ req[c].pc \notin Ahead /\ req[c].pc = "lookup"
      BY <1>2 DEF Lookup, Decide, Ahead, stores, history
    <2>2. CASE End(c)
      BY <1>i, <2>1, <2>2, SerialEnd
    <2>3. CASE RowsOf(req[c].email) = {} /\ Go(c, "delete")
      BY <1>f, <1>g, <2>1, <2>3 DEF SerialOK, Progress, Request, RowsOf
    <2>4. CASE /\ ~ (req[c].seen /\ req[c].role # "admin")
               /\ req' = [req EXCEPT ![c].pc = "update", ![c].insert = rows[req[c].uid] = NoRow]
      <3> DEFINE r == [req[c] EXCEPT !.pc = "update", !.insert = rows[req[c].uid] = NoRow]
      <3>1. req' = [req EXCEPT ![c] = r]
        BY <1>f, <2>4
      <3>2. SerialOK(r, accounts, rows) /\ (~ broken => Progress(r, accounts, rows))
        BY <1>f, <2>1, <2>4 DEF SerialOK, Progress, Request
      <3> HIDE DEF r
      <3>3. QED
        BY <1>i, <2>1, <3>1, <3>2, SerialQuiet
    <2>5. QED
      BY <1>2, <2>2, <2>3, <2>4 DEF Lookup, Decide
  <1>3. CASE GetFirebaseUser(c)
    <2>1. UNCHANGED <<accounts, rows, broken>> /\ req[c].pc \notin Ahead
          /\ req[c].pc = "firebaseUser"
      BY <1>3 DEF GetFirebaseUser, Ahead, stores, history
    <2>2. CASE End(c)
      BY <1>i, <2>1, <2>2, SerialEnd
    <2>3. CASE Go(c, "create")
      BY <1>f, <1>g, <2>1, <2>3 DEF SerialOK, Progress, Request
    <2>4. QED
      BY <1>3, <2>2, <2>3 DEF GetFirebaseUser
  <1>4. CASE SaveUser(c)
    <2> DEFINE u == req[c].uid
    <2>1. UNCHANGED <<accounts, rows, broken>> /\ req[c].pc = "saveUser" /\ u \in Uids
      BY <1>4, <1>f DEF SaveUser, stores, history, RequestOK
    <2>2. accounts[u] # NoAccount /\ accounts[u].email = req[c].email
      BY <1>f, <2>1 DEF SerialOK
    \* The row of the address, if there is one, is the one of the account.
    <2>3. ASSUME NEW v \in Uids \ {u}
          PROVE  ~ SameKey(rows[v], NewRow(c))
      <3>1. SUFFICES ASSUME rows[v] # NoRow, rows[v].email = req[c].email PROVE FALSE
        BY DEF SameKey, NewRow
      <3>2. accounts[v] # NoAccount /\ accounts[v].email = req[c].email
        BY <3>1 DEF SerialInv, RowHasAccount
      <3>3. QED
        BY <2>1, <2>2, <3>2 DEF SerialInv, OneAccount
    <2>4. req[c].insert => rows[u] = NoRow
      BY <1>f, <2>1 DEF SerialOK
    <2>5. req' = [req EXCEPT ![c].pc = "commit", ![c].pend = NewRow(c)]
      BY <1>4, <2>3, <2>4 DEF SaveUser
    <2> DEFINE r == [req[c] EXCEPT !.pc = "commit", !.pend = NewRow(c)]
    <2>6. req' = [req EXCEPT ![c] = r] /\ r.uid = req[c].uid /\ r.pc \in Ahead
      BY <1>f, <2>5 DEF Request, Ahead
    <2>7. SerialOK(r, accounts, rows) /\ (~ broken => Progress(r, accounts, rows))
      BY <1>f, <2>1 DEF SerialOK, Progress, Request, NewRow
    <2> HIDE DEF r
    <2>8. QED
      BY <1>i, <2>1, <2>6, <2>7, SerialQuiet
  <1>5. CASE GetUser(c)
    <2>1. UNCHANGED <<accounts, rows, broken>> /\ req[c].pc \notin Ahead /\ req[c].pc = "getUser"
      BY <1>5 DEF GetUser, Ahead, stores, history
    <2>2. CASE End(c)
      BY <1>i, <2>1, <2>2, SerialEnd
    <2>3. CASE rows[req[c].uid] = NoRow /\ Go(c, "unknown")
      BY <1>f, <1>g, <2>1, <2>3 DEF SerialOK, Progress, Request
    <2>4. QED
      BY <1>5, <2>2, <2>3 DEF GetUser
  <1>6. CASE FindTokens(c)
    <2>1. UNCHANGED <<accounts, rows, broken>> /\ req[c].pc \notin Ahead
          /\ req[c].pc = "findTokens"
      BY <1>6 DEF FindTokens, Ahead, stores, history
    <2> DEFINE mine == {t \in Tokens : tokens[t] = [user |-> req[c].uid, type |-> "reset_password"]}
               r == [req[c] EXCEPT !.pc = "deleteTokens", !.found = mine]
    <2>2. req' = [req EXCEPT ![c] = r]
      BY <1>6, <1>f DEF FindTokens
    <2>3. SerialOK(r, accounts, rows) /\ (~ broken => Progress(r, accounts, rows))
      BY <1>f, <2>1 DEF SerialOK, Progress, Request
    <2> HIDE DEF r
    <2>4. QED
      BY <1>i, <2>1, <2>2, <2>3, SerialQuiet
  <1>7. CASE Caught(c)
    <2>1. PICK p \in {"create", "deleteTokens", "undo"} :
             /\ Go(c, p)
             /\ p = "create" => req[c].pc \in {"account", "firebaseUser"}
             /\ p = "deleteTokens" => req[c].pc = "findTokens"
             /\ p = "undo" => req[c].pc \in {"setVerified", "activate"}
      BY <1>7 DEF Caught
    <2>2. UNCHANGED <<accounts, rows>> /\ broken'
      BY <1>7 DEF Caught, stores
    <2>3. SerialOK([req[c] EXCEPT !.pc = p], accounts, rows)
      BY <1>f, <2>1 DEF SerialOK, Request
    <2>4. QED
      BY <1>g, <2>1, <2>2, <2>3
  <1>8. CASE Fail(c)
    BY <1>8, <1>i, SerialEnd DEF Fail, stores
  <1>9. CASE DeleteTokens(c)
    <2>1. UNCHANGED <<accounts, rows, broken>> /\ req[c].pc \notin Ahead
          /\ req[c].pc \in {"deleteToken", "deleteTokens"}
      BY <1>9 DEF DeleteTokens, Ahead, history
    <2>2. CASE End(c)
      BY <1>i, <2>1, <2>2, SerialEnd
    <2>3. CASE req' = [req EXCEPT ![c].pc = "saveToken", ![c].found = {}]
      <3> DEFINE r == [req[c] EXCEPT !.pc = "saveToken", !.found = {}]
      <3>1. req' = [req EXCEPT ![c] = r]
        BY <1>f, <2>3
      <3>2. SerialOK(r, accounts, rows) /\ (~ broken => Progress(r, accounts, rows))
        BY <1>f, <2>1 DEF SerialOK, Progress, Request
      <3> HIDE DEF r
      <3>3. QED
        BY <1>i, <2>1, <3>1, <3>2, SerialQuiet
    <2>4. QED
      BY <1>9, <2>2, <2>3 DEF DeleteTokens
  <1>10. CASE sendVerificationEmail(c) \/ sendPasswordResetEmail(c)
    <2>1. UNCHANGED <<accounts, rows, broken>> /\ req[c].pc \notin Ahead /\ End(c)
      BY <1>10 DEF sendVerificationEmail, sendPasswordResetEmail, createVerificationToken,
                   Ahead, history
    <2>2. QED
      BY <1>i, <2>1, SerialEnd
  <1>11. QED
    BY <1>1, <1>2, <1>3, <1>4, <1>5, <1>6, <1>7, <1>8, <1>9, <1>10

-----------------------------------------------------------------------------

\* The account of u is changed, without its address, or goes, when it has no row.
LEMMA SerialAccount ==
  ASSUME OneAtATime, SerialInv, AccountsInv', NEW c \in Clients, NEW r,
         req' = [req EXCEPT ![c] = r], UNCHANGED rows,
         NEW u \in Uids, NEW a, accounts' = [accounts EXCEPT ![u] = a],
         \/ a = NoAccount /\ rows[u] = NoRow
         \/ accounts[u] # NoAccount /\ a # NoAccount /\ a.email = accounts[u].email,
         SerialOK(r, accounts', rows),
         ~ broken' => /\ ~ broken
                      /\ Progress(r, accounts', rows)
                      /\ req[c].pc \in Ahead => req[c].uid = u
                      /\ rows[u] # NoRow => SayTheSame(a, rows[u]) \/ (r.uid = u /\ r.pc \in Ahead)
  PROVE  SerialInv'
  <1>1. /\ accounts'[u] = a
        /\ \A v \in Uids : v # u => accounts'[v] = accounts[v]
    BY SerialFacts
  <1>2. OneAccount'
    <2> SUFFICES ASSUME NEW v \in Uids, NEW w \in Uids,
                        accounts'[v] # NoAccount, accounts'[w] # NoAccount,
                        accounts'[v].email = accounts'[w].email
                 PROVE  v = w
      BY DEF OneAccount
    <2>1. accounts[v] # NoAccount /\ accounts[v].email = accounts'[v].email
      BY <1>1
    <2>2. accounts[w] # NoAccount /\ accounts[w].email = accounts'[w].email
      BY <1>1
    <2>3. QED
      BY <2>1, <2>2 DEF SerialInv, OneAccount
  <1>3. RowHasAccount'
    BY <1>1 DEF SerialInv, RowHasAccount
  <1>4. ASSUME ~ broken', NEW v \in Uids, rows'[v] # NoRow, accounts'[v] # NoAccount
        PROVE  SayTheSame(accounts'[v], rows'[v]) \/ (r.uid = v /\ r.pc \in Ahead)
    <2>1. CASE v = u
      BY <1>1, <1>4, <2>1
    <2>2. CASE v # u
      <3>1. StoresOK(req[c]) /\ accounts'[v] = accounts[v] /\ rows'[v] = rows[v]
        BY <1>1, <1>4, <2>2, SerialFacts
      <3>2. SayTheSame(accounts[v], rows[v])
        BY <1>4, <2>2, <3>1 DEF StoresOK
      <3>3. QED
        BY <3>1, <3>2
    <2>3. QED
      BY <2>1, <2>2
  <1>5. SerialOK(r, accounts', rows') /\ (~ broken' => Progress(r, accounts', rows'))
    OBVIOUS
  <1>6. QED
    BY <1>2, <1>3, <1>4, <1>5, SerialStep

\* An account for an address that has none: nothing else is about its uid.
LEMMA SerialNewAccount ==
  ASSUME OneAtATime, SerialInv, HasNewUid, NEW a, a # NoAccount, AccountOf(a.email) = {},
         accounts' = [accounts EXCEPT ![NewUid] = a], UNCHANGED rows
  PROVE  /\ OneAccount' /\ RowHasAccount'
         /\ accounts'[NewUid] = a /\ \A v \in Uids : v # NewUid => accounts'[v] = accounts[v]
  <1>1. NewUid \in Uids /\ accounts[NewUid] = NoAccount /\ rows[NewUid] = NoRow
    BY NewUidIsFresh
  <1>2. accounts \in [Uids -> Account \cup {NoAccount}]
    BY DEF SerialInv, AccountsInv, TypeOK
  <1>3. accounts'[NewUid] = a /\ \A v \in Uids : v # NewUid => accounts'[v] = accounts[v]
    BY <1>1, <1>2
  <1>4. \A v \in Uids : accounts[v] # NoAccount => accounts[v].email # a.email
    BY DEF AccountOf
  <1>5. OneAccount'
    BY <1>1, <1>3, <1>4 DEF SerialInv, OneAccount
  <1>6. RowHasAccount'
    BY <1>1, <1>3 DEF SerialInv, RowHasAccount
  <1>7. QED
    BY <1>3, <1>5, <1>6

LEMMA SerialGoogleSignIn ==
  ASSUME OneAtATime, SerialInv, NEW email \in Emails, GoogleSignIn(email)
  PROVE  SerialInv'
  <1> DEFINE a == [email |-> email, verified |-> TRUE, role |-> "none"]
  <1>1. AccountsInv'
    BY GoogleSignInStep DEF SerialInv
  <1>2. /\ HasNewUid /\ AccountOf(a.email) = {} /\ accounts' = [accounts EXCEPT ![NewUid] = a]
        /\ UNCHANGED <<rows, req, broken>>
    BY DEF GoogleSignIn
  <1>3. a # NoAccount
    <2>1. a \in Account
      BY DEF Account
    <2>2. QED
      BY <2>1, NoAccountAssumption
  <1> HIDE DEF a
  <1>4. /\ OneAccount' /\ RowHasAccount' /\ accounts'[NewUid] = a
        /\ \A v \in Uids : v # NewUid => accounts'[v] = accounts[v]
    BY <1>2, <1>3, SerialNewAccount
  <1>5. /\ NewUid \in Uids /\ rows[NewUid] = NoRow
        /\ \A d \in Clients : req[d].uid # NewUid
    BY <1>2, NewUidIsFresh
  <1>6. ASSUME NEW d \in Clients
        PROVE  SerialOK(req'[d], accounts', rows')
               /\ (~ broken' => Progress(req'[d], accounts', rows'))
    <2>1. SerialOK(req[d], accounts, rows) /\ RequestOK(req[d], rows, proved)
          /\ (~ broken => Progress(req[d], accounts, rows))
      BY SerialFacts
    <2>2. req[d].pc \notin {"idle", "account", "create", "firebaseUser"} =>
             accounts'[req[d].uid] = accounts[req[d].uid]
      BY <1>4, <1>5, <2>1 DEF RequestOK
    <2>3. SerialOK(req[d], accounts', rows)
      BY <2>1, <2>2 DEF SerialOK
    <2>4. ~ broken => Progress(req[d], accounts', rows)
      BY <2>1, <2>2 DEF Progress
    <2>5. QED
      BY <1>2, <2>3, <2>4
  <1>7. ASSUME ~ broken', NEW u \in Uids, rows'[u] # NoRow, accounts'[u] # NoAccount
        PROVE  \/ SayTheSame(accounts'[u], rows'[u])
               \/ \E d \in Clients : req'[d].uid = u /\ req'[d].pc \in Ahead
    BY <1>2, <1>4, <1>5, <1>7 DEF SerialInv
  <1>8. QED
    BY <1>1, <1>4, <1>6, <1>7 DEF SerialInv, SayTheSame

LEMMA SerialCreateAccount ==
  ASSUME OneAtATime, SerialInv, NEW c \in Clients, CreateAccount(c)
  PROVE  SerialInv'
  <1>i. AccountsInv'
    BY CreateAccountStep DEF SerialInv
  <1>f. /\ SerialOK(req[c], accounts, rows)
        /\ ~ broken => Progress(req[c], accounts, rows) /\ StoresOK(req[c])
        /\ req \in [Clients -> Request] /\ req[c] \in Request
        /\ RequestOK(req[c], rows, proved)
        /\ req[c].pc = "create" /\ UNCHANGED <<rows, broken>>
    BY SerialFacts DEF CreateAccount, MakeAccount, history
  <1>1. CASE End(c) /\ UNCHANGED accounts
    BY <1>i, <1>f, <1>1, SerialEnd DEF Ahead
  <1>2. CASE ~ (End(c) /\ UNCHANGED accounts)
    <2> DEFINE a == [email |-> req[c].email, verified |-> Vouched(req[c].op), role |-> "none"]
               r == [req[c] EXCEPT !.pc = "claims", !.uid = NewUid]
    <2>1. /\ HasNewUid /\ AccountOf(req[c].email) = {}
          /\ accounts' = [accounts EXCEPT ![NewUid] = a]
          /\ req' = [req EXCEPT ![c].pc = "claims", ![c].uid = NewUid]
      BY <1>2 DEF CreateAccount, MakeAccount
    <2>2. /\ NewUid \in Uids /\ accounts[NewUid] = NoAccount /\ rows[NewUid] = NoRow
      BY <2>1, NewUidIsFresh
    <2>3. a # NoAccount
      <3>1. Vouched(req[c].op) \in BOOLEAN
        BY DEF Vouched
      <3>2. a \in Account
        BY <1>f, <3>1 DEF Account, RequestOK
      <3>3. QED
        BY <3>2, NoAccountAssumption
    \* A repair that finds no account would leave the row without one.
    <2>4. req[c].op # "repair"
      <3>1. SUFFICES ASSUME NEW v \in Uids, rows[v] # NoRow, rows[v].email = req[c].email
                     PROVE  FALSE
        BY <1>f DEF SerialOK
      <3>2. v \in AccountOf(req[c].email)
        BY <3>1 DEF SerialInv, RowHasAccount, AccountOf
      <3>3. QED
        BY <2>1, <3>2
    <2>5. req' = [req EXCEPT ![c] = r] /\ r.uid = NewUid /\ r.pc = "claims"
      BY <1>f, <2>1 DEF Request
    <2>6. /\ OneAccount' /\ RowHasAccount' /\ accounts'[NewUid] = a
          /\ \A v \in Uids : v # NewUid => accounts'[v] = accounts[v]
      BY <1>f, <2>1, <2>3, SerialNewAccount
    <2>7. SerialOK(r, accounts', rows')
      BY <1>f, <2>2, <2>3, <2>4, <2>6 DEF SerialOK, Request
    <2>8. ~ broken => Progress(r, accounts', rows')
      BY <1>f, <2>6 DEF Progress, Request
    <2>9. ASSUME ~ broken', NEW v \in Uids, rows'[v] # NoRow, accounts'[v] # NoAccount
          PROVE  SayTheSame(accounts'[v], rows'[v])
      BY <1>f, <2>2, <2>6, <2>9 DEF StoresOK, Ahead
    <2> HIDE DEF a, r
    <2>10. QED
      BY <1>i, <1>f, <2>5, <2>6, <2>7, <2>8, <2>9, SerialStep
  <1>3. QED
    BY <1>1, <1>2

\* Steps that change an account that exists.
LEMMA SerialAccountSteps ==
  ASSUME OneAtATime, SerialInv, NEW c \in Clients,
         \/ DeleteAccount(c) \/ UpdateAccount(c) \/ SetClaims(c)
         \/ DeleteUnknownUser(c) \/ SetVerified(c) \/ Undo(c)
  PROVE  SerialInv'
  <1> DEFINE u == req[c].uid
             go(p) == [req[c] EXCEPT !.pc = p]
  <1>i. AccountsInv'
    BY AccountSteps DEF SerialInv
  <1>f. /\ SerialOK(req[c], accounts, rows)
        /\ ~ broken => Progress(req[c], accounts, rows) /\ StoresOK(req[c])
        /\ RequestOK(req[c], rows, proved)
        /\ req \in [Clients -> Request] /\ req[c] \in Request
        /\ accounts \in [Uids -> Account \cup {NoAccount}]
    BY SerialFacts
  <1>s. UNCHANGED <<rows, broken>>
    BY DEF DeleteAccount, UpdateAccount, SetClaims, DeleteUnknownUser, SetVerified, Undo, history
  <1>u. u \in Uids
    BY <1>f DEF RequestOK, DeleteAccount, UpdateAccount, SetClaims, DeleteUnknownUser,
                SetVerified, Undo
  <1>a. /\ accounts[u] # NoAccount => accounts[u] \in Account
        /\ \A a \in Account : a # NoAccount
    BY <1>f, <1>u, NoAccountAssumption
  <1>1. CASE DeleteAccount(c)
    <2>1. /\ accounts[u] # NoAccount /\ accounts[u].email = req[c].email
          /\ \A v \in Uids : rows[v] # NoRow => rows[v].email # req[c].email
      BY <1>1, <1>f DEF DeleteAccount, SerialOK
    <2>2. rows[u] = NoRow
      BY <1>u, <2>1 DEF SerialInv, RowHasAccount
    <2> DEFINE r == [req[c] EXCEPT !.pc = "create", !.uid = NoUid]
    <2>3. accounts' = [accounts EXCEPT ![u] = NoAccount] /\ req' = [req EXCEPT ![c] = r]
      BY <1>1, <1>f, <2>1 DEF DeleteAccount
    <2>4. SerialOK(r, accounts', rows) /\ (~ broken => Progress(r, accounts', rows))
      BY <1>1, <1>f DEF DeleteAccount, SerialOK, Progress, Request
    <2>5. req[c].pc \notin Ahead
      BY <1>1 DEF DeleteAccount, Ahead
    <2> HIDE DEF r, u
    <2>6. QED
      BY <1>i, <1>s, <1>u, <2>2, <2>3, <2>4, <2>5, SerialAccount
  <1>2. CASE UpdateAccount(c)
    <2> DEFINE a == [accounts[u] EXCEPT !.verified = Vouched(req[c].op) \/ req[c].seen]
    <2>1. accounts[u] # NoAccount /\ accounts[u].email = req[c].email
      BY <1>2, <1>f DEF UpdateAccount, SerialOK
    <2>2. accounts' = [accounts EXCEPT ![u] = a] /\ req' = [req EXCEPT ![c] = go("claims")]
      BY <1>2, <1>f, <1>u, <2>1 DEF UpdateAccount, Go
    <2>3. a \in Account /\ a.email = accounts[u].email
          /\ (a.verified <=> Vouched(req[c].op) \/ req[c].seen)
      <3>1. (Vouched(req[c].op) \/ req[c].seen) \in BOOLEAN
        OBVIOUS
      <3>2. QED
        BY <1>a, <2>1, <3>1 DEF Account
    <2>4. accounts'[u] = a
      BY <1>f, <1>u, <2>2
    <2>5. SerialOK(go("claims"), accounts', rows)
      BY <1>2, <1>a, <1>f, <2>1, <2>3, <2>4 DEF UpdateAccount, SerialOK, Request
    <2>6. ~ broken => Progress(go("claims"), accounts', rows)
      BY <1>2, <1>f, <2>3, <2>4 DEF UpdateAccount, Progress, Request
    <2>7. req[c].pc \notin Ahead /\ go("claims").uid = u /\ go("claims").pc \in Ahead
      BY <1>2, <1>f DEF UpdateAccount, Ahead, Request
    <2> HIDE DEF a, go, u
    <2>8. QED
      BY <1>i, <1>s, <1>u, <1>a, <2>1, <2>2, <2>3, <2>5, <2>6, <2>7, SerialAccount
  <1>3. CASE SetClaims(c)
    <2> DEFINE a == [accounts[u] EXCEPT !.role = req[c].role]
    <2>1. accounts[u] # NoAccount /\ accounts[u].email = req[c].email /\ req[c].op # "repair"
      BY <1>3, <1>f DEF SetClaims, SerialOK
    <2>2. accounts' = [accounts EXCEPT ![u] = a] /\ req' = [req EXCEPT ![c] = go("saveUser")]
      BY <1>3, <1>f, <1>u, <2>1 DEF SetClaims, AfterClaims, Go
    <2>3. a \in Account /\ a.email = accounts[u].email
          /\ a.role = req[c].role /\ a.verified = accounts[u].verified
      BY <1>3, <1>a, <1>f, <2>1 DEF Account, SetClaims, RequestOK
    <2>4. accounts'[u] = a
      BY <1>f, <1>u, <2>2
    <2>5. SerialOK(go("saveUser"), accounts', rows)
      BY <1>3, <1>a, <1>f, <2>1, <2>3, <2>4 DEF SetClaims, SerialOK, Request
    <2>6. ~ broken => Progress(go("saveUser"), accounts', rows)
      BY <1>3, <1>f, <2>3, <2>4 DEF SetClaims, Progress, Request
    <2>7. go("saveUser").uid = u /\ go("saveUser").pc \in Ahead
      BY <1>f DEF Ahead, Request
    <2> HIDE DEF a, go
    <2>8. QED
      BY <1>i, <1>s, <1>u, <1>a, <2>1, <2>2, <2>3, <2>5, <2>6, <2>7, SerialAccount
  <1>4. CASE DeleteUnknownUser(c)
    <2>1. /\ rows[u] = NoRow /\ req[c].pc \notin Ahead
          /\ accounts' = [accounts EXCEPT ![u] = NoAccount] /\ req' = [req EXCEPT ![c] = Idle]
      BY <1>4, <1>f DEF DeleteUnknownUser, SerialOK, End, Ahead
    <2>2. SerialOK(Idle, accounts', rows) /\ Progress(Idle, accounts', rows)
      BY IdleIsSerial
    <2> HIDE DEF u
    <2>3. QED
      BY <1>i, <1>s, <1>u, <2>1, <2>2, SerialAccount
  <1>5. CASE SetVerified(c)
    <2>1. CASE accounts[u] = NoAccount
      <3>1. End(c) /\ UNCHANGED <<accounts, rows, broken>> /\ req[c].pc \notin Ahead
        BY <1>5, <1>s, <2>1 DEF SetVerified, Ahead
      <3>2. QED
        BY <1>i, <3>1, SerialEnd
    <2>2. CASE accounts[u] # NoAccount
      <3> DEFINE a == [accounts[u] EXCEPT !.verified = TRUE]
      <3>1. accounts' = [accounts EXCEPT ![u] = a] /\ req' = [req EXCEPT ![c] = go("activate")]
        BY <1>5, <1>f, <1>u, <2>2 DEF SetVerified, Go
      <3>2. a \in Account /\ a.email = accounts[u].email /\ a.role = accounts[u].role /\ a.verified
        BY <1>a, <2>2 DEF Account
      <3>3. accounts'[u] = a
        BY <1>f, <1>u, <3>1
      <3>4. SerialOK(go("activate"), accounts', rows)
        BY <1>5, <1>f DEF SetVerified, SerialOK, Request
      <3>5. rows[u] # NoRow /\ req[c].pc \notin Ahead
        BY <1>5, <1>f DEF SetVerified, RequestOK, Ahead
      <3>6. ~ broken => SayTheSame(accounts[u], rows[u])
        BY <1>f, <1>u, <2>2, <3>5 DEF StoresOK
      <3>7. ~ broken => Progress(go("activate"), accounts', rows)
        BY <1>5, <1>f, <3>2, <3>3, <3>6 DEF SetVerified, Progress, Request, SayTheSame
      <3>8. go("activate").uid = u /\ go("activate").pc \in Ahead
        BY <1>f DEF Ahead, Request
      <3> HIDE DEF a, go, u
      <3>9. QED
        BY <1>i, <1>s, <1>u, <1>a, <2>2, <3>1, <3>2, <3>4, <3>5, <3>7, <3>8, SerialAccount
    <2>3. QED
      BY <2>1, <2>2
  <1>6. CASE Undo(c)
    <2>1. broken /\ req' = [req EXCEPT ![c] = Idle]
      BY <1>6, <1>f DEF Undo, Progress, End
    <2>2. CASE accounts[u] = NoAccount
      <3>1. accounts' = accounts
        BY <1>6, <1>f, <1>u, <2>2 DEF Undo
      <3>2. QED
        BY <1>6, <1>i, <1>s, <2>1, <3>1, SerialEnd DEF Undo
    <2>3. CASE accounts[u] # NoAccount
      <3> DEFINE a == [accounts[u] EXCEPT !.verified = FALSE]
      <3>1. accounts' = [accounts EXCEPT ![u] = a]
        BY <1>6, <1>f, <1>u, <2>3 DEF Undo
      <3>2. a \in Account /\ a.email = accounts[u].email
        BY <1>a, <2>3 DEF Account
      <3>3. SerialOK(Idle, accounts', rows)
        BY IdleIsSerial
      <3> HIDE DEF a, u
      <3>4. QED
        BY <1>i, <1>s, <1>u, <1>a, <2>1, <2>3, <3>1, <3>2, <3>3, SerialAccount
    <2>4. QED
      BY <2>2, <2>3
  <1>7. QED
    BY <1>1, <1>2, <1>3, <1>4, <1>5, <1>6

\* Steps that write a row.
LEMMA SerialRowSteps ==
  ASSUME OneAtATime, SerialInv, NEW c \in Clients, Commit(c) \/ Activate(c)
  PROVE  SerialInv'
  <1> DEFINE u == req[c].uid
  <1>i. AccountsInv'
    BY TableSteps DEF SerialInv
  <1>f. /\ SerialOK(req[c], accounts, rows)
        /\ ~ broken => Progress(req[c], accounts, rows) /\ StoresOK(req[c])
        /\ RequestOK(req[c], rows, proved)
        /\ req \in [Clients -> Request] /\ req[c] \in Request
        /\ rows \in [Uids -> UserRow \cup {NoRow}]
    BY SerialFacts
  <1>s. UNCHANGED <<accounts, broken>>
    BY DEF Commit, Activate, history
  <1>u. u \in Uids
    BY <1>f DEF RequestOK, Commit, Activate
  \* The row w of u has the address of the account, and says what it says.
  <1>w. ASSUME NEW w, rows' = [rows EXCEPT ![u] = w],
               accounts[u] # NoAccount, accounts[u].email = w.email,
               ~ broken => SayTheSame(accounts[u], w),
               NEW r, req' = [req EXCEPT ![c] = r],
               SerialOK(r, accounts, rows'), Progress(r, accounts, rows')
        PROVE  SerialInv'
    <2>1. rows'[u] = w /\ \A v \in Uids : v # u => rows'[v] = rows[v]
      BY <1>f, <1>u, <1>w
    <2>2. OneAccount'
      BY <1>s DEF SerialInv, OneAccount
    <2>3. RowHasAccount'
      BY <1>s, <1>u, <1>w, <2>1 DEF SerialInv, RowHasAccount
    <2>4. ASSUME ~ broken', NEW v \in Uids, rows'[v] # NoRow, accounts'[v] # NoAccount
          PROVE  SayTheSame(accounts'[v], rows'[v])
      <3>1. CASE v = u
        BY <1>s, <1>w, <2>1, <2>4, <3>1
      <3>2. CASE v # u
        BY <1>f, <1>s, <2>1, <2>4, <3>2 DEF StoresOK
      <3>3. QED
        BY <3>1, <3>2
    <2>5. SerialOK(r, accounts', rows') /\ Progress(r, accounts', rows')
      BY <1>s, <1>w
    <2>6. QED
      BY <1>i, <1>w, <2>2, <2>3, <2>4, <2>5, SerialStep
  <1>1. CASE Commit(c)
    <2> DEFINE w == req[c].pend
               r == [req[c] EXCEPT !.pc = "saveToken", !.pend = NoRow]
    <2>1. accounts[u] # NoAccount /\ accounts[u].email = w.email /\ w \in UserRow
      BY <1>1, <1>f DEF Commit, SerialOK, RequestOK
    <2>2. ~ broken => SayTheSame(accounts[u], w)
      BY <1>1, <1>f DEF Commit, Progress, SayTheSame
    <2>3. /\ rows' = [rows EXCEPT ![u] = w]
          /\ \/ req' = [req EXCEPT ![c] = r]
             \/ req' = [req EXCEPT ![c] = Idle]
      BY <1>1, <1>f DEF Commit, End
    <2>4. SerialOK(r, accounts, rows') /\ Progress(r, accounts, rows')
      BY <1>1, <1>f DEF Commit, SerialOK, Progress, Request
    <2> HIDE DEF w, r, u
    <2>5. QED
      BY <1>w, <2>1, <2>2, <2>3, <2>4, IdleIsSerial
  <1>2. CASE Activate(c)
    <2> DEFINE w == [rows[u] EXCEPT !.status = "active"]
               r == [req[c] EXCEPT !.pc = "deleteToken"]
    <2>1. rows[u] # NoRow /\ rows[u] \in UserRow
      BY <1>2, <1>f, <1>u DEF Activate, RequestOK
    <2>2. w.email = rows[u].email /\ w.role = rows[u].role /\ w.status = "active"
      BY <2>1 DEF UserRow
    <2>3. accounts[u] # NoAccount /\ accounts[u].email = w.email
      BY <1>u, <2>1, <2>2 DEF SerialInv, RowHasAccount
    <2>4. ~ broken => SayTheSame(accounts[u], w)
      BY <1>2, <1>f, <2>2 DEF Activate, Progress, SayTheSame
    <2>5. rows' = [rows EXCEPT ![u] = w] /\ req' = [req EXCEPT ![c] = r]
      BY <1>2, <1>f, <1>u DEF Activate, Go
    <2>6. SerialOK(r, accounts, rows') /\ Progress(r, accounts, rows')
      BY <1>2, <1>f DEF Activate, SerialOK, Progress, Request
    <2> HIDE DEF w, r, u
    <2>7. QED
      BY <1>w, <2>3, <2>4, <2>5, <2>6
  <1>3. QED
    BY <1>1, <1>2

-----------------------------------------------------------------------------

LEMMA SerialInvInit == Init => SerialInv
  <1> SUFFICES ASSUME Init PROVE SerialInv
    OBVIOUS
  <1>1. AccountsInv
    BY AccountsInvInit
  <1>2. \A c \in Clients : /\ SerialOK(req[c], accounts, rows)
                           /\ Progress(req[c], accounts, rows)
    BY IdleIsSerial DEF Init
  <1>3. OneAccount /\ RowHasAccount
    BY DEF Init, OneAccount, RowHasAccount
  <1>4. \A u \in Uids : rows[u] = NoRow
    BY DEF Init
  <1>5. QED
    BY <1>1, <1>2, <1>3, <1>4 DEF SerialInv

LEMMA SerialInvStep == OneAtATime /\ SerialInv /\ [Next]_vars => SerialInv'
  <1> SUFFICES ASSUME OneAtATime, SerialInv, [Next]_vars PROVE SerialInv'
    OBVIOUS
  <1>1. CASE UNCHANGED vars
    <2>1. AccountsInv'
      BY <1>1, AccountsInvStep DEF SerialInv
    <2>2. QED
      BY <1>1, <2>1 DEF vars, SerialInv, OneAccount, RowHasAccount, SerialOK, Progress, SayTheSame
  <1>2. CASE \E email \in Emails : GoogleSignIn(email)
    BY <1>2, SerialGoogleSignIn
  <1>3. ASSUME NEW c \in Clients, Arrive(c) \/ Step(c) \/ Caught(c) \/ Fail(c)
        PROVE  SerialInv'
    <2>1. CASE Arrive(c)
      BY <2>1, SerialArrival
    <2>2. CASE Step(c)
      BY <2>2, SerialQuietSteps, SerialAccountSteps, SerialCreateAccount, SerialRowSteps DEF Step
    <2>3. CASE Caught(c) \/ Fail(c)
      BY <2>3, SerialQuietSteps
    <2>4. QED
      BY <1>3, <2>1, <2>2, <2>3
  <1>4. QED
    BY <1>1, <1>2, <1>3 DEF Next

LEMMA SerialInvariant == ASSUME OneAtATime PROVE Spec => []SerialInv
  <1>1. Init => SerialInv
    BY SerialInvInit
  <1>2. SerialInv /\ [Next]_vars => SerialInv'
    BY SerialInvStep
  <1>3. QED
    BY <1>1, <1>2, PTL DEF Spec

\* Whatever call of whatever request fails, and wherever the server stops, no row
\* is ever without its account (README: the services keep the data consistent).
THEOREM RowsHaveAccounts == ASSUME OneAtATime PROVE Spec => []RowHasAccount
  <1>1. SerialInv => RowHasAccount
    BY DEF SerialInv
  <1>2. QED
    BY <1>1, SerialInvariant, PTL

\* An address has one row, though the table would take one for each role of it:
\* createNewUser goes through the account, and Firebase has one for an address.
THEOREM AddressHasOneRow == ASSUME OneAtATime PROVE Spec => []OneRowPerEmail
  <1>1. SerialInv => OneRowPerEmail
    BY DEF SerialInv, OneAccount, RowHasAccount, OneRowPerEmail
  <1>2. QED
    BY <1>1, SerialInvariant, PTL

\* Between requests none of which has failed, Firebase and the table say the same of
\* every user: the role, and that an active row has a verified account, and the other
\* way round (setCustomUserClaims, emailVerified; users.role, users.status).
\* The one exception is a sign-up as admin at an address that is verified
\* (createOrUpdateFirebaseUser does not refuse it).
THEOREM StoresSayTheSame == ASSUME OneAtATime PROVE Spec => []StoresAgree
  <1>1. SerialInv => StoresAgree
    BY DEF SerialInv, StoresAgree, SayTheSame, Ahead
  <1>2. QED
    BY <1>1, SerialInvariant, PTL

\* getUser removes no account whose address is in the table
\* (deleteUserIfItDoesNotExistInDatabase).
THEOREM OnlyUnknownUsersGo == ASSUME OneAtATime PROVE Spec => DeletedUserIsUnknown
  <1> DEFINE Removed(c, u) ==
               /\ req[c].pc = "unknown" /\ req[c].uid = u /\ req'[c].pc = "idle"
               /\ accounts[u] # NoAccount /\ accounts'[u] = NoAccount
             A == \A c \in Clients, u \in Uids : Removed(c, u) => RowsOf(accounts[u].email) = {}
  <1>1. SerialInv => A
    <2> SUFFICES ASSUME SerialInv, NEW c \in Clients, NEW u \in Uids, Removed(c, u),
                        NEW v \in RowsOf(accounts[u].email)
                 PROVE  FALSE
      OBVIOUS
    <2>1. rows[u] = NoRow
      BY DEF SerialInv, SerialOK
    <2>2. /\ v \in Uids /\ rows[v] # NoRow
          /\ accounts[v] # NoAccount /\ accounts[v].email = accounts[u].email
      BY DEF RowsOf, SerialInv, RowHasAccount
    <2>3. v = u
      BY <2>2 DEF SerialInv, OneAccount
    <2>4. QED
      BY <2>1, <2>2, <2>3
  <1>2. SerialInv => [A]_vars
    BY <1>1
  <1> HIDE DEF A
  <1>3. Spec => [][A]_vars
    BY <1>2, SerialInvariant, PTL
  <1>4. QED
    BY <1>3 DEF A, DeletedUserIsUnknown
=============================================================================
