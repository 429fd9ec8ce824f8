---------------------------- MODULE UserAccounts ----------------------------
(***************************************************************************)
(* UsersService with the auth and admin controllers.  A person is a row of *)
(* the table users and an account at Firebase; both have the same id.  The *)
(* two stores share no transaction: the row is written in a transaction of *)
(* the database (REPEATABLE READ, InnoDB), the account by calls that no    *)
(* rollback undoes.  Each action below is the code from one await to the   *)
(* next.  A request that the code refuses before it has written changes    *)
(* nothing and is not enabled.                                             *)
(***************************************************************************)
EXTENDS Naturals, FiniteSets

CONSTANTS
    Emails,       \* addresses
    AdminEmails,  \* the address that createAdmin uses
    SignUpRoles,  \* roles that clients sign up with
    Uids,         \* ids that Firebase gives to accounts
    Tokens,       \* bound: tokens that exist at one time
    Clients,      \* slots for requests in progress
    NoAccount, NoRow, NoUid, NoToken

ASSUME EmailsAssumption == AdminEmails \subseteq Emails
ASSUME NoUidAssumption == NoUid \notin Uids /\ "none" \notin Emails

VARIABLES
    accounts,   \* Firebase: the account of each uid
    rows,       \* the table users, committed
    tokens,     \* the table email_verification_tokens
    req,        \* the request in each slot
    proved,     \* history: addresses that someone answered for
    broken      \* history: some call has failed

vars == <<accounts, rows, tokens, req, proved, broken>>

Roles == {"company", "investor", "admin"}

\* SignupRequest takes any role (@IsEnum(RolesEnum)).
ASSUME RolesAssumption == SignUpRoles \subseteq Roles

TokenActions == {"verify_email", "reset_password"}

\* role: the custom claim ("none" until it is set).
Account == [email: Emails, verified: BOOLEAN, role: Roles \cup {"none"}]
UserRow == [email: Emails, role: Roles, status: {"active", "inActive"}]

ASSUME NoRowAssumption == NoRow \notin UserRow
ASSUME NoAccountAssumption == NoAccount \notin Account

Token == [user: Uids, type: TokenActions]

Ops == {"createUser", "manualCreateUser", "repair", "createAdmin", "getUser",
        "verifyUser", "forgotPassword", "resetPassword"}

Waits == {"account", "lookup", "delete", "create", "update", "claims", "saveUser",
          "commit", "firebaseUser", "getUser", "unknown", "setVerified", "activate",
          "undo", "findTokens", "deleteTokens", "saveToken", "deleteToken"}

\* A request: what it waits for, the method, the address and role it is
\* about, the uid it works on, emailVerified as it was read, whether the
\* snapshot of its transaction has no row of that uid, its row that is not
\* committed yet, and the tokens it has read.
Request == [pc: Waits \cup {"idle"}, op: Ops \cup {"none"},
            email: Emails \cup {"none"}, role: Roles \cup {"none"},
            uid: Uids \cup {NoUid}, seen: BOOLEAN, insert: BOOLEAN,
            pend: UserRow \cup {NoRow}, found: SUBSET Tokens]

Idle == [pc |-> "idle", op |-> "none", email |-> "none", role |-> "none", uid |-> NoUid,
         seen |-> FALSE, insert |-> TRUE, pend |-> NoRow, found |-> {}]

\* The two stores and the requests are in order.
TypeOK ==
    /\ accounts \in [Uids -> Account \cup {NoAccount}]
    /\ rows \in [Uids -> UserRow \cup {NoRow}]
    /\ tokens \in [Tokens -> Token \cup {NoToken}]
    /\ req \in [Clients -> Request]
    /\ proved \subseteq Emails
    /\ broken \in BOOLEAN

Init ==
    /\ accounts = [u \in Uids |-> NoAccount]
    /\ rows = [u \in Uids |-> NoRow]
    /\ tokens = [t \in Tokens |-> NoToken]
    /\ req = [c \in Clients |-> Idle]
    /\ proved = {}
    /\ broken = FALSE

-----------------------------------------------------------------------------
(***************************************************************************)
(* What requests read, and the steps they are made of.                     *)
(***************************************************************************)

AccountOf(email) == {u \in Uids : accounts[u] # NoAccount /\ accounts[u].email = email}

RowsOf(email) == {u \in Uids : rows[u] # NoRow /\ rows[u].email = email}

getUserByEmailAndRole(email, role) == {u \in RowsOf(email) : rows[u].role = role}

checkEmailExists(email, role) == \E u \in RowsOf(email) : rows[u].role = role

\* Firebase gives an id that it never gave before: nothing refers to it.
Fresh(u) == /\ accounts[u] = NoAccount
            /\ rows[u] = NoRow
            /\ \A c \in Clients : req[c].uid # u

NewUid == CHOOSE u \in Uids : Fresh(u)

\* Bound: the model has an id left.
HasNewUid == \E u \in Uids : Fresh(u)

stores == <<accounts, rows, tokens>>

Begin(c, r) ==
    /\ req[c].pc = "idle"
    /\ req' = [req EXCEPT ![c] = r]
    /\ UNCHANGED <<stores, broken>>

Go(c, p) == req' = [req EXCEPT ![c].pc = p]

\* The request ends; its transaction, if it has one, is rolled back.
End(c) == req' = [req EXCEPT ![c] = Idle]

\* The administrator answers for the addresses he enters.
Vouched(op) == op \in {"manualCreateUser", "repair", "createAdmin"}

-----------------------------------------------------------------------------
(***************************************************************************)
(* Arrival: the first read of each method and its early returns.           *)
(***************************************************************************)

\* Bound: a token is free for each request that may make one.
RoomForAToken ==
    LET makers == {c \in Clients : req[c].op \in {"createUser", "forgotPassword"}}
    IN Cardinality({t \in Tokens : tokens[t] = NoToken}) > Cardinality(makers)

createUser(c, email, role) ==
    /\ ~checkEmailExists(email, "company")
    /\ RoomForAToken
    /\ Begin(c, [Idle EXCEPT !.pc = "account", !.op = "createUser",
                             !.email = email, !.role = role])
    /\ UNCHANGED proved

\* findOne({email}) may answer any row of the address.
manualCreateUser(c, email) ==
    LET start == [Idle EXCEPT !.email = email, !.role = "company"]
    IN /\ \/ /\ RowsOf(email) = {}
             /\ Begin(c, [start EXCEPT !.pc = "account", !.op = "manualCreateUser"])
          \/ /\ \E u \in RowsOf(email) : rows[u].role = "company"
             /\ Begin(c, [start EXCEPT !.pc = "firebaseUser", !.op = "repair"])
       /\ proved' = proved \cup {email}

createAdmin(c, email) ==
    /\ Begin(c, [Idle EXCEPT !.pc = "account", !.op = "createAdmin",
                             !.email = email, !.role = "admin"])
    /\ proved' = proved \cup {email}

\* signIn, getMe and upload: the account is verified and has a role.
signIn(c, u) ==
    /\ accounts[u] # NoAccount
    /\ accounts[u].verified
    /\ accounts[u].role # "none"
    /\ Begin(c, [Idle EXCEPT !.pc = "getUser", !.op = "getUser", !.uid = u])
    /\ UNCHANGED proved

\* findAndVerifyByToken: the token is in the table, is of the kind and not
\* expired; the client names the role of its user.
PresentToken(c, t, type, op, p) ==
    /\ tokens[t] # NoToken
    /\ tokens[t].type = type
    /\ LET u == tokens[t].user
       IN /\ Begin(c, [Idle EXCEPT !.pc = p, !.op = op, !.uid = u, !.found = {t}])
          /\ proved' = proved \cup {rows[u].email}

verifyUser(c, t) == PresentToken(c, t, "verify_email", "verifyUser", "setVerified")

resetPassword(c, t) == PresentToken(c, t, "reset_password", "resetPassword", "setVerified")

forgotPassword(c, email) ==
    /\ RoomForAToken
    /\ \E u \in getUserByEmailAndRole(email, "company") :
          Begin(c, [Idle EXCEPT !.pc = "findTokens", !.op = "forgotPassword", !.uid = u])
    /\ UNCHANGED proved

Arrive(c) ==
    \/ \E email \in Emails, role \in SignUpRoles : createUser(c, email, role)
    \/ \E email \in Emails : manualCreateUser(c, email) \/ forgotPassword(c, email)
    \/ \E email \in AdminEmails : createAdmin(c, email)
    \/ \E u \in Uids : signIn(c, u)
    \/ \E t \in Tokens : verifyUser(c, t) \/ resetPassword(c, t)

\* Someone signs in at Firebase with Google: an account without a row.
GoogleSignIn(email) ==
    /\ AccountOf(email) = {}
    /\ HasNewUid
    /\ accounts' = [accounts EXCEPT ![NewUid] =
                       [email |-> email, verified |-> TRUE, role |-> "none"]]
    /\ proved' = proved \cup {email}
    /\ UNCHANGED <<rows, tokens, req, broken>>

-----------------------------------------------------------------------------
(***************************************************************************)
(* createOrUpdateFirebaseUser and createOrUpdateUserInFirebase.            *)
(***************************************************************************)

history == <<proved, broken>>

GetAccount(c) ==
    /\ req[c].pc = "account"
    /\ \/ /\ AccountOf(req[c].email) = {}
          /\ Go(c, "create")
       \/ \E u \in AccountOf(req[c].email) :
             req' = [req EXCEPT ![c].pc = "lookup", ![c].uid = u, ![c].seen = accounts[u].verified]
    /\ UNCHANGED <<stores, history>>

\* What to do with an account that exists, known saying that its address has
\* a row.  This read makes the snapshot of the transaction.
Decide(c, known) ==
    /\ req[c].pc = "lookup"
    /\ LET refused == req[c].seen /\ req[c].role # "admin"
       IN \/ ~ known /\ Go(c, "delete")
          \/ known /\ refused /\ End(c)
          \/ /\ known /\ ~ refused
             /\ req' = [req EXCEPT ![c].pc = "update", ![c].insert = rows[req[c].uid] = NoRow]
    /\ UNCHANGED <<stores, history>>

\* Broken Lookup: findOneBy({email, role}).
LookupOfRole(c) ==
    Decide(c, \E u \in RowsOf(req[c].email) : rows[u].role = req[c].role)

Lookup(c) == Decide(c, RowsOf(req[c].email) # {})

\* deleteUser fails when the account is gone.
DeleteAccount(c) ==
    /\ req[c].pc = "delete"
    /\ IF accounts[req[c].uid] = NoAccount
       THEN End(c) /\ UNCHANGED accounts
       ELSE /\ accounts' = [accounts EXCEPT ![req[c].uid] = NoAccount]
            /\ req' = [req EXCEPT ![c].pc = "create", ![c].uid = NoUid]
    /\ UNCHANGED <<rows, tokens, history>>

\* A new account for the request, verified or not, unless its address has one.
MakeAccount(c, verified) ==
    /\ req[c].pc = "create"
    /\ \/ /\ AccountOf(req[c].email) # {}
          /\ End(c)
          /\ UNCHANGED accounts
       \/ /\ AccountOf(req[c].email) = {}
          /\ HasNewUid
          /\ accounts' = [accounts EXCEPT ![NewUid] =
                 [email |-> req[c].email, verified |-> verified, role |-> "none"]]
          /\ req' = [req EXCEPT ![c].pc = "claims", ![c].uid = NewUid]
    /\ UNCHANGED <<rows, tokens, history>>

\* Broken CreateAccount: every new account counts as verified.
CreateVerifiedAccount(c) == MakeAccount(c, TRUE)

CreateAccount(c) == MakeAccount(c, Vouched(req[c].op))

\* updateUser writes emailVerified as it was read, however long ago.
UpdateAccount(c) ==
    /\ req[c].pc = "update"
    /\ IF accounts[req[c].uid] = NoAccount
       THEN End(c) /\ UNCHANGED accounts
       ELSE /\ accounts' = [accounts EXCEPT ![req[c].uid].verified =
                               Vouched(req[c].op) \/ req[c].seen]
            /\ Go(c, "claims")
    /\ UNCHANGED <<rows, tokens, history>>

\* The claim is set; what follows is the table, or nothing for a repair.
AfterClaims(c) == IF req[c].op = "repair" THEN End(c) ELSE Go(c, "saveUser")

\* Broken SetClaims: an account that has a claim keeps it.
SetFirstClaims(c) ==
    /\ req[c].pc = "claims"
    /\ IF accounts[req[c].uid] = NoAccount
       THEN End(c) /\ UNCHANGED accounts
       ELSE /\ accounts' = [accounts EXCEPT ![req[c].uid].role =
                               IF @ = "none" THEN req[c].role ELSE @]
            /\ AfterClaims(c)
    /\ UNCHANGED <<rows, tokens, history>>

SetClaims(c) ==
    /\ req[c].pc = "claims"
    /\ IF accounts[req[c].uid] = NoAccount
       THEN End(c) /\ UNCHANGED accounts
       ELSE /\ accounts' = [accounts EXCEPT ![req[c].uid].role = req[c].role]
            /\ AfterClaims(c)
    /\ UNCHANGED <<rows, tokens, history>>

\* manualCreateUser asks for the account of a row that exists.
GetFirebaseUser(c) ==
    /\ req[c].pc = "firebaseUser"
    /\ IF AccountOf(req[c].email) = {} THEN Go(c, "create") ELSE End(c)
    /\ UNCHANGED <<stores, history>>

-----------------------------------------------------------------------------
(***************************************************************************)
(* The transaction of createNewUser and createAdmin, and what follows.     *)
(***************************************************************************)

NewRow(c) == [email |-> req[c].email, role |-> req[c].role,
              status |-> IF Vouched(req[c].op) THEN "active" ELSE "inActive"]

SameKey(r, s) == r # NoRow /\ s # NoRow /\ r.email = s.email /\ r.role = s.role

\* InnoDB: another transaction holds the row of uid u, or the unique key
\* (email, role) of r, which it has added or taken away.
Locked(c, u, r) ==
    \E d \in Clients \ {c} :
        /\ req[d].pend # NoRow
        /\ req[d].uid = u \/ SameKey(req[d].pend, r) \/ SameKey(rows[req[d].uid], r)

\* saveUserData waits for the locks and writes the row, or breaks a key.
SaveUser(c) ==
    /\ req[c].pc = "saveUser"
    /\ LET u == req[c].uid
           duplicate == \/ req[c].insert /\ rows[u] # NoRow
                        \/ \E v \in Uids \ {u} : SameKey(rows[v], NewRow(c))
       IN /\ ~ Locked(c, u, NewRow(c))
          /\ IF duplicate
             THEN End(c)
             ELSE req' = [req EXCEPT ![c].pc = "commit", ![c].pend = NewRow(c)]
    /\ UNCHANGED <<stores, history>>

\* Broken Commit: a sign-up ends without its commit; the locks stay.
CommitNever(c) ==
    /\ req[c].pc = "commit"
    /\ req[c].op # "createUser"
    /\ rows' = [rows EXCEPT ![req[c].uid] = req[c].pend]
    /\ End(c)
    /\ UNCHANGED <<accounts, tokens, history>>

\* The profile is saved, the transaction commits; a sign-up goes on to mail.
Commit(c) ==
    /\ req[c].pc = "commit"
    /\ rows' = [rows EXCEPT ![req[c].uid] = req[c].pend]
    /\ IF req[c].op = "createUser"
       THEN req' = [req EXCEPT ![c].pc = "saveToken", ![c].pend = NoRow]
       ELSE End(c)
    /\ UNCHANGED <<accounts, tokens, history>>

\* The row of a new token.
createVerificationToken(c, type) ==
    /\ req[c].pc = "saveToken"
    /\ LET t == CHOOSE t \in Tokens : tokens[t] = NoToken
       IN tokens' = [tokens EXCEPT ![t] = [user |-> req[c].uid, type |-> type]]
    /\ End(c)
    /\ UNCHANGED <<accounts, rows, history>>

\* The token, then the mail; the errors of both are caught.
sendVerificationEmail(c) ==
    req[c].op = "createUser" /\ createVerificationToken(c, "verify_email")

sendPasswordResetEmail(c) ==
    req[c].op = "forgotPassword" /\ createVerificationToken(c, "reset_password")

-----------------------------------------------------------------------------
(***************************************************************************)
(* getUser, verifyUser, forgotPassword and resetPassword.                  *)
(***************************************************************************)

\* Broken GetUser: only active users are found.
GetActiveUser(c) ==
    /\ req[c].pc = "getUser"
    /\ IF rows[req[c].uid] # NoRow /\ rows[req[c].uid].status = "active"
       THEN End(c)
       ELSE Go(c, "unknown")
    /\ UNCHANGED <<stores, history>>

GetUser(c) ==
    /\ req[c].pc = "getUser"
    /\ IF rows[req[c].uid] # NoRow THEN End(c) ELSE Go(c, "unknown")
    /\ UNCHANGED <<stores, history>>

\* deleteUserIfItDoesNotExistInDatabase, in the snapshot of getUser.
DeleteUnknownUser(c) ==
    /\ req[c].pc = "unknown"
    /\ accounts' = [accounts EXCEPT ![req[c].uid] = NoAccount]
    /\ End(c)
    /\ UNCHANGED <<rows, tokens, history>>

\* verifyUser and resetPassword: emailVerified := TRUE at Firebase.
SetVerified(c) ==
    /\ req[c].pc = "setVerified"
    /\ IF accounts[req[c].uid] = NoAccount
       THEN End(c) /\ UNCHANGED accounts
       ELSE /\ accounts' = [accounts EXCEPT ![req[c].uid].verified = TRUE]
            /\ Go(c, "activate")
    /\ UNCHANGED <<rows, tokens, history>>

\* Broken Activate: a status that is none.
ActivateAsVerified(c) ==
    /\ req[c].pc = "activate"
    /\ ~ Locked(c, req[c].uid, NoRow)
    /\ rows' = [rows EXCEPT ![req[c].uid].status = "verified"]
    /\ Go(c, "deleteToken")
    /\ UNCHANGED <<accounts, tokens, history>>

Activate(c) ==
    /\ req[c].pc = "activate"
    /\ ~ Locked(c, req[c].uid, NoRow)
    /\ rows' = [rows EXCEPT ![req[c].uid].status = "active"]
    /\ Go(c, "deleteToken")
    /\ UNCHANGED <<accounts, tokens, history>>

\* The row could not be updated: emailVerified := FALSE, whatever it was.
Undo(c) ==
    /\ req[c].pc = "undo"
    /\ accounts' = [accounts EXCEPT ![req[c].uid] =
                       IF @ = NoAccount THEN @ ELSE [@ EXCEPT !.verified = FALSE]]
    /\ End(c)
    /\ UNCHANGED <<rows, tokens, history>>

FindTokens(c) ==
    /\ req[c].pc = "findTokens"
    /\ LET mine == {t \in Tokens : tokens[t] = [user |-> req[c].uid, type |-> "reset_password"]}
       IN req' = [req EXCEPT ![c].pc = "deleteTokens", ![c].found = mine]
    /\ UNCHANGED <<stores, history>>

\* deleteToken and deleteTokens.
DeleteTokens(c) ==
    /\ req[c].pc \in {"deleteToken", "deleteTokens"}
    /\ tokens' = [t \in Tokens |-> IF t \in req[c].found THEN NoToken ELSE tokens[t]]
    /\ IF req[c].pc = "deleteTokens"
       THEN req' = [req EXCEPT ![c].pc = "saveToken", ![c].found = {}]
       ELSE End(c)
    /\ UNCHANGED <<accounts, rows, history>>

-----------------------------------------------------------------------------
(***************************************************************************)
(* Failures and the specification.                                         *)
(***************************************************************************)

\* An error that the code catches and goes on from: a failed read counts as
\* nothing found, a failed update of emailVerified or of the row is undone.
Caught(c) ==
    /\ \/ req[c].pc \in {"account", "firebaseUser"} /\ Go(c, "create")
       \/ req[c].pc = "findTokens" /\ Go(c, "deleteTokens")
       \/ req[c].pc = "setVerified" /\ req[c].op = "verifyUser" /\ Go(c, "undo")
       \/ req[c].pc = "activate" /\ Go(c, "undo")
    /\ broken' = TRUE
    /\ UNCHANGED <<stores, proved>>

\* Any other error, or the server stops.
Fail(c) ==
    /\ req[c].pc # "idle"
    /\ End(c)
    /\ broken' = TRUE
    /\ UNCHANGED <<stores, proved>>

Step(c) ==
    \/ GetAccount(c) \/ Lookup(c) \/ DeleteAccount(c)
    \/ CreateAccount(c) \/ UpdateAccount(c) \/ SetClaims(c) \/ GetFirebaseUser(c)
    \/ SaveUser(c) \/ Commit(c) \/ sendVerificationEmail(c) \/ sendPasswordResetEmail(c)
    \/ GetUser(c) \/ DeleteUnknownUser(c)
    \/ SetVerified(c) \/ Activate(c) \/ Undo(c)
    \/ FindTokens(c) \/ DeleteTokens(c)

Next ==
    \/ \E email \in Emails : GoogleSignIn(email)
    \/ \E c \in Clients : Arrive(c) \/ Step(c) \/ Caught(c) \/ Fail(c)

Spec == Init /\ [][Next]_vars

\* The event loop, Firebase and the database serve every await in the end,
\* and InnoDB grants a lock in the order of the requests for it.
FairSpec ==
    /\ Spec
    /\ \A c \in Clients : WF_vars(Step(c)) /\ SF_vars(SaveUser(c) \/ Activate(c))

\* Nothing but sign-ups, and no call fails.
SpecOfSignUps ==
    Init /\ [][\E c \in Clients :
                  \/ \E email \in Emails, role \in SignUpRoles : createUser(c, email, role)
                  \/ Step(c)]_vars

-----------------------------------------------------------------------------
(***************************************************************************)
(* Properties of any number of overlapping requests.                       *)
(***************************************************************************)

\* An address counts as verified, in either store, only if someone answered
\* for it: its owner with a token from the mail or a sign-in with Google, or
\* the administrator (setEmailVerified, updateVerificationStatus).
OnlyProvedIsVerified ==
    \A u \in Uids :
        /\ accounts[u] # NoAccount /\ accounts[u].verified => accounts[u].email \in proved
        /\ rows[u] # NoRow /\ rows[u].status = "active" => rows[u].email \in proved

\* Every request ends, those that wait for a lock of another one included.
Answered == \A c \in Clients : req[c].pc # "idle" ~> req[c].pc = "idle"

-----------------------------------------------------------------------------
(***************************************************************************)
(* Properties of one request at a time.                                    *)
(***************************************************************************)

\* A row has its account, at every await and after every failure: the
\* services keep the data consistent wherever an error occurs (README).
RowHasAccount ==
    \A u \in Uids : rows[u] # NoRow =>
        accounts[u] # NoAccount /\ accounts[u].email = rows[u].email

\* The table allows one row for each role of an address; Firebase one account.
\* Signing up with another role changes the row and never adds a second one.
OneRowPerEmail ==
    \A u, v \in Uids :
        rows[u] # NoRow /\ rows[v] # NoRow /\ rows[u].email = rows[v].email => u = v

\* Between requests, as long as no call has failed, both stores say the same
\* of a user: the role, and whether the address was verified.  One case is
\* left: who signs up as admin is not refused when the account is verified
\* (role !== 'admin'), and the row becomes inActive under that account.
StoresAgree ==
    ~ broken /\ (\A c \in Clients : req[c].pc = "idle") =>
        \A u \in Uids : rows[u] # NoRow /\ accounts[u] # NoAccount =>
            /\ accounts[u].role = rows[u].role
            /\ rows[u].status = "active" => accounts[u].verified
            /\ accounts[u].verified => rows[u].status = "active" \/ rows[u].role = "admin"

\* getUser removes at Firebase users that are not in the table at all
\* (deleteUserIfItDoesNotExistInDatabase): nobody whose address is in it.
DeletedUserIsUnknown ==
    [][\A c \in Clients, u \in Uids :
          /\ req[c].pc = "unknown" /\ req[c].uid = u /\ req'[c].pc = "idle"
          /\ accounts[u] # NoAccount /\ accounts'[u] = NoAccount
          => RowsOf(accounts[u].email) = {}]_vars
=============================================================================
