# A verification development for the mpapi server

`src/servers/api` is the API server of an M&A matching platform: companies describe themselves,
administrators turn the descriptions into anonymous *summaries*, the company approves them, and
investors browse what was posted. It is a NestJS application over MySQL (TypeORM) and Firebase
Authentication. It has no tests of its own. This directory models what the server does to its
state in TLA+, checks it with TLC and proves the main results with TLAPS.

Paths below are relative to `src/servers/api/src/app`. `service` without a path is
`services/companies/companies-summaries.service.ts`.

## 1. Inventory

Requests run on one Node.js event loop and interleave at every `await`. Nothing is cached between
requests: all state is in MySQL, in Firebase, in S3 and in the clients' cookies. Components call
each other directly inside a request; there are no background jobs (the Bull queue in
`providers/email.provider.ts` has a processor and no producer).

| Component | State | Operations | What is hard | What makes it correct |
|---|---|---|---|---|
| **Company summaries** (`service`, `models/company_summaries.ts`) | `company_summaries`: status, visibility, version, original, card | create, three ways to edit, post to master, change visibility; lists and detail views | read, check, save over several awaits, no transaction, no row version; two writes in one request; an error after the write; cards and versions computed from earlier reads | nothing is posted that was not submitted; posting is final; versions form chains; a card identifies a company; visibility belongs to the company; an error means that nothing changed |
| **Translations** (`companies-summaries-translation.service.ts`) | `company_summaries_translations` | create, update, read | no uniqueness per language | not modelled, see section 5 |
| **Company records** (`companies.service.ts`, controllers of companies and admin, `dto/company.dto.ts`) | `companies`, `company_information`, financial data, attachments, notes | create and update by user and by administrator | many statements per request, no transaction; whole copies saved; conditional validators; values that columns refuse; attachments claimed by two requests | a submitted company is whole; an answered request has left a company that opens; processing ends its edits; a file belongs to one owner and is attached once |
| **User accounts** (`users.service.ts`, `auth.controller.ts`, `users.persistence.ts`, `admin.controller.ts`) | `users`, `user_profiles`, `email_verification_tokens`, Firebase accounts | sign-up, manual creation, sign-in, verification, forgotten and new password | two stores without a common transaction, compensations, deletion of "unknown" accounts, tokens used twice | a row has its account and the reverse; no request deletes an account another one made |
| **Sessions** (`auth.middleware.ts`, `auth.provider.ts`, `roles.guard.ts`, `auth.controller.ts`) | cookies, Firebase tokens | check, renew, sign in and out | expiry during a request, parallel renewals, responses in any order | an admitted request speaks for an account that was entitled within a token's life; both cookies are of one account; nobody is thrown out without reason |
| **Files** (`files.controller.ts`, `files.service.ts`, `s3.provider.ts`) | S3 objects, `file_attachments` | upload | upload and insert are separate, several at once, and go on after the answer | a row has its object |
| **Pure utilities** (`utils/utils.ts`, `utils/file.util.ts`) | none | durations, extensions | boundary values | not modelled, see section 5 |
| Mail, Slack | none | send | errors | part of the requests that use them |
| Master data, i18n, configuration, logging, HTTP plumbing, migrations | none that changes | | | not modelled |

Components meet in few places. The owner of a company (`company.user`, absent when an
administrator created the company) decides who may edit a summary and where its mail goes; the
roles in a session decide which controller a request may reach; the `users` row is the owner of
companies, files and tokens.

The hazards this code is exposed to, each at its line, are listed in `PROJECT.json`.

## 2. What is modelled

    Summaries               the table, its queries and statements, the readers' views
      SummaryTable          abstract: one action per committed statement
      SummaryService        detailed: requests, await by await
      Summaries_lemmas      lemmas about the operators of Summaries
        SummaryTable_proofs
        SummaryService_proofs
          SummaryRefinement_proofs    SummaryService implements SummaryTable
    UserAccounts            accounts at Firebase and rows of users, await by await
      UserAccounts_proofs
    CompanyForms            the forms of companies: validators, columns, merging
      CompanyRecords        companies, information, financial data, files, await by await
        CompanyRecords_proofs
          CompanyRecordsSerial_proofs   one request at a time
    Sessions                cookies, tokens, the guard
      Sessions_proofs
    MCSummaryTable, MCSummaryService, MCUserAccounts, MCCompanyRecords, MCSessions
                            the instances that TLC checks

**Summaries.** A table is a sequence of rows and an id is a place in it (AUTO_INCREMENT; rows are
never deleted). A row keeps the columns that decide something: company information, status,
`is_public`, `version`, `original_version_id`, `card_order`. The descriptive columns are one value
`content`. `added_to_master_at` is copied or set exactly when `card_order` is. NULL is 0. ORDER BY
with a tie is a choice: the queries are sets of the ids that may be answered. The searches of
administrators and investors are modelled without their filters (type of business, years, country,
keyword...), which only narrow a list. `getSummaryForAdmin` and `getSummaryForUser` choose the newest
row that their reader may see, by version alone; `UniqueValuesFor...` are the rows whose values are
offered as filters.

**SummaryService.** `req[c]` is the request in slot `c`: what it awaits, the method that serves it,
the id of its row, the entity it holds in memory, the columns its UPDATE will set (`diff`), and whether
it has committed a statement. Each action is the code from one await to the next:

| Action | Code |
|---|---|
| `createSummary`, `updateSummary`, `updateSummaryForUser`, `updateSummaryMaster`, `changePublicStatus`, `addSummaryToMaster` | the first read of the method, its guards, and the changes to the entity in memory |
| `ReadExisting`, `ReadMaxCard` | the two queries of `addSummaryToMaster` for a card (service:404-422) |
| `BulkUpdate` | UPDATE of `is_public` for all rows of the company (430-433) |
| `Insert` | `Repository.save()` of a new entity (261) |
| `Save`, `Update` | the SELECT and the UPDATE of `Repository.save()` of a loaded entity (220, 307, 358, 435, 454) |
| `SendMail`, `MailTypeError` | the mails, whose errors are caught, and the dereference of `company.user` before their `try` (77) |
| `ReadRelated` | the last query of `updateSummary` (313) |
| `Fail` | an error of the database, a lost connection, a server that stops: at any await |

`Repository.save()` of a loaded entity selects the row again (`Save`) and, one await later, updates
the columns in which the entity, stale or not, differs from what it has just read (`Update`,
`diff`); without a difference there is no UPDATE. Other requests run in between. The row that
results may therefore be a mixture of several copies. The descriptive columns are one value here, so
that an UPDATE sets all of them or none. A request that the code refuses (403, 404) before it has
written is not enabled. `submitted` is a history variable: the rows that have been SUBMITTED at some
time.

**SummaryTable** is what the service promises to a reader of the table when requests do not
overlap: `Draft`, `Rework`, `Correct`, `Toggle`, `Show`, `Post`. `SummaryService` is mapped onto it
by `rows` alone (`Table == INSTANCE SummaryTable`).

**UserAccounts.** `accounts` (Firebase) and `rows` (the table `users`) are functions of the uid, which
is the primary key of both; `tokens` is `email_verification_tokens` without its expired rows. The
two stores share no transaction, and nothing undoes a call to Firebase but another call. `req[c]`
holds what a method has read: the account's `emailVerified` (`seen`), whether the snapshot of its
transaction has no row of the uid (`insert`: then `save()` inserts), the row it has written and not
committed (`pend`), the tokens it has found.

| Action | Code (`services/users/users.service.ts` unless named) |
|---|---|
| `createUser`, `manualCreateUser`, `createAdmin`, `signIn`, `verifyUser`, `forgotPassword`, `resetPassword` | what each handler reads first, and its early returns |
| `GetAccount`, `Lookup`, `DeleteAccount`, `CreateAccount`, `UpdateAccount`, `SetClaims`, `GetFirebaseUser` | `createOrUpdateFirebaseUser`, `createOrUpdateUserInFirebase`, and the repair of an account that a row has lost |
| `SaveUser`, `Commit` | the transaction that writes the user and its profile |
| `sendVerificationEmail`, `sendPasswordResetEmail` (both with `createVerificationToken`), `FindTokens`, `DeleteTokens` | the tokens of a sign-up or a forgotten password |
| `GetUser`, `DeleteUnknownUser` | every signed-in request about oneself: an account without a row is deleted |
| `SetVerified`, `Activate`, `Undo` | verification, in both stores, and its compensation |
| `Caught`, `Fail` | an error that the code goes on from, and every other one |
| `GoogleSignIn` | not this server: a person signs in at Firebase and has an account |

The transactions are those of InnoDB at REPEATABLE READ: the first read makes the snapshot, a
duplicate key is found in what is committed, and a statement waits while another transaction holds
the row or the unique key (email, role). Names, passwords, the profile and `role_order` are left
out. `proved` (the addresses that someone has answered for) and `broken` (some call has failed) are
history variables.

**CompanyForms.** A form is its status, a class of value for each field, the ids of files and up to
some years of financial data. The classes (`absent`, `null`, `blank`, `good`, `bad`, `long`) are what
validators and columns tell apart, so that `CompanyInformationDto` and
`CreateUpdateCompanyByAdminDto` are predicates on forms: which validators a draft switches off,
the three groups of a deal of which one must be filled (`IsOneOfThreeGroups`), the three years that
end with the current one (`CombinedFinancialData`). `Merge` is `Object.assign` over a copy that was
read, `FormFits` and `CopyFits` say when the database takes it: a NULL that was read through a
`parseInt` transformer and is not overwritten comes back as NaN.

**CompanyRecords.** The tables are functions of a company's id (a company gets one information, by
the request that creates it), `finances` is a sequence of rows per company, `files` and `objects` are
the table and the bucket. `req[c]` holds the form and the copies that were read.

| Action | Code (`services/companies/companies.service.ts` unless named) |
|---|---|
| `createCompanyInfo`, `updateCompanyInfo`, `createCompanyInfoForAdmin`, `updateCompanyInfoForAdmin` | the routes with the validation of the body, the first reads and guards |
| `readInformation`, `saveCompany`, `saveInformation` | the read of the information with its status check; the two saves |
| `readFiles`, `removeFile`, `findFile`, `attachFile`, `filesDone` | `handleFileAttachments`, one query or save at a time |
| `findYear`, `saveYear`, `yearFails`, `yearsDone` | `handleFinancialData`, whose errors are logged and passed over |
| `answer` | the response |
| `startUpload`, `uploadFile`, `createFile`, `fileFails`, `allSent` | `FilesController.uploadMultipleFiles`: `Promise.all` over the files; after one has failed the others go on |
| `cutOff`, `newYear` | an error or a stop at any await; 31 December |

`Repository.save()` is one step here: of the properties checked with overlaps, `FileOfOwner` rests
on the owner columns, which no UPDATE changes, on `company_information` of a file, which only an
attaching UPDATE sets, to the company of its request, and `RowHasObject` on the INSERT of a file; a
SELECT before the UPDATE makes no difference to either. The other properties are checked one request
at a time, where SELECT and UPDATE amount to writing the copy.

The request of an upload ends, here, when all its files are through or have failed; the client may
have its error earlier, and nothing of the model depends on that.

**Sessions.** `jar` is the pair of cookies of each browser, `req[s]` a request with the pair it was
sent with and, once known, the token that speaks for it and the pair its response will set. The
actions are the awaits of `AuthMiddleware._use` (`verifyIdToken`, `refreshToken`, `verifyNewToken`,
`verificationFails`), `RolesGuard`, `handle` (the handler runs), `signIn`, `signedIn`, `signOut`,
and on the browser's side `receive` and `lose`. Firebase may at any time verify an account, take
that back, or replace its password, which revokes its refresh tokens; the clock ticks. `held`,
`session` and `tangled` are history: who was verified with which role and when, who signed in last
in a browser, and whether it had other requests under way when that answer came.

Operators whose comment begins with "Broken" are variants of the definition that follows them, each
a plausible bug. No specification uses them. Put in the place of that definition, each makes the
property fail that PROJECT.json pairs it with: the property is able to fail.

### Assumptions

* Clients send a status of `SummaryStatus`. The DTO rejects POSTED and nothing else, the column is
  a varchar: another string would be stored.
* The owner of a company does not change (no operation of the server changes it).
* Ids and versions do not reach the limit of a 32-bit column.
* A mail server answers or fails in the end (the library has time limits).
* Clients sign up with any role of `RolesEnum` (`RolesAssumption`), which is what the DTO takes, `admin`
  included.
* An administrator answers for the addresses he enters, and so does whoever calls `createAdmin`.
* A user signs in with his own password; two tokens are never the same string.
* InnoDB grants a lock in the order in which it was asked for.
* Nobody but the server writes the tables and the bucket; MySQL runs in strict mode (its default),
  so that a value that does not fit is refused.
* The role of a Firebase account does not change while its tokens are used (`Sessions`; sign-up sets
  it before anybody can sign in), and Firebase answers a renewal with the refresh token it was given.

## 3. What TLC checks

| Run | Instance | Shows |
|---|---|---|
| `table` | 2 companies, 4 rows | `OriginalIsPosted`, `CardIdentifiesCompany`, `CardsWithoutGaps`, `NobodyFallsBehind`, `PostedIsFinal` of SummaryTable |
| `serial` | 1 slot, 2 companies (one without a user), 2 rows, 2 texts, failures | `TableSpec`: SummaryService implements SummaryTable; `MasterShowsWholeCompany`; every request ends (`Answered`) |
| `overlap` | 2 slots, 1 company, 2 rows, 3 cards, the statuses DRAFT and SUBMITTED, failures | what survives every interleaving: `OnlySubmittedIsPosted`, `PostedHasCard`, `VersionChain`, `IdentityIsFixed`, `ViewsAgree` |
| `overlap_unposts` | 2 slots, 1 row, no failures | **violated**: an edit that read before the posting un-posts the row |
| `mail_type_error` | 1 slot, no failures | **violated**: a request that answers 500 has inserted its row |
| `submit_in_place` | 1 slot, no failures | **violated**: edit and submit of a REQUEST makes no new version |
| `accounts_serial` | 1 slot, 2 addresses, 5 ids, 2 tokens, sign-ups with all three roles, administrators, failures | `RowHasAccount`, `OneRowPerEmail`, `StoresAgree`, `DeletedUserIsUnknown` |
| `accounts_overlap` | 2 slots, 1 address, 5 ids, 2 tokens, sign-ups as a company, failures | `OnlyProvedIsVerified` of every interleaving; every request ends (`Answered`), locks included |
| `orphan_row` | 2 slots, 1 address, sign-ups only, no failures | **violated**: two sign-ups of one address leave a row without an account (`RowHasAccount`) |
| `companies_serial` | 1 slot, 1 user, 1 administrator, 2 companies, 2 files, 10 forms, the turn of a year, 1 failure | `SubmittedIsWhole`, `AnswerShowsFiles`, `AnsweredIsWhole`, `OneRowPerYear`, `AttachedForGood`, `ProcessedIsFinal` |
| `companies_overlap` | 2 slots, 1 user, 1 administrator, 2 companies, 2 files, 3 forms, 1 failure | `FileOfOwner` and `RowHasObject` of every interleaving; every request ends (`Answered`) |
| `sessions` | 1 browser, 2 slots, 2 accounts, 2 roles, 1 tick, 1 new password each | `PairBelongsTogether`, `AdmittedWasEntitled`, `NotThrownOut`, `JarFollowsUser` |

The four violations are findings: PROJECT.json quotes what the code or its documents say. The
traces are short (`OverlapUnposts.cfg`: create, submit, start an edit, post, save the edit).

*Bounds.* `MaxRows` bounds the table and `MaxCards` the cards; both are guards on the arrival of a
request (`RoomForARow`, `RoomForACard`), so that no request gets stuck half-way. Two rows of one
company are what version and card logic compare; two companies are what cards tell apart; four rows
in `table` give two versions of each. Two slots give every overlap of two requests. A third request
is not a repetition of the first two: with three slots, one row and no failure TLC finds a POSTED
row without a card, when the UPDATE of a stale edit sets the card to NULL after the SELECT, and
before the UPDATE, of a post that finds the status alone to differ. `PostedHasCard` is a property of
two requests, and its theorem says so (`TwoAtATime`); the other theorems below hold for every number
of slots, or for one. `overlap` sends two statuses (`Sent`): what a copy with DRAFT_FROM_ADMIN or
REQUEST does to the row and to another copy, one with DRAFT does as well, and the mails change no
row; `serial` sends all five. The theorems take any set of statuses. In `UserAccounts` an id is
never given twice while anything refers to it (`Fresh`), and `HasNewUid` and `RoomForAToken` are the
bounds: five ids are two addresses with an account each, one of them replaced, or two requests that
each delete and make an account; two tokens are one of each kind, or an old and a new one. One
address is what two requests contend for; the second of `accounts_serial` shows that its neighbour
is left alone. `accounts_overlap` signs up as a company only, for its size; `VerificationNeedsProof`
is for every set of roles. In `CompanyRecords` a company is a model value and `HasNewCompany` the
bound; ten forms are a draft with and without a file, drafts that the database refuses, whole forms
of either year with the near misses that the validators must refuse, a year named twice and a final
status; `failures` counts failed calls and refused saves, up to `MaxFailures`: one is enough to cut
a request off at every await. In `Sessions` one tick lets every token expire (`TokenLife = 0`),
which is what a renewal needs; two slots are two renewals in parallel, or one and a sign-out.
Symmetry is used where the permuted values are treated alike (request slots in `overlap`; companies
in `table`; accounts and slots in `sessions`), never with liveness. `sessions` does not check for
deadlock: when the clock has reached its bound, nothing is left to do for a browser that stays away.

*Fairness.* `FairSpec` asks weak fairness of `Step(c)` for each slot: the event loop resumes every
continuation whose promise has settled, and the database answers every statement or reports an
error. Arrivals and failures are not fair: clients may stay away and nothing has to fail. In
`UserAccounts` the two statements that wait for a lock, `SaveUser` and `Activate`, are strongly
fair: a lock that other requests take again and again is granted in turn. Weak fairness would not
do, since the statement is not enabled while another transaction holds the lock.

`FairSpec` of `CompanyRecords` is weak fairness of `Continue(c)`, the handler of a request that is
under way; it waits for nothing but its own calls.

*What overlapping breaks.* `CardIdentifiesCompany`, `PostedIsFinal` and `MasterShowsWholeCompany`
hold for one request at a time and not for two: `addSummaryToMaster` reads the greatest card in one
statement and writes it in a later one, and every edit saves a copy. That is why the promise of
SummaryTable is stated for requests that do not overlap. Of the accounts, `RowHasAccount` breaks when
two requests about one address overlap, as in `orphan_row`: the second takes the account that the
first has just made for one that nobody owns, and deletes it; the first goes on and commits its row. A
manual creation that meets the first sign-in of the same address does the same. The repair (manual
creation of a row that exists) makes an account with a new id, which has no row: the first sign-in
deletes it (`DeletedUserIsUnknown` would not hold either if requests overlapped). Of the summaries,
`PostedHasCard` survives two requests and not three. Of the company records, only `FileOfOwner` and
`RowHasObject` survive an overlap. Two requests that have read the
same free file attach it one after the other, and the second takes it from the first company
(`AttachedForGood`, `AnswerShowsFiles`); two updates both find no row of a year and both insert one
(`OneRowPerYear`); an update that read the status before it became PROCESSED is saved after it, which
is why `ProcessedIsFinal` asks that nobody has read an older status (`Settled`).

*What a failure breaks.* `SubmittedIsWhole` holds of histories without a failed call, and a value
that the database refuses counts as one: `handleFinancialData` logs either and goes on, so that a
year is missing from a SUBMITTED information although the answer shows it. `AnsweredIsWhole` excuses
no history: whatever earlier requests that failed have left, a request that is answered has
repaired, unless it has itself lost a year in that way (`lost`). A request that stops between its
first two saves is not answered; it leaves a company that is listed and does not open.
`addSummaryToMaster` that stops between its two writes leaves the visibility changed and the row
SUBMITTED. A failed password reset un-verifies the account of an active user (`Undo`), which is why
`StoresAgree` excuses `broken` histories. It makes one more exception, which needs no failure: the
check 'Already verified' is passed over for the role `admin` (users.service.ts:147), so that a
sign-up as administrator at a verified address leaves the account verified and its row inActive.

*What the browser may see.* `JarFollowsUser` excuses a browser that had other requests under way
when a sign-in or sign-out was answered: a renewal that was under way and answers later brings the
pair of the user before back.

## 4. What is proved

Every safety property that a passing run checks is a theorem, for every set of companies, texts,
users, files and slots, and every bound. Two kinds of theorem: with overlaps (any number of slots,
and therefore every interleaving of requests; two slots for `PostedSummariesHaveCards`), and, where
an overlap breaks the property (section 3), under the hypothesis `OneAtATime == \A c, d \in Clients
: c = d`: a request begins when the one before has ended, as in the runs with one slot. Each
inductive invariant was an invariant of a TLC run before it was proved.

**Summaries**

* `SummaryTable_proofs`: `TableIsConsistent` (types, `OriginalIsPosted`, `CardIdentifiesCompany`,
  `CardsWithoutGaps`; each also by itself), `EditorsKeepUp` (`NobodyFallsBehind`: the original of the
  newest row is POSTED and one version below, and neither reader passes it over) and
  `PostedRowsAreFinal`. The conjunction of the four is inductive: a new
  card is above every other because cards have no gaps above the greatest one, and an original
  stays POSTED because posting is final.
* `SummaryService_proofs`, with overlaps: `ServiceTypeCorrect`, `PostingNeedsSubmission`,
  `PostedSummariesHaveCards`, `HistoryIsAChain`, `RowsKeepTheirIdentity`. None is inductive alone,
  since a request may save a copy that it read long ago, or only some columns of it. `ServiceInv`
  adds `CopiesOK`, what is true of every copy however stale: it is a copy of the same version of the
  same company; if it will be saved as POSTED, its row has been submitted and (from `bulk` on) it
  carries a card; a new entity is one version above a submitted row. `PostedSummariesHaveCards` has
  the hypothesis `TwoAtATime`. Its invariant, `CardInv`, adds what a copy may differ in from its row
  (`CopyHasCard`: an edit without a card comes from a row without one, or one posted since; an edit
  that takes the card off a row also takes off its status) and what two copies of one row may differ
  in (`CopiesFit`: an edit that overlaps a post has read the row before the post's UPDATE, so that
  it either undoes the post altogether or leaves the card).
* `QueriesAgree` (`ViewsAgree`), with overlaps: the queries that answer with a list, with one row
  and by card show the same summaries. It is a fact about the queries, and follows from the types
  alone: a row that one query passes over has a newer one above it, and a greatest row exists
  (`GreatestExists` of `Summaries_lemmas`).
* `SummaryRefinement_proofs`, `OneAtATime`: `ServiceImplementsTable`. A copy
  is never stale; `Fresh` says exactly what it differs from its row in at each await, so that each
  commit is one action of SummaryTable or a stutter. `ServiceKeepsTablePromises` carries the theorems
  of the abstract table over to the service through this refinement. `MasterShowsCompany`
  (`MasterShowsWholeCompany`) needs one fact more about the past of a request, `HasShown`: from the bulk
  update until its save, every row of the company has the visibility that is about to be saved.

**Accounts**

* `UserAccounts_proofs`, with overlaps: `AccountsTypeCorrect` and `VerificationNeedsProof`.
  `OnlyProvedIsVerified` is not inductive: a
  request verifies an account whose address it read, or was told of by a row, some awaits ago.
  `AccountsInv` adds what makes that safe. `OneAddress`: everything that names one uid (its account,
  its row, every request that works on it) names the same address, because ids are not given
  twice. `TokenHasRow`: the user of a token has a row. `Requests`: a request that has read
  `emailVerified`, that will write an active row, or that came with a token, is about an address
  that was answered for.
* The same module, `OneAtATime`: `RowsHaveAccounts` (`RowHasAccount`), `AddressHasOneRow`
  (`OneRowPerEmail`), `StoresSayTheSame` (`StoresAgree`) and `OnlyUnknownUsersGo`
  (`DeletedUserIsUnknown`). `SerialInv` adds that an address has one account (`OneAccount`), that
  what a request has found in either store is still so (`SerialOK`: the account it will delete has
  no row, the row it will save is the only one of its address), and, as long as no call has failed,
  how far it has come between the two stores (`Progress`): they may differ only for the uid of a
  request that has written to one and comes to the other (`Ahead`). Whoever signs up as admin is the
  one whose account may be verified under an inActive row.

**Company records**

* `CompanyRecords_proofs`, with overlaps: `RecordsTypeCorrect`, `FilesStayWithTheirOwner`,
  `RowsHaveObjects`. `RecordsInv` adds: what a request knows at each await (`RequestOK`: its company
  exists and belongs to its caller or to the administrators, the file it has found is its caller's,
  an entry or a row it will use exists); that a file under way in an upload has no row and is under
  way once (`NewFiles`); that two requests for one company have read the same owner (`Agree`).
  Tables only grow, so what a request knows stays true while others run.
* `CompanyRecordsSerial_proofs`, `OneAtATime`: `SubmittedStaysWhole` (`SubmittedIsWhole`),
  `AnsweredRequestsAreWhole` (`AnsweredIsWhole`), `AnswersShowFiles` (`AnswerShowsFiles`),
  `FilesAttachedForGood` (`AttachedForGood`), `UpdatesKeepOneRowPerYear` (`OneRowPerYear`),
  `ProcessedStaysFinal` (`ProcessedIsFinal`). `SerialInv` says of each await: what the answer will
  show is what is listed but for the files still to remove (`FilesOK`); the row of the year is the
  one that was found, or there is none (`YearOK`); the information that was read is not final, and a
  user's form was accepted in some year (`ReadOK`); and, unless the request has lost an entry, what
  the form has left behind in the three tables so far (`WrittenOK`): the position from `saveCompany`
  on, the details and a group from `saveInformation` on, each year before the entry it is at. With
  the answer the last entry is behind it, and the company is whole: that is
  `AnsweredRequestsAreWhole`, whatever failed before. As long as nothing has, the company stays so
  (`WholeOrWritten`). That a form which passed the validators and fits its columns fills what it
  must, whatever draft is under it, is `SubmittedPosition`, `SubmittedInformation` and
  `SubmittedAmounts`.

**Sessions**

* `Sessions_proofs`: `PairsBelongTogether`, `AdmissionNeedsEntitlement`, `NobodyIsThrownOut`,
  `JarFollowsTheUser` and the types, for any number of accounts, browsers and parallel requests and
  any life of a token. `SessionsInv` follows tokens on their way: every pair of cookies, in a jar, a
  request or a response, is of one account and was issued by Firebase (`CookiesOK`); a request holds
  what it has established so far (`RequestOK`); a call carries the cookies of the user
  who signed in last in its browser, unless the browser is `tangled` (`Follows`), so that renewing
  them changes nobody.

The proofs rest on the assumptions about the constants that the modules name: the owner of a company
is a user or nobody; "nothing" (NoUser, NoEntity, NoRow, NoAccount and the like) is no real value;
bounds are naturals, the last year is not before the first one, and a call may fail at least once;
forms are forms; users and administrators are different people. TLC evaluates them in every run.

Only model-checked: `Answered` of the three services. It is liveness under fairness, and its proof
would need ENABLED, which the prover does not handle. What the queries compute over
tables of any length needed induction; the induction theorems of the library take an operator, so
`LeastNumber` of `Summaries_lemmas` gets the least counterexample from a well-founded order
instead. No module has a recursive definition.

## 5. Plan, and what is not modelled

Next:

1. *Account directory*: the abstract specification of UserAccounts, in which row and account come
   and go together, and what the two stores may differ in between requests; the refinement follows
   the steps of `Progress`.
2. The same for CompanyRecords: one form accepted, one company changed.

Not modelled:

* *Translations* and *administrators' notes*: each operation is one INSERT, one read-and-save of one
  row, or one SELECT; no code relates two rows, so there is nothing to hold but that a language or an
  information may have two rows, which no document forbids.
* *Search filters*, keyword and sorting: they narrow or order a list that is modelled.
* *The emulator mode* of the middleware, the Authorization header in place of the cookie, broken tokens.
* *Pure utilities*: functions of one argument. `convertToMilliseconds` is called with `'1d'` and
  `'1h'` only, and the expiry of tokens is left out of UserAccounts.
* Mail and Slack texts, master data, i18n, configuration, logging, the order of migrations,
  development tools: they keep no state that the properties are about.
