--------------------------- MODULE SummaryService ---------------------------
(***************************************************************************)
(* CompanySummariesService, request by request.  The service runs no       *)
(* database transaction: between two awaits of a request any other request *)
(* may run, and the entity that a request holds in memory may be stale     *)
(* when it is saved.  Each action below is the code from one await to the  *)
(* next.  A request that the code refuses (404, 403) before it has written *)
(* changes nothing and is not enabled.                                     *)
(***************************************************************************)
EXTENDS Summaries, FiniteSets

CONSTANTS
    Users,      \* users of the application
    NoUser,     \* "no user": a company created by an administrator
    Owner,      \* the user of the company that an information row describes
    Clients,    \* slots for requests in progress
    Sent,       \* the statuses that clients send
    NoEntity,   \* "no entity in memory"
    MaxRows,    \* bound on the number of rows of the table
    MaxCards    \* bound on card_order

ASSUME OwnerAssumption == Owner \in [Infos -> Users \cup {NoUser}]
ASSUME SentAssumption == Sent \subseteq DtoStatuses
ASSUME NoUserAssumption == NoUser \notin Users
ASSUME NoEntityAssumption == NoEntity \notin Row
ASSUME BoundsAssumption == MaxRows \in Nat /\ MaxCards \in Nat

VARIABLES
    rows,       \* the table company_summaries
    req,        \* the request in each slot
    submitted   \* history: the rows that have been SUBMITTED in the table

vars == <<rows, req, submitted>>

Methods == {"createSummary", "updateSummary", "updateSummaryForUser",
            "updateSummaryMaster", "addSummaryToMaster", "changePublicStatus"}

Waits == {"existing", "maxCard", "bulk", "insert", "save", "update", "mail", "related"}

\* The columns of a row that a method may assign.
Columns == {"status", "content", "card_order", "is_public"}

\* A request: what it waits for ("idle": the last one answered 2xx, "failed":
\* it answered 500 or was cut off), the method that serves it, the id of the
\* row it works on, its copy of that row as it will be saved, the columns that
\* its UPDATE will set, and whether it has committed a statement.
Request == [pc: Waits \cup {"idle", "failed"},
            method: Methods \cup {"none"},
            target: Nat,
            entity: Row \cup {NoEntity},
            diff: SUBSET Columns,
            wrote: BOOLEAN]

Idle == [pc |-> "idle", method |-> "none", target |-> 0, entity |-> NoEntity,
         diff |-> {}, wrote |-> FALSE]

\* The table holds rows, every request is in order, and only rows of the
\* table have been submitted.
TypeOK ==
    /\ rows \in Seq(Row)
    /\ req \in [Clients -> Request]
    /\ submitted \subseteq DOMAIN rows

Init ==
    /\ rows = <<>>
    /\ req = [c \in Clients |-> Idle]
    /\ submitted = {}

-----------------------------------------------------------------------------
(***************************************************************************)
(* Steps every request is made of.                                         *)
(***************************************************************************)

\* The request arrives and its first read answers; it goes on at p with the
\* entity e of row id.
Begin(c, m, p, id, e) ==
    /\ req[c].pc \in {"idle", "failed"}
    /\ req' = [req EXCEPT ![c] = [pc |-> p, method |-> m, target |-> id, entity |-> e,
                                 diff |-> {}, wrote |-> FALSE]]
    /\ UNCHANGED <<rows, submitted>>

\* The request, having written nothing new, goes on at p with the entity e.
Continue(c, p, e) ==
    /\ req' = [req EXCEPT ![c].pc = p, ![c].entity = e]
    /\ UNCHANGED <<rows, submitted>>

\* The request answers 2xx.
Answer(c) == req' = [req EXCEPT ![c] = Idle]

\* The request answers 500, or nobody gets an answer.
Break(c) ==
    /\ req' = [req EXCEPT ![c] = [Idle EXCEPT !.pc = "failed"]]
    /\ UNCHANGED <<rows, submitted>>

\* Row id is saved: the request answers, or goes on at p without its entity.
Saved(c, id, p, wrote) ==
    IF p = "idle"
    THEN Answer(c)
    ELSE req' = [req EXCEPT ![c] = [Idle EXCEPT !.pc = p, !.method = req[c].method,
                                               !.target = id, !.wrote = wrote]]

\* A statement commits the table new.
Commit(new) ==
    /\ rows' = new
    /\ submitted' = submitted \cup {i \in DOMAIN new : new[i].status = "SUBMITTED"}

-----------------------------------------------------------------------------
(***************************************************************************)
(* Arrival: the first read of each method and its early returns.           *)
(***************************************************************************)

\* Bound: every request that waits to insert will add a row.
RoomForARow == Len(rows) + Cardinality({c \in Clients : req[c].pc = "insert"}) < MaxRows

createSummary(c, info, status, content) ==
    /\ RoomForARow
    /\ \E base \in NewestPosted(rows, info, 0) :
          Begin(c, "createSummary", "insert", 0, NewVersion(rows, info, base, status, content))

\* Broken updateSummary: without the guard against POSTED.
updateSummaryAnyStatus(c, id, status, content) ==
    Begin(c, "updateSummary", "save", id,
          [rows[id] EXCEPT !.status = status, !.content = content])

updateSummary(c, id, status, content) ==
    /\ rows[id].status # "POSTED"
    /\ Begin(c, "updateSummary", "save", id,
             [rows[id] EXCEPT !.status = status, !.content = content])

updateSummaryForUser(c, user, id, status, content) ==
    /\ status \notin {"DRAFT_FROM_ADMIN", "POSTED", "REQUEST"}
    /\ rows[id].status \notin {"DRAFT_FROM_ADMIN", "POSTED"}
    /\ Owner[rows[id].info] = user
    /\ Begin(c, "updateSummaryForUser", "save", id,
             [rows[id] EXCEPT !.status = status, !.content = content])

updateSummaryMaster(c, id, content) ==
    /\ rows[id].status = "POSTED"
    /\ Begin(c, "updateSummaryMaster", "save", id, [rows[id] EXCEPT !.content = content])

changePublicStatus(c, id, b) ==
    /\ rows[id].status = "POSTED"
    /\ Begin(c, "changePublicStatus", "save", id, [rows[id] EXCEPT !.is_public = b])

\* Bound: every request that waits for its card may add 1 to the greatest.
RoomForACard ==
    LET held == {req[c].entity : c \in Clients} \ {NoEntity}
        cards == {rows[i].card_order : i \in DOMAIN rows} \cup {e.card_order : e \in held}
        waiting == {c \in Clients : req[c].pc \in {"existing", "maxCard"}}
    IN \A k \in {0} \cup cards : k + Cardinality(waiting) < MaxCards

\* Broken addSummaryToMaster: any row that is not POSTED yet is posted.
addAnySummaryToMaster(c, id, b) ==
    /\ rows[id].status # "POSTED"
    /\ RoomForACard
    /\ Begin(c, "addSummaryToMaster", "existing", id,
             [rows[id] EXCEPT !.status = "POSTED", !.is_public = b])

addSummaryToMaster(c, id, b) ==
    \/ /\ rows[id].status = "SUBMITTED"
       /\ RoomForACard
       /\ Begin(c, "addSummaryToMaster", "existing", id,
                [rows[id] EXCEPT !.status = "POSTED", !.is_public = b])
    \/ /\ rows[id].status = "POSTED"
       /\ Begin(c, "addSummaryToMaster", "bulk", id, [rows[id] EXCEPT !.is_public = b])

Arrive(c) ==
    \/ \E info \in Infos, status \in Sent, content \in Contents :
          createSummary(c, info, status, content)
    \/ \E id \in DOMAIN rows, status \in Sent, content \in Contents :
          \/ updateSummary(c, id, status, content)
          \/ \E user \in Users : updateSummaryForUser(c, user, id, status, content)
    \/ \E id \in DOMAIN rows, content \in Contents : updateSummaryMaster(c, id, content)
    \/ \E id \in DOMAIN rows, b \in BOOLEAN :
          changePublicStatus(c, id, b) \/ addSummaryToMaster(c, id, b)

-----------------------------------------------------------------------------
(***************************************************************************)
(* The later awaits.                                                       *)
(***************************************************************************)

\* Broken ReadExisting: a company without POSTED rows gets no card.
ReadExistingOnly(c) ==
    /\ req[c].pc = "existing"
    /\ \E holder \in CardHolder(rows, req[c].entity.info) :
          Continue(c, "bulk", IF holder = 0
                              THEN req[c].entity
                              ELSE [req[c].entity EXCEPT !.card_order = rows[holder].card_order])

\* addSummaryToMaster looks for a POSTED row of the company.
ReadExisting(c) ==
    /\ req[c].pc = "existing"
    /\ LET e == req[c].entity
       IN \E holder \in CardHolder(rows, e.info) :
             IF holder = 0
             THEN Continue(c, "maxCard", e)
             ELSE Continue(c, "bulk", [e EXCEPT !.card_order = rows[holder].card_order])

\* addSummaryToMaster takes the next card.
ReadMaxCard(c) ==
    /\ req[c].pc = "maxCard"
    /\ \E m \in MaxCard(rows) :
          Continue(c, "bulk", [req[c].entity EXCEPT !.card_order = m + 1])

\* addSummaryToMaster sets is_public on all rows of the company.
BulkUpdate(c) ==
    /\ req[c].pc = "bulk"
    /\ LET e == req[c].entity
       IN Commit(SetVisibility(rows, e.info, e.is_public))
    /\ req' = [req EXCEPT ![c].pc = "save", ![c].wrote = TRUE]

\* createSummary saves the new entity; a REQUEST is mailed to the owner.
Insert(c) ==
    /\ req[c].pc = "insert"
    /\ LET e == req[c].entity
       IN /\ Commit(Append(rows, e))
          /\ Saved(c, Len(rows) + 1, IF e.status = "REQUEST" THEN "mail" ELSE "idle", TRUE)

\* What a method still does once its row is saved: a mail, the query for the
\* related POSTED row, or nothing.
AfterSave(method, status) ==
    CASE method = "updateSummary" -> IF status = "REQUEST" THEN "mail" ELSE "related"
      [] method = "updateSummaryForUser" /\ status = "SUBMITTED" -> "mail"
      [] OTHER -> "idle"

\* The columns in which the entity e differs from its row.
Differing(row, e) == {col \in Columns : row[col] # e[col]}

\* The row after an UPDATE that sets the columns cols to the values of e.
Merged(row, e, cols) ==
    [row EXCEPT !.status = IF "status" \in cols THEN e.status ELSE @,
                !.content = IF "content" \in cols THEN e.content ELSE @,
                !.card_order = IF "card_order" \in cols THEN e.card_order ELSE @,
                !.is_public = IF "is_public" \in cols THEN e.is_public ELSE @]

\* Repository.save() reads the row again.  It updates the columns in which the
\* entity, stale or not, differs from it, or nothing.
Save(c) ==
    /\ req[c].pc = "save"
    /\ LET e == req[c].entity
           cols == Differing(rows[req[c].target], e)
       IN IF cols = {}
          THEN Saved(c, req[c].target, AfterSave(req[c].method, e.status), req[c].wrote)
          ELSE req' = [req EXCEPT ![c].pc = "update", ![c].diff = cols]
    /\ UNCHANGED <<rows, submitted>>

\* Broken Update: the edit of a row raises its version in place.
UpdateRaisesVersion(c) ==
    /\ req[c].pc = "update"
    /\ LET e == req[c].entity
       IN /\ Commit([rows EXCEPT ![req[c].target] =
                        [Merged(@, e, req[c].diff) EXCEPT !.version = @ + 1]])
          /\ Saved(c, req[c].target, AfterSave(req[c].method, e.status), TRUE)

\* The UPDATE of Repository.save().
Update(c) ==
    /\ req[c].pc = "update"
    /\ LET e == req[c].entity
       IN /\ Commit([rows EXCEPT ![req[c].target] = Merged(@, e, req[c].diff)])
          /\ Saved(c, req[c].target, AfterSave(req[c].method, e.status), TRUE)

\* sendSummaryRequestEmail reads the address of the owner outside its try: a
\* company without a user makes the request fail.
MailBreaks(c) ==
    /\ req[c].method \in {"createSummary", "updateSummary"}
    /\ Owner[rows[req[c].target].info] = NoUser

\* Broken SendMail: updateSummary waits for a mail that is never sent.
SendMailNever(c) ==
    /\ req[c].pc = "mail"
    /\ ~ MailBreaks(c)
    /\ req[c].method # "updateSummary"
    /\ Answer(c)
    /\ UNCHANGED <<rows, submitted>>

\* Errors of the mail server are caught and logged.
SendMail(c) ==
    /\ req[c].pc = "mail"
    /\ ~ MailBreaks(c)
    /\ IF req[c].method = "updateSummary"
       THEN Continue(c, "related", req[c].entity)
       ELSE Answer(c) /\ UNCHANGED <<rows, submitted>>

MailTypeError(c) ==
    /\ req[c].pc = "mail"
    /\ MailBreaks(c)
    /\ Break(c)

\* updateSummary looks for the POSTED row that its answer names.
ReadRelated(c) ==
    /\ req[c].pc = "related"
    /\ Answer(c)
    /\ UNCHANGED <<rows, submitted>>

\* A statement fails, the connection is lost or the server stops: the
\* request is gone, what it has committed stays.
Fail(c) ==
    /\ req[c].pc \in Waits
    /\ Break(c)

Step(c) ==
    \/ ReadExisting(c) \/ ReadMaxCard(c) \/ BulkUpdate(c)
    \/ Insert(c) \/ Save(c) \/ Update(c)
    \/ SendMail(c) \/ MailTypeError(c) \/ ReadRelated(c)

Next == \E c \in Clients : Arrive(c) \/ Step(c) \/ Fail(c)

Spec == Init /\ [][Next]_vars

\* The event loop and the database serve every await in the end.
FairSpec == Spec /\ \A c \in Clients : WF_vars(Step(c))

\* No statement ever fails.
SpecWithoutFailures == Init /\ [][\E c \in Clients : Arrive(c) \/ Step(c)]_vars

-----------------------------------------------------------------------------
(***************************************************************************)
(* Properties of any number of overlapping requests.                       *)
(***************************************************************************)

\* Nothing reaches the investors' side that was never SUBMITTED: the guard
\* of addSummaryToMaster survives every stale save.
OnlySubmittedIsPosted ==
    \A i \in DOMAIN rows : rows[i].status = "POSTED" => i \in submitted

\* A POSTED row has its place among the cards of master (addSummaryToMaster),
\* whatever stale values one other request updates it with.  (Three requests
\* at a time can leave one without.)
PostedHasCard ==
    \A i \in DOMAIN rows : rows[i].status = "POSTED" => rows[i].card_order # 0

\* The history of a company (createSummary): a row of version 1 has no
\* original, any other is one version above an earlier row of the same
\* company, which had been submitted.
VersionChain ==
    \A i \in DOMAIN rows :
        LET o == rows[i].original_version_id
        IN /\ o = 0 <=> rows[i].version = 1
           /\ o # 0 => /\ o < i /\ o \in submitted
                       /\ rows[o].info = rows[i].info
                       /\ rows[o].version + 1 = rows[i].version

\* No save or bulk update moves a row to another company, version or
\* original, nor deletes it.
IdentityIsFixed ==
    [][\A i \in DOMAIN rows :
          /\ i \in DOMAIN rows'
          /\ rows'[i].info = rows[i].info
          /\ rows'[i].version = rows[i].version
          /\ rows'[i].original_version_id = rows[i].original_version_id]_rows

\* The queries of the readers agree, though each is written anew: what a list
\* shows (searchSummaries, searchSummariesForInvestor) its reader can open
\* (getSummaryPostedByIdForAdmin, ...ForInvestor) and is offered the values of
\* (getUniqueSummaryValues); what investors can open and is not listed is an
\* older version left public below a hidden newest one.
ViewsAgree ==
    /\ AdminList(rows) \subseteq OpenableByAdmin(rows) \cap UniqueValuesForAdmin(rows)
    /\ UniqueValuesForInvestor(rows) = InvestorList(rows)
    /\ InvestorList(rows) \subseteq Openable(rows)
    /\ \A i \in Openable(rows) \ InvestorList(rows) :
          \E j \in AdminList(rows) :
             /\ rows[j].info = rows[i].info
             /\ rows[j].version > rows[i].version
             /\ ~ rows[j].is_public

\* Every request is answered or cut off.
Answered == \A c \in Clients : req[c].pc \in Waits ~> req[c].pc \notin Waits

-----------------------------------------------------------------------------
(***************************************************************************)
(* Properties of one request at a time.                                    *)
(***************************************************************************)

\* The table is the variable rows of the service; its requests are not seen.
Table == INSTANCE SummaryTable
    WITH rows <- rows, Infos <- Infos, Contents <- Contents, MaxRows <- MaxRows

\* The service implements the table of SummaryTable.
TableSpec == Table!Spec

\* When addSummaryToMaster answers, every row of the company has the
\* visibility that was asked for.
MasterShowsWholeCompany ==
    [][\A c \in Clients :
          /\ req[c].method = "addSummaryToMaster" /\ req[c].pc \in {"save", "update"}
          /\ req'[c].pc = "idle"
          => \A i \in DOMAIN rows' :
                  rows'[i].info = req[c].entity.info =>
                      rows'[i].is_public = req[c].entity.is_public]_vars

-----------------------------------------------------------------------------
(***************************************************************************)
(* What documents, messages and comments of the repository say and the     *)
(* service does not do.                                                    *)
(***************************************************************************)

\* 'Can not edit summary with status POSTED' (updateSummary): once POSTED, a
\* row is no longer changed into anything else.
PostedStaysPosted ==
    [][\A i \in DOMAIN rows :
          rows[i].status = "POSTED" => rows'[i].status = "POSTED"]_rows

\* 'Failed to create summary', 'Failed to update summary': a request that
\* answers 500 has changed nothing.
FailedChangesNothing ==
    [][\A c \in Clients : req[c].pc \in Waits /\ req'[c].pc = "failed" => ~ req[c].wrote]_req

\* Edit and submit of a REQUEST by the user makes a new row, of the next
\* version (company_summaries_version.md, step 2; updateSummaryForUser).
SubmittedEditIsNewVersion ==
    [][\A c \in Clients :
          /\ req[c].method = "updateSummaryForUser" /\ req[c].pc = "update"
          /\ rows[req[c].target].status = "REQUEST"
          /\ req[c].entity.status = "SUBMITTED"
          /\ req[c].entity.content # rows[req[c].target].content
          /\ rows' # rows
          => Len(rows') = Len(rows) + 1]_vars
=============================================================================
