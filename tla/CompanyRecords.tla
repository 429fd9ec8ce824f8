---------------------------- MODULE CompanyRecords ----------------------------
(***************************************************************************)
(* CompaniesService with the companies, files and admin controllers: the   *)
(* records of a company (its row, its information, its financial data) and *)
(* the files that are attached to them.  Every method reads and writes     *)
(* with one repository call after the other, in no transaction; each step  *)
(* below is the code from one await to the next.  save() writes the whole  *)
(* copy that was read, with the values of the form over it.  A request     *)
(* that is refused before it has written changes nothing and is not        *)
(* enabled.  A company gets one information, by the request that creates   *)
(* it, so the information has the id of its company here.                  *)
(***************************************************************************)
EXTENDS CompanyForms, FiniteSets

CONSTANTS
    Users,        \* company users
    Admins,       \* administrators
    Companies,    \* ids of companies
    Files,        \* ids of files, and of their objects in S3
    UserForms,    \* forms that users send
    AdminForms,   \* forms that administrators send
    Uploads,      \* sets of files that one upload may bring
    Clients,      \* slots for requests in progress
    FirstYear,    \* the calendar year when the history begins
    LastYear,     \* bound: the calendar year in which it ends
    MaxFailures,  \* bound: calls that fail
    NoPerson, NoCompany, NoInformation, NoFile, NoForm

Form == [status: Statuses, values: FormValues, files: SUBSET Files,
         financial_data: Seq([year: Nat, data: {"all", "some", "null", "long"}])]

Forms == UserForms \cup AdminForms

ASSUME FormsAssumption == Forms \subseteq Form
ASSUME PeopleAssumption ==
    /\ Users \cap Admins = {}
    /\ NoPerson \notin Users \cup Admins
ASSUME UploadsAssumption == Uploads \subseteq SUBSET Files
ASSUME FailuresAssumption == MaxFailures \in Nat \ {0}
ASSUME YearsAssumption == FirstYear \in Nat /\ LastYear \in Nat /\ FirstYear <= LastYear

VARIABLES
    companies,     \* the table companies
    informations,  \* the table company_information, by company
    finances,      \* the table company_financial_data: the rows of each company
    files,         \* the table file_attachments
    objects,       \* the bucket
    year,          \* new Date().getFullYear()
    req,           \* the request in each slot
    failures       \* history: calls that have failed

vars == <<companies, informations, finances, files, objects, year, req, failures>>

People == Users \cup Admins

\* Either user_id or created_by_admin is set.
Company == [user: Users \cup {NoPerson}, admin: Admins \cup {NoPerson},
            values: [CompanyFields -> StoredValues]]

CompanyInformation == [status: Statuses, values: [InformationFields -> StoredValues]]

\* whole: none of the five amounts is null.
CompanyFinancialData == [year: Nat, whole: BOOLEAN]

\* information: the company it is attached to (company_information_id).
FileAttachments == [user: People, information: Companies \cup {NoCompany}, deleted: BOOLEAN]

ASSUME NothingAssumption ==
    /\ NoCompany \notin Company \cup Companies
    /\ NoInformation \notin CompanyInformation
    /\ NoFile \notin FileAttachments \cup Files
    /\ NoForm \notin Form

Ops == {"createCompanyInfo", "updateCompanyInfo", "createCompanyInfoForAdmin",
        "updateCompanyInfoForAdmin", "upload"}

Waits == {"information", "saveCompany", "saveInformation", "files", "remove",
          "attach", "year", "saveYear", "answer", "sending"}

\* A request: what it waits for, the method, who calls, the company and the
\* form, the copies it has read, the files it is to remove, to add and will
\* show, the file it has found, the entry of the form it is at, the row of its
\* year (0: none) as it was read, whether it has lost an entry.  An upload: the files
\* on their way to S3 and to the table.
Request == [pc: Waits \cup {"idle"}, op: Ops \cup {"none"}, by: People \cup {NoPerson},
            company: Companies \cup {NoCompany}, form: Forms \cup {NoForm},
            readCompany: Company \cup {NoCompany},
            readInformation: CompanyInformation \cup {NoInformation},
            remove: SUBSET Files, add: SUBSET Files, shown: SUBSET Files,
            found: Files \cup {NoFile}, entry: Nat, row: Nat, wasWhole: BOOLEAN,
            lost: BOOLEAN, sending: SUBSET Files, stored: SUBSET Files]

Idle == [pc |-> "idle", op |-> "none", by |-> NoPerson, company |-> NoCompany,
         form |-> NoForm, readCompany |-> NoCompany, readInformation |-> NoInformation,
         remove |-> {}, add |-> {}, shown |-> {}, found |-> NoFile, entry |-> 1,
         row |-> 0, wasWhole |-> FALSE, lost |-> FALSE, sending |-> {}, stored |-> {}]

\* Rows, objects and requests are in order.
TypeOK ==
    /\ companies \in [Companies -> Company \cup {NoCompany}]
    /\ informations \in [Companies -> CompanyInformation \cup {NoInformation}]
    /\ finances \in [Companies -> Seq(CompanyFinancialData)]
    /\ files \in [Files -> FileAttachments \cup {NoFile}]
    /\ objects \subseteq Files
    /\ year \in Nat
    /\ req \in [Clients -> Request]
    /\ failures \in 0 .. MaxFailures

Init ==
    /\ companies = [k \in Companies |-> NoCompany]
    /\ informations = [k \in Companies |-> NoInformation]
    /\ finances = [k \in Companies |-> << >>]
    /\ files = [f \in Files |-> NoFile]
    /\ objects = {}
    /\ year = FirstYear
    /\ req = [c \in Clients |-> Idle]
    /\ failures = 0

-----------------------------------------------------------------------------
(***************************************************************************)
(* What the readers show.                                                  *)
(***************************************************************************)

getCompaniesOfUser(u) == {k \in Companies : companies[k] # NoCompany /\ companies[k].user = u}

getCompaniesCreateByAdmin ==
    {k \in Companies : companies[k] # NoCompany /\ companies[k].admin # NoPerson}

ListedFiles(k) ==
    {f \in Files : files[f] # NoFile /\ files[f].information = k /\ ~files[f].deleted}

Rows(k) == {finances[k][i] : i \in DOMAIN finances[k]}

\* What the readers answer without NotFound: a company with its information.
getCompanyInfo(u) == {k \in getCompaniesOfUser(u) : informations[k] # NoInformation}

getCompanyInfoForAdmin ==
    {k \in Companies : companies[k] # NoCompany /\ informations[k] # NoInformation}

-----------------------------------------------------------------------------
(***************************************************************************)
(* The steps that the methods share.                                       *)
(***************************************************************************)

tables == <<companies, informations, finances, files, objects>>

Go(c, p) == req' = [req EXCEPT ![c].pc = p]

End(c) == req' = [req EXCEPT ![c] = Idle]

Begin(c, r) ==
    /\ req[c].pc = "idle"
    /\ req' = [req EXCEPT ![c] = r]
    /\ UNCHANGED <<tables, year, failures>>

\* The database refuses a value.
Refused == failures' = IF failures < MaxFailures THEN failures + 1 ELSE failures

\* A call fails for a reason of its own.
CallFails == failures < MaxFailures /\ failures' = failures + 1

IsNew(k) == companies[k] = NoCompany /\ \A c \in Clients : req[c].company # k

\* Bound: the model has an id left.
HasNewCompany == \E k \in Companies : IsNew(k)

NewCompany == CHOOSE k \in Companies : IsNew(k)

\* Broken readInformation: the status is not looked at.
readAnyInformation(c, final) ==
    /\ req[c].pc = "information"
    /\ LET read == informations[req[c].company]
       IN IF read = NoInformation
          THEN End(c)
          ELSE req' = [req EXCEPT ![c].pc = "saveCompany", ![c].readInformation = read]
    /\ UNCHANGED <<tables, year, failures>>

\* findOne of company_information, and the check of its status.
readInformation(c, final) ==
    /\ req[c].pc = "information"
    /\ LET read == informations[req[c].company]
       IN IF read = NoInformation \/ read.status \in final
          THEN End(c)
          ELSE req' = [req EXCEPT ![c].pc = "saveCompany", ![c].readInformation = read]
    /\ UNCHANGED <<tables, year, failures>>

saveCompany(c) ==
    LET r == req[c]
    IN /\ r.pc = "saveCompany"
       /\ IF FormFits(r.form, CompanyFields)
          THEN /\ companies' = [companies EXCEPT ![r.company] =
                     [r.readCompany EXCEPT !.values = Merge(@, r.form)]]
               /\ Go(c, "saveInformation")
               /\ UNCHANGED failures
          ELSE End(c) /\ Refused /\ UNCHANGED companies
       /\ UNCHANGED <<informations, finances, files, objects, year>>

\* Broken saveInformation: the error of the database is swallowed.
saveInformationOrNot(c) ==
    LET r == req[c]
    IN /\ r.pc = "saveInformation"
       /\ informations' = IF FormFits(r.form, InformationFields)
                          THEN [informations EXCEPT ![r.company] =
                                  [status |-> r.form.status,
                                   values |-> Merge(r.readInformation.values, r.form)]]
                          ELSE informations
       /\ Go(c, "answer")
       /\ UNCHANGED <<companies, finances, files, objects, year, failures>>

\* An UPDATE or, when it is new, an INSERT.
saveInformation(c) ==
    LET r == req[c]
        isNew == informations[r.company] = NoInformation
    IN /\ r.pc = "saveInformation"
       /\ IF /\ FormFits(r.form, InformationFields)
             /\ isNew \/ CopyFits(r.readInformation.values, r.form)
          THEN /\ informations' = [informations EXCEPT ![r.company] =
                     [status |-> r.form.status,
                      values |-> Merge(r.readInformation.values, r.form)]]
               /\ Go(c, "files")
               /\ UNCHANGED failures
          ELSE End(c) /\ Refused /\ UNCHANGED informations
       /\ UNCHANGED <<companies, finances, files, objects, year>>

\* Broken readFiles: deleted files are shown.
readFilesAndShowAll(c) ==
    LET r == req[c]
        existing == {f \in Files : files[f] # NoFile /\ files[f].information = r.company}
    IN /\ r.pc = "files"
       /\ req' = [req EXCEPT ![c].pc = "remove",
                             ![c].remove = existing \ r.form.files,
                             ![c].add = r.form.files \ existing,
                             ![c].shown = existing \cap r.form.files]
       /\ UNCHANGED <<tables, year, failures>>

\* The existing files include those that were deleted.
readFiles(c) ==
    LET r == req[c]
        existing == {f \in Files : files[f] # NoFile /\ files[f].information = r.company}
    IN /\ r.pc = "files"
       /\ req' = [req EXCEPT ![c].pc = "remove",
                             ![c].remove = existing \ r.form.files,
                             ![c].add = r.form.files \ existing,
                             ![c].shown = {f \in existing \cap r.form.files : ~files[f].deleted}]
       /\ UNCHANGED <<tables, year, failures>>

\* The copy was read without its relations: company_information_id stays.
removeFile(c, f) ==
    /\ req[c].pc = "remove"
    /\ f \in req[c].remove
    /\ files' = [files EXCEPT ![f].deleted = TRUE]
    /\ req' = [req EXCEPT ![c].remove = @ \ {f}]
    /\ UNCHANGED <<companies, informations, finances, objects, year, failures>>

\* Broken CanAttach: the file of anybody.
CanAttachAny(c, f) ==
    files[f] # NoFile /\ ~files[f].deleted /\ files[f].information = NoCompany

\* Broken CanAttach: a file that another company has.
CanAttachAgain(c, f) ==
    files[f] # NoFile /\ ~files[f].deleted /\ files[f].user = req[c].by

\* findOne({ id, is_deleted: false }): a file of someone else, or one that is
\* attached, is passed over without an error.
CanAttach(c, f) ==
    /\ files[f] # NoFile
    /\ ~files[f].deleted
    /\ files[f].user = req[c].by
    /\ files[f].information = NoCompany

\* Broken findFile: a file that is passed over is looked for again.
findFileForever(c, f) ==
    /\ req[c].pc = "remove"
    /\ req[c].remove = {}
    /\ f \in req[c].add
    /\ req' = IF CanAttach(c, f)
              THEN [req EXCEPT ![c].pc = "attach", ![c].found = f, ![c].add = @ \ {f}]
              ELSE [req EXCEPT ![c].pc = "files"]
    /\ UNCHANGED <<tables, year, failures>>

findFile(c, f) ==
    /\ req[c].pc = "remove"
    /\ req[c].remove = {}
    /\ f \in req[c].add
    /\ IF CanAttach(c, f)
       THEN req' = [req EXCEPT ![c].pc = "attach", ![c].found = f, ![c].add = @ \ {f}]
       ELSE req' = [req EXCEPT ![c].add = @ \ {f}]
    /\ UNCHANGED <<tables, year, failures>>

\* The copy was not deleted and not attached when it was read.
attachFile(c) ==
    LET f == req[c].found
    IN /\ req[c].pc = "attach"
       /\ files' = [files EXCEPT ![f].information = req[c].company, ![f].deleted = FALSE]
       /\ req' = [req EXCEPT ![c].pc = "remove", ![c].found = NoFile,
                             ![c].shown = @ \cup {f}]
       /\ UNCHANGED <<companies, informations, finances, objects, year, failures>>

filesDone(c) ==
    /\ req[c].pc = "remove"
    /\ req[c].remove = {}
    /\ req[c].add = {}
    /\ Go(c, "year")
    /\ UNCHANGED <<tables, year, failures>>

handleFileAttachments(c) ==
    \/ readFiles(c)
    \/ \E f \in Files : removeFile(c, f) \/ findFile(c, f)
    \/ attachFile(c)
    \/ filesDone(c)

Entry(c) == req[c].form.financial_data[req[c].entry]

HasEntry(c) == req[c].entry <= Len(req[c].form.financial_data)

NextEntry(c, lost) ==
    req' = [req EXCEPT ![c].pc = "year", ![c].entry = @ + 1, ![c].row = 0,
                       ![c].wasWhole = FALSE, ![c].lost = @ \/ lost]

\* Broken findYear: an update does not look for rows.
findNoYear(c, mode) ==
    /\ req[c].pc = "year"
    /\ HasEntry(c)
    /\ Go(c, "saveYear")
    /\ UNCHANGED <<tables, year, failures>>

\* 'edit' looks for a row of the year (any of them), 'add' never does.
findYear(c, mode) ==
    LET rows == finances[req[c].company]
        same == {i \in DOMAIN rows : rows[i].year = Entry(c).year}
    IN /\ req[c].pc = "year"
       /\ HasEntry(c)
       /\ \/ /\ mode = "edit" => same = {}
             /\ Go(c, "saveYear")
          \/ /\ mode = "edit"
             /\ \E i \in same : req' = [req EXCEPT ![c].pc = "saveYear", ![c].row = i,
                                                    ![c].wasWhole = rows[i].whole]
       /\ UNCHANGED <<tables, year, failures>>

\* No amount is too long for its column, and none is the NaN that parseInt made
\* of the NULL of the row that was read.
AmountsFit(e, row, wasWhole) ==
    e.data # "long" /\ (e.data = "some" /\ row # 0 => wasWhole)

\* A row that the database refuses is logged and passed over.
saveYear(c) ==
    LET r == req[c]
        e == Entry(c)
        whole == e.data = "all" \/ (e.data = "some" /\ r.wasWhole)
    IN /\ r.pc = "saveYear"
       /\ NextEntry(c, ~AmountsFit(e, r.row, r.wasWhole))
       /\ \/ /\ ~AmountsFit(e, r.row, r.wasWhole)
             /\ Refused
             /\ UNCHANGED finances
          \/ /\ AmountsFit(e, r.row, r.wasWhole)
             /\ finances' = [finances EXCEPT ![r.company] =
                    IF r.row = 0 THEN Append(@, [year |-> e.year, whole |-> whole])
                                 ELSE [@ EXCEPT ![r.row].whole = whole]]
             /\ UNCHANGED failures
       /\ UNCHANGED <<companies, informations, files, objects, year>>

\* Any other error of an entry is passed over as well.
yearFails(c) ==
    /\ req[c].pc \in {"year", "saveYear"}
    /\ HasEntry(c)
    /\ NextEntry(c, TRUE)
    /\ CallFails
    /\ UNCHANGED <<tables, year>>

yearsDone(c) ==
    /\ req[c].pc = "year"
    /\ ~HasEntry(c)
    /\ Go(c, "answer")
    /\ UNCHANGED <<tables, year, failures>>

handleFinancialData(c, mode) ==
    findYear(c, mode) \/ saveYear(c) \/ yearFails(c) \/ yearsDone(c)

\* The answer holds the form and the files to show.
answer(c) ==
    /\ req[c].pc = "answer"
    /\ End(c)
    /\ UNCHANGED <<tables, year, failures>>

saveForm(c, mode) ==
    \/ saveCompany(c)
    \/ saveInformation(c)
    \/ handleFileAttachments(c)
    \/ handleFinancialData(c, mode)
    \/ answer(c)

-----------------------------------------------------------------------------
(***************************************************************************)
(* The methods.                                                            *)
(***************************************************************************)

\* A user's form is a draft or is submitted.
MaySend(form) ==
    form.status \in {"DRAFT", "SUBMITTED"} /\ CompanyInformationDto(form, year)

Created(u, a) == [user |-> u, admin |-> a, values |-> EmptyColumns(CompanyFields)]

\* A new information is saved over nothing.
NewRequest(c, op, by, form, read) ==
    /\ HasNewCompany
    /\ Begin(c, [Idle EXCEPT
                    !.pc = "saveCompany", !.op = op, !.by = by, !.company = NewCompany,
                    !.form = form, !.readCompany = read,
                    !.readInformation = [status |-> "DRAFT",
                                         values |-> EmptyColumns(InformationFields)]])

EditRequest(c, op, by, k, form) ==
    Begin(c, [Idle EXCEPT !.pc = "information", !.op = op, !.by = by, !.company = k,
                          !.form = form, !.readCompany = companies[k]])

createCompanyInfo(c) ==
    \/ \E u \in Users, form \in UserForms :
        /\ req[c].pc = "idle"
        /\ MaySend(form)
        /\ NewRequest(c, "createCompanyInfo", u, form, Created(u, NoPerson))
    \/ req[c].op = "createCompanyInfo" /\ saveForm(c, "add")

\* Processed, or from an administrator: the user can not edit.
updateCompanyInfo(c) ==
    \/ \E u \in Users, form \in UserForms : \E k \in getCompaniesOfUser(u) :
        /\ req[c].pc = "idle"
        /\ MaySend(form)
        /\ EditRequest(c, "updateCompanyInfo", u, k, form)
    \/ /\ req[c].op = "updateCompanyInfo"
       /\ \/ readInformation(c, {"PROCESSING", "PROCESSED", "DRAFT_FROM_ADMIN"})
          \/ saveForm(c, "edit")

createCompanyInfoForAdmin(c) ==
    \/ \E a \in Admins, form \in AdminForms :
        /\ req[c].pc = "idle"
        /\ CreateUpdateCompanyByAdminDto(form)
        /\ NewRequest(c, "createCompanyInfoForAdmin", a, form, Created(NoPerson, a))
    \/ req[c].op = "createCompanyInfoForAdmin" /\ saveForm(c, "add")

\* Any administrator may edit what an administrator created.
updateCompanyInfoForAdmin(c) ==
    \/ \E a \in Admins, form \in AdminForms : \E k \in getCompaniesCreateByAdmin :
        /\ req[c].pc = "idle"
        /\ CreateUpdateCompanyByAdminDto(form)
        /\ companies[k].user = NoPerson
        /\ EditRequest(c, "updateCompanyInfoForAdmin", a, k, form)
    \/ /\ req[c].op = "updateCompanyInfoForAdmin"
       /\ readInformation(c, {"PROCESSING", "PROCESSED"}) \/ saveForm(c, "edit")

-----------------------------------------------------------------------------
(***************************************************************************)
(* FilesController.upload: all files at once, each to S3 and then to the   *)
(* table.  When one fails the request is answered with its error; the      *)
(* others go on.                                                           *)
(***************************************************************************)

\* The key in S3 is a new uuid and the id of the row is new.
IsNewFile(f) ==
    /\ files[f] = NoFile
    /\ f \notin objects
    /\ \A c \in Clients : f \notin req[c].sending \cup req[c].stored

startUpload(c) ==
    \E p \in People, fs \in Uploads :
        /\ \A f \in fs : IsNewFile(f)
        /\ Begin(c, [Idle EXCEPT !.pc = "sending", !.op = "upload", !.by = p, !.sending = fs])

uploadFile(c, f) ==
    /\ f \in req[c].sending
    /\ objects' = objects \cup {f}
    /\ req' = [req EXCEPT ![c].sending = @ \ {f}, ![c].stored = @ \cup {f}]
    /\ UNCHANGED <<companies, informations, finances, files, year, failures>>

\* Broken createFile: the row does not wait for S3.
createFileAtOnce(c, f) ==
    /\ f \in req[c].sending \cup req[c].stored
    /\ files' = [files EXCEPT ![f] =
                    [user |-> req[c].by, information |-> NoCompany, deleted |-> FALSE]]
    /\ req' = [req EXCEPT ![c].stored = @ \ {f}]
    /\ UNCHANGED <<companies, informations, finances, objects, year, failures>>

createFile(c, f) ==
    /\ f \in req[c].stored
    /\ files' = [files EXCEPT ![f] =
                    [user |-> req[c].by, information |-> NoCompany, deleted |-> FALSE]]
    /\ req' = [req EXCEPT ![c].stored = @ \ {f}]
    /\ UNCHANGED <<companies, informations, finances, objects, year, failures>>

fileFails(c, f) ==
    /\ f \in req[c].sending \cup req[c].stored
    /\ req' = [req EXCEPT ![c].sending = @ \ {f}, ![c].stored = @ \ {f}]
    /\ CallFails
    /\ UNCHANGED <<tables, year>>

allSent(c) ==
    /\ req[c].pc = "sending"
    /\ req[c].sending \cup req[c].stored = {}
    /\ End(c)
    /\ UNCHANGED <<tables, year, failures>>

uploadMultipleFiles(c) ==
    \/ startUpload(c)
    \/ \E f \in Files : uploadFile(c, f) \/ createFile(c, f) \/ fileFails(c, f)
    \/ allSent(c)

-----------------------------------------------------------------------------
\* A call of the request fails, or the server stops: what was written stays.
cutOff(c) ==
    /\ req[c].pc # "idle"
    /\ End(c)
    /\ CallFails
    /\ UNCHANGED <<tables, year>>

newYear ==
    /\ year < LastYear
    /\ year' = year + 1
    /\ UNCHANGED <<tables, req, failures>>

Handle(c) ==
    \/ createCompanyInfo(c)
    \/ updateCompanyInfo(c)
    \/ createCompanyInfoForAdmin(c)
    \/ updateCompanyInfoForAdmin(c)
    \/ uploadMultipleFiles(c)

Next == newYear \/ \E c \in Clients : Handle(c) \/ cutOff(c)

Spec == Init /\ [][Next]_vars

\* The server runs the requests it has accepted; nobody has to send one.
Continue(c) == req[c].pc # "idle" /\ Handle(c)

FairSpec == Spec /\ \A c \in Clients : WF_vars(Continue(c))
-----------------------------------------------------------------------------
(***************************************************************************)
(* Properties that overlapping requests do not break.                       *)
(***************************************************************************)

\* A file is attached to nobody's records but its owner's: handleFileAttachments
\* compares the owner of each file with the caller, whose company it is.
FileOfOwner ==
    \A f \in Files : \A k \in Companies :
        files[f] # NoFile /\ files[f].information = k =>
            /\ companies[k] # NoCompany
            /\ \/ files[f].user = companies[k].user
               \/ files[f].user \in Admins /\ companies[k].admin # NoPerson

\* A row of file_attachments never points to an object that is not in S3:
\* uploadAndSaveSingleFile makes the row last, whatever fails.
RowHasObject == \A f \in Files : files[f] # NoFile => f \in objects

\* Every request that was accepted ends.
Answered == \A c \in Clients : req[c].pc # "idle" ~> req[c].pc = "idle"

-----------------------------------------------------------------------------
(***************************************************************************)
(* Properties of requests that do not overlap.                             *)
(***************************************************************************)

\* A file is attached once and for all, and a deleted one stays deleted, in
\* the row and in the lists: no form moves it or brings it back
\* (handleFileAttachments passes over attached and deleted files).
AttachedForGood ==
    [][\A f \in Files : files[f] # NoFile /\ files[f].information # NoCompany =>
        /\ files'[f].information = files[f].information
        /\ files[f].deleted => files'[f].deleted]_vars

\* No update leaves two rows of one year, because it looks for the row first
\* (handleFinancialData 'edit'); a draft that names a year twice is not refused, so
\* the form that creates a company can.
OneRowPerYear ==
    [][\A k \in Companies : \A i, j \in DOMAIN finances'[k] :
        i # j /\ finances'[k][i].year = finances'[k][j].year =>
            \/ {i, j} \subseteq DOMAIN finances[k]
            \/ \E c \in Clients :
                /\ req[c].company = k
                /\ req[c].op \in {"createCompanyInfo", "createCompanyInfoForAdmin"}]_vars

\* No request is at this company.
Quiet(k) == \A c \in Clients : req[c].company # k

\* The tables hold what a submitted form has to: every text, a deal, three years
\* in a row with all amounts (CompanyInformationDto).
HoldsAll(k) ==
    /\ companies[k].values["position"] = "good"
    /\ \A f \in Details : informations[k].values[f] = "good"
    /\ \E group \in Groups : HasData(informations[k].values, group)
                           /\ GroupIsValid(informations[k].values, group)
    /\ \E y \in FirstYear .. LastYear :
        \A z \in RequiredYears(y) : [year |-> z, whole |-> TRUE] \in Rows(k)

\* A company of a user that is submitted holds all of it, though the form
\* overwrites an older draft field by field and its parts are saved one by one.
\* This is said of histories without a failed call (failures = 0), and a value that
\* the database refuses counts as one: handleFinancialData swallows both.
SubmittedIsWhole ==
    \A u \in Users : \A k \in getCompanyInfo(u) :
        informations[k].status = "SUBMITTED" /\ Quiet(k) /\ failures = 0 => HoldsAll(k)

\* A request that is answered without an error, and has lost no year on the way,
\* leaves a company that opens and, when a user has submitted it, holds all:
\* whatever the failures of earlier requests have left of the company.
AnsweredIsWhole ==
    \A c \in Clients : req[c].pc = "answer" /\ ~req[c].lost =>
        LET k == req[c].company
        IN /\ informations[k] # NoInformation
           /\ companies[k].user \in Users /\ req[c].form.status = "SUBMITTED" => HoldsAll(k)

\* Requests at k have not read its information, or have read that it is processed.
Settled(k) ==
    \A c \in Clients : req[c].company = k =>
        \/ req[c].readInformation = NoInformation
        \/ req[c].readInformation.status \in {"PROCESSING", "PROCESSED"}

\* Nobody who could know changes a processed information: neither its values nor
\* its files nor its years ('Process then user can not action').
ProcessedIsFinal ==
    [][\A k \in getCompanyInfoForAdmin :
        informations[k].status \in {"PROCESSING", "PROCESSED"} /\ Settled(k) =>
            /\ informations'[k] = informations[k]
            /\ companies'[k] = companies[k]
            /\ ListedFiles(k)' = ListedFiles(k)
            /\ finances'[k] = finances[k]]_vars

\* The files of the answer are the files that the company shows from then on.
AnswerShowsFiles ==
    \A c \in Clients : req[c].pc = "answer" => req[c].shown = ListedFiles(req[c].company)
=============================================================================
