------------------------- MODULE CompanyRecords_proofs -------------------------
(***************************************************************************)
(* What holds of the records of companies for any number of people,        *)
(* companies, files and overlapping requests, and however many calls fail. *)
(*                                                                         *)
(* FileOfOwner and RowHasObject are not inductive: a file is attached      *)
(* because of what its request read some awaits earlier.  RecordsInv says  *)
(* what every request knows at each await (RequestOK), and that requests   *)
(* for one company agree on whose it is (Agree).                           *)
(***************************************************************************)
EXTENDS CompanyRecords, SequenceTheorems, TLAPS

\* The awaits of the methods that save a form, and those after saveCompany.
Filling == {"information", "saveCompany", "saveInformation", "files", "remove",
            "attach", "year", "saveYear", "answer"}
Saved == Filling \ {"information", "saveCompany"}

\* The caller may save the form for this company.
Mine(by, company) ==
    \/ by = company.user
    \/ by \in Admins /\ company.admin # NoPerson

SameOwner(one, other) == one.user = other.user /\ one.admin = other.admin

RequestOK(r, cs, fin, fs, obj) ==
    /\ r.pc \in Filling =>
        /\ r.company \in Companies /\ r.form \in Forms /\ r.readCompany \in Company
        /\ Mine(r.by, r.readCompany)
        /\ cs[r.company] # NoCompany => SameOwner(cs[r.company], r.readCompany)
    /\ r.pc \notin Filling => r.company = NoCompany
    /\ r.pc \in Saved => cs[r.company] # NoCompany
    /\ r.pc \in {"saveCompany", "saveInformation"} => r.readInformation \in CompanyInformation
    /\ \A f \in r.remove : fs[f] # NoFile
    /\ r.pc = "attach" => r.found \in Files /\ fs[r.found] # NoFile /\ fs[r.found].user = r.by
    /\ r.stored \subseteq obj
    /\ r.sending \cup r.stored # {} => r.by \in People
    /\ r.entry # 0
    /\ r.pc = "saveYear" => r.entry <= Len(r.form.financial_data)
    /\ r.row # 0 => r.pc = "saveYear" /\ r.row \in DOMAIN fin[r.company]

\* Two requests for one company have read the same owner.
Agree(q, r) ==
    q.pc \in Filling /\ r.pc \in Filling /\ q.company = r.company =>
        SameOwner(q.readCompany, r.readCompany)

\* A file on its way has no row yet, and only one request sends it.
Underway(r) == r.sending \cup r.stored

NewFiles ==
    /\ \A c \in Clients : req[c].sending \cap req[c].stored = {}
    /\ \A c \in Clients : \A f \in Underway(req[c]) : files[f] = NoFile
    /\ \A c, d \in Clients : c # d => Underway(req[c]) \cap Underway(req[d]) = {}

RecordsInv ==
    /\ TypeOK
    /\ NewFiles
    /\ \A c \in Clients : RequestOK(req[c], companies, finances, files, objects)
    /\ \A c, d \in Clients : Agree(req[c], req[d])
    /\ FileOfOwner
    /\ RowHasObject

-----------------------------------------------------------------------------
(***************************************************************************)
(* The tables only grow: what a request knows stays true.                  *)
(***************************************************************************)

TablesOK ==
    /\ companies \in [Companies -> Company \cup {NoCompany}]
    /\ informations \in [Companies -> CompanyInformation \cup {NoInformation}]
    /\ finances \in [Companies -> Seq(CompanyFinancialData)]
    /\ files \in [Files -> FileAttachments \cup {NoFile}]
    /\ objects \subseteq Files
    /\ year \in Nat
    /\ failures \in 0 .. MaxFailures

\* No row is deleted or given away.
Grown ==
    /\ \A k \in Companies : companies[k] # NoCompany =>
          companies'[k] # NoCompany /\ SameOwner(companies'[k], companies[k])
    /\ \A k \in Companies : DOMAIN finances[k] \subseteq DOMAIN finances'[k]
    /\ \A f \in Files : files[f] # NoFile =>
          files'[f] # NoFile /\ files'[f].user = files[f].user
    /\ objects \subseteq objects'

\* A company that appears is whose the requests for it have read.
Known == \A c \in Clients : req[c].pc \in Filling /\ companies'[req[c].company] # NoCompany =>
            SameOwner(companies'[req[c].company], req[c].readCompany)

LEMMA RequestStaysOK ==
  ASSUME RecordsInv, Grown, Known, NEW c \in Clients
  PROVE  RequestOK(req[c], companies', finances', files', objects')
  <1>. DEFINE r == req[c]
  <1>1. r \in Request /\ RequestOK(r, companies, finances, files, objects)
    BY DEF RecordsInv, TypeOK
  <1>2. r.pc \in Filling /\ companies'[r.company] # NoCompany =>
           SameOwner(companies'[r.company], r.readCompany)
    BY DEF Known
  <1>3. r.remove \subseteq Files
    BY <1>1 DEF Request
  <1>. HIDE DEF r
  <1>4. (r.pc \in Saved => r.pc \in Filling) /\ (r.pc = "saveYear" => r.pc \in Filling)
    BY DEF Saved, Filling
  <1>5. r.pc \in Saved => companies'[r.company] # NoCompany
    BY <1>1, <1>4 DEF RequestOK, Grown
  <1>6. \A f \in r.remove : files'[f] # NoFile
    BY <1>1, <1>3 DEF RequestOK, Grown
  <1>7. r.pc = "attach" => files'[r.found] # NoFile /\ files'[r.found].user = r.by
    BY <1>1 DEF RequestOK, Grown
  <1>8. r.stored \subseteq objects'
    BY <1>1 DEF RequestOK, Grown
  <1>9. r.row # 0 => r.row \in DOMAIN finances'[r.company]
    BY <1>1, <1>4 DEF RequestOK, Grown
  <1>. QED BY <1>1, <1>2, <1>5, <1>6, <1>7, <1>8, <1>9 DEF RequestOK, r

\* All that has to be shown of a step of one request.
LEMMA StepKeepsRequests ==
  ASSUME RecordsInv, TablesOK', Grown, Known, NEW c \in Clients, NEW q \in Request,
         req' = [req EXCEPT ![c] = q],
         RequestOK(q, companies', finances', files', objects'),
         \A d \in Clients \ {c} : Agree(q, req[d]) /\ Agree(req[d], q)
  PROVE  /\ TypeOK'
         /\ \A d \in Clients : RequestOK(req[d], companies, finances, files, objects)'
         /\ \A d, e \in Clients : Agree(req[d], req[e])'
  <1>1. req \in [Clients -> Request]
    BY DEF RecordsInv, TypeOK
  <1>2. req' \in [Clients -> Request] /\ \A d \in Clients : req'[d] = IF d = c THEN q ELSE req[d]
    BY <1>1
  <1>3. TypeOK'
    BY <1>2 DEF TablesOK, TypeOK
  <1>4. \A d \in Clients : RequestOK(req[d], companies, finances, files, objects)'
    BY <1>2, RequestStaysOK
  <1>5. Agree(q, q)
    BY DEF Agree, SameOwner
  <1>6. \A d, e \in Clients : Agree(req[d], req[e])
    BY DEF RecordsInv
  <1>7. \A d, e \in Clients : Agree(req[d], req[e])'
    BY <1>2, <1>5, <1>6
  <1>. QED BY <1>3, <1>4, <1>7

LEMMA NothingGrows ==
  ASSUME RecordsInv, UNCHANGED tables
  PROVE  /\ Grown /\ Known /\ FileOfOwner' /\ RowHasObject'
         /\ year' \in Nat /\ failures' \in 0 .. MaxFailures => TablesOK'
  <1>1. UNCHANGED <<companies, informations, finances, files, objects>>
    BY DEF tables
  <1>2. Grown
    BY <1>1 DEF Grown, SameOwner
  <1>3. Known
    BY <1>1 DEF RecordsInv, RequestOK, Known
  <1>4. FileOfOwner' /\ RowHasObject'
    BY <1>1 DEF RecordsInv, FileOfOwner, RowHasObject
  <1>5. year' \in Nat /\ failures' \in 0 .. MaxFailures => TablesOK'
    BY <1>1 DEF RecordsInv, TypeOK, TablesOK
  <1>. QED BY <1>2, <1>3, <1>4, <1>5

\* A step that writes nothing.
LEMMA MoveKeepsInv ==
  ASSUME RecordsInv, UNCHANGED tables, year' \in Nat, failures' \in 0 .. MaxFailures,
         NEW c \in Clients, NEW q \in Request, req' = [req EXCEPT ![c] = q],
         RequestOK(q, companies, finances, files, objects),
         \A d \in Clients \ {c} : Agree(q, req[d]) /\ Agree(req[d], q),
         NewFiles'
  PROVE  RecordsInv'
  <1>1. UNCHANGED <<companies, informations, finances, files, objects>>
    BY DEF tables
  <1>2. Grown /\ Known /\ FileOfOwner' /\ RowHasObject' /\ TablesOK'
    BY NothingGrows
  <1>3. RequestOK(q, companies', finances', files', objects')
    BY <1>1
  <1>4. TypeOK' /\ \A d \in Clients : RequestOK(req[d], companies, finances, files, objects)'
    BY <1>2, <1>3, StepKeepsRequests
  <1>5. \A d, e \in Clients : Agree(req[d], req[e])'
    BY <1>2, <1>3, StepKeepsRequests
  <1>. QED BY <1>2, <1>4, <1>5 DEF RecordsInv

\* What a step keeps of its request keeps what the others agree on.
Kept(r, q) ==
    /\ q.company = r.company /\ q.readCompany = r.readCompany /\ q.by = r.by
    /\ q.form = r.form /\ q.sending = r.sending /\ q.stored = r.stored

LEMMA LessUnderway ==
  ASSUME RecordsInv, NEW c \in Clients, NEW q, req' = [req EXCEPT ![c] = q],
         q.sending \subseteq req[c].sending, q.stored \subseteq req[c].stored,
         \A f \in Files : files[f] = NoFile => files'[f] = NoFile
  PROVE  NewFiles'
  <1>1. \A d \in Clients : req'[d] = IF d = c THEN q ELSE req[d]
    BY DEF RecordsInv, TypeOK
  <1>2. \A d \in Clients : Underway(req[d]) \subseteq Files
    BY DEF RecordsInv, TypeOK, Request, Underway
  <1>3. \A d \in Clients : /\ req'[d].sending \subseteq req[d].sending
                           /\ req'[d].stored \subseteq req[d].stored
                           /\ Underway(req'[d]) \subseteq Underway(req[d])
    BY <1>1 DEF Underway
  <1>. QED BY <1>2, <1>3 DEF RecordsInv, NewFiles, Underway

LEMMA KeptAgrees ==
  ASSUME RecordsInv, NEW c \in Clients, NEW q, Kept(req[c], q),
         q.pc \in Filling => req[c].pc \in Filling
  PROVE  \A d \in Clients \ {c} : Agree(q, req[d]) /\ Agree(req[d], q)
  BY DEF RecordsInv, Agree, Kept, SameOwner

LEMMA IdleIsOK ==
  /\ Idle \in Request
  /\ \A cs, fin, fs, obj : RequestOK(Idle, cs, fin, fs, obj)
  /\ \A q : Agree(Idle, q) /\ Agree(q, Idle)
  <1>1. Idle \in Request
    BY DEF Idle, Request, Waits, Ops
  <1>2. Idle.pc \notin Filling /\ Idle.pc \notin Saved
    BY DEF Idle, Filling, Saved
  <1>3. \A cs, fin, fs, obj : RequestOK(Idle, cs, fin, fs, obj)
    BY <1>2 DEF Idle, RequestOK
  <1>4. \A q : Agree(Idle, q) /\ Agree(q, Idle)
    BY <1>2 DEF Agree
  <1>. QED BY <1>1, <1>3, <1>4

LEMMA EndKeepsInv ==
  ASSUME RecordsInv, UNCHANGED tables, year' \in Nat, failures' \in 0 .. MaxFailures,
         NEW c \in Clients, End(c)
  PROVE  RecordsInv'
  <1>1. req' = [req EXCEPT ![c] = Idle] /\ UNCHANGED files
    BY DEF End, tables
  <1>2. Idle.sending = {} /\ Idle.stored = {}
    BY DEF Idle
  <1>. QED BY <1>1, <1>2, LessUnderway, IdleIsOK, MoveKeepsInv

-----------------------------------------------------------------------------
(***************************************************************************)
(* Requests begin.                                                         *)
(***************************************************************************)

\* What is known of a request, in one place.
LEMMA RequestKnown ==
  ASSUME RecordsInv, NEW c \in Clients
  PROVE  /\ req[c] \in Request
         /\ RequestOK(req[c], companies, finances, files, objects)
         /\ year \in Nat /\ failures \in 0 .. MaxFailures
         /\ TablesOK
  BY DEF RecordsInv, TypeOK, TablesOK

LEMMA NewRequestKeepsInv ==
  ASSUME RecordsInv, NEW c \in Clients, NEW op \in Ops, NEW by \in People, NEW form \in Forms,
         NEW read \in Company, Mine(by, read),
         NewRequest(c, op, by, form, read)
  PROVE  RecordsInv'
  <1>. DEFINE new == [status |-> "DRAFT", values |-> EmptyColumns(InformationFields)]
              q == [Idle EXCEPT
                    !.pc = "saveCompany", !.op = op, !.by = by, !.company = NewCompany,
                    !.form = form, !.readCompany = read, !.readInformation = new]
  <1>1. NewCompany \in Companies /\ IsNew(NewCompany)
    BY DEF NewRequest, HasNewCompany, NewCompany
  <1>2. req' = [req EXCEPT ![c] = q] /\ UNCHANGED tables /\ UNCHANGED year /\ UNCHANGED failures
    BY DEF NewRequest, Begin
  <1>3. new \in CompanyInformation
    BY DEF CompanyInformation, EmptyColumns, StoredValues, Statuses
  <1>. HIDE DEF new
  <1>4. /\ q \in Request /\ q.pc = "saveCompany" /\ q.company = NewCompany /\ q.form = form
        /\ q.by = by /\ q.readCompany = read /\ q.readInformation = new
        /\ q.remove = {} /\ q.sending = {} /\ q.stored = {} /\ q.entry = 1 /\ q.row = 0
    BY <1>1, <1>3, IdleIsOK DEF Idle, Request, Waits
  <1>. HIDE DEF q
  <1>5. RequestOK(q, companies, finances, files, objects)
    BY <1>1, <1>3, <1>4 DEF RequestOK, IsNew, Filling, Saved
  <1>6. \A d \in Clients : req[d].company # NewCompany
    BY <1>1 DEF IsNew
  <1>7. \A d \in Clients \ {c} : Agree(q, req[d]) /\ Agree(req[d], q)
    BY <1>4, <1>6 DEF Agree
  <1>8. year' \in Nat /\ failures' \in 0 .. MaxFailures
    BY <1>2, RequestKnown
  <1>9. NewFiles'
    BY <1>2, <1>4, LessUnderway DEF tables
  <1>. QED BY <1>2, <1>4, <1>5, <1>7, <1>8, <1>9, MoveKeepsInv

LEMMA EditRequestKeepsInv ==
  ASSUME RecordsInv, NEW c \in Clients, NEW op \in Ops, NEW by \in People, NEW form \in Forms,
         NEW k \in Companies, companies[k] # NoCompany, Mine(by, companies[k]),
         EditRequest(c, op, by, k, form)
  PROVE  RecordsInv'
  <1>. DEFINE q == [Idle EXCEPT !.pc = "information", !.op = op, !.by = by, !.company = k,
                                !.form = form, !.readCompany = companies[k]]
  <1>1. companies[k] \in Company
    BY DEF RecordsInv, TypeOK
  <1>2. req' = [req EXCEPT ![c] = q] /\ UNCHANGED tables /\ UNCHANGED year /\ UNCHANGED failures
    BY DEF EditRequest, Begin
  <1>3. /\ q \in Request /\ q.pc = "information" /\ q.company = k /\ q.form = form
        /\ q.by = by /\ q.readCompany = companies[k]
        /\ q.remove = {} /\ q.sending = {} /\ q.stored = {} /\ q.entry = 1 /\ q.row = 0
    BY <1>1, IdleIsOK DEF Idle, Request, Waits
  <1>. HIDE DEF q
  <1>4. RequestOK(q, companies, finances, files, objects)
    BY <1>1, <1>3 DEF RequestOK, Filling, Saved, SameOwner
  <1>5. \A d \in Clients : req[d].pc \in Filling /\ req[d].company = k =>
                              SameOwner(companies[k], req[d].readCompany)
    BY DEF RecordsInv, RequestOK
  <1>6. \A d \in Clients \ {c} : Agree(q, req[d]) /\ Agree(req[d], q)
    BY <1>3, <1>5 DEF Agree, SameOwner
  <1>7. year' \in Nat /\ failures' \in 0 .. MaxFailures
    BY <1>2, RequestKnown
  <1>8. NewFiles'
    BY <1>2, <1>3, LessUnderway DEF tables
  <1>. QED BY <1>2, <1>3, <1>4, <1>6, <1>7, <1>8, MoveKeepsInv

\* A method accepts a form.
Begins(c) ==
    \/ \E u \in Users, form \in UserForms :
          MaySend(form) /\ NewRequest(c, "createCompanyInfo", u, form, Created(u, NoPerson))
    \/ \E a \in Admins, form \in AdminForms :
          NewRequest(c, "createCompanyInfoForAdmin", a, form, Created(NoPerson, a))
    \/ \E u \in Users, form \in UserForms : \E k \in getCompaniesOfUser(u) :
          MaySend(form) /\ EditRequest(c, "updateCompanyInfo", u, k, form)
    \/ \E a \in Admins, form \in AdminForms : \E k \in getCompaniesCreateByAdmin :
          /\ companies[k].user = NoPerson
          /\ EditRequest(c, "updateCompanyInfoForAdmin", a, k, form)

LEMMA BeginKeepsInv ==
  ASSUME RecordsInv, NEW c \in Clients, Begins(c)
  PROVE  RecordsInv'
  <1>1. ASSUME NEW u \in Users \cup {NoPerson}, NEW a \in Admins \cup {NoPerson}
        PROVE  Created(u, a) \in Company /\ Created(u, a).user = u /\ Created(u, a).admin = a
    BY DEF Created, Company, EmptyColumns, StoredValues
  <1>2. ASSUME NEW u \in Users, NEW form \in UserForms,
               NewRequest(c, "createCompanyInfo", u, form, Created(u, NoPerson))
        PROVE  RecordsInv'
    <2>1. Created(u, NoPerson) \in Company /\ Mine(u, Created(u, NoPerson))
      BY <1>1 DEF Mine
    <2>. QED BY <1>2, <2>1, NewRequestKeepsInv DEF Ops, People, Forms
  <1>3. ASSUME NEW a \in Admins, NEW form \in AdminForms,
               NewRequest(c, "createCompanyInfoForAdmin", a, form, Created(NoPerson, a))
        PROVE  RecordsInv'
    <2>1. Created(NoPerson, a) \in Company /\ Mine(a, Created(NoPerson, a))
      BY <1>1, PeopleAssumption DEF Mine
    <2>. QED BY <1>3, <2>1, NewRequestKeepsInv DEF Ops, People, Forms
  <1>4. ASSUME NEW u \in Users, NEW form \in UserForms, NEW k \in getCompaniesOfUser(u),
               EditRequest(c, "updateCompanyInfo", u, k, form)
        PROVE  RecordsInv'
    BY <1>4, EditRequestKeepsInv DEF getCompaniesOfUser, Mine, Ops, People, Forms
  <1>5. ASSUME NEW a \in Admins, NEW form \in AdminForms, NEW k \in getCompaniesCreateByAdmin,
               EditRequest(c, "updateCompanyInfoForAdmin", a, k, form)
        PROVE  RecordsInv'
    BY <1>5, EditRequestKeepsInv DEF getCompaniesCreateByAdmin, Mine, Ops, People, Forms
  <1>. QED BY <1>2, <1>3, <1>4, <1>5 DEF Begins

-----------------------------------------------------------------------------
(***************************************************************************)
(* Steps of a request that write nothing.                                  *)
(***************************************************************************)

LEMMA AdvanceKeepsInv ==
  ASSUME RecordsInv, NEW c \in Clients, NEW q \in Request, req' = [req EXCEPT ![c] = q],
         UNCHANGED tables, year' \in Nat, failures' \in 0 .. MaxFailures,
         Kept(req[c], q), q.pc \in Filling => req[c].pc \in Filling,
         RequestOK(q, companies, finances, files, objects)
  PROVE  RecordsInv'
  <1>1. NewFiles'
    BY LessUnderway DEF Kept, tables
  <1>. QED BY <1>1, KeptAgrees, MoveKeepsInv

LEMMA readInformationKeepsInv ==
  ASSUME RecordsInv, NEW c \in Clients, NEW final, readInformation(c, final)
  PROVE  RecordsInv'
  <1>. DEFINE r == req[c]
              read == informations[r.company]
              q == [r EXCEPT !.pc = "saveCompany", !.readInformation = read]
  <1>1. /\ r \in Request /\ RequestOK(r, companies, finances, files, objects)
        /\ year' \in Nat /\ failures' \in 0 .. MaxFailures /\ UNCHANGED tables
        /\ r.pc = "information"
    BY RequestKnown DEF readInformation
  <1>2. CASE End(c)
    BY <1>1, <1>2, EndKeepsInv
  <1>3. CASE read # NoInformation /\ req' = [req EXCEPT ![c] = q]
    <2>1. r.company \in Companies
      BY <1>1 DEF RequestOK, Filling
    <2>2. read \in CompanyInformation
      BY <1>3, <2>1, RequestKnown DEF TablesOK
    <2>. HIDE DEF read
    <2>3. /\ q \in Request /\ Kept(r, q) /\ q.pc = "saveCompany" /\ q.readInformation = read
          /\ q.remove = r.remove /\ q.stored = r.stored /\ q.entry = r.entry /\ q.row = r.row
      BY <1>1, <2>2 DEF Request, Waits, Kept
    <2>4. req' = [req EXCEPT ![c] = q]
      BY <1>3
    <2>. HIDE DEF q
    <2>5. RequestOK(q, companies, finances, files, objects)
      BY <1>1, <2>2, <2>3 DEF RequestOK, Kept, Filling, Saved
    <2>. QED BY <1>1, <2>3, <2>4, <2>5, AdvanceKeepsInv DEF Filling
  <1>. QED BY <1>2, <1>3 DEF readInformation

LEMMA readFilesKeepsInv ==
  ASSUME RecordsInv, NEW c \in Clients, readFiles(c)
  PROVE  RecordsInv'
  <1>. DEFINE r == req[c]
              existing == {f \in Files : files[f] # NoFile /\ files[f].information = r.company}
              remove == existing \ r.form.files
              add == r.form.files \ existing
              shown == {f \in existing \cap r.form.files : ~files[f].deleted}
              q == [r EXCEPT !.pc = "remove", !.remove = remove, !.add = add, !.shown = shown]
  <1>1. /\ r \in Request /\ RequestOK(r, companies, finances, files, objects)
        /\ year' \in Nat /\ failures' \in 0 .. MaxFailures /\ UNCHANGED tables
        /\ r.pc = "files" /\ req' = [req EXCEPT ![c] = q]
    BY RequestKnown DEF readFiles
  <1>2. r.form \in Form
    BY <1>1, FormsAssumption DEF RequestOK, Filling
  <1>3. /\ remove \subseteq Files /\ add \subseteq Files /\ shown \subseteq Files
        /\ \A f \in remove : files[f] # NoFile
    BY <1>2 DEF Form
  <1>. HIDE DEF remove, add, shown
  <1>4. /\ q \in Request /\ Kept(r, q) /\ q.pc = "remove" /\ q.remove = remove
        /\ q.stored = r.stored /\ q.entry = r.entry /\ q.row = r.row
    BY <1>1, <1>3 DEF Request, Waits, Kept
  <1>. HIDE DEF q
  <1>5. RequestOK(q, companies, finances, files, objects)
    BY <1>1, <1>3, <1>4 DEF RequestOK, Kept, Filling, Saved
  <1>. QED BY <1>1, <1>4, <1>5, AdvanceKeepsInv DEF Filling

LEMMA findFileKeepsInv ==
  ASSUME RecordsInv, NEW c \in Clients, NEW f \in Files, findFile(c, f)
  PROVE  RecordsInv'
  <1>. DEFINE r == req[c]
              found == [r EXCEPT !.pc = "attach", !.found = f, !.add = @ \ {f}]
              passed == [r EXCEPT !.add = @ \ {f}]
  <1>1. /\ r \in Request /\ RequestOK(r, companies, finances, files, objects)
        /\ year' \in Nat /\ failures' \in 0 .. MaxFailures /\ UNCHANGED tables
        /\ r.pc = "remove"
    BY RequestKnown DEF findFile
  <1>2. CASE CanAttach(c, f)
    <2>1. req' = [req EXCEPT ![c] = found]
      BY <1>2 DEF findFile
    <2>2. /\ found \in Request /\ Kept(r, found) /\ found.pc = "attach" /\ found.found = f
          /\ found.remove = r.remove /\ found.stored = r.stored /\ found.entry = r.entry
          /\ found.row = r.row
      BY <1>1 DEF Request, Waits, Kept
    <2>. HIDE DEF found
    <2>3. RequestOK(found, companies, finances, files, objects)
      BY <1>1, <1>2, <2>2 DEF RequestOK, Kept, CanAttach, Filling, Saved
    <2>. QED BY <1>1, <2>1, <2>2, <2>3, AdvanceKeepsInv DEF Filling
  <1>3. CASE ~CanAttach(c, f)
    <2>1. req' = [req EXCEPT ![c] = passed]
      BY <1>3 DEF findFile
    <2>2. /\ passed \in Request /\ Kept(r, passed) /\ passed.pc = "remove"
          /\ passed.remove = r.remove /\ passed.stored = r.stored /\ passed.entry = r.entry
          /\ passed.row = r.row
      BY <1>1 DEF Request, Waits, Kept
    <2>. HIDE DEF passed
    <2>3. RequestOK(passed, companies, finances, files, objects)
      BY <1>1, <2>2 DEF RequestOK, Kept, Filling, Saved
    <2>. QED BY <1>1, <2>1, <2>2, <2>3, AdvanceKeepsInv DEF Filling
  <1>. QED BY <1>2, <1>3

\* Only the await changes.
LEMMA GoKeepsInv ==
  ASSUME RecordsInv, NEW c \in Clients, NEW p \in {"year", "saveYear", "answer"}, Go(c, p),
         req[c].pc \in {"remove", "year"}, p = "saveYear" => HasEntry(c),
         UNCHANGED <<tables, year, failures>>
  PROVE  RecordsInv'
  <1>. DEFINE r == req[c]
              q == [r EXCEPT !.pc = p]
  <1>1. /\ r \in Request /\ RequestOK(r, companies, finances, files, objects)
        /\ year' \in Nat /\ failures' \in 0 .. MaxFailures /\ UNCHANGED tables
        /\ req' = [req EXCEPT ![c] = q]
    BY RequestKnown DEF Go
  <1>2. /\ q \in Request /\ Kept(r, q) /\ q.pc = p /\ q.remove = r.remove
        /\ q.stored = r.stored /\ q.entry = r.entry /\ q.row = r.row
    BY <1>1 DEF Request, Waits, Kept
  <1>. HIDE DEF q
  <1>3. RequestOK(q, companies, finances, files, objects)
    BY <1>1, <1>2 DEF RequestOK, Kept, HasEntry, Filling, Saved
  <1>. QED BY <1>1, <1>2, <1>3, AdvanceKeepsInv DEF Filling

\* The entry that a request is at is one of its form.
LEMMA EntryKnown ==
  ASSUME RecordsInv, NEW c \in Clients, req[c].pc \in {"year", "saveYear"}, HasEntry(c)
  PROVE  /\ req[c].company \in Companies
         /\ Entry(c) \in [year: Nat, data: {"all", "some", "null", "long"}]
  <1>. DEFINE r == req[c]
  <1>1. r \in Request /\ r.form \in Form /\ r.entry # 0 /\ r.company \in Companies
    BY RequestKnown, FormsAssumption DEF RequestOK, Filling
  <1>2. r.entry \in 1 .. Len(r.form.financial_data)
    BY <1>1 DEF HasEntry, Request, Form
  <1>3. r.form.financial_data \in Seq([year: Nat, data: {"all", "some", "null", "long"}])
    BY <1>1 DEF Form
  <1>. QED BY <1>1, <1>2, <1>3, ElementOfSeq DEF Entry

LEMMA findYearKeepsInv ==
  ASSUME RecordsInv, NEW c \in Clients, NEW mode, findYear(c, mode)
  PROVE  RecordsInv'
  <1>. DEFINE r == req[c]
              rows == finances[r.company]
  <1>1. /\ r \in Request /\ RequestOK(r, companies, finances, files, objects)
        /\ year' \in Nat /\ failures' \in 0 .. MaxFailures /\ UNCHANGED tables
        /\ r.pc = "year" /\ HasEntry(c)
    BY RequestKnown DEF findYear
  <1>2. CASE Go(c, "saveYear")
    BY <1>1, <1>2, GoKeepsInv DEF findYear
  <1>3. ASSUME NEW i \in DOMAIN rows,
               req' = [req EXCEPT ![c].pc = "saveYear", ![c].row = i,
                                  ![c].wasWhole = rows[i].whole]
        PROVE  RecordsInv'
    <2>. DEFINE w == rows[i].whole
                q == [r EXCEPT !.pc = "saveYear", !.row = i, !.wasWhole = w]
    <2>1. r.company \in Companies
      BY <1>1, EntryKnown
    <2>2. rows \in Seq(CompanyFinancialData)
      BY <2>1, RequestKnown DEF TablesOK
    <2>3. i \in Nat /\ w \in BOOLEAN
      <3>1. i \in 1 .. Len(rows)
        BY <1>3, <2>2, LenProperties
      <3>2. rows[i] \in CompanyFinancialData
        BY <2>2, <3>1, ElementOfSeq
      <3>. QED BY <3>1, <3>2, <2>2, LenProperties DEF CompanyFinancialData
    <2>4. req' = [req EXCEPT ![c] = q]
      BY <1>3
    <2>5. i \in DOMAIN finances[r.company]
      BY <1>3
    <2>. HIDE DEF w, rows
    <2>6. /\ q \in Request /\ Kept(r, q) /\ q.pc = "saveYear" /\ q.remove = r.remove
          /\ q.stored = r.stored /\ q.entry = r.entry /\ q.row = i
      BY <1>1, <2>3 DEF Request, Waits, Kept
    <2>. HIDE DEF q
    <2>7. RequestOK(q, companies, finances, files, objects)
      BY <1>1, <2>5, <2>6 DEF RequestOK, Kept, HasEntry, Filling, Saved
    <2>. QED BY <1>1, <2>4, <2>6, <2>7, AdvanceKeepsInv DEF Filling
  <1>. QED BY <1>2, <1>3 DEF findYear

\* The request goes on with the next entry.
LEMMA NextEntryIsOK ==
  ASSUME RecordsInv, NEW c \in Clients, req[c].pc \in {"year", "saveYear"},
         NEW lost \in BOOLEAN, NextEntry(c, lost)
  PROVE  \E q \in Request :
            /\ req' = [req EXCEPT ![c] = q] /\ Kept(req[c], q) /\ q.pc = "year"
            /\ RequestOK(q, companies, finances, files, objects)
  <1>. DEFINE r == req[c]
              next == r.entry + 1
  <1>1. r \in Request /\ RequestOK(r, companies, finances, files, objects)
    BY RequestKnown
  <1>2. next \in Nat /\ next # 0
    BY <1>1 DEF Request
  <1>3. PICK all \in BOOLEAN : all = (r.lost \/ lost)
    OBVIOUS
  <1>. DEFINE at == [r EXCEPT !.pc = "year", !.entry = next, !.row = 0, !.wasWhole = FALSE]
              q == [at EXCEPT !.lost = all]
  <1>4. req' = [req EXCEPT ![c] = q]
    BY <1>3 DEF NextEntry
  <1>. HIDE DEF next
  <1>5. /\ at \in Request /\ Kept(r, at) /\ at.pc = "year" /\ at.remove = r.remove
        /\ at.stored = r.stored /\ at.entry # 0 /\ at.row = 0
    BY <1>1, <1>2 DEF Request, Waits, Kept
  <1>. HIDE DEF at
  <1>6. /\ q \in Request /\ Kept(r, q) /\ q.pc = "year" /\ q.remove = r.remove
        /\ q.stored = r.stored /\ q.entry # 0 /\ q.row = 0
    BY <1>5 DEF Request, Kept
  <1>. HIDE DEF q
  <1>7. RequestOK(q, companies, finances, files, objects)
    BY <1>1, <1>6 DEF RequestOK, Kept, Filling, Saved
  <1>. QED BY <1>4, <1>6, <1>7

LEMMA yearFailsKeepsInv ==
  ASSUME RecordsInv, NEW c \in Clients, yearFails(c)
  PROVE  RecordsInv'
  <1>1. PICK q \in Request :
            /\ req' = [req EXCEPT ![c] = q] /\ Kept(req[c], q) /\ q.pc = "year"
            /\ RequestOK(q, companies, finances, files, objects)
    <2>1. TRUE \in BOOLEAN
      OBVIOUS
    <2>. QED BY <2>1, NextEntryIsOK DEF yearFails
  <1>2. year' \in Nat /\ failures' \in 0 .. MaxFailures
    BY RequestKnown, FailuresAssumption DEF yearFails, CallFails
  <1>3. req[c].pc \in Filling /\ UNCHANGED tables
    BY DEF yearFails, Filling
  <1>. QED BY <1>1, <1>2, <1>3, AdvanceKeepsInv

-----------------------------------------------------------------------------
(***************************************************************************)
(* Steps of a request that write.                                          *)
(***************************************************************************)

\* Files that nobody touches stay with their owners.
LEMMA FilesStayWithOwners ==
  ASSUME RecordsInv, Grown, UNCHANGED files
  PROVE  FileOfOwner' /\ RowHasObject'
  BY DEF RecordsInv, Grown, FileOfOwner, RowHasObject, SameOwner

LEMMA KnownStays ==
  ASSUME RecordsInv, UNCHANGED companies
  PROVE  Known
  BY DEF RecordsInv, RequestOK, Known

\* A step of a method that writes to one table.
LEMMA WriteKeepsInv ==
  ASSUME RecordsInv, TablesOK', Grown, Known, NEW c \in Clients, NEW q \in Request,
         req' = [req EXCEPT ![c] = q], Kept(req[c], q), q.pc \in Filling => req[c].pc \in Filling,
         RequestOK(q, companies', finances', files', objects'),
         \A f \in Files : files[f] = NoFile => files'[f] = NoFile,
         FileOfOwner', RowHasObject'
  PROVE  RecordsInv'
  <1>1. NewFiles'
    BY LessUnderway DEF Kept
  <1>2. \A d \in Clients \ {c} : Agree(q, req[d]) /\ Agree(req[d], q)
    BY KeptAgrees
  <1>3. TypeOK' /\ \A d \in Clients : RequestOK(req[d], companies, finances, files, objects)'
    BY <1>2, StepKeepsRequests
  <1>4. \A d, e \in Clients : Agree(req[d], req[e])'
    BY <1>2, StepKeepsRequests
  <1>. QED BY <1>1, <1>3, <1>4 DEF RecordsInv

\* A refused statement counts as a failure; nothing else happens.
LEMMA RefusalKeepsInv ==
  ASSUME RecordsInv, NEW c \in Clients, End(c), Refused, UNCHANGED tables, UNCHANGED year
  PROVE  RecordsInv'
  <1>1. year' \in Nat /\ failures' \in 0 .. MaxFailures
    BY RequestKnown, FailuresAssumption DEF Refused
  <1>. QED BY <1>1, EndKeepsInv

\* What is saved over a copy is what columns hold.
LEMMA MergeTyped ==
  ASSUME NEW fields \in {CompanyFields, InformationFields}, NEW form \in Form,
         NEW stored \in [fields -> StoredValues], FormFits(form, fields)
  PROVE  Merge(stored, form) \in [fields -> StoredValues]
  <1>1. \A f \in fields : form.values[f] \in Values
    BY DEF Form, FormValues
  <1>. QED BY <1>1 DEF Merge, FormFits, Fits, Values, StoredValues

LEMMA saveCompanyKeepsInv ==
  ASSUME RecordsInv, NEW c \in Clients, saveCompany(c)
  PROVE  RecordsInv'
  <1>. DEFINE r == req[c]
              company == [r.readCompany EXCEPT !.values = Merge(@, r.form)]
              q == [r EXCEPT !.pc = "saveInformation"]
  <1>1. /\ r \in Request /\ RequestOK(r, companies, finances, files, objects) /\ TablesOK
        /\ r.pc = "saveCompany"
    BY RequestKnown DEF saveCompany
  <1>2. /\ r.company \in Companies /\ r.form \in Form /\ r.readCompany \in Company
    BY <1>1, FormsAssumption DEF RequestOK, Filling
  <1>3. CASE ~FormFits(r.form, CompanyFields)
    BY <1>3, RefusalKeepsInv DEF saveCompany, tables
  <1>4. CASE FormFits(r.form, CompanyFields)
    <2>1. /\ companies' = [companies EXCEPT ![r.company] = company]
          /\ req' = [req EXCEPT ![c] = q]
          /\ UNCHANGED <<informations, finances, files, objects, year, failures>>
      BY <1>4 DEF saveCompany, Go
    <2>2. Merge(r.readCompany.values, r.form) \in [CompanyFields -> StoredValues]
      BY <1>2, <1>4, MergeTyped DEF Company
    <2>3. company \in Company /\ SameOwner(company, r.readCompany)
      BY <1>2, <2>2 DEF Company, SameOwner
    <2>. HIDE DEF company
    <2>4. /\ q \in Request /\ Kept(r, q) /\ q.pc = "saveInformation"
          /\ q.readInformation = r.readInformation
          /\ q.remove = r.remove /\ q.entry = r.entry /\ q.row = r.row
      BY <1>1 DEF Request, Waits, Kept
    <2>. HIDE DEF q
    <2>5. TablesOK'
      BY <1>1, <1>2, <2>1, <2>3 DEF TablesOK
    <2>6. \A k \in Companies : companies'[k] = IF k = r.company THEN company ELSE companies[k]
      BY <1>1, <2>1 DEF TablesOK
    <2>7. company # NoCompany
      BY <2>3, NothingAssumption
    <2>8. companies[r.company] # NoCompany => SameOwner(companies[r.company], r.readCompany)
      BY <1>1 DEF RequestOK, Filling
    <2>9. Grown
      BY <2>1, <2>3, <2>6, <2>7, <2>8 DEF Grown, SameOwner
    <2>10. Known
      <3>. SUFFICES ASSUME NEW d \in Clients, req[d].pc \in Filling,
                           companies'[req[d].company] # NoCompany
                    PROVE  SameOwner(companies'[req[d].company], req[d].readCompany)
        BY DEF Known
      <3>1. req[d].company \in Companies
        BY DEF RecordsInv, RequestOK
      <3>2. CASE req[d].company = r.company
        <4>1. Agree(r, req[d]) /\ r.pc \in Filling
          BY <1>1 DEF RecordsInv, Filling
        <4>. QED BY <2>3, <2>6, <3>1, <3>2, <4>1 DEF Agree, SameOwner
      <3>3. CASE req[d].company # r.company
        BY <2>6, <3>1, <3>3 DEF RecordsInv, RequestOK
      <3>. QED BY <3>2, <3>3
    <2>11. RequestOK(q, companies', finances', files', objects')
      BY <1>1, <1>2, <2>1, <2>3, <2>4, <2>6, <2>7 DEF RequestOK, Kept, Filling, Saved
    <2>12. FileOfOwner' /\ RowHasObject'
      BY <2>1, <2>9, FilesStayWithOwners
    <2>. QED BY <1>1, <2>1, <2>4, <2>5, <2>9, <2>10, <2>11, <2>12, WriteKeepsInv DEF Filling
  <1>. QED BY <1>3, <1>4

LEMMA saveInformationKeepsInv ==
  ASSUME RecordsInv, NEW c \in Clients, saveInformation(c)
  PROVE  RecordsInv'
  <1>. DEFINE r == req[c]
              new == [status |-> r.form.status, values |-> Merge(r.readInformation.values, r.form)]
              q == [r EXCEPT !.pc = "files"]
  <1>1. /\ r \in Request /\ RequestOK(r, companies, finances, files, objects) /\ TablesOK
        /\ r.pc = "saveInformation"
    BY RequestKnown DEF saveInformation
  <1>2. /\ r.company \in Companies /\ r.form \in Form /\ r.readInformation \in CompanyInformation
    BY <1>1, FormsAssumption DEF RequestOK, Filling
  <1>3. CASE End(c) /\ Refused /\ UNCHANGED informations
    BY <1>3, RefusalKeepsInv DEF saveInformation, tables
  <1>4. CASE /\ informations' = [informations EXCEPT ![r.company] = new]
             /\ Go(c, "files") /\ UNCHANGED failures /\ FormFits(r.form, InformationFields)
    <2>1. /\ req' = [req EXCEPT ![c] = q]
          /\ UNCHANGED <<companies, finances, files, objects, year, failures>>
      BY <1>4 DEF saveInformation, Go
    <2>2. Merge(r.readInformation.values, r.form) \in [InformationFields -> StoredValues]
      BY <1>2, <1>4, MergeTyped DEF CompanyInformation
    <2>3. new \in CompanyInformation
      BY <1>2, <2>2 DEF CompanyInformation, Form
    <2>4. TablesOK'
      BY <1>1, <1>2, <1>4, <2>1, <2>3 DEF TablesOK
    <2>. HIDE DEF new
    <2>5. /\ q \in Request /\ Kept(r, q) /\ q.pc = "files"
          /\ q.remove = r.remove /\ q.entry = r.entry /\ q.row = r.row
      BY <1>1 DEF Request, Waits, Kept
    <2>. HIDE DEF q
    <2>6. Grown /\ Known
      BY <2>1, KnownStays DEF Grown, SameOwner
    <2>7. RequestOK(q, companies', finances', files', objects')
      BY <1>1, <2>1, <2>5 DEF RequestOK, Kept, Filling, Saved
    <2>8. FileOfOwner' /\ RowHasObject'
      BY <2>1, <2>6, FilesStayWithOwners
    <2>. QED BY <1>1, <2>1, <2>4, <2>5, <2>6, <2>7, <2>8, WriteKeepsInv DEF Filling
  <1>. QED BY <1>3, <1>4 DEF saveInformation

\* A row of a file changes: it keeps its owner.
LEMMA FileWriteKeepsInv ==
  ASSUME RecordsInv, NEW c \in Clients, NEW f \in Files, files[f] # NoFile,
         NEW row \in FileAttachments, row.user = files[f].user,
         files' = [files EXCEPT ![f] = row],
         \/ row.information = files[f].information
         \/ row.information = req[c].company /\ row.user = req[c].by /\ req[c].pc \in Saved,
         UNCHANGED <<companies, informations, finances, objects, year, failures>>,
         NEW q \in Request, req' = [req EXCEPT ![c] = q], Kept(req[c], q),
         req[c].pc \in Saved,
         RequestOK(q, companies, finances, files, objects)
  PROVE  RecordsInv'
  <1>. DEFINE r == req[c]
  <1>1. TablesOK /\ files \in [Files -> FileAttachments \cup {NoFile}]
    BY RequestKnown DEF TablesOK
  <1>2. \A g \in Files : files'[g] = IF g = f THEN row ELSE files[g]
    BY <1>1
  <1>3. row # NoFile
    BY NothingAssumption
  <1>4. TablesOK'
    BY <1>1 DEF TablesOK
  <1>5. Grown
    BY <1>2, <1>3 DEF Grown, SameOwner
  <1>6. Known
    BY KnownStays
  <1>7. q.remove \subseteq Files
    BY DEF Request
  <1>8. RequestOK(q, companies', finances', files', objects')
    BY <1>2, <1>3, <1>7 DEF RequestOK
  <1>9. FileOfOwner'
    <2>. SUFFICES ASSUME NEW g \in Files, NEW k \in Companies,
                         files'[g] # NoFile, files'[g].information = k
                  PROVE  /\ companies[k] # NoCompany
                         /\ \/ files'[g].user = companies[k].user
                            \/ files'[g].user \in Admins /\ companies[k].admin # NoPerson
      BY DEF FileOfOwner
    <2>1. CASE files'[g].user = files[g].user /\ files'[g].information = files[g].information
               /\ files[g] # NoFile
      BY <2>1 DEF RecordsInv, FileOfOwner
    <2>2. CASE g = f /\ row.information = r.company /\ row.user = r.by
      <3>1. r.company = k /\ r.pc \in Filling
        BY <1>2, <2>2 DEF Saved
      <3>2. /\ companies[k] # NoCompany /\ SameOwner(companies[k], r.readCompany)
            /\ Mine(r.by, r.readCompany)
        BY <3>1 DEF RecordsInv, RequestOK
      <3>. QED BY <1>2, <2>2, <3>2 DEF SameOwner, Mine
    <2>. QED BY <1>2, <2>1, <2>2
  <1>10. RowHasObject'
    BY <1>2 DEF RecordsInv, RowHasObject
  <1>11. \A g \in Files : files[g] = NoFile => files'[g] = NoFile
    BY <1>2
  <1>12. r.pc \in Filling
    BY DEF Saved
  <1>. QED BY <1>4, <1>5, <1>6, <1>8, <1>9, <1>10, <1>11, <1>12, WriteKeepsInv

LEMMA removeFileKeepsInv ==
  ASSUME RecordsInv, NEW c \in Clients, NEW f \in Files, removeFile(c, f)
  PROVE  RecordsInv'
  <1>. DEFINE r == req[c]
              row == [files[f] EXCEPT !.deleted = TRUE]
              q == [r EXCEPT !.remove = @ \ {f}]
  <1>1. /\ r \in Request /\ RequestOK(r, companies, finances, files, objects) /\ TablesOK
        /\ r.pc = "remove" /\ f \in r.remove
    BY RequestKnown DEF removeFile
  <1>2. files[f] # NoFile /\ files[f] \in FileAttachments
    BY <1>1 DEF RequestOK, TablesOK
  <1>3. /\ row \in FileAttachments /\ row.user = files[f].user
        /\ row.information = files[f].information
    BY <1>2 DEF FileAttachments
  <1>4. /\ q \in Request /\ Kept(r, q) /\ q.pc = "remove" /\ q.remove \subseteq r.remove
        /\ q.entry = r.entry /\ q.row = r.row
    BY <1>1 DEF Request, Waits, Kept
  <1>5. /\ files' = [files EXCEPT ![f] = row] /\ req' = [req EXCEPT ![c] = q]
        /\ UNCHANGED <<companies, informations, finances, objects, year, failures>>
    BY DEF removeFile
  <1>. HIDE DEF row, q
  <1>6. RequestOK(q, companies, finances, files, objects)
    BY <1>1, <1>4 DEF RequestOK, Kept, Filling, Saved
  <1>. QED BY <1>1, <1>2, <1>3, <1>4, <1>5, <1>6, FileWriteKeepsInv DEF Saved, Filling

LEMMA attachFileKeepsInv ==
  ASSUME RecordsInv, NEW c \in Clients, attachFile(c)
  PROVE  RecordsInv'
  <1>. DEFINE r == req[c]
              f == r.found
              row == [files[f] EXCEPT !.information = r.company, !.deleted = FALSE]
              q == [r EXCEPT !.pc = "remove", !.found = NoFile, !.shown = @ \cup {f}]
  <1>1. /\ r \in Request /\ RequestOK(r, companies, finances, files, objects) /\ TablesOK
        /\ r.pc = "attach"
    BY RequestKnown DEF attachFile
  <1>2. f \in Files /\ files[f] # NoFile /\ files[f].user = r.by /\ r.company \in Companies
    BY <1>1 DEF RequestOK, Filling
  <1>3. files[f] \in FileAttachments
    BY <1>1, <1>2 DEF TablesOK
  <1>4. /\ row \in FileAttachments /\ row.user = files[f].user
        /\ row.information = r.company
    BY <1>2, <1>3 DEF FileAttachments
  <1>5. /\ q \in Request /\ Kept(r, q) /\ q.pc = "remove" /\ q.remove = r.remove
        /\ q.entry = r.entry /\ q.row = r.row
    BY <1>1, <1>2 DEF Request, Waits, Kept
  <1>6. files' = [files EXCEPT ![f] = row]
    BY DEF attachFile
  <1>7. /\ req' = [req EXCEPT ![c] = q]
        /\ UNCHANGED <<companies, informations, finances, objects, year, failures>>
    BY DEF attachFile
  <1>. HIDE DEF row, q
  <1>8. RequestOK(q, companies, finances, files, objects)
    BY <1>1, <1>5 DEF RequestOK, Kept, Filling, Saved
  <1>. QED
    BY <1>1, <1>2, <1>4, <1>5, <1>6, <1>7, <1>8, FileWriteKeepsInv DEF Saved, Filling

LEMMA saveYearKeepsInv ==
  ASSUME RecordsInv, NEW c \in Clients, saveYear(c)
  PROVE  RecordsInv'
  <1>. DEFINE r == req[c]
              k == r.company
              rows == finances[k]
              w == Entry(c).data = "all" \/ (Entry(c).data = "some" /\ r.wasWhole)
              added == [year |-> Entry(c).year, whole |-> w]
              saved == IF r.row = 0 THEN Append(rows, added)
                                    ELSE [rows EXCEPT ![r.row].whole = w]
  <1>1. /\ r \in Request /\ RequestOK(r, companies, finances, files, objects) /\ TablesOK
        /\ r.pc = "saveYear" /\ HasEntry(c)
    BY RequestKnown DEF saveYear, RequestOK, HasEntry
  <1>2. PICK q \in Request :
            /\ req' = [req EXCEPT ![c] = q] /\ Kept(r, q) /\ q.pc = "year"
            /\ RequestOK(q, companies, finances, files, objects)
    <2>. DEFINE lost == ~AmountsFit(Entry(c), r.row, r.wasWhole)
    <2>1. lost \in BOOLEAN /\ NextEntry(c, lost)
      BY DEF saveYear
    <2>. HIDE DEF lost
    <2>. QED BY <1>1, <2>1, NextEntryIsOK
  <1>3. CASE UNCHANGED finances /\ Refused
    <2>1. year' \in Nat /\ failures' \in 0 .. MaxFailures /\ UNCHANGED tables
      BY <1>3, RequestKnown, FailuresAssumption DEF saveYear, Refused, tables
    <2>. QED BY <1>1, <1>2, <2>1, AdvanceKeepsInv DEF Filling
  <1>4. CASE finances' = [finances EXCEPT ![k] = saved] /\ UNCHANGED failures
    <2>1. k \in Companies /\ Entry(c).year \in Nat
      BY <1>1, EntryKnown
    <2>2. rows \in Seq(CompanyFinancialData)
      BY <1>1, <2>1 DEF TablesOK
    <2>3. added \in CompanyFinancialData
      BY <2>1 DEF CompanyFinancialData
    <2>4. r.row # 0 => r.row \in 1 .. Len(rows)
      BY <1>1, <2>2, LenProperties DEF RequestOK
    <2>. HIDE DEF added, w, rows
    <2>5. saved \in Seq(CompanyFinancialData) /\ DOMAIN rows \subseteq DOMAIN saved
      <3>1. CASE r.row = 0
        <4>1. saved = Append(rows, added)
          BY <3>1
        <4>2. saved \in Seq(CompanyFinancialData) /\ Len(saved) = Len(rows) + 1
          BY <2>2, <2>3, <4>1, AppendProperties
        <4>3. DOMAIN rows \subseteq DOMAIN saved
          BY <2>2, <4>2, LenProperties
        <4>. QED BY <4>2, <4>3
      <3>2. CASE r.row # 0
        <4>. DEFINE new == [rows[r.row] EXCEPT !.whole = w]
        <4>1. rows[r.row] \in CompanyFinancialData
          BY <2>2, <2>4, <3>2, ElementOfSeq
        <4>2. new \in CompanyFinancialData
          BY <4>1 DEF CompanyFinancialData, w
        <4>3. saved = [rows EXCEPT ![r.row] = new]
          BY <3>2
        <4>. HIDE DEF new
        <4>4. saved \in Seq(CompanyFinancialData) /\ DOMAIN saved = DOMAIN rows
          BY <2>2, <2>4, <3>2, <4>2, <4>3, ExceptSeq
        <4>. QED BY <4>4
      <3>. QED BY <3>1, <3>2
    <2>. HIDE DEF saved
    <2>6. UNCHANGED <<companies, informations, files, objects, year, failures>>
      BY <1>4 DEF saveYear
    <2>7. TablesOK'
      BY <1>1, <1>4, <2>1, <2>5, <2>6 DEF TablesOK
    <2>8. Grown
      BY <1>1, <1>4, <2>1, <2>5, <2>6 DEF TablesOK, Grown, SameOwner, rows
    <2>9. Known
      BY <2>6, KnownStays
    <2>10. q.row = 0
      BY <1>2 DEF RequestOK
    <2>11. RequestOK(q, companies', finances', files', objects')
      BY <1>2, <2>6, <2>10 DEF RequestOK
    <2>12. FileOfOwner' /\ RowHasObject'
      BY <2>6, <2>8, FilesStayWithOwners
    <2>. QED
      BY <1>1, <1>2, <2>6, <2>7, <2>8, <2>9, <2>11, <2>12, WriteKeepsInv DEF Filling
  <1>. QED BY <1>3, <1>4 DEF saveYear

-----------------------------------------------------------------------------
(***************************************************************************)
(* Uploads.                                                                *)
(***************************************************************************)

\* A step of an upload.
LEMMA UploadKeepsInv ==
  ASSUME RecordsInv, TablesOK', UNCHANGED <<companies, finances>>, Grown, NewFiles',
         NEW c \in Clients, NEW q \in Request, req' = [req EXCEPT ![c] = q],
         q.company = req[c].company, q.readCompany = req[c].readCompany, q.pc = req[c].pc,
         RequestOK(q, companies', finances', files', objects'),
         FileOfOwner', RowHasObject'
  PROVE  RecordsInv'
  <1>1. Known
    BY KnownStays
  <1>2. \A d \in Clients \ {c} : Agree(q, req[d]) /\ Agree(req[d], q)
    BY DEF RecordsInv, Agree
  <1>3. TypeOK' /\ \A d \in Clients : RequestOK(req[d], companies, finances, files, objects)'
    BY <1>1, <1>2, StepKeepsRequests
  <1>4. \A d, e \in Clients : Agree(req[d], req[e])'
    BY <1>1, <1>2, StepKeepsRequests
  <1>. QED BY <1>3, <1>4 DEF RecordsInv

LEMMA startUploadKeepsInv ==
  ASSUME RecordsInv, NEW c \in Clients, startUpload(c)
  PROVE  RecordsInv'
  <1>1. PICK p \in People, fs \in Uploads :
           /\ \A f \in fs : IsNewFile(f)
           /\ Begin(c, [Idle EXCEPT !.pc = "sending", !.op = "upload", !.by = p, !.sending = fs])
    BY DEF startUpload
  <1>. DEFINE q == [Idle EXCEPT !.pc = "sending", !.op = "upload", !.by = p, !.sending = fs]
  <1>2. req' = [req EXCEPT ![c] = q] /\ UNCHANGED tables /\ UNCHANGED year /\ UNCHANGED failures
    BY <1>1 DEF Begin
  <1>3. fs \subseteq Files
    BY UploadsAssumption
  <1>4. /\ q \in Request /\ q.pc = "sending" /\ q.company = NoCompany /\ q.by = p
        /\ q.remove = {} /\ q.sending = fs /\ q.stored = {} /\ q.entry = 1 /\ q.row = 0
    BY <1>3, IdleIsOK DEF Idle, Request, Waits, Ops
  <1>. HIDE DEF q
  <1>5. RequestOK(q, companies, finances, files, objects)
    BY <1>4 DEF RequestOK, Filling, Saved
  <1>6. \A d \in Clients \ {c} : Agree(q, req[d]) /\ Agree(req[d], q)
    BY <1>4 DEF Agree, Filling
  <1>7. NewFiles'
    <2>1. \A d \in Clients : req'[d] = IF d = c THEN q ELSE req[d]
      BY <1>2 DEF RecordsInv, TypeOK
    <2>2. \A d \in Clients : Underway(req[d]) \cap fs = {}
      BY <1>1 DEF IsNewFile, Underway
    <2>3. \A f \in fs : files[f] = NoFile
      BY <1>1 DEF IsNewFile
    <2>4. Underway(q) = fs
      BY <1>4 DEF Underway
    <2>5. files' = files
      BY <1>2 DEF tables
    <2>6. \A d \in Clients : req'[d].sending \cap req'[d].stored = {}
      BY <1>4, <2>1 DEF RecordsInv, NewFiles
    <2>7. \A d \in Clients : \A f \in Underway(req'[d]) : files'[f] = NoFile
      BY <2>1, <2>3, <2>4, <2>5 DEF RecordsInv, NewFiles
    <2>8. \A d, e \in Clients : d # e => Underway(req'[d]) \cap Underway(req'[e]) = {}
      BY <2>1, <2>2, <2>4 DEF RecordsInv, NewFiles
    <2>. QED BY <2>6, <2>7, <2>8 DEF NewFiles, Underway
  <1>8. year' \in Nat /\ failures' \in 0 .. MaxFailures
    BY <1>2, RequestKnown
  <1>. QED BY <1>2, <1>4, <1>5, <1>6, <1>7, <1>8, MoveKeepsInv

LEMMA uploadFileKeepsInv ==
  ASSUME RecordsInv, NEW c \in Clients, NEW f \in Files, uploadFile(c, f)
  PROVE  RecordsInv'
  <1>. DEFINE r == req[c]
              q == [r EXCEPT !.sending = @ \ {f}, !.stored = @ \cup {f}]
  <1>1. /\ r \in Request /\ RequestOK(r, companies, finances, files, objects) /\ TablesOK
        /\ f \in r.sending /\ req' = [req EXCEPT ![c] = q] /\ objects' = objects \cup {f}
        /\ UNCHANGED <<companies, informations, finances, files, year, failures>>
    BY RequestKnown DEF uploadFile
  <1>2. q \in Request /\ q.sending = r.sending \ {f} /\ q.stored = r.stored \cup {f}
    BY <1>1 DEF Request
  <1>3. /\ q.pc = r.pc /\ q.company = r.company /\ q.readCompany = r.readCompany
        /\ q.form = r.form /\ q.by = r.by /\ q.readInformation = r.readInformation
        /\ q.remove = r.remove /\ q.found = r.found /\ q.entry = r.entry /\ q.row = r.row
    BY <1>1 DEF Request
  <1>. HIDE DEF q
  <1>4. TablesOK'
    BY <1>1 DEF TablesOK
  <1>5. Grown
    BY <1>1 DEF Grown, SameOwner
  <1>6. RequestOK(q, companies', finances', files', objects')
    <2>1. q.stored \subseteq objects' /\ r.by \in People
      BY <1>1, <1>2 DEF RequestOK
    <2>. QED BY <1>1, <1>3, <2>1 DEF RequestOK
  <1>7. NewFiles'
    <2>1. \A d \in Clients : req'[d] = IF d = c THEN q ELSE req[d]
      BY <1>1 DEF RecordsInv, TypeOK
    <2>2. Underway(q) = Underway(r) /\ q.sending \cap q.stored = {}
      BY <1>1, <1>2 DEF Underway, RecordsInv, NewFiles
    <2>3. \A d \in Clients : Underway(req'[d]) = Underway(req[d])
      BY <2>1, <2>2
    <2>4. \A d \in Clients : req'[d].sending \cap req'[d].stored = {}
      BY <2>1, <2>2 DEF RecordsInv, NewFiles
    <2>. QED BY <1>1, <2>3, <2>4 DEF RecordsInv, NewFiles, Underway
  <1>8. FileOfOwner' /\ RowHasObject'
    BY <1>1, <1>5, FilesStayWithOwners
  <1>. QED BY <1>1, <1>2, <1>3, <1>4, <1>5, <1>6, <1>7, <1>8, UploadKeepsInv

LEMMA createFileKeepsInv ==
  ASSUME RecordsInv, NEW c \in Clients, NEW f \in Files, createFile(c, f)
  PROVE  RecordsInv'
  <1>. DEFINE r == req[c]
              row == [user |-> r.by, information |-> NoCompany, deleted |-> FALSE]
              q == [r EXCEPT !.stored = @ \ {f}]
  <1>1. /\ r \in Request /\ RequestOK(r, companies, finances, files, objects) /\ TablesOK
        /\ f \in r.stored /\ req' = [req EXCEPT ![c] = q] /\ files' = [files EXCEPT ![f] = row]
        /\ UNCHANGED <<companies, informations, finances, objects, year, failures>>
    BY RequestKnown DEF createFile
  <1>2. r.by \in People /\ f \in objects /\ files[f] = NoFile
    BY <1>1 DEF RequestOK, RecordsInv, NewFiles, Underway
  <1>3. row \in FileAttachments /\ row # NoFile /\ row.information = NoCompany
    <2>1. row \in FileAttachments /\ row.information = NoCompany
      BY <1>2 DEF FileAttachments
    <2>. HIDE DEF row
    <2>. QED BY <2>1, NothingAssumption
  <1>4. q \in Request /\ q.sending = r.sending /\ q.stored = r.stored \ {f}
    BY <1>1 DEF Request
  <1>5. /\ q.pc = r.pc /\ q.company = r.company /\ q.readCompany = r.readCompany
        /\ q.form = r.form /\ q.by = r.by /\ q.readInformation = r.readInformation
        /\ q.remove = r.remove /\ q.found = r.found /\ q.entry = r.entry /\ q.row = r.row
    BY <1>1 DEF Request
  <1>. HIDE DEF q, row
  <1>6. \A g \in Files : files'[g] = IF g = f THEN row ELSE files[g]
    BY <1>1 DEF TablesOK
  <1>7. TablesOK'
    BY <1>1, <1>3 DEF TablesOK
  <1>8. Grown
    BY <1>1, <1>2, <1>6 DEF Grown, SameOwner
  <1>9. RequestOK(q, companies', finances', files', objects')
    <2>1. \A g \in q.remove : files'[g] # NoFile
      BY <1>1, <1>3, <1>5, <1>6 DEF RequestOK, Request
    <2>2. q.pc = "attach" => files'[q.found] # NoFile /\ files'[q.found].user = q.by
      BY <1>1, <1>2, <1>5, <1>6 DEF RequestOK
    <2>3. q.stored \subseteq objects'
      BY <1>1, <1>4 DEF RequestOK
    <2>. QED BY <1>1, <1>2, <1>5, <2>1, <2>2, <2>3 DEF RequestOK
  <1>10. NewFiles'
    <2>1. \A d \in Clients : req'[d] = IF d = c THEN q ELSE req[d]
      BY <1>1 DEF RecordsInv, TypeOK
    <2>2. Underway(q) = Underway(r) \ {f} /\ q.sending \cap q.stored = {}
      BY <1>1, <1>4 DEF Underway, RecordsInv, NewFiles
    <2>3. \A d \in Clients : Underway(req'[d]) \subseteq Underway(req[d]) \ {f}
      BY <1>1, <2>1, <2>2 DEF RecordsInv, NewFiles, Underway
    <2>4. \A d \in Clients : req'[d].sending \cap req'[d].stored = {}
      BY <2>1, <2>2 DEF RecordsInv, NewFiles
    <2>5. \A d \in Clients : Underway(req[d]) \subseteq Files
      BY DEF RecordsInv, TypeOK, Request, Underway
    <2>6. \A d \in Clients : \A g \in Underway(req'[d]) : files'[g] = NoFile
      BY <1>6, <2>3, <2>5 DEF RecordsInv, NewFiles
    <2>7. \A d, e \in Clients : d # e => Underway(req'[d]) \cap Underway(req'[e]) = {}
      BY <2>3 DEF RecordsInv, NewFiles
    <2>. QED BY <2>4, <2>6, <2>7 DEF NewFiles, Underway
  <1>11. FileOfOwner'
    BY <1>1, <1>3, <1>6, NothingAssumption DEF RecordsInv, FileOfOwner
  <1>12. RowHasObject'
    BY <1>1, <1>2, <1>6 DEF RecordsInv, RowHasObject
  <1>. QED
    BY <1>1, <1>4, <1>5, <1>7, <1>8, <1>9, <1>10, <1>11, <1>12, UploadKeepsInv

LEMMA fileFailsKeepsInv ==
  ASSUME RecordsInv, NEW c \in Clients, NEW f \in Files, fileFails(c, f)
  PROVE  RecordsInv'
  <1>. DEFINE r == req[c]
              q == [r EXCEPT !.sending = @ \ {f}, !.stored = @ \ {f}]
  <1>1. /\ r \in Request /\ RequestOK(r, companies, finances, files, objects) /\ TablesOK
        /\ req' = [req EXCEPT ![c] = q] /\ UNCHANGED tables
        /\ f \in r.sending \cup r.stored
    BY RequestKnown DEF fileFails
  <1>2. q \in Request /\ q.sending = r.sending \ {f} /\ q.stored = r.stored \ {f}
    BY <1>1 DEF Request
  <1>3. /\ q.pc = r.pc /\ q.company = r.company /\ q.readCompany = r.readCompany
        /\ q.form = r.form /\ q.by = r.by /\ q.readInformation = r.readInformation
        /\ q.remove = r.remove /\ q.found = r.found /\ q.entry = r.entry /\ q.row = r.row
    BY <1>1 DEF Request
  <1>. HIDE DEF q
  <1>4. RequestOK(q, companies, finances, files, objects)
    <2>1. r.by \in People /\ q.stored \subseteq objects
      BY <1>1, <1>2 DEF RequestOK
    <2>. QED BY <1>1, <1>3, <2>1 DEF RequestOK
  <1>5. \A d \in Clients \ {c} : Agree(q, req[d]) /\ Agree(req[d], q)
    BY <1>3 DEF RecordsInv, Agree
  <1>6. year' \in Nat /\ failures' \in 0 .. MaxFailures
    BY RequestKnown, FailuresAssumption DEF fileFails, CallFails
  <1>7. NewFiles'
    BY <1>1, <1>2, LessUnderway DEF tables
  <1>. QED BY <1>1, <1>2, <1>4, <1>5, <1>6, <1>7, MoveKeepsInv

-----------------------------------------------------------------------------
(***************************************************************************)
(* The invariant, and what follows from it.                                *)
(***************************************************************************)

LEMMA saveFormKeepsInv ==
  ASSUME RecordsInv, NEW c \in Clients, NEW mode, saveForm(c, mode)
  PROVE  RecordsInv'
  <1>1. CASE saveCompany(c)
    BY <1>1, saveCompanyKeepsInv
  <1>2. CASE saveInformation(c)
    BY <1>2, saveInformationKeepsInv
  <1>3. CASE handleFileAttachments(c)
    <2>1. CASE readFiles(c)
      BY <2>1, readFilesKeepsInv
    <2>2. ASSUME NEW f \in Files, removeFile(c, f) \/ findFile(c, f)
          PROVE  RecordsInv'
      BY <2>2, removeFileKeepsInv, findFileKeepsInv
    <2>3. CASE attachFile(c)
      BY <2>3, attachFileKeepsInv
    <2>4. CASE filesDone(c)
      BY <2>4, GoKeepsInv DEF filesDone
    <2>. QED BY <1>3, <2>1, <2>2, <2>3, <2>4 DEF handleFileAttachments
  <1>4. CASE handleFinancialData(c, mode)
    <2>1. CASE findYear(c, mode)
      BY <2>1, findYearKeepsInv
    <2>2. CASE saveYear(c)
      BY <2>2, saveYearKeepsInv
    <2>3. CASE yearFails(c)
      BY <2>3, yearFailsKeepsInv
    <2>4. CASE yearsDone(c)
      BY <2>4, GoKeepsInv DEF yearsDone
    <2>. QED BY <1>4, <2>1, <2>2, <2>3, <2>4 DEF handleFinancialData
  <1>5. CASE answer(c)
    <2>1. End(c) /\ UNCHANGED tables /\ year' \in Nat /\ failures' \in 0 .. MaxFailures
      BY <1>5, RequestKnown DEF answer
    <2>. QED BY <2>1, EndKeepsInv
  <1>. QED BY <1>1, <1>2, <1>3, <1>4, <1>5 DEF saveForm

LEMMA HandleKeepsInv ==
  ASSUME RecordsInv, NEW c \in Clients, Handle(c)
  PROVE  RecordsInv'
  <1>1. CASE uploadMultipleFiles(c)
    <2>1. CASE startUpload(c)
      BY <2>1, startUploadKeepsInv
    <2>2. ASSUME NEW f \in Files, uploadFile(c, f) \/ createFile(c, f) \/ fileFails(c, f)
          PROVE  RecordsInv'
      BY <2>2, uploadFileKeepsInv, createFileKeepsInv, fileFailsKeepsInv
    <2>3. CASE allSent(c)
      <3>1. End(c) /\ UNCHANGED tables /\ year' \in Nat /\ failures' \in 0 .. MaxFailures
        BY <2>3, RequestKnown DEF allSent
      <3>. QED BY <3>1, EndKeepsInv
    <2>. QED BY <1>1, <2>1, <2>2, <2>3 DEF uploadMultipleFiles
  <1>2. CASE createCompanyInfo(c)
    <2>1. Begins(c) \/ saveForm(c, "add")
      BY <1>2 DEF createCompanyInfo, Begins
    <2>. QED BY <2>1, BeginKeepsInv, saveFormKeepsInv
  <1>3. CASE createCompanyInfoForAdmin(c)
    <2>1. Begins(c) \/ saveForm(c, "add")
      BY <1>3 DEF createCompanyInfoForAdmin, Begins
    <2>. QED BY <2>1, BeginKeepsInv, saveFormKeepsInv
  <1>4. CASE updateCompanyInfo(c)
    <2>1. \/ Begins(c) \/ saveForm(c, "edit")
          \/ readInformation(c, {"PROCESSING", "PROCESSED", "DRAFT_FROM_ADMIN"})
      BY <1>4 DEF updateCompanyInfo, Begins
    <2>. QED BY <2>1, BeginKeepsInv, saveFormKeepsInv, readInformationKeepsInv
  <1>5. CASE updateCompanyInfoForAdmin(c)
    <2>1. \/ Begins(c) \/ saveForm(c, "edit")
          \/ readInformation(c, {"PROCESSING", "PROCESSED"})
      BY <1>5 DEF updateCompanyInfoForAdmin, Begins
    <2>. QED BY <2>1, BeginKeepsInv, saveFormKeepsInv, readInformationKeepsInv
  <1>. QED BY <1>1, <1>2, <1>3, <1>4, <1>5 DEF Handle

LEMMA NextInv == RecordsInv /\ [Next]_vars => RecordsInv'
  <1>. SUFFICES ASSUME RecordsInv, [Next]_vars PROVE RecordsInv'
    OBVIOUS
  <1>1. ASSUME NEW c \in Clients, cutOff(c)
        PROVE  RecordsInv'
    <2>1. End(c) /\ UNCHANGED tables /\ year' \in Nat /\ failures' \in 0 .. MaxFailures
      BY <1>1, RequestKnown, FailuresAssumption DEF cutOff, CallFails
    <2>. QED BY <2>1, EndKeepsInv
  <1>2. CASE newYear \/ UNCHANGED vars
    <2>1. UNCHANGED <<companies, informations, finances, files, objects, req, failures>>
          /\ year' \in Nat
      BY <1>2 DEF newYear, vars, tables, RecordsInv, TypeOK
    <2>2. TypeOK'
      BY <2>1 DEF RecordsInv, TypeOK
    <2>. QED
      BY <2>1, <2>2 DEF RecordsInv, NewFiles, FileOfOwner, RowHasObject
  <1>. QED BY <1>1, <1>2, HandleKeepsInv DEF Next

LEMMA InitInv == Init => RecordsInv
  <1>. SUFFICES ASSUME Init PROVE RecordsInv
    OBVIOUS
  <1>1. \A c \in Clients : req[c] = Idle
    BY DEF Init
  <1>2. TypeOK
    BY IdleIsOK, FailuresAssumption, YearsAssumption, EmptySeq DEF Init, TypeOK
  <1>3. Idle.sending = {} /\ Idle.stored = {}
    BY DEF Idle
  <1>4. NewFiles
    BY <1>1, <1>3 DEF NewFiles, Underway
  <1>5. FileOfOwner /\ RowHasObject
    BY DEF Init, FileOfOwner, RowHasObject
  <1>. QED BY <1>1, <1>2, <1>4, <1>5, IdleIsOK DEF RecordsInv

\* Every behaviour of the service keeps the invariant.
THEOREM RecordsInvHolds == Spec => []RecordsInv
  BY InitInv, NextInv, PTL DEF Spec

\* The tables, the bucket and the requests keep their types, for any number of
\* overlapping requests.
THEOREM RecordsTypeCorrect == Spec => []TypeOK
  <1>1. RecordsInv => TypeOK
    BY DEF RecordsInv
  <1>. QED BY <1>1, RecordsInvHolds, PTL

\* However requests overlap and fail, a file is attached to records of its owner
\* only, or of an administrator when an administrator uploaded it
\* (handleFileAttachments).
THEOREM FilesStayWithTheirOwner == Spec => []FileOfOwner
  <1>1. RecordsInv => FileOfOwner
    BY DEF RecordsInv
  <1>. QED BY <1>1, RecordsInvHolds, PTL

\* However requests overlap and fail, every row of file_attachments has its object
\* in the bucket (uploadAndSaveSingleFile).
THEOREM RowsHaveObjects == Spec => []RowHasObject
  <1>1. RecordsInv => RowHasObject
    BY DEF RecordsInv
  <1>. QED BY <1>1, RecordsInvHolds, PTL
-----------------------------------------------------------------------------
(***************************************************************************)
(* The steps one by one.                                                   *)
(***************************************************************************)

Creating == {"createCompanyInfo", "createCompanyInfoForAdmin"}

\* Statuses that no form changes.
Final == {"PROCESSING", "PROCESSED"}

Step(c) ==
    \/ Begins(c)
    \/ \E final : Final \subseteq final /\ readInformation(c, final)
    \/ saveCompany(c)
    \/ saveInformation(c)
    \/ readFiles(c)
    \/ \E f \in Files : removeFile(c, f) \/ findFile(c, f)
    \/ attachFile(c)
    \/ filesDone(c)
    \/ \E mode \in {"add", "edit"} :
          (mode = "add" => req[c].op \in Creating) /\ findYear(c, mode)
    \/ saveYear(c)
    \/ yearFails(c)
    \/ yearsDone(c)
    \/ answer(c)
    \/ startUpload(c)
    \/ \E f \in Files : uploadFile(c, f) \/ createFile(c, f) \/ fileFails(c, f)
    \/ allSent(c)
    \/ cutOff(c)

LEMMA SaveFormSteps ==
  ASSUME NEW c \in Clients, NEW mode \in {"add", "edit"}, saveForm(c, mode),
         mode = "add" => req[c].op \in Creating
  PROVE  Step(c)
  BY DEF saveForm, handleFileAttachments, handleFinancialData, Step

LEMMA HandleSteps ==
  ASSUME NEW c \in Clients, Handle(c)
  PROVE  Step(c)
  <1>1. CASE createCompanyInfo(c)
    BY <1>1, SaveFormSteps DEF createCompanyInfo, Begins, Step, Creating
  <1>2. CASE createCompanyInfoForAdmin(c)
    BY <1>2, SaveFormSteps DEF createCompanyInfoForAdmin, Begins, Step, Creating
  <1>3. CASE updateCompanyInfo(c)
    <2>1. Final \subseteq {"PROCESSING", "PROCESSED", "DRAFT_FROM_ADMIN"}
      BY DEF Final
    <2>2. \/ Begins(c) \/ saveForm(c, "edit")
          \/ readInformation(c, {"PROCESSING", "PROCESSED", "DRAFT_FROM_ADMIN"})
      BY <1>3 DEF updateCompanyInfo, Begins
    <2>. QED BY <2>1, <2>2, SaveFormSteps DEF Step
  <1>4. CASE updateCompanyInfoForAdmin(c)
    <2>1. \/ Begins(c) \/ saveForm(c, "edit")
          \/ readInformation(c, {"PROCESSING", "PROCESSED"})
      BY <1>4 DEF updateCompanyInfoForAdmin, Begins
    <2>. QED BY <2>1, SaveFormSteps DEF Step, Final
  <1>5. CASE uploadMultipleFiles(c)
    BY <1>5 DEF uploadMultipleFiles, Step
  <1>. QED BY <1>1, <1>2, <1>3, <1>4, <1>5 DEF Handle

LEMMA NextSteps ==
  ASSUME [Next]_vars
  PROVE  newYear \/ UNCHANGED vars \/ \E c \in Clients : Step(c)
  BY HandleSteps DEF Next, Step
=============================================================================
