---------------------- MODULE CompanyRecordsSerial_proofs ----------------------
(***************************************************************************)
(* What holds of the records of companies when requests do not overlap,    *)
(* for any number of people, companies and files, any forms and however    *)
(* many calls fail.                                                        *)
(*                                                                         *)
(* Between two awaits a request relies on what it read before: the files   *)
(* it will remove and add, the row of a year, the status of the            *)
(* information, the columns it saved.  SerialInv says that all of it is    *)
(* still so, and what a submitted form has left behind at each await.      *)
(***************************************************************************)
EXTENDS CompanyRecords_proofs

\* One slot: a request begins when the one before it has ended.
OneAtATime == \A c, d \in Clients : c = d

Listed(fs, k) == {f \in Files : fs[f] # NoFile /\ fs[f].information = k /\ ~fs[f].deleted}

\* The awaits after the files were read.
Showing == {"remove", "attach", "year", "saveYear", "answer"}

\* The answer will show what is listed, but for the files still to remove.
FilesOK(r, fs) ==
    /\ r.pc \in Showing => r.shown = Listed(fs, r.company) \ r.remove
    /\ r.pc \in Showing \ {"remove"} => r.remove = {}
    /\ \A f \in r.remove : fs[f].information = r.company
    /\ r.pc = "attach" => fs[r.found].information = NoCompany /\ ~fs[r.found].deleted

\* The row that an update will write is the one of its year, or there is none.
YearOK(r, fin) ==
    r.pc = "saveYear" =>
        LET rows == fin[r.company]
            y == r.form.financial_data[r.entry].year
        IN /\ r.row = 0 /\ r.op \notin Creating => \A i \in DOMAIN rows : rows[i].year # y
           /\ r.row # 0 => rows[r.row].year = y

\* A user's form, as it was judged in some year of the history.
Sent(form) ==
    /\ form.status \in {"DRAFT", "SUBMITTED"}
    /\ \E y \in FirstYear .. LastYear : CompanyInformationDto(form, y)

ReadOK(r) ==
    /\ r.pc \in Filling \ {"information"} =>
          r.readInformation \in CompanyInformation /\ r.readInformation.status \notin Final
    /\ r.pc \in Filling /\ r.readCompany.user \in Users => Sent(r.form)
    /\ r.pc \in {"information", "saveCompany"} => r.entry = 1

InformationIsWhole(values) ==
    /\ \A f \in Details : values[f] = "good"
    /\ \E group \in Groups : HasData(values, group) /\ GroupIsValid(values, group)

HasYear(rows, y) == \E i \in DOMAIN rows : rows[i] = [year |-> y, whole |-> TRUE]

\* What a request that has lost no entry has left in the tables.
WrittenOK(r, cs, infos, fin) ==
    ~ r.lost /\ r.pc \in Saved =>
        /\ r.pc # "saveInformation" =>
              infos[r.company] # NoInformation /\ infos[r.company].status = r.form.status
        /\ r.pc = "answer" => r.entry > Len(r.form.financial_data)
        /\ r.readCompany.user \in Users /\ Submitted(r.form) =>
            /\ cs[r.company].values["position"] = "good"
            /\ r.pc # "saveInformation" => InformationIsWhole(infos[r.company].values)
            /\ \A i \in DOMAIN r.form.financial_data :
                  i < r.entry => HasYear(fin[r.company], r.form.financial_data[i].year)

\* n: the calls that have failed.
SerialOK(r, cs, infos, fin, fs, n) ==
    /\ FilesOK(r, fs)
    /\ YearOK(r, fin)
    /\ ReadOK(r)
    /\ WrittenOK(r, cs, infos, fin)
    /\ r.lost => n # 0

IsWhole(k) ==
    /\ companies[k].values["position"] = "good"
    /\ InformationIsWhole(informations[k].values)
    /\ \E y \in FirstYear .. LastYear : \A z \in RequiredYears(y) : HasYear(finances[k], z)

\* A submitted company is whole, or its request is still writing.
WholeOrWritten ==
    failures = 0 => \A u \in Users : \A k \in getCompanyInfo(u) :
        informations[k].status = "SUBMITTED" =>
            IsWhole(k) \/ \E c \in Clients : req[c].company = k /\ req[c].pc \in Saved

SerialInv ==
    /\ RecordsInv
    /\ year \in FirstYear .. LastYear
    /\ \A c \in Clients : SerialOK(req[c], companies, informations, finances, files, failures)
    /\ WholeOrWritten

-----------------------------------------------------------------------------
(***************************************************************************)
(* What has to be shown of a step.                                         *)
(***************************************************************************)

\* What is known of the only request.
LEMMA SerialKnown ==
  ASSUME OneAtATime, SerialInv, NEW c \in Clients
  PROVE  /\ SerialOK(req[c], companies, informations, finances, files, failures)
         /\ RequestOK(req[c], companies, finances, files, objects)
         /\ TablesOK /\ failures \in Nat
         /\ req \in [Clients -> Request] /\ req[c] \in Request
         /\ req[c].pc \in Filling => req[c].form \in Form
         /\ \A d \in Clients : d = c
  <1>1. RecordsInv /\ req \in [Clients -> Request] /\ failures \in Nat
    BY DEF SerialInv, RecordsInv, TypeOK
  <1>2. req[c].pc \in Filling => req[c].form \in Form
    BY <1>1, RequestKnown, FormsAssumption DEF RequestOK
  <1>. QED BY <1>1, <1>2, RequestKnown DEF SerialInv, OneAtATime

\* The request goes on as q.
LEMMA SerialStep ==
  ASSUME OneAtATime, SerialInv, RecordsInv', year' \in FirstYear .. LastYear,
         NEW c \in Clients, NEW q, req' = [req EXCEPT ![c] = q],
         SerialOK(q, companies', informations', finances', files', failures'),
         WholeOrWritten'
  PROVE  SerialInv'
  <1>1. \A d \in Clients : req'[d] = q
    BY SerialKnown
  <1>. QED BY <1>1 DEF SerialInv

\* Only the request's own company may change, and as long as the request writes.
LEMMA WholeStays ==
  ASSUME OneAtATime, SerialInv, NEW c \in Clients, NEW q, req' = [req EXCEPT ![c] = q],
         \A k \in Companies : k # req[c].company =>
            /\ companies'[k] = companies[k]
            /\ informations'[k] = informations[k]
            /\ finances'[k] = finances[k],
         failures' = 0 => failures = 0,
         \/ failures' # 0
         \/ q.pc \in Saved /\ q.company = req[c].company
         \/ req[c].pc \notin Saved /\ UNCHANGED <<companies, informations, finances>>
  PROVE  WholeOrWritten'
  <1>. SUFFICES ASSUME failures' = 0, NEW u \in Users, NEW k \in Companies,
                       k \in getCompanyInfo(u)', informations'[k].status = "SUBMITTED"
                PROVE  IsWhole(k)' \/ \E d \in Clients : req'[d].company = k /\ req'[d].pc \in Saved
    BY DEF WholeOrWritten, getCompanyInfo, getCompaniesOfUser
  <1>1. req'[c] = q /\ \A d \in Clients : d = c
    BY SerialKnown
  <1>2. CASE k = req[c].company /\ q.pc \in Saved /\ q.company = req[c].company
    BY <1>1, <1>2
  <1>3. CASE ~(k = req[c].company /\ q.pc \in Saved /\ q.company = req[c].company)
    <2>1. /\ companies'[k] = companies[k] /\ informations'[k] = informations[k]
          /\ finances'[k] = finances[k]
      BY <1>3
    <2>2. k \in getCompanyInfo(u) /\ informations[k].status = "SUBMITTED" /\ failures = 0
      BY <2>1 DEF getCompanyInfo, getCompaniesOfUser
    <2>3. ~ \E d \in Clients : req[d].company = k /\ req[d].pc \in Saved
      BY <1>1, <1>3
    <2>4. IsWhole(k)
      BY <2>2, <2>3 DEF SerialInv, WholeOrWritten
    <2>. QED BY <2>1, <2>4 DEF IsWhole
  <1>. QED BY <1>2, <1>3

LEMMA IdleIsSerial ==
  \A cs, infos, fin, fs, n : SerialOK(Idle, cs, infos, fin, fs, n)
  <1>1. Idle.pc = "idle" /\ Idle.remove = {} /\ ~ Idle.lost
    BY DEF Idle
  <1>. QED
    BY <1>1 DEF SerialOK, FilesOK, YearOK, ReadOK, WrittenOK, Showing, Filling, Saved

\* A request ends before it has written, or because a call failed.
LEMMA SerialEnd ==
  ASSUME OneAtATime, SerialInv, RecordsInv', year' = year, UNCHANGED tables,
         NEW c \in Clients, End(c), failures' = 0 => failures = 0,
         failures' # 0 \/ req[c].pc \notin Saved
  PROVE  SerialInv'
  <1>1. /\ req' = [req EXCEPT ![c] = Idle]
        /\ UNCHANGED <<companies, informations, finances, files>>
    BY DEF End, tables
  <1>2. WholeOrWritten'
    BY <1>1, WholeStays
  <1>. QED BY <1>1, <1>2, IdleIsSerial, SerialStep DEF SerialInv

\* The request goes on and writes nothing.
LEMMA SerialMove ==
  ASSUME OneAtATime, SerialInv, RecordsInv', year' = year, UNCHANGED tables,
         NEW c \in Clients, NEW q, req' = [req EXCEPT ![c] = q],
         SerialOK(q, companies, informations, finances, files, failures'),
         failures' = 0 => failures = 0,
         \/ failures' # 0
         \/ req[c].pc \notin Saved
         \/ q.pc \in Saved /\ q.company = req[c].company
  PROVE  SerialInv'
  <1>1. UNCHANGED <<companies, informations, finances, files>>
    BY DEF tables
  <1>2. WholeOrWritten'
    BY <1>1, WholeStays
  <1>. QED BY <1>1, <1>2, SerialStep DEF SerialInv

-----------------------------------------------------------------------------
(***************************************************************************)
(* Requests begin, and save the company and its information.               *)
(***************************************************************************)

LEMMA SerialNewRequest ==
  ASSUME OneAtATime, SerialInv, RecordsInv', NEW c \in Clients, NEW op, NEW by,
         NEW form, NEW read, read.user \in Users => Sent(form),
         NewRequest(c, op, by, form, read)
  PROVE  SerialInv'
  <1>. DEFINE new == [status |-> "DRAFT", values |-> EmptyColumns(InformationFields)]
              q == [Idle EXCEPT
                    !.pc = "saveCompany", !.op = op, !.by = by, !.company = NewCompany,
                    !.form = form, !.readCompany = read, !.readInformation = new]
  <1>1. /\ req' = [req EXCEPT ![c] = q] /\ req[c].pc = "idle"
        /\ UNCHANGED tables /\ UNCHANGED <<year, failures>>
    BY DEF NewRequest, Begin
  <1>2. new \in CompanyInformation /\ new.status \notin Final
    BY DEF CompanyInformation, EmptyColumns, StoredValues, Statuses, Final
  <1>. HIDE DEF new
  <1>3. /\ q.pc = "saveCompany" /\ q.form = form /\ q.readCompany = read
        /\ q.readInformation = new /\ q.remove = {} /\ q.entry = 1 /\ ~ q.lost
    BY DEF Idle
  <1>. HIDE DEF q
  <1>4. SerialOK(q, companies, informations, finances, files, failures')
    BY <1>2, <1>3 DEF SerialOK, FilesOK, YearOK, ReadOK, WrittenOK, Showing, Filling, Saved
  <1>5. req[c].pc \notin Saved
    BY <1>1 DEF Saved, Filling
  <1>. QED BY <1>1, <1>4, <1>5, SerialMove

LEMMA SerialEditRequest ==
  ASSUME OneAtATime, SerialInv, RecordsInv', NEW c \in Clients, NEW op, NEW by, NEW k, NEW form,
         companies[k].user \in Users => Sent(form),
         EditRequest(c, op, by, k, form)
  PROVE  SerialInv'
  <1>. DEFINE q == [Idle EXCEPT !.pc = "information", !.op = op, !.by = by, !.company = k,
                                !.form = form, !.readCompany = companies[k]]
  <1>1. /\ req' = [req EXCEPT ![c] = q] /\ req[c].pc = "idle"
        /\ UNCHANGED tables /\ UNCHANGED <<year, failures>>
    BY DEF EditRequest, Begin
  <1>2. /\ q.pc = "information" /\ q.form = form /\ q.readCompany = companies[k]
        /\ q.remove = {} /\ q.entry = 1 /\ ~ q.lost
    BY DEF Idle
  <1>. HIDE DEF q
  <1>3. SerialOK(q, companies, informations, finances, files, failures')
    BY <1>2 DEF SerialOK, FilesOK, YearOK, ReadOK, WrittenOK, Showing, Filling, Saved
  <1>4. req[c].pc \notin Saved
    BY <1>1 DEF Saved, Filling
  <1>. QED BY <1>1, <1>3, <1>4, SerialMove

LEMMA SerialBegins ==
  ASSUME OneAtATime, SerialInv, RecordsInv', NEW c \in Clients, Begins(c)
  PROVE  SerialInv'
  <1>1. ASSUME NEW form, MaySend(form)
        PROVE  Sent(form)
    BY <1>1 DEF MaySend, Sent, SerialInv
  <1>2. \A a : Created(NoPerson, a).user = NoPerson
    BY DEF Created
  <1>3. NoPerson \notin Users
    BY PeopleAssumption
  <1>. QED BY <1>1, <1>2, <1>3, SerialNewRequest, SerialEditRequest DEF Begins

LEMMA SerialReadInformation ==
  ASSUME OneAtATime, SerialInv, RecordsInv', NEW c \in Clients,
         NEW final, Final \subseteq final, readInformation(c, final)
  PROVE  SerialInv'
  <1>. DEFINE r == req[c]
              read == informations[r.company]
              q == [r EXCEPT !.pc = "saveCompany", !.readInformation = read]
  <1>1. /\ r.pc = "information" /\ UNCHANGED tables /\ UNCHANGED <<year, failures>>
        /\ r.pc \notin Saved
    BY DEF readInformation, Saved
  <1>2. CASE End(c)
    BY <1>1, <1>2, SerialEnd
  <1>3. CASE /\ read # NoInformation /\ read.status \notin final
             /\ req' = [req EXCEPT ![c] = q]
    <2>1. r.company \in Companies /\ r \in Request
      BY <1>1, SerialKnown DEF RequestOK, Filling
    <2>2. read \in CompanyInformation /\ read.status \notin Final
      BY <1>3, <2>1, SerialKnown DEF TablesOK
    <2>. HIDE DEF read
    <2>3. /\ q.pc = "saveCompany" /\ q.form = r.form /\ q.readCompany = r.readCompany
          /\ q.readInformation = read /\ q.remove = r.remove /\ q.entry = r.entry
          /\ q.company = r.company /\ q.lost = r.lost
      BY <2>1 DEF Request
    <2>4. req' = [req EXCEPT ![c] = q]
      BY <1>3
    <2>. HIDE DEF q
    <2>5. SerialOK(q, companies, informations, finances, files, failures')
      BY <1>1, <2>2, <2>3, SerialKnown
         DEF SerialOK, FilesOK, YearOK, ReadOK, WrittenOK, Showing, Filling, Saved
    <2>. QED BY <1>1, <2>4, <2>5, SerialMove
  <1>. QED BY <1>2, <1>3 DEF readInformation

\* A submitted form has a position, and it fits only when it is good.
LEMMA SubmittedPosition ==
  ASSUME NEW form \in Form, Sent(form), Submitted(form),
         NEW stored \in [CompanyFields -> StoredValues]
  PROVE  Merge(stored, form)["position"] = "good"
  <1>1. "position" \in CompanyFields /\ "position" \in Bounded
    BY DEF CompanyFields, Bounded
  <1>2. Required(form, "position")
    BY DEF Sent, CompanyInformationDto
  <1>3. form.values["position"] = "good"
    BY <1>1, <1>2 DEF Required, Accepts
  <1>. QED BY <1>1, <1>3 DEF Merge

\* A submitted form that fits fills every detail and a group, whatever is under it.
LEMMA SubmittedInformation ==
  ASSUME NEW form \in Form, Sent(form), Submitted(form), FormFits(form, InformationFields),
         NEW stored \in [InformationFields -> StoredValues]
  PROVE  InformationIsWhole(Merge(stored, form))
  <1>1. PICK y \in FirstYear .. LastYear : CompanyInformationDto(form, y)
    BY DEF Sent
  <1>2. \A f \in InformationFields : form.values[f] # "long"
    BY DEF FormFits, Fits
  <1>3. \A f \in InformationFields : form.values[f] = "good" => Merge(stored, form)[f] = "good"
    BY DEF Merge
  <1>4. ASSUME NEW f \in Details
        PROVE  Merge(stored, form)[f] = "good"
    <2>1. f \in InformationFields /\ Required(form, f)
      BY <1>1 DEF InformationFields, CompanyInformationDto
    <2>2. form.values[f] = "good"
      BY <1>2, <2>1 DEF Required, Accepts
    <2>. QED BY <1>3, <2>1, <2>2
  <1>5. PICK group \in Groups : HasData(form.values, group) /\ GroupIsValid(form.values, group)
    BY <1>1 DEF CompanyInformationDto, IsOneOfThreeGroups
  <1>6. \A f \in group : f \in InformationFields /\ Merge(stored, form)[f] = "good"
    <2>1. \A f \in group : f \in InformationFields /\ form.values[f] \in {"good", "long"}
      BY <1>5 DEF InformationFields, GroupIsValid
    <2>. QED BY <1>2, <1>3, <2>1
  <1>7. \E f \in group : TRUE
    BY <1>5 DEF HasData
  <1>8. HasData(Merge(stored, form), group) /\ GroupIsValid(Merge(stored, form), group)
    BY <1>6, <1>7 DEF HasData, GroupIsValid
  <1>. QED BY <1>4, <1>8 DEF InformationIsWhole

LEMMA SerialSaveCompany ==
  ASSUME OneAtATime, SerialInv, RecordsInv', NEW c \in Clients, saveCompany(c)
  PROVE  SerialInv'
  <1>. DEFINE r == req[c]
              company == [r.readCompany EXCEPT !.values = Merge(@, r.form)]
              q == [r EXCEPT !.pc = "saveInformation"]
  <1>1. /\ r.pc = "saveCompany" /\ UNCHANGED <<informations, finances, files, objects, year>>
        /\ r.pc \notin Saved
    BY DEF saveCompany, Saved
  <1>2. CASE ~FormFits(r.form, CompanyFields)
    <2>1. End(c) /\ Refused /\ UNCHANGED tables
      BY <1>1, <1>2 DEF saveCompany, tables
    <2>2. failures' = 0 => failures = 0
      BY <2>1, SerialKnown DEF Refused
    <2>. QED BY <1>1, <2>1, <2>2, SerialEnd
  <1>3. CASE FormFits(r.form, CompanyFields)
    <2>1. /\ r \in Request /\ r.company \in Companies /\ r.form \in Form
          /\ r.readCompany \in Company
      BY <1>1, SerialKnown DEF RequestOK, Filling
    <2>2. /\ companies' = [companies EXCEPT ![r.company] = company]
          /\ req' = [req EXCEPT ![c] = q] /\ failures' = failures
      BY <1>3 DEF saveCompany, Go
    <2>3. /\ q.pc = "saveInformation" /\ q.form = r.form /\ q.readCompany = r.readCompany
          /\ q.readInformation = r.readInformation /\ q.remove = r.remove /\ q.entry = r.entry
          /\ q.company = r.company /\ q.lost = r.lost
      BY <2>1 DEF Request
    <2>. HIDE DEF q
    <2>4. company.values = Merge(r.readCompany.values, r.form)
      BY <2>1 DEF Company
    <2>5. r.readCompany.user \in Users /\ Submitted(r.form) =>
            company.values["position"] = "good"
      <3>1. r.readCompany.values \in [CompanyFields -> StoredValues]
        BY <2>1 DEF Company
      <3>2. r.readCompany.user \in Users => Sent(r.form)
        BY <1>1, SerialKnown DEF SerialOK, ReadOK, Filling
      <3>. QED BY <2>1, <2>4, <3>1, <3>2, SubmittedPosition
    <2>. HIDE DEF company
    <2>6. \A k \in Companies : companies'[k] = IF k = r.company THEN company ELSE companies[k]
      BY <2>2, SerialKnown DEF TablesOK
    <2>7. SerialOK(q, companies', informations', finances', files', failures')
      <3>1. FilesOK(q, files') /\ YearOK(q, finances')
        BY <1>1, <2>3, SerialKnown DEF SerialOK, FilesOK, YearOK, Showing
      <3>2. ReadOK(q)
        BY <1>1, <2>3, SerialKnown DEF SerialOK, ReadOK, Filling
      <3>3. r.entry = 1
        BY <1>1, SerialKnown DEF SerialOK, ReadOK
      <3>4. \A i \in DOMAIN r.form.financial_data : ~ (i < 1)
        <4>1. r.form.financial_data \in Seq([year: Nat, data: {"all", "some", "null", "long"}])
          BY <2>1 DEF Form
        <4>. QED BY <4>1, LenProperties
      <3>5. WrittenOK(q, companies', informations', finances')
        BY <2>1, <2>3, <2>5, <2>6, <3>3, <3>4 DEF WrittenOK
      <3>6. q.lost => failures' # 0
        BY <2>2, <2>3, SerialKnown DEF SerialOK
      <3>. QED BY <3>1, <3>2, <3>5, <3>6 DEF SerialOK
    <2>8. WholeOrWritten'
      BY <1>1, <2>2, <2>3, <2>6, WholeStays DEF Saved, Filling
    <2>. QED BY <1>1, <2>2, <2>7, <2>8, SerialStep DEF SerialInv
  <1>. QED BY <1>2, <1>3

LEMMA SerialSaveInformation ==
  ASSUME OneAtATime, SerialInv, RecordsInv', NEW c \in Clients, saveInformation(c)
  PROVE  SerialInv'
  <1>. DEFINE r == req[c]
              new == [status |-> r.form.status, values |-> Merge(r.readInformation.values, r.form)]
              q == [r EXCEPT !.pc = "files"]
  <1>1. /\ r.pc = "saveInformation" /\ UNCHANGED <<companies, finances, files, objects, year>>
        /\ r.pc \in Saved
    BY DEF saveInformation, Saved, Filling
  <1>2. CASE End(c) /\ Refused /\ UNCHANGED informations
    <2>1. failures' # 0 /\ UNCHANGED tables
      BY <1>1, <1>2, SerialKnown, FailuresAssumption DEF Refused, tables
    <2>. QED BY <1>1, <1>2, <2>1, SerialEnd
  <1>3. CASE /\ informations' = [informations EXCEPT ![r.company] = new]
             /\ Go(c, "files") /\ UNCHANGED failures /\ FormFits(r.form, InformationFields)
    <2>1. /\ r \in Request /\ r.company \in Companies /\ r.form \in Form
          /\ r.readInformation \in CompanyInformation
      BY <1>1, SerialKnown DEF RequestOK, Filling
    <2>2. req' = [req EXCEPT ![c] = q]
      BY <1>3 DEF Go
    <2>3. /\ q.pc = "files" /\ q.form = r.form /\ q.readCompany = r.readCompany
          /\ q.readInformation = r.readInformation /\ q.remove = r.remove /\ q.entry = r.entry
          /\ q.company = r.company /\ q.lost = r.lost
      BY <2>1 DEF Request
    <2>. HIDE DEF q
    <2>4. r.readInformation.values \in [InformationFields -> StoredValues]
      BY <2>1 DEF CompanyInformation
    <2>5. new # NoInformation
      <3>1. new.values \in [InformationFields -> StoredValues]
        BY <1>3, <2>1, <2>4, MergeTyped
      <3>2. new \in CompanyInformation
        BY <2>1, <3>1 DEF CompanyInformation, Form
      <3>. QED BY <3>2, NothingAssumption
    <2>6. r.readCompany.user \in Users /\ Submitted(r.form) => InformationIsWhole(new.values)
      <3>1. r.readCompany.user \in Users => Sent(r.form)
        BY <1>1, SerialKnown DEF SerialOK, ReadOK, Filling
      <3>. QED BY <1>3, <2>1, <2>4, <3>1, SubmittedInformation
    <2>7. new.status = r.form.status
      OBVIOUS
    <2>8. informations' = [informations EXCEPT ![r.company] = new]
      BY <1>3
    <2>. HIDE DEF new
    <2>9. \A k \in Companies :
             informations'[k] = IF k = r.company THEN new ELSE informations[k]
      BY <2>8, SerialKnown DEF TablesOK
    <2>10. SerialOK(q, companies', informations', finances', files', failures')
      <3>1. FilesOK(q, files') /\ YearOK(q, finances')
        BY <1>1, <2>3, SerialKnown DEF SerialOK, FilesOK, YearOK, Showing
      <3>2. ReadOK(q)
        BY <1>1, <2>3, SerialKnown DEF SerialOK, ReadOK, Filling
      <3>3. WrittenOK(q, companies', informations', finances')
        BY <1>1, <1>3, <2>1, <2>3, <2>5, <2>6, <2>7, <2>9, SerialKnown
           DEF SerialOK, WrittenOK, Saved, Filling
      <3>4. q.lost => failures' # 0
        BY <1>3, <2>3, SerialKnown DEF SerialOK
      <3>. QED BY <3>1, <3>2, <3>3, <3>4 DEF SerialOK
    <2>11. WholeOrWritten'
      BY <1>1, <1>3, <2>2, <2>3, <2>9, WholeStays DEF Saved, Filling
    <2>. QED BY <1>1, <2>2, <2>10, <2>11, SerialStep DEF SerialInv
  <1>. QED BY <1>2, <1>3 DEF saveInformation

-----------------------------------------------------------------------------
(***************************************************************************)
(* The files.                                                              *)
(***************************************************************************)

\* The awaits after the information was saved.
After == Saved \ {"saveInformation"}

\* What was read and written is the same at the next await.
LEMMA GoesOn ==
  ASSUME OneAtATime, SerialInv, NEW c \in Clients, NEW q, req[c].pc \in After,
         q.pc \in After \ {"answer"}, q.company = req[c].company, q.form = req[c].form,
         q.readCompany = req[c].readCompany, q.readInformation = req[c].readInformation,
         q.lost = req[c].lost
  PROVE  /\ ReadOK(q) /\ req[c].pc \in Saved /\ q.pc \in Saved
         /\ q.entry = req[c].entry => WrittenOK(q, companies, informations, finances)
         /\ q.lost => failures # 0
  <1>. DEFINE r == req[c]
  <1>1. ReadOK(r) /\ WrittenOK(r, companies, informations, finances) /\ (r.lost => failures # 0)
    BY SerialKnown DEF SerialOK
  <1>2. ReadOK(q)
    BY <1>1 DEF ReadOK, After, Saved
  <1>. QED BY <1>1, <1>2 DEF WrittenOK, After

LEMMA SerialReadFiles ==
  ASSUME OneAtATime, SerialInv, RecordsInv', NEW c \in Clients, readFiles(c)
  PROVE  SerialInv'
  <1>. DEFINE r == req[c]
              existing == {f \in Files : files[f] # NoFile /\ files[f].information = r.company}
              remove == existing \ r.form.files
              add == r.form.files \ existing
              shown == {f \in existing \cap r.form.files : ~files[f].deleted}
              q == [r EXCEPT !.pc = "remove", !.remove = remove, !.add = add, !.shown = shown]
  <1>1. /\ r.pc = "files" /\ r \in Request /\ req' = [req EXCEPT ![c] = q]
        /\ UNCHANGED tables /\ UNCHANGED <<year, failures>>
    BY SerialKnown DEF readFiles
  <1>2. shown = Listed(files, r.company) \ remove
    BY DEF Listed
  <1>3. \A f \in remove : files[f].information = r.company
    OBVIOUS
  <1>. HIDE DEF shown, remove, add
  <1>4. /\ q.pc = "remove" /\ q.form = r.form /\ q.readCompany = r.readCompany
        /\ q.readInformation = r.readInformation /\ q.remove = remove /\ q.shown = shown
        /\ q.entry = r.entry /\ q.company = r.company /\ q.lost = r.lost
    BY <1>1 DEF Request
  <1>. HIDE DEF q
  <1>5. FilesOK(q, files) /\ YearOK(q, finances)
    BY <1>2, <1>3, <1>4 DEF FilesOK, YearOK
  <1>6. r.pc \in After /\ q.pc \in After \ {"answer"}
    BY <1>1, <1>4 DEF After, Saved, Filling
  <1>. QED BY <1>1, <1>4, <1>5, <1>6, GoesOn, SerialMove DEF SerialOK

\* A row of a file changes, and nothing else in the tables.
LEMMA SerialFileWrite ==
  ASSUME OneAtATime, SerialInv, RecordsInv', NEW c \in Clients,
         NEW q, req' = [req EXCEPT ![c] = q], SerialOK(q, companies, informations, finances, files', failures),
         req[c].pc \in Saved => q.pc \in Saved /\ q.company = req[c].company,
         UNCHANGED <<companies, informations, finances, year, failures>>
  PROVE  SerialInv'
  <1>1. WholeOrWritten'
    BY WholeStays
  <1>. QED BY <1>1, SerialStep DEF SerialInv

LEMMA SerialRemoveFile ==
  ASSUME OneAtATime, SerialInv, RecordsInv', NEW c \in Clients, NEW f \in Files, removeFile(c, f)
  PROVE  SerialInv'
  <1>. DEFINE r == req[c]
              q == [r EXCEPT !.remove = @ \ {f}]
              row == [files[f] EXCEPT !.deleted = TRUE]
  <1>1. /\ r.pc = "remove" /\ f \in r.remove /\ r \in Request
        /\ req' = [req EXCEPT ![c] = q] /\ files' = [files EXCEPT ![f] = row]
        /\ UNCHANGED <<companies, informations, finances, year, failures>>
    BY SerialKnown DEF removeFile
  <1>2. files[f] # NoFile /\ files[f] \in FileAttachments
    BY <1>1, SerialKnown DEF RequestOK, TablesOK
  <1>3. row.information = files[f].information /\ row.deleted
    BY <1>2 DEF FileAttachments
  <1>. HIDE DEF row
  <1>4. \A g \in Files : files'[g] = IF g = f THEN row ELSE files[g]
    BY <1>1, SerialKnown DEF TablesOK
  <1>5. /\ q.pc = "remove" /\ q.form = r.form /\ q.readCompany = r.readCompany
        /\ q.readInformation = r.readInformation /\ q.remove = r.remove \ {f}
        /\ q.shown = r.shown /\ q.entry = r.entry /\ q.company = r.company /\ q.lost = r.lost
    BY <1>1 DEF Request
  <1>. HIDE DEF q
  <1>6. Listed(files', r.company) = Listed(files, r.company) \ {f}
    BY <1>3, <1>4 DEF Listed
  <1>7. FilesOK(q, files')
    <2>1. r.shown = Listed(files, r.company) \ r.remove
          /\ \A g \in r.remove : files[g].information = r.company
      BY <1>1, SerialKnown DEF SerialOK, FilesOK, Showing
    <2>2. q.shown = Listed(files', q.company) \ q.remove
      BY <1>1, <1>5, <1>6, <2>1
    <2>3. r.remove \subseteq Files
      BY <1>1 DEF Request
    <2>4. \A g \in q.remove : files'[g].information = q.company
      BY <1>4, <1>5, <2>1, <2>3
    <2>. QED BY <1>5, <2>2, <2>4 DEF FilesOK
  <1>8. YearOK(q, finances)
    BY <1>5 DEF YearOK
  <1>9. r.pc \in After /\ q.pc \in After \ {"answer"}
    BY <1>1, <1>5 DEF After, Saved, Filling
  <1>. QED BY <1>1, <1>5, <1>7, <1>8, <1>9, GoesOn, SerialFileWrite DEF SerialOK

LEMMA SerialFindFile ==
  ASSUME OneAtATime, SerialInv, RecordsInv', NEW c \in Clients, NEW f \in Files, findFile(c, f)
  PROVE  SerialInv'
  <1>. DEFINE r == req[c]
              found == [r EXCEPT !.pc = "attach", !.found = f, !.add = @ \ {f}]
              passed == [r EXCEPT !.add = @ \ {f}]
  <1>1. /\ r.pc = "remove" /\ r.remove = {} /\ r \in Request
        /\ UNCHANGED tables /\ UNCHANGED <<year, failures>>
        /\ FilesOK(r, files) /\ r.pc \in After
    BY SerialKnown DEF findFile, SerialOK, After, Saved, Filling
  <1>2. CASE CanAttach(c, f)
    <2>1. req' = [req EXCEPT ![c] = found]
      BY <1>2 DEF findFile
    <2>2. /\ found.pc = "attach" /\ found.form = r.form /\ found.readCompany = r.readCompany
          /\ found.readInformation = r.readInformation /\ found.remove = {} /\ found.found = f
          /\ found.shown = r.shown /\ found.entry = r.entry /\ found.company = r.company
          /\ found.lost = r.lost
      BY <1>1 DEF Request
    <2>. HIDE DEF found
    <2>3. FilesOK(found, files) /\ YearOK(found, finances)
      BY <1>1, <1>2, <2>2 DEF FilesOK, YearOK, CanAttach, Showing
    <2>4. found.pc \in After \ {"answer"}
      BY <2>2 DEF After, Saved, Filling
    <2>. QED BY <1>1, <2>1, <2>2, <2>3, <2>4, GoesOn, SerialMove DEF SerialOK
  <1>3. CASE ~CanAttach(c, f)
    <2>1. req' = [req EXCEPT ![c] = passed]
      BY <1>3 DEF findFile
    <2>2. /\ passed.pc = "remove" /\ passed.form = r.form /\ passed.readCompany = r.readCompany
          /\ passed.readInformation = r.readInformation /\ passed.remove = {}
          /\ passed.shown = r.shown /\ passed.entry = r.entry /\ passed.company = r.company
          /\ passed.lost = r.lost
      BY <1>1 DEF Request
    <2>. HIDE DEF passed
    <2>3. FilesOK(passed, files) /\ YearOK(passed, finances)
      BY <1>1, <2>2 DEF FilesOK, YearOK, Showing
    <2>4. passed.pc \in After \ {"answer"}
      BY <2>2 DEF After, Saved, Filling
    <2>. QED BY <1>1, <2>1, <2>2, <2>3, <2>4, GoesOn, SerialMove DEF SerialOK
  <1>. QED BY <1>2, <1>3

LEMMA SerialAttachFile ==
  ASSUME OneAtATime, SerialInv, RecordsInv', NEW c \in Clients, attachFile(c)
  PROVE  SerialInv'
  <1>. DEFINE r == req[c]
              f == r.found
              row == [files[f] EXCEPT !.information = r.company, !.deleted = FALSE]
              q == [r EXCEPT !.pc = "remove", !.found = NoFile, !.shown = @ \cup {f}]
  <1>1. /\ r.pc = "attach" /\ r \in Request
        /\ req' = [req EXCEPT ![c] = q] /\ files' = [files EXCEPT ![f] = row]
        /\ UNCHANGED <<companies, informations, finances, year, failures>>
    BY SerialKnown DEF attachFile
  <1>2. f \in Files /\ files[f] # NoFile /\ files[f] \in FileAttachments
    BY <1>1, SerialKnown DEF RequestOK, TablesOK
  <1>3. row.information = r.company /\ ~row.deleted /\ row # NoFile
    <2>1. row.information = r.company /\ ~row.deleted
      BY <1>2 DEF FileAttachments
    <2>2. r.company \in Companies
      BY <1>1, SerialKnown DEF RequestOK, Filling
    <2>3. row \in FileAttachments
      BY <1>2, <2>2 DEF FileAttachments
    <2>. QED BY <2>1, <2>3, NothingAssumption
  <1>. HIDE DEF row
  <1>4. \A g \in Files : files'[g] = IF g = f THEN row ELSE files[g]
    BY <1>1, SerialKnown DEF TablesOK
  <1>5. /\ q.pc = "remove" /\ q.form = r.form /\ q.readCompany = r.readCompany
        /\ q.readInformation = r.readInformation /\ q.remove = r.remove
        /\ q.shown = r.shown \cup {f} /\ q.entry = r.entry /\ q.company = r.company /\ q.lost = r.lost
    BY <1>1 DEF Request
  <1>. HIDE DEF q
  <1>6. Listed(files', r.company) = Listed(files, r.company) \cup {f}
    BY <1>2, <1>3, <1>4 DEF Listed
  <1>7. FilesOK(q, files')
    <2>1. r.shown = Listed(files, r.company) \ r.remove /\ r.remove = {}
      BY <1>1, SerialKnown DEF SerialOK, FilesOK, Showing
    <2>. QED BY <1>5, <1>6, <2>1 DEF FilesOK
  <1>8. YearOK(q, finances)
    BY <1>5 DEF YearOK
  <1>9. r.pc \in After /\ q.pc \in After \ {"answer"}
    BY <1>1, <1>5 DEF After, Saved, Filling
  <1>. QED BY <1>1, <1>5, <1>7, <1>8, <1>9, GoesOn, SerialFileWrite DEF SerialOK

LEMMA SerialFilesDone ==
  ASSUME OneAtATime, SerialInv, RecordsInv', NEW c \in Clients, filesDone(c)
  PROVE  SerialInv'
  <1>. DEFINE r == req[c]
              q == [r EXCEPT !.pc = "year"]
  <1>1. /\ r.pc = "remove" /\ r.remove = {} /\ r \in Request /\ FilesOK(r, files)
        /\ req' = [req EXCEPT ![c] = q] /\ UNCHANGED tables /\ UNCHANGED <<year, failures>>
    BY SerialKnown DEF filesDone, Go, SerialOK
  <1>2. /\ q.pc = "year" /\ q.form = r.form /\ q.readCompany = r.readCompany
        /\ q.readInformation = r.readInformation /\ q.remove = {}
        /\ q.shown = r.shown /\ q.entry = r.entry /\ q.company = r.company /\ q.lost = r.lost
    BY <1>1 DEF Request
  <1>. HIDE DEF q
  <1>3. FilesOK(q, files) /\ YearOK(q, finances)
    BY <1>1, <1>2 DEF FilesOK, YearOK, Showing
  <1>4. r.pc \in After /\ q.pc \in After \ {"answer"}
    BY <1>1, <1>2 DEF After, Saved, Filling
  <1>. QED BY <1>1, <1>2, <1>3, <1>4, GoesOn, SerialMove DEF SerialOK

-----------------------------------------------------------------------------
(***************************************************************************)
(* Uploads, and requests that end.                                         *)
(***************************************************************************)

LEMMA SerialUploads ==
  ASSUME OneAtATime, SerialInv, RecordsInv', NEW c \in Clients, NEW f \in Files,
         uploadFile(c, f) \/ createFile(c, f) \/ fileFails(c, f)
  PROVE  SerialInv'
  <1>. DEFINE r == req[c]
              row == [user |-> r.by, information |-> NoCompany, deleted |-> FALSE]
              q == req'[c]
  <1>1. /\ r \in Request /\ files \in [Files -> FileAttachments \cup {NoFile}]
        /\ failures \in Nat /\ RequestOK(r, companies, finances, files, objects)
        /\ SerialOK(r, companies, informations, finances, files, failures)
        /\ req \in [Clients -> Request]
    BY SerialKnown DEF TablesOK
  <1>2. /\ req' = [req EXCEPT ![c] = q]
        /\ q.pc = r.pc /\ q.form = r.form /\ q.readCompany = r.readCompany /\ q.op = r.op
        /\ q.readInformation = r.readInformation /\ q.remove = r.remove /\ q.found = r.found
        /\ q.shown = r.shown /\ q.entry = r.entry /\ q.company = r.company /\ q.row = r.row
        /\ q.lost = r.lost
    BY <1>1 DEF uploadFile, createFile, fileFails, Request
  <1>3. /\ UNCHANGED <<companies, informations, finances, year>>
        /\ failures' = 0 => failures = 0
    BY <1>1 DEF uploadFile, createFile, fileFails, CallFails, tables
  <1>4. \/ UNCHANGED files
        \/ files[f] = NoFile /\ files' = [files EXCEPT ![f] = row]
    BY DEF uploadFile, createFile, fileFails, tables, SerialInv, RecordsInv, NewFiles, Underway
  <1>. HIDE DEF q
  <1>5. FilesOK(q, files')
    <2>1. CASE UNCHANGED files
      BY <1>1, <1>2, <2>1 DEF SerialOK, FilesOK
    <2>2. CASE files[f] = NoFile /\ files' = [files EXCEPT ![f] = row]
      <3>1. row.information = NoCompany
        OBVIOUS
      <3>. HIDE DEF row
      <3>2. \A g \in Files : files'[g] = IF g = f THEN row ELSE files[g]
        BY <1>1, <2>2
      <3>3. r.remove \subseteq Files /\ f \notin r.remove
        BY <1>1, <2>2 DEF RequestOK, Request
      <3>4. r.pc = "attach" => files'[r.found] = files[r.found]
        BY <1>1, <2>2, <3>2 DEF RequestOK
      <3>5. r.pc \in Showing => r.company # NoCompany
        BY <1>1, NothingAssumption DEF RequestOK, Showing, Filling
      <3>6. r.pc \in Showing => Listed(files', r.company) = Listed(files, r.company)
        BY <2>2, <3>1, <3>2, <3>5 DEF Listed
      <3>. QED BY <1>1, <1>2, <3>2, <3>3, <3>4, <3>6 DEF SerialOK, FilesOK
    <2>. QED BY <1>4, <2>1, <2>2
  <1>6. YearOK(q, finances) /\ ReadOK(q)
    BY <1>1, <1>2 DEF SerialOK, YearOK, ReadOK
  <1>7. WrittenOK(q, companies, informations, finances)
    BY <1>1, <1>2, <1>3 DEF SerialOK, WrittenOK
  <1>8. WholeOrWritten'
    BY <1>2, <1>3, WholeStays
  <1>9. q.lost => failures' # 0
    BY <1>1, <1>2, <1>3 DEF SerialOK
  <1>10. SerialOK(q, companies', informations', finances', files', failures')
    BY <1>3, <1>5, <1>6, <1>7, <1>9 DEF SerialOK
  <1>. QED BY <1>2, <1>3, <1>8, <1>10, SerialStep DEF SerialInv

LEMMA SerialStartUpload ==
  ASSUME OneAtATime, SerialInv, RecordsInv', NEW c \in Clients, startUpload(c)
  PROVE  SerialInv'
  <1>1. PICK p \in People, fs \in Uploads :
           Begin(c, [Idle EXCEPT !.pc = "sending", !.op = "upload", !.by = p, !.sending = fs])
    BY DEF startUpload
  <1>. DEFINE q == [Idle EXCEPT !.pc = "sending", !.op = "upload", !.by = p, !.sending = fs]
  <1>2. /\ req' = [req EXCEPT ![c] = q] /\ req[c].pc = "idle"
        /\ UNCHANGED tables /\ UNCHANGED <<year, failures>>
    BY <1>1 DEF Begin
  <1>3. q.pc = "sending" /\ q.remove = {} /\ ~ q.lost
    BY DEF Idle
  <1>. HIDE DEF q
  <1>4. SerialOK(q, companies, informations, finances, files, failures')
    BY <1>3 DEF SerialOK, FilesOK, YearOK, ReadOK, WrittenOK, Showing, Filling, Saved
  <1>5. req[c].pc \notin Saved
    BY <1>2 DEF Saved, Filling
  <1>. QED BY <1>2, <1>4, <1>5, SerialMove

LEMMA SerialAllSent ==
  ASSUME OneAtATime, SerialInv, RecordsInv', NEW c \in Clients, allSent(c)
  PROVE  SerialInv'
  BY SerialEnd DEF allSent, Saved, Filling

LEMMA SerialCutOff ==
  ASSUME OneAtATime, SerialInv, RecordsInv', NEW c \in Clients, cutOff(c)
  PROVE  SerialInv'
  <1>1. End(c) /\ failures' # 0 /\ UNCHANGED tables /\ year' = year
    BY SerialKnown DEF cutOff, CallFails
  <1>. QED BY <1>1, SerialEnd

-----------------------------------------------------------------------------
(***************************************************************************)
(* The years.                                                              *)
(***************************************************************************)

\* The request stays with its company and its files while it saves the years.
LEMMA YearsGoOn ==
  ASSUME OneAtATime, SerialInv, NEW c \in Clients, NEW q,
         req[c].pc \in {"year", "saveYear"}, q.pc \in {"year", "saveYear", "answer"},
         q.company = req[c].company, q.form = req[c].form,
         q.readCompany = req[c].readCompany, q.readInformation = req[c].readInformation,
         q.remove = req[c].remove, q.shown = req[c].shown
  PROVE  FilesOK(q, files) /\ ReadOK(q) /\ req[c].pc \in Saved /\ q.pc \in Saved
  <1>1. FilesOK(req[c], files) /\ ReadOK(req[c])
    BY SerialKnown DEF SerialOK
  <1>. QED BY <1>1 DEF FilesOK, ReadOK, Showing, Saved, Filling

LEMMA SerialFindYear ==
  ASSUME OneAtATime, SerialInv, RecordsInv', NEW c \in Clients, NEW mode \in {"add", "edit"},
         mode = "add" => req[c].op \in Creating, findYear(c, mode)
  PROVE  SerialInv'
  <1>. DEFINE r == req[c]
              rows == finances[r.company]
              y == r.form.financial_data[r.entry].year
              Found(q) ==
                 /\ q.pc = "saveYear" /\ q.form = r.form /\ q.readCompany = r.readCompany
                 /\ q.op = r.op /\ q.readInformation = r.readInformation
                 /\ q.remove = r.remove /\ q.shown = r.shown
                 /\ q.entry = r.entry /\ q.company = r.company /\ q.lost = r.lost
                 /\ \/ q.row = 0 /\ (mode = "edit" => \A i \in DOMAIN rows : rows[i].year # y)
                    \/ q.row \in DOMAIN rows /\ rows[q.row].year = y
  <1>1. /\ r \in Request /\ req \in [Clients -> Request] /\ r.pc = "year" /\ r.row = 0
        /\ UNCHANGED tables /\ UNCHANGED <<year, failures>> /\ HasEntry(c)
    BY SerialKnown DEF findYear, RequestOK
  <1>2. ASSUME Go(c, "saveYear"), mode = "edit" => \A i \in DOMAIN rows : rows[i].year # y
        PROVE  \E q : req' = [req EXCEPT ![c] = q] /\ Found(q)
    <2>. DEFINE q == [r EXCEPT !.pc = "saveYear"]
    <2>1. req' = [req EXCEPT ![c] = q]
      BY <1>2 DEF Go
    <2>2. Found(q)
      BY <1>1, <1>2 DEF Request
    <2>. QED BY <2>1, <2>2
  <1>3. ASSUME NEW i \in DOMAIN rows, rows[i].year = y,
               req' = [req EXCEPT ![c].pc = "saveYear", ![c].row = i,
                                  ![c].wasWhole = rows[i].whole]
        PROVE  \E q : req' = [req EXCEPT ![c] = q] /\ Found(q)
    <2>. DEFINE q == [r EXCEPT !.pc = "saveYear", !.row = i, !.wasWhole = rows[i].whole]
    <2>1. req' = [req EXCEPT ![c] = q]
      BY <1>3
    <2>2. Found(q)
      BY <1>1, <1>3 DEF Request
    <2>. QED BY <2>1, <2>2
  <1>4. \E q : req' = [req EXCEPT ![c] = q] /\ Found(q)
    BY <1>2, <1>3 DEF findYear, Entry
  <1>5. 0 \notin DOMAIN rows
    <2>1. r.company \in Companies
      BY <1>1, SerialKnown DEF RequestOK, Filling
    <2>2. rows \in Seq(CompanyFinancialData)
      BY <2>1, SerialKnown DEF TablesOK
    <2>. QED BY <2>2, LenProperties
  <1>6. PICK q : req' = [req EXCEPT ![c] = q] /\ Found(q)
    BY <1>4
  <1>7. YearOK(q, finances)
    BY <1>6, <1>5 DEF YearOK
  <1>8. FilesOK(q, files) /\ ReadOK(q) /\ q.pc \in Saved
    BY <1>1, <1>6, YearsGoOn
  <1>9. WrittenOK(q, companies, informations, finances)
    BY <1>1, <1>6, SerialKnown DEF SerialOK, WrittenOK, Saved, Filling
  <1>10. q.lost => failures # 0
    BY <1>6, SerialKnown DEF SerialOK
  <1>. QED BY <1>1, <1>6, <1>7, <1>8, <1>9, <1>10, SerialMove DEF SerialOK

\* A row that is saved whole is there, and no whole row goes.
LEMMA YearIsAdded ==
  ASSUME NEW rows \in Seq(CompanyFinancialData), NEW y \in Nat
  PROVE  LET saved == Append(rows, [year |-> y, whole |-> TRUE])
         IN HasYear(saved, y) /\ \A z : HasYear(rows, z) => HasYear(saved, z)
  <1>. DEFINE new == [year |-> y, whole |-> TRUE]
              saved == Append(rows, new)
  <1>1. new \in CompanyFinancialData
    BY DEF CompanyFinancialData
  <1>2. saved[Len(rows) + 1] = new /\ Len(saved) = Len(rows) + 1
        /\ saved \in Seq(CompanyFinancialData)
        /\ \A i \in 1 .. Len(rows) : saved[i] = rows[i]
    BY <1>1, AppendProperties
  <1>3. Len(rows) \in Nat /\ DOMAIN rows = 1 .. Len(rows) /\ DOMAIN saved = 1 .. Len(saved)
    BY <1>2, LenProperties
  <1>. HIDE DEF saved
  <1>4. HasYear(saved, y)
    BY <1>2, <1>3 DEF HasYear
  <1>. HIDE DEF new
  <1>5. \A i \in DOMAIN rows : i \in DOMAIN saved /\ saved[i] = rows[i]
    BY <1>2, <1>3
  <1>6. HasYear(saved, y) /\ \A z : HasYear(rows, z) => HasYear(saved, z)
    BY <1>4, <1>5 DEF HasYear
  <1>. QED BY <1>6 DEF saved, new

LEMMA YearIsReplaced ==
  ASSUME NEW rows \in Seq(CompanyFinancialData), NEW row \in DOMAIN rows
  PROVE  LET saved == [rows EXCEPT ![row].whole = TRUE]
         IN HasYear(saved, rows[row].year) /\ \A z : HasYear(rows, z) => HasYear(saved, z)
  <1>. DEFINE saved == [rows EXCEPT ![row].whole = TRUE]
  <1>1. rows[row] \in CompanyFinancialData
    BY LenProperties, ElementOfSeq
  <1>2. /\ DOMAIN saved = DOMAIN rows /\ saved[row] = [rows[row] EXCEPT !.whole = TRUE]
        /\ \A i \in DOMAIN rows \ {row} : saved[i] = rows[i]
    OBVIOUS
  <1>. HIDE DEF saved
  <1>3. saved[row] = [year |-> rows[row].year, whole |-> TRUE]
    BY <1>1, <1>2 DEF CompanyFinancialData
  <1>4. HasYear(saved, rows[row].year)
    BY <1>2, <1>3 DEF HasYear
  <1>5. ASSUME NEW z, HasYear(rows, z)
        PROVE  HasYear(saved, z)
    <2>1. PICK i \in DOMAIN rows : rows[i] = [year |-> z, whole |-> TRUE]
      BY <1>5 DEF HasYear
    <2>2. CASE i = row
      BY <1>4, <2>1, <2>2
    <2>3. CASE i # row
      BY <1>2, <2>1, <2>3 DEF HasYear
    <2>. QED BY <2>2, <2>3
  <1>6. HasYear(saved, rows[row].year) /\ \A z : HasYear(rows, z) => HasYear(saved, z)
    BY <1>4, <1>5
  <1>. QED BY <1>6 DEF saved

\* A submitted form holds all amounts of every year it names.
LEMMA SubmittedAmounts ==
  ASSUME NEW form \in Form, Sent(form), Submitted(form), NEW i \in DOMAIN form.financial_data
  PROVE  form.financial_data[i].data \in {"all", "long"}
  <1>1. PICK y \in FirstYear .. LastYear : CompanyInformationDto(form, y)
    BY DEF Sent
  <1>. QED BY <1>1 DEF CompanyInformationDto, CombinedFinancialData

LEMMA SerialSaveYear ==
  ASSUME OneAtATime, SerialInv, RecordsInv', NEW c \in Clients, saveYear(c)
  PROVE  SerialInv'
  <1>. DEFINE r == req[c]
              k == r.company
              e == Entry(c)
              rows == finances[k]
              w == e.data = "all" \/ (e.data = "some" /\ r.wasWhole)
              saved == IF r.row = 0 THEN Append(rows, [year |-> e.year, whole |-> w])
                                    ELSE [rows EXCEPT ![r.row].whole = w]
              q == req'[c]
  <1>1. /\ r \in Request /\ req \in [Clients -> Request] /\ r.pc = "saveYear" /\ k \in Companies
        /\ UNCHANGED <<companies, informations, files, objects, year>> /\ r.form \in Form
        /\ HasEntry(c) /\ e.year \in Nat /\ RequestOK(r, companies, finances, files, objects)
    <2>1. /\ r.pc = "saveYear" /\ r \in Request /\ req \in [Clients -> Request]
          /\ RequestOK(r, companies, finances, files, objects)
          /\ UNCHANGED <<companies, informations, files, objects, year>>
      BY SerialKnown DEF saveYear
    <2>2. HasEntry(c) /\ r.form \in Form
      BY <2>1, SerialKnown DEF RequestOK, HasEntry, Filling
    <2>3. k \in Companies /\ e.year \in Nat
      BY <2>1, <2>2, EntryKnown DEF SerialInv
    <2>. QED BY <2>1, <2>2, <2>3
  <1>2. /\ req' = [req EXCEPT ![c] = q]
        /\ q.pc = "year" /\ q.form = r.form /\ q.readCompany = r.readCompany
        /\ q.readInformation = r.readInformation /\ q.remove = r.remove /\ q.shown = r.shown
        /\ q.entry = r.entry + 1 /\ q.company = r.company
        /\ q.lost <=> r.lost \/ ~AmountsFit(e, r.row, r.wasWhole)
    BY <1>1 DEF saveYear, NextEntry, Request
  <1>. HIDE DEF q
  <1>3. FilesOK(q, files') /\ ReadOK(q) /\ YearOK(q, finances') /\ r.pc \in Saved /\ q.pc \in Saved
    BY <1>1, <1>2, YearsGoOn DEF YearOK
  <1>4. CASE ~AmountsFit(e, r.row, r.wasWhole) /\ UNCHANGED finances /\ Refused
    <2>1. failures' # 0
      BY <1>4, SerialKnown, FailuresAssumption DEF Refused
    <2>2. SerialOK(q, companies', informations', finances', files', failures')
      BY <1>2, <1>3, <1>4, <2>1 DEF SerialOK, WrittenOK
    <2>3. UNCHANGED tables
      BY <1>1, <1>4 DEF tables
    <2>. QED BY <1>1, <1>2, <1>3, <2>1, <2>2, <2>3, SerialMove DEF tables
  <1>5. CASE /\ AmountsFit(e, r.row, r.wasWhole) /\ UNCHANGED failures
             /\ finances' = [finances EXCEPT ![k] = saved]
    <2>1. rows \in Seq(CompanyFinancialData)
      BY <1>1, SerialKnown DEF TablesOK
    <2>2. r.row # 0 => r.row \in DOMAIN rows /\ rows[r.row].year = e.year
      BY <1>1, SerialKnown DEF RequestOK, SerialOK, YearOK, Entry
    <2>3. \A j \in Companies : finances'[j] = IF j = k THEN saved ELSE finances[j]
      BY <1>5, SerialKnown DEF TablesOK
    <2>4. WrittenOK(q, companies', informations', finances')
      <3>. SUFFICES ASSUME ~ r.lost
                    PROVE  /\ /\ informations[k] # NoInformation
                              /\ informations[k].status = r.form.status
                           /\ r.readCompany.user \in Users /\ Submitted(r.form) =>
                                /\ companies[k].values["position"] = "good"
                                /\ InformationIsWhole(informations[k].values)
                                /\ \A i \in DOMAIN r.form.financial_data :
                                      i < r.entry + 1 => HasYear(saved, r.form.financial_data[i].year)
        BY <1>1, <1>2, <1>5, <2>3 DEF WrittenOK
      <3>1. /\ informations[k] # NoInformation
            /\ informations[k].status = r.form.status
            /\ r.readCompany.user \in Users /\ Submitted(r.form) =>
                 /\ companies[k].values["position"] = "good"
                 /\ InformationIsWhole(informations[k].values)
                 /\ \A i \in DOMAIN r.form.financial_data :
                       i < r.entry => HasYear(rows, r.form.financial_data[i].year)
        BY <1>1, <1>3, SerialKnown DEF SerialOK, WrittenOK
      <3>2. ASSUME r.readCompany.user \in Users, Submitted(r.form),
                   NEW i \in DOMAIN r.form.financial_data, i < r.entry + 1
            PROVE  HasYear(saved, r.form.financial_data[i].year)
        <4>1. /\ r.form.financial_data \in Seq([year: Nat, data: {"all", "some", "null", "long"}])
              /\ r.entry \in Nat \ {0}
          BY <1>1 DEF Form, Request, RequestOK
        <4>2. /\ DOMAIN r.form.financial_data = 1 .. Len(r.form.financial_data)
              /\ Len(r.form.financial_data) \in Nat
          BY <4>1, LenProperties
        <4>3. r.entry \in DOMAIN r.form.financial_data
          BY <1>1, <4>1, <4>2 DEF HasEntry
        <4>4. Sent(r.form)
          BY <1>1, <3>2, SerialKnown DEF SerialOK, ReadOK, Filling
        <4>5. e.data = "all"
          BY <1>1, <1>5, <3>2, <4>3, <4>4, SubmittedAmounts DEF AmountsFit, Entry
        <4>6. w = TRUE
          BY <4>5
        <4>7. HasYear(saved, e.year) /\ \A z : HasYear(rows, z) => HasYear(saved, z)
          <5>1. CASE r.row = 0
            <6>1. saved = Append(rows, [year |-> e.year, whole |-> TRUE])
              BY <4>6, <5>1
            <6>. QED BY <1>1, <2>1, <6>1, YearIsAdded
          <5>2. CASE r.row # 0
            <6>1. saved = [rows EXCEPT ![r.row].whole = TRUE]
              BY <4>6, <5>2
            <6>2. r.row \in DOMAIN rows /\ rows[r.row].year = e.year
              BY <2>2, <5>2
            <6>. HIDE DEF saved, rows, r, e
            <6>3. HasYear(saved, rows[r.row].year)
                  /\ \A z : HasYear(rows, z) => HasYear(saved, z)
              BY <2>1, <6>1, <6>2, YearIsReplaced
            <6>. QED BY <6>2, <6>3
          <5>. QED BY <5>1, <5>2
        <4>. HIDE DEF saved, rows
        <4>8. CASE i = r.entry
          BY <4>7, <4>8 DEF Entry
        <4>9. CASE i # r.entry
          <5>1. i < r.entry
            BY <3>2, <4>1, <4>2, <4>9
          <5>. QED BY <3>1, <3>2, <4>7, <5>1
        <4>. QED BY <4>8, <4>9
      <3>. QED BY <3>1, <3>2
    <2>5. WholeOrWritten'
      BY <1>1, <1>2, <1>3, <1>5, <2>3, WholeStays
    <2>6. SerialOK(q, companies', informations', finances', files', failures')
      BY <1>2, <1>3, <1>5, <2>4, SerialKnown DEF SerialOK
    <2>. QED BY <1>1, <1>2, <2>5, <2>6, SerialStep DEF SerialInv
  <1>. QED BY <1>4, <1>5 DEF saveYear

LEMMA SerialYearFails ==
  ASSUME OneAtATime, SerialInv, RecordsInv', NEW c \in Clients, yearFails(c)
  PROVE  SerialInv'
  <1>. DEFINE r == req[c]
              q == req'[c]
  <1>1. /\ r \in Request /\ req \in [Clients -> Request] /\ r.pc \in {"year", "saveYear"}
        /\ UNCHANGED tables /\ UNCHANGED year /\ failures' # 0
    BY SerialKnown DEF yearFails, CallFails
  <1>2. /\ req' = [req EXCEPT ![c] = q]
        /\ q.pc = "year" /\ q.form = r.form /\ q.readCompany = r.readCompany
        /\ q.readInformation = r.readInformation /\ q.remove = r.remove /\ q.shown = r.shown
        /\ q.company = r.company /\ q.lost
    BY <1>1 DEF yearFails, NextEntry, Request
  <1>. HIDE DEF q
  <1>3. SerialOK(q, companies, informations, finances, files, failures')
    BY <1>1, <1>2, YearsGoOn DEF SerialOK, YearOK, WrittenOK
  <1>. QED BY <1>1, <1>2, <1>3, SerialMove

LEMMA SerialYearsDone ==
  ASSUME OneAtATime, SerialInv, RecordsInv', NEW c \in Clients, yearsDone(c)
  PROVE  SerialInv'
  <1>. DEFINE r == req[c]
              q == [r EXCEPT !.pc = "answer"]
  <1>1. /\ r \in Request /\ r.pc = "year" /\ req' = [req EXCEPT ![c] = q]
        /\ UNCHANGED tables /\ UNCHANGED <<year, failures>>
        /\ ~(r.entry <= Len(r.form.financial_data)) /\ r.form \in Form
    BY SerialKnown DEF yearsDone, Go, HasEntry, Filling
  <1>2. /\ q.pc = "answer" /\ q.form = r.form /\ q.readCompany = r.readCompany
        /\ q.readInformation = r.readInformation /\ q.remove = r.remove /\ q.shown = r.shown
        /\ q.entry = r.entry /\ q.company = r.company /\ q.lost = r.lost
    BY <1>1 DEF Request
  <1>. HIDE DEF q
  <1>3. r.entry > Len(r.form.financial_data)
    <2>1. Len(r.form.financial_data) \in Nat /\ r.entry \in Nat
      BY <1>1, LenProperties DEF Form, Request
    <2>. QED BY <1>1, <2>1
  <1>4. FilesOK(q, files) /\ ReadOK(q) /\ r.pc \in Saved /\ q.pc \in Saved /\ YearOK(q, finances)
    BY <1>1, <1>2, YearsGoOn DEF YearOK
  <1>5. WrittenOK(q, companies, informations, finances)
    BY <1>1, <1>2, <1>3, <1>4, SerialKnown DEF SerialOK, WrittenOK
  <1>6. q.lost => failures # 0
    BY <1>2, SerialKnown DEF SerialOK
  <1>. QED BY <1>1, <1>2, <1>4, <1>5, <1>6, SerialMove DEF SerialOK

\* What a request that comes to its answer and has lost nothing has left is whole.
LEMMA AnswerIsWhole ==
  ASSUME OneAtATime, SerialInv, NEW c \in Clients, req[c].pc = "answer", ~ req[c].lost
  PROVE  LET k == req[c].company
         IN /\ k \in Companies /\ informations[k] # NoInformation
            /\ informations[k].status = req[c].form.status
            /\ companies[k].user \in Users /\ Submitted(req[c].form) => IsWhole(k)
  <1>. DEFINE r == req[c]
              k == r.company
  <1>1. /\ r.pc \in Saved /\ r.form \in Form /\ RequestOK(r, companies, finances, files, objects)
        /\ ReadOK(r) /\ WrittenOK(r, companies, informations, finances)
    BY SerialKnown DEF Saved, Filling, SerialOK
  <1>2. /\ k \in Companies /\ informations[k] # NoInformation
        /\ informations[k].status = r.form.status
    BY <1>1 DEF RequestOK, WrittenOK, Filling
  <1>3. ASSUME companies[k].user \in Users, Submitted(r.form)
        PROVE  IsWhole(k)
    <2>1. r.readCompany.user \in Users
      BY <1>1, <1>3 DEF RequestOK, SameOwner, Filling
    <2>2. Sent(r.form)
      BY <1>1, <2>1 DEF ReadOK, Filling
    <2>3. PICK y \in FirstYear .. LastYear : CompanyInformationDto(r.form, y)
      BY <2>2 DEF Sent
    <2>4. ASSUME NEW z \in RequiredYears(y)
          PROVE  HasYear(finances[k], z)
      <3>1. PICK i \in DOMAIN r.form.financial_data : r.form.financial_data[i].year = z
        <4>1. {e.year : e \in {r.form.financial_data[i] : i \in DOMAIN r.form.financial_data}}
                 = RequiredYears(y)
          BY <1>3, <2>3 DEF CompanyInformationDto, CombinedFinancialData
        <4>. QED BY <2>4, <4>1
      <3>2. i < r.entry
        <4>1. Len(r.form.financial_data) \in Nat
              /\ DOMAIN r.form.financial_data = 1 .. Len(r.form.financial_data)
          BY <1>1, LenProperties DEF Form
        <4>2. r.entry > Len(r.form.financial_data) /\ r.entry \in Nat
          BY <1>1, SerialKnown DEF WrittenOK, Request
        <4>. QED BY <4>1, <4>2
      <3>. QED BY <1>1, <1>3, <2>1, <3>1, <3>2 DEF WrittenOK
    <2>. QED BY <1>1, <1>3, <2>1, <2>4 DEF WrittenOK, IsWhole
  <1>. QED BY <1>2, <1>3

LEMMA SerialAnswer ==
  ASSUME OneAtATime, SerialInv, RecordsInv', NEW c \in Clients, answer(c)
  PROVE  SerialInv'
  <1>. DEFINE r == req[c]
  <1>1. /\ r.pc = "answer" /\ req' = [req EXCEPT ![c] = Idle]
        /\ UNCHANGED <<companies, informations, finances, files, year, failures>>
        /\ r.lost => failures # 0
    BY SerialKnown DEF answer, End, tables, SerialOK
  <1>2. ASSUME failures = 0, NEW u \in Users, NEW k \in getCompanyInfo(u),
               informations[k].status = "SUBMITTED"
        PROVE  IsWhole(k)
    <2>1. CASE k = r.company
      BY <1>1, <1>2, <2>1, AnswerIsWhole DEF getCompanyInfo, getCompaniesOfUser, Submitted
    <2>2. CASE k # r.company
      BY <1>2, <2>2, SerialKnown DEF SerialInv, WholeOrWritten
    <2>. QED BY <2>1, <2>2
  <1>3. WholeOrWritten'
    BY <1>1, <1>2 DEF WholeOrWritten, IsWhole, getCompanyInfo, getCompaniesOfUser
  <1>. QED BY <1>1, <1>3, IdleIsSerial, SerialStep DEF SerialInv

-----------------------------------------------------------------------------
(***************************************************************************)
(* The invariant, and what follows from it.                                *)
(***************************************************************************)

LEMMA SerialInit == Init => SerialInv
  <1>. SUFFICES ASSUME Init PROVE SerialInv
    OBVIOUS
  <1>1. RecordsInv
    BY InitInv
  <1>2. year \in FirstYear .. LastYear
    BY YearsAssumption DEF Init
  <1>3. \A c \in Clients : SerialOK(req[c], companies, informations, finances, files, failures)
    BY IdleIsSerial DEF Init
  <1>4. WholeOrWritten
    BY DEF Init, WholeOrWritten, getCompanyInfo, getCompaniesOfUser
  <1>. QED BY <1>1, <1>2, <1>3, <1>4 DEF SerialInv

LEMMA SerialNext == OneAtATime /\ SerialInv /\ [Next]_vars => SerialInv'
  <1>. SUFFICES ASSUME OneAtATime, SerialInv, [Next]_vars PROVE SerialInv'
    OBVIOUS
  <1>1. RecordsInv'
    BY NextInv DEF SerialInv
  <1>2. CASE newYear \/ UNCHANGED vars
    <2>1. /\ UNCHANGED <<companies, informations, finances, files, req, failures>>
          /\ year' \in FirstYear .. LastYear
      BY <1>2, YearsAssumption DEF newYear, vars, tables, SerialInv
    <2>2. WholeOrWritten'
      BY <2>1 DEF SerialInv, WholeOrWritten, IsWhole, getCompanyInfo, getCompaniesOfUser
    <2>. QED BY <1>1, <2>1, <2>2 DEF SerialInv
  <1>3. ASSUME NEW c \in Clients, Step(c)
        PROVE  SerialInv'
    <2>1. CASE Begins(c) \/ saveCompany(c) \/ saveInformation(c)
      BY <1>1, <2>1, SerialBegins, SerialSaveCompany, SerialSaveInformation
    <2>2. CASE \E final : Final \subseteq final /\ readInformation(c, final)
      BY <1>1, <2>2, SerialReadInformation
    <2>3. CASE readFiles(c) \/ \E f \in Files : removeFile(c, f) \/ findFile(c, f)
      BY <1>1, <2>3, SerialReadFiles, SerialRemoveFile, SerialFindFile
    <2>4. CASE attachFile(c) \/ filesDone(c)
      BY <1>1, <2>4, SerialAttachFile, SerialFilesDone
    <2>5. CASE \E mode \in {"add", "edit"} :
                  (mode = "add" => req[c].op \in Creating) /\ findYear(c, mode)
      BY <1>1, <2>5, SerialFindYear
    <2>6. CASE saveYear(c) \/ yearFails(c) \/ yearsDone(c) \/ answer(c)
      BY <1>1, <2>6, SerialSaveYear, SerialYearFails, SerialYearsDone, SerialAnswer
    <2>7. CASE \E f \in Files : uploadFile(c, f) \/ createFile(c, f) \/ fileFails(c, f)
      BY <1>1, <2>7, SerialUploads
    <2>8. CASE startUpload(c) \/ allSent(c) \/ cutOff(c)
      BY <1>1, <2>8, SerialStartUpload, SerialAllSent, SerialCutOff
    <2>. QED BY <1>3, <2>1, <2>2, <2>3, <2>4, <2>5, <2>6, <2>7, <2>8 DEF Step
  <1>. QED BY <1>2, <1>3, NextSteps

\* While requests do not overlap, each knows what the tables hold.
LEMMA SerialInvariant == ASSUME OneAtATime PROVE Spec => []SerialInv
  <1>1. SerialInv /\ [Next]_vars => SerialInv'
    BY SerialNext
  <1>. QED BY <1>1, SerialInit, PTL DEF Spec

\* Which step writes which table.
LEMMA Writers ==
  ASSUME NEW c \in Clients, Step(c)
  PROVE  /\ UNCHANGED companies \/ saveCompany(c)
         /\ UNCHANGED informations \/ saveInformation(c)
         /\ UNCHANGED finances \/ saveYear(c)
         /\ UNCHANGED files \/ attachFile(c) \/ \E f \in Files : removeFile(c, f) \/ createFile(c, f)
  <1>1. CASE Begins(c) \/ \E final : Final \subseteq final /\ readInformation(c, final)
    BY <1>1 DEF Begins, NewRequest, EditRequest, Begin, readInformation, tables
  <1>2. CASE saveCompany(c) \/ saveInformation(c)
    BY <1>2 DEF saveCompany, saveInformation
  <1>3. CASE readFiles(c) \/ \E f \in Files : removeFile(c, f) \/ findFile(c, f)
    BY <1>3 DEF readFiles, removeFile, findFile, tables
  <1>4. CASE attachFile(c) \/ filesDone(c)
    BY <1>4 DEF attachFile, filesDone, tables
  <1>5. CASE \E mode \in {"add", "edit"} :
                (mode = "add" => req[c].op \in Creating) /\ findYear(c, mode)
    BY <1>5 DEF findYear, tables
  <1>6. CASE saveYear(c) \/ yearFails(c) \/ yearsDone(c) \/ answer(c)
    BY <1>6 DEF saveYear, yearFails, yearsDone, answer, tables
  <1>7. CASE \E f \in Files : uploadFile(c, f) \/ createFile(c, f) \/ fileFails(c, f)
    BY <1>7 DEF uploadFile, createFile, fileFails, tables
  <1>8. CASE startUpload(c) \/ allSent(c) \/ cutOff(c)
    BY <1>8 DEF startUpload, Begin, allSent, cutOff, tables
  <1>. QED BY <1>1, <1>2, <1>3, <1>4, <1>5, <1>6, <1>7, <1>8 DEF Step

\* What IsWhole says is what HoldsAll says.
LEMMA WholeHoldsAll == ASSUME NEW k, IsWhole(k) PROVE HoldsAll(k)
  <1>1. \A z : HasYear(finances[k], z) => [year |-> z, whole |-> TRUE] \in Rows(k)
    BY DEF HasYear, Rows
  <1>. QED BY <1>1 DEF IsWhole, InformationIsWhole, HoldsAll

\* While requests do not overlap, a submitted company that nobody is writing to holds
\* all that the form had to hold, though it was saved part by part over an older
\* draft (CompanyInformationDto, saveCompany, saveInformation, handleFinancialData).
THEOREM SubmittedStaysWhole == ASSUME OneAtATime PROVE Spec => []SubmittedIsWhole
  <1>1. SerialInv => SubmittedIsWhole
    <2>. SUFFICES ASSUME SerialInv, NEW u \in Users, NEW k \in getCompanyInfo(u),
                         informations[k].status = "SUBMITTED", Quiet(k), failures = 0
                  PROVE  IsWhole(k)
      BY WholeHoldsAll DEF SubmittedIsWhole
    <2>. QED BY DEF SerialInv, WholeOrWritten, Quiet
  <1>. QED BY <1>1, SerialInvariant, PTL

\* While requests do not overlap, and whatever calls of earlier ones have failed, a
\* request that is answered and has lost no year leaves a company with its
\* information, and a submitted one whole (createCompanyInfo, updateCompanyInfo).
THEOREM AnsweredRequestsAreWhole == ASSUME OneAtATime PROVE Spec => []AnsweredIsWhole
  <1>1. SerialInv => AnsweredIsWhole
    BY AnswerIsWhole, WholeHoldsAll DEF AnsweredIsWhole, Submitted
  <1>. QED BY <1>1, SerialInvariant, PTL

\* While requests do not overlap, the files of the answer are those that the company
\* shows (handleFileAttachments collects them while it removes and adds).
THEOREM AnswersShowFiles == ASSUME OneAtATime PROVE Spec => []AnswerShowsFiles
  <1>1. SerialInv => AnswerShowsFiles
    <2>. SUFFICES ASSUME SerialInv, NEW c \in Clients, req[c].pc = "answer"
                  PROVE  req[c].shown = ListedFiles(req[c].company)
      BY DEF AnswerShowsFiles
    <2>1. FilesOK(req[c], files)
      BY DEF SerialInv, SerialOK
    <2>2. req[c].shown = Listed(files, req[c].company)
      BY <2>1 DEF FilesOK, Showing
    <2>. QED BY <2>2 DEF Listed, ListedFiles
  <1>. QED BY <1>1, SerialInvariant, PTL

\* Which files a step of the only request writes to.
LEMMA FilesWritten ==
  ASSUME OneAtATime, SerialInv, NEW c \in Clients, Step(c), NEW f \in Files, files'[f] # files[f]
  PROVE  \/ /\ files[f] = NoFile
            /\ files'[f] # NoFile /\ files'[f].information = NoCompany
         \/ /\ req[c].pc \in {"remove", "attach"}
            /\ files[f].information \in {NoCompany, req[c].company}
            /\ files'[f].information = req[c].company
            /\ files[f].information # NoCompany =>
                  files'[f].information = files[f].information /\ files'[f].deleted
  <1>. DEFINE r == req[c]
  <1>1. /\ files \in [Files -> FileAttachments \cup {NoFile}] /\ FilesOK(r, files) /\ r \in Request
        /\ RequestOK(r, companies, finances, files, objects)
    BY SerialKnown DEF TablesOK, SerialOK
  <1>2. CASE attachFile(c)
    <2>. DEFINE row == [files[r.found] EXCEPT !.information = r.company, !.deleted = FALSE]
    <2>1. r.pc = "attach" /\ files' = [files EXCEPT ![r.found] = row]
      BY <1>2 DEF attachFile
    <2>2. /\ r.found \in Files /\ files[r.found] \in FileAttachments
          /\ files[r.found].information = NoCompany
      BY <1>1, <2>1 DEF RequestOK, FilesOK
    <2>3. row.information = r.company
      BY <2>2 DEF FileAttachments
    <2>. HIDE DEF row
    <2>4. f = r.found /\ files'[f] = row
      BY <1>1, <2>1, <2>2
    <2>. QED BY <2>1, <2>2, <2>3, <2>4
  <1>3. ASSUME NEW g \in Files, removeFile(c, g)
        PROVE  /\ req[c].pc = "remove" /\ files[f].information = r.company
               /\ files'[f].information = files[f].information /\ files'[f].deleted
    <2>. DEFINE row == [files[g] EXCEPT !.deleted = TRUE]
    <2>1. r.pc = "remove" /\ g \in r.remove /\ files' = [files EXCEPT ![g] = row]
      BY <1>3 DEF removeFile
    <2>2. files[g] \in FileAttachments /\ files[g].information = r.company
      BY <1>1, <2>1 DEF RequestOK, FilesOK
    <2>3. row.information = files[g].information /\ row.deleted
      BY <2>2 DEF FileAttachments
    <2>. HIDE DEF row
    <2>4. f = g /\ files'[f] = row
      BY <1>1, <2>1
    <2>. QED BY <2>1, <2>2, <2>3, <2>4
  <1>4. ASSUME NEW g \in Files, createFile(c, g)
        PROVE  files[f] = NoFile /\ files'[f] # NoFile /\ files'[f].information = NoCompany
    <2>. DEFINE row == [user |-> r.by, information |-> NoCompany, deleted |-> FALSE]
    <2>1. g \in r.stored /\ files' = [files EXCEPT ![g] = row]
      BY <1>4 DEF createFile
    <2>2. files[g] = NoFile
      BY <2>1 DEF SerialInv, RecordsInv, NewFiles, Underway
    <2>3. row.information = NoCompany /\ row \in FileAttachments
      BY <1>1, <2>1 DEF RequestOK, FileAttachments
    <2>. HIDE DEF row
    <2>4. row # NoFile
      BY <2>3, NothingAssumption
    <2>. QED BY <1>1, <2>1, <2>2, <2>3, <2>4
  <1>. QED BY <1>2, <1>3, <1>4, Writers

\* While requests do not overlap, no form moves a file from one company to another
\* or brings a deleted one back (handleFileAttachments).
THEOREM FilesAttachedForGood == ASSUME OneAtATime PROVE Spec => AttachedForGood
  <1>. DEFINE A == \A f \in Files : files[f] # NoFile /\ files[f].information # NoCompany =>
                     /\ files'[f].information = files[f].information
                     /\ files[f].deleted => files'[f].deleted
  <1>1. SerialInv /\ [Next]_vars => [A]_vars
    <2>. SUFFICES ASSUME SerialInv, [Next]_vars, NEW f \in Files,
                         files[f] # NoFile, files[f].information # NoCompany
                  PROVE  /\ files'[f].information = files[f].information
                         /\ files[f].deleted => files'[f].deleted
      OBVIOUS
    <2>1. CASE newYear \/ UNCHANGED vars
      BY <2>1 DEF newYear, vars, tables
    <2>2. CASE \E c \in Clients : Step(c)
      BY <2>2, FilesWritten
    <2>. QED BY <2>1, <2>2, NextSteps
  <1>. HIDE DEF A
  <1>2. Spec => [][A]_vars
    BY <1>1, SerialInvariant, PTL DEF Spec
  <1>. QED BY <1>2 DEF A, AttachedForGood

\* While requests do not overlap, only the form that creates a company can leave two
\* rows of one year: an update looks for the row before it saves
\* (handleFinancialData 'edit').
THEOREM UpdatesKeepOneRowPerYear == ASSUME OneAtATime PROVE Spec => OneRowPerYear
  <1>. DEFINE A == \A k \in Companies : \A i, j \in DOMAIN finances'[k] :
                     i # j /\ finances'[k][i].year = finances'[k][j].year =>
                       \/ {i, j} \subseteq DOMAIN finances[k]
                       \/ \E c \in Clients :
                           /\ req[c].company = k
                           /\ req[c].op \in {"createCompanyInfo", "createCompanyInfoForAdmin"}
  <1>1. SerialInv /\ [Next]_vars => [A]_vars
    <2>. SUFFICES ASSUME SerialInv, [Next]_vars, NEW k \in Companies,
                         NEW i \in DOMAIN finances'[k], NEW j \in DOMAIN finances'[k],
                         i # j, finances'[k][i].year = finances'[k][j].year
                  PROVE  \/ {i, j} \subseteq DOMAIN finances[k]
                         \/ \E c \in Clients :
                             /\ req[c].company = k
                             /\ req[c].op \in {"createCompanyInfo", "createCompanyInfoForAdmin"}
      OBVIOUS
    <2>1. CASE UNCHANGED finances
      BY <2>1
    <2>2. ASSUME NEW c \in Clients, saveYear(c), finances' # finances
          PROVE  \/ {i, j} \subseteq DOMAIN finances[k]
                 \/ req[c].company = k /\ req[c].op \in Creating
      <3>. DEFINE r == req[c]
                  e == Entry(c)
                  w == e.data = "all" \/ (e.data = "some" /\ r.wasWhole)
                  rows == finances[r.company]
                  added == [year |-> e.year, whole |-> w]
                  saved == IF r.row = 0 THEN Append(rows, added)
                                        ELSE [rows EXCEPT ![r.row].whole = w]
      <3>1. r.pc = "saveYear" /\ finances' = [finances EXCEPT ![r.company] = saved]
        BY <2>2 DEF saveYear
      <3>2. /\ r.company \in Companies /\ finances \in [Companies -> Seq(CompanyFinancialData)]
            /\ YearOK(r, finances) /\ HasEntry(c)
        BY <3>1, SerialKnown DEF RequestOK, TablesOK, SerialOK, HasEntry, Filling
      <3>3. CASE k # r.company
        BY <3>1, <3>2, <3>3
      <3>4. CASE k = r.company /\ r.row # 0
        <4>1. finances'[k] = [rows EXCEPT ![r.row].whole = w]
          BY <3>1, <3>2, <3>4
        <4>2. DOMAIN finances'[k] = DOMAIN rows
          BY <4>1
        <4>. QED BY <3>4, <4>2
      <3>5. CASE k = r.company /\ r.row = 0 /\ r.op \notin Creating
        <4>1. e.year \in Nat /\ rows \in Seq(CompanyFinancialData)
          BY <3>1, <3>2, EntryKnown DEF SerialInv
        <4>2. added \in CompanyFinancialData
          BY <4>1 DEF CompanyFinancialData
        <4>3. \A n \in DOMAIN rows : rows[n].year # e.year
          BY <3>1, <3>2, <3>5 DEF YearOK, Entry
        <4>4. finances'[k] = Append(rows, added) /\ added.year = e.year
          BY <3>1, <3>2, <3>5
        <4>. HIDE DEF added, rows
        <4>5. /\ Len(rows) \in Nat /\ DOMAIN rows = 1 .. Len(rows)
              /\ DOMAIN finances'[k] = 1 .. Len(rows) + 1
              /\ finances'[k][Len(rows) + 1] = added
              /\ \A n \in 1 .. Len(rows) : finances'[k][n] = rows[n]
          BY <4>1, <4>2, <4>4, AppendProperties, LenProperties
        <4>6. i \in DOMAIN rows /\ j \in DOMAIN rows
          BY <4>3, <4>4, <4>5
        <4>. QED BY <3>5, <4>6 DEF rows
      <3>. QED BY <3>3, <3>4, <3>5
    <2>3. CASE newYear \/ UNCHANGED vars
      BY <2>1, <2>3 DEF newYear, vars, tables
    <2>. QED BY <2>1, <2>2, <2>3, NextSteps, Writers DEF Creating
  <1>. HIDE DEF A
  <1>2. Spec => [][A]_vars
    BY <1>1, SerialInvariant, PTL DEF Spec
  <1>. QED BY <1>2 DEF A, OneRowPerYear

\* While requests do not overlap, nobody who could know changes a processed
\* information, the company, its files or its years ('Process then user can not
\* action', readInformation).
THEOREM ProcessedStaysFinal == ASSUME OneAtATime PROVE Spec => ProcessedIsFinal
  <1>. DEFINE A == \A k \in getCompanyInfoForAdmin :
                     informations[k].status \in {"PROCESSING", "PROCESSED"} /\ Settled(k) =>
                       /\ informations'[k] = informations[k]
                       /\ companies'[k] = companies[k]
                       /\ ListedFiles(k)' = ListedFiles(k)
                       /\ finances'[k] = finances[k]
  <1>1. SerialInv /\ [Next]_vars => [A]_vars
    <2>. SUFFICES ASSUME SerialInv, [Next]_vars, NEW k \in getCompanyInfoForAdmin, Settled(k)
                  PROVE  /\ informations'[k] = informations[k]
                         /\ companies'[k] = companies[k]
                         /\ ListedFiles(k)' = ListedFiles(k)
                         /\ finances'[k] = finances[k]
      OBVIOUS
    <2>1. CASE newYear \/ UNCHANGED vars
      BY <2>1 DEF newYear, vars, tables, ListedFiles
    <2>2. ASSUME NEW c \in Clients, Step(c)
          PROVE  /\ informations'[k] = informations[k]
                 /\ companies'[k] = companies[k]
                 /\ ListedFiles(k)' = ListedFiles(k)
                 /\ finances'[k] = finances[k]
      <3>. DEFINE r == req[c]
      <3>1. k \in Companies /\ TablesOK /\ k # NoCompany
        BY SerialKnown, NothingAssumption DEF getCompanyInfoForAdmin
      <3>2. r.pc \in Filling \ {"information"} => r.company # k /\ r.company \in Companies
        <4>1. r.pc \in Filling \ {"information"} =>
                /\ r.readInformation \in CompanyInformation
                /\ r.readInformation.status \notin Final /\ r.company \in Companies
          BY SerialKnown DEF SerialOK, ReadOK, RequestOK
        <4>. QED BY <4>1, NothingAssumption DEF Settled, Final
      <3>3. informations'[k] = informations[k]
        BY <2>2, <3>1, <3>2, Writers DEF saveInformation, TablesOK, Filling
      <3>4. companies'[k] = companies[k]
        BY <2>2, <3>1, <3>2, Writers DEF saveCompany, TablesOK, Filling
      <3>5. finances'[k] = finances[k]
        BY <2>2, <3>1, <3>2, Writers DEF saveYear, TablesOK, Filling
      <3>6. ASSUME NEW f \in Files, files'[f] # files[f]
            PROVE  /\ files[f] = NoFile \/ files[f].information # k
                   /\ files'[f].information # k
        BY <2>2, <3>1, <3>2, <3>6, FilesWritten DEF Filling
      <3>7. ListedFiles(k)' = ListedFiles(k)
        BY <3>6 DEF ListedFiles
      <3>. QED BY <3>3, <3>4, <3>5, <3>7
    <2>. QED BY <2>1, <2>2, NextSteps
  <1>. HIDE DEF A
  <1>2. Spec => [][A]_vars
    BY <1>1, SerialInvariant, PTL DEF Spec
  <1>. QED BY <1>2 DEF A, ProcessedIsFinal
=============================================================================
