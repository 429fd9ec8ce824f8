------------------------------ MODULE Summaries ------------------------------
(***************************************************************************)
(* The company_summaries table of the API server and the queries that the  *)
(* summary service runs on it.  A table is a sequence of rows and the id   *)
(* of a row (AUTO_INCREMENT) is its place in the sequence; rows are never  *)
(* deleted.  NULL is 0 in the integer columns: ids and card orders start   *)
(* at 1.  The descriptive columns (title, country, years, ...) are one     *)
(* value "content"; added_to_master_at is copied or set together with      *)
(* card_order and is left out.                                             *)
(***************************************************************************)
EXTENDS Integers, Sequences

CONSTANTS
    Infos,      \* ids of the company_informations rows
    Contents    \* values of the descriptive columns

Statuses == {"DRAFT", "DRAFT_FROM_ADMIN", "REQUEST", "SUBMITTED", "POSTED"}

\* The statuses of a request: SummaryStatus without what @IsAllowedStatus()
\* rejects.  (The validator does not check that the value is in the enum;
\* clients are assumed to send one that is.)
DtoStatuses == Statuses \ {"POSTED"}

Row == [info: Infos,
        status: Statuses,
        is_public: BOOLEAN,
        version: Nat \ {0},
        original_version_id: Nat,
        card_order: Nat,
        content: Contents]

-----------------------------------------------------------------------------

(***************************************************************************)
(* The operators whose comment begins with "Broken" are plausible bugs and *)
(* no specification uses them.  Each stands before the definition it is a  *)
(* variant of; in its place it makes one of the properties fail.           *)
(***************************************************************************)

PostedIds(rows, info) ==
    {i \in DOMAIN rows : rows[i].info = info /\ rows[i].status = "POSTED"}

\* findOne / getOne with ORDER BY version DESC: any row of a tie, or none (0).
Newest(rows, ids) ==
    IF ids = {}
    THEN {0}
    ELSE {i \in ids : \A j \in ids : rows[j].version <= rows[i].version}

\* Broken NewestPosted: without the condition status = POSTED.
NewestOfAnyStatus(rows, info, exclude) ==
    Newest(rows, {i \in DOMAIN rows : rows[i].info = info} \ {exclude})

NewestPosted(rows, info, exclude) == Newest(rows, PostedIds(rows, info) \ {exclude})

\* Broken NewVersion: versions count from 0.
NewVersionFromZero(rows, info, base, status, content) ==
    [info |-> info, status |-> status, is_public |-> FALSE,
     version |-> IF base = 0 THEN 0 ELSE rows[base].version + 1,
     original_version_id |-> base, card_order |-> 0, content |-> content]

\* The entity createSummary builds on the newest POSTED row of the company.
NewVersion(rows, info, base, status, content) ==
    [info |-> info,
     status |-> status,
     is_public |-> FALSE,
     version |-> IF base = 0 THEN 1 ELSE rows[base].version + 1,
     original_version_id |-> base,
     card_order |-> 0,
     content |-> content]

\* findOne with ORDER BY card_order DESC: any row of a tie, or none (0).
CardHolder(rows, info) ==
    LET posted == PostedIds(rows, info)
    IN IF posted = {}
       THEN {0}
       ELSE {i \in posted : \A j \in posted : rows[j].card_order <= rows[i].card_order}

\* Broken MaxCard: COUNT(*) in place of MAX(card_order).
CountRows(rows) == {Len(rows)}

\* SELECT MAX(card_order) over the whole table: one number, 0 when every
\* card_order is NULL.
MaxCard(rows) ==
    {m \in {0} \cup {rows[i].card_order : i \in DOMAIN rows} :
        \A i \in DOMAIN rows : rows[i].card_order <= m}

\* Broken CardFor: the POSTED rows of the company are not looked at.
AlwaysNextCard(rows, info) == {m + 1 : m \in MaxCard(rows)}

\* The card that addSummaryToMaster gives to a row of the company: that of its
\* POSTED rows, or one more than the greatest.
CardFor(rows, info) ==
    IF PostedIds(rows, info) = {}
    THEN {m + 1 : m \in MaxCard(rows)}
    ELSE {rows[holder].card_order : holder \in CardHolder(rows, info)}

\* Broken SetVisibility: only the POSTED rows of the company.
SetVisibilityOfPosted(rows, info, b) ==
    [i \in DOMAIN rows |->
        IF i \in PostedIds(rows, info) THEN [rows[i] EXCEPT !.is_public = b] ELSE rows[i]]

\* UPDATE company_summaries SET is_public = b WHERE company_information_id = info.
SetVisibility(rows, info, b) ==
    [i \in DOMAIN rows |->
        IF rows[i].info = info THEN [rows[i] EXCEPT !.is_public = b] ELSE rows[i]]

-----------------------------------------------------------------------------
(***************************************************************************)
(* What the readers see.                                                   *)
(***************************************************************************)

\* What a company is working on: its newest row, which comes with its newest
\* other POSTED row.
getSummaryForAdmin(rows, info) == Newest(rows, {i \in DOMAIN rows : rows[i].info = info})

\* Broken getSummaryForUser: nor does the user see what is POSTED.
getUnpostedSummaryForUser(rows, info) ==
    Newest(rows, {i \in DOMAIN rows :
        rows[i].info = info /\ rows[i].status \notin {"DRAFT_FROM_ADMIN", "POSTED"}})

\* The user does not see the drafts of an administrator.
getSummaryForUser(rows, info) ==
    Newest(rows, {i \in DOMAIN rows : rows[i].info = info /\ rows[i].status # "DRAFT_FROM_ADMIN"})

\* searchSummaries: a POSTED row whose version is the company's greatest
\* POSTED one; searchSummariesForInvestor wants it public as well.
AdminList(rows) ==
    {i \in DOMAIN rows :
        /\ rows[i].status = "POSTED"
        /\ \A j \in PostedIds(rows, rows[i].info) : rows[j].version <= rows[i].version}

InvestorList(rows) == {i \in AdminList(rows) : rows[i].is_public}

\* getUniqueSummaryValues: the rows whose values are offered as filters.  For an
\* administrator they need not be POSTED: only the version is compared.
UniqueValuesForAdmin(rows) ==
    {i \in DOMAIN rows :
        \E newest \in NewestPosted(rows, rows[i].info, 0) \ {0} :
            rows[newest].version = rows[i].version}

UniqueValuesForInvestor(rows) ==
    {i \in UniqueValuesForAdmin(rows) : rows[i].status = "POSTED" /\ rows[i].is_public}

\* getSummaryPostedByIdForAdmin answers with the row.
OpenableByAdmin(rows) == {i \in DOMAIN rows : rows[i].status = "POSTED"}

\* Broken Openable: >= in the comparison of the versions.
OpenableIfStrictlyNewest(rows) ==
    {i \in DOMAIN rows :
        /\ rows[i].status = "POSTED" /\ rows[i].is_public
        /\ ~ \E j \in PostedIds(rows, rows[i].info) :
                rows[j].is_public /\ rows[j].version >= rows[i].version}

\* getSummaryPostedByIdForInvestor answers with the row (and not with 404).
Openable(rows) ==
    {i \in DOMAIN rows :
        /\ rows[i].status = "POSTED" /\ rows[i].is_public
        /\ ~ \E j \in PostedIds(rows, rows[i].info) :
                rows[j].is_public /\ rows[j].version > rows[i].version}
=============================================================================
