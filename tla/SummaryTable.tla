---------------------------- MODULE SummaryTable ----------------------------
(***************************************************************************)
(* What the summary service promises about the company_summaries table     *)
(* when requests do not overlap: one action per statement that a request   *)
(* commits.  SummaryService, which runs every request await by await, is   *)
(* shown to implement this specification when it handles one request at a  *)
(* time.                                                                   *)
(***************************************************************************)
EXTENDS Summaries

CONSTANT MaxRows        \* bound on the number of rows of the table

ASSUME MaxRowsAssumption == MaxRows \in Nat

VARIABLE rows

\* The table holds rows of company_summaries: versions start at 1, and a
\* status is one of the enum.
TypeOK == rows \in Seq(Row)

Init == rows = <<>>

-----------------------------------------------------------------------------

\* createSummary: a new row, one version above the newest POSTED one.
Draft(info, status, content) ==
    /\ Len(rows) < MaxRows
    /\ \E base \in NewestPosted(rows, info, 0) :
          rows' = Append(rows, NewVersion(rows, info, base, status, content))

\* Broken Rework: without the guard against POSTED.
ReworkAnyStatus(id, status, content) ==
    rows' = [rows EXCEPT ![id].status = status, ![id].content = content]

\* updateSummary and updateSummaryForUser: a row that is not POSTED is
\* edited in place and may take any status but POSTED.
Rework(id, status, content) ==
    /\ rows[id].status # "POSTED"
    /\ rows' = [rows EXCEPT ![id].status = status, ![id].content = content]

\* updateSummaryMaster: a POSTED row is edited in place.
Correct(id, content) ==
    /\ rows[id].status = "POSTED"
    /\ rows' = [rows EXCEPT ![id].content = content]

\* changePublicStatus: one POSTED row.
Toggle(id, b) ==
    /\ rows[id].status = "POSTED"
    /\ rows' = [rows EXCEPT ![id].is_public = b]

\* addSummaryToMaster, the bulk UPDATE: every row of the company.
Show(id, b) ==
    /\ rows[id].status \in {"SUBMITTED", "POSTED"}
    /\ rows' = SetVisibility(rows, rows[id].info, b)

\* addSummaryToMaster, the save: the row is posted with the card of its
\* company, or with the next card when the company has none yet.
Post(id, b) ==
    /\ rows[id].status = "SUBMITTED"
    /\ \E card \in CardFor(rows, rows[id].info) :
          rows' = [rows EXCEPT ![id].status = "POSTED", ![id].is_public = b,
                               ![id].card_order = card]

Next ==
    \/ \E info \in Infos, status \in DtoStatuses, content \in Contents :
          Draft(info, status, content)
    \/ \E id \in DOMAIN rows :
          \/ \E status \in DtoStatuses, content \in Contents : Rework(id, status, content)
          \/ \E content \in Contents : Correct(id, content)
          \/ \E b \in BOOLEAN : Toggle(id, b) \/ Show(id, b) \/ Post(id, b)

Spec == Init /\ [][Next]_rows

-----------------------------------------------------------------------------

\* The original_version_id of a row (createSummary) is a POSTED row of the
\* same company exactly one version below it, and only version 1 has none.
OriginalIsPosted ==
    \A i \in DOMAIN rows :
        LET o == rows[i].original_version_id
        IN /\ o = 0 <=> rows[i].version = 1
           /\ o # 0 => /\ o \in DOMAIN rows
                       /\ rows[o].status = "POSTED"
                       /\ rows[o].info = rows[i].info
                       /\ rows[o].version + 1 = rows[i].version

\* card_order, the order of the cards in master (addSummaryToMaster), tells
\* companies apart: POSTED rows share a card exactly when they belong to
\* the same company.
CardIdentifiesCompany ==
    \A i, j \in DOMAIN rows :
        rows[i].status = "POSTED" /\ rows[j].status = "POSTED" =>
            (rows[i].card_order = rows[j].card_order <=> rows[i].info = rows[j].info)

\* MAX(card_order) + 1 leaves no holes: exactly the POSTED rows have a card,
\* and below every card but the first there is the card before it.
CardsWithoutGaps ==
    \A i \in DOMAIN rows :
        /\ rows[i].status = "POSTED" <=> rows[i].card_order # 0
        /\ rows[i].card_order > 1 =>
              \E j \in DOMAIN rows : rows[j].card_order = rows[i].card_order - 1

\* Who works on a company is not left behind: with every summary above version 1
\* that getSummaryForAdmin answers comes a POSTED one of the version below or
\* newer, and what getSummaryForUser answers, which hides the drafts of an
\* administrator, is at most one version older.
NobodyFallsBehind ==
    \A info \in Infos : \A shown \in getSummaryForAdmin(rows, info) :
        shown # 0 /\ rows[shown].version > 1 =>
            \A other \in NewestPosted(rows, info, shown) \cup getSummaryForUser(rows, info) :
                other # 0 /\ rows[other].version >= rows[shown].version - 1

\* A POSTED row stays POSTED and keeps its card ('Can not edit summary with
\* status POSTED' in updateSummary, the guard of updateSummaryForUser).
PostedIsFinal ==
    [][\A i \in DOMAIN rows :
          rows[i].status = "POSTED" =>
              /\ rows'[i].status = "POSTED"
              /\ rows'[i].card_order = rows[i].card_order]_rows
=============================================================================
