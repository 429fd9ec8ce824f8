--------------------------- MODULE MCCompanyRecords ---------------------------
\* Instances of CompanyRecords for TLC.
EXTENDS CompanyRecords, TLC

CONSTANTS u1, u2, a1, f1, f2

Blank == [f \in CompanyFields \cup InformationFields |-> "absent"]
Named == [Blank EXCEPT !["name"] = "good"]

\* A client that sends null for the amounts it does not know.
WithNull(v) ==
    [f \in DOMAIN v |-> IF f \in Transformed /\ v[f] = "absent" THEN "null" ELSE v[f]]

Whole == [f \in CompanyFields \cup InformationFields |->
            IF f \in Details \cup SellShares \cup {"name", "position"} THEN "good" ELSE "absent"]

Years3(y, d) == <<[year |-> y, data |-> d], [year |-> y - 1, data |-> d],
                  [year |-> y - 2, data |-> d]>>

F(status, v, fs, years) ==
    [status |-> status, values |-> v, files |-> fs, financial_data |-> years]

\* Drafts with and without a file, one that empties a field and has amounts that do
\* not fit, one that does not fit at all; a whole form for each calendar year, and
\* near misses of it.
SerialForms == {
    F("DRAFT", WithNull([Named EXCEPT !["business_overview"] = "null"]), {},
      <<[year |-> 2, data |-> "null"], [year |-> 3, data |-> "long"]>>),
    F("DRAFT", Named, {f1}, << >>),
    F("DRAFT", [Named EXCEPT !["general_headquarter"] = "long"], {}, << >>),
    F("SUBMITTED", WithNull(Whole), {f1}, Years3(3, "all")),
    F("SUBMITTED", WithNull(Whole), {}, Years3(4, "all")),
    F("SUBMITTED", [Whole EXCEPT !["business_overview"] = "absent"], {}, Years3(3, "all")),
    F("SUBMITTED", Whole, {}, Years3(3, "some")),
    F("SUBMITTED", [Whole EXCEPT !["transaction_sell_shares_amount"] = "null"], {}, Years3(3, "all"))}

\* A draft that names a year twice, and a form that is final.
FromAdmin == {
    F("DRAFT_FROM_ADMIN", WithNull(Named), {f1},
      <<[year |-> 2, data |-> "some"], [year |-> 2, data |-> "some"]>>),
    F("PROCESSED", WithNull(Whole), {}, << >>)}

OverlapForms == {
    F("DRAFT", WithNull(Named), {f1}, << >>),
    F("DRAFT", WithNull(Named), {}, << >>)}

OverlapAdminForms == {F("PROCESSED", WithNull(Named), {f1}, << >>)}

\* The second file comes with the first one and is in no form.
PairUploads == {{f1, f2}}
=============================================================================
