----------------------------- MODULE CompanyForms -----------------------------
(***************************************************************************)
(* The forms that describe a company, as class-validator and the database  *)
(* judge them: company.dto.ts and the columns of migration 1700219094597.  *)
(* The value of a field is a class of values:                              *)
(*   absent  the key is not in the body       null   JSON null             *)
(*   blank   the empty string                 good   all validators accept *)
(*   bad     the validators of the field refuse it, its column takes it    *)
(*   long    of the right type, but its column does not take it            *)
(* An entry of financial_data is a year and what it says of the five       *)
(* amounts: all, some (one, the others absent), null (the same one, the    *)
(* others null), long.                                                     *)
(* An operator whose comment begins with "Broken" is a plausible bug: in   *)
(* the place of the operator it varies it makes a property fail.           *)
(***************************************************************************)
EXTENDS Naturals, Sequences

Statuses == {"DRAFT", "DRAFT_FROM_ADMIN", "REQUEST", "SUBMITTED", "CREATE_FROM_ADMIN",
             "PROCESSING", "PROCESSED"}

\* Columns of companies, and of company_information.
CompanyFields == {"name", "position", "phone_number", "website",
                  "contact_person_name", "contact_person_email"}

Details == {"general_shareholder_structure", "general_management_structure",
            "general_year_of_establishment", "general_headquarter",
            "general_business_type", "general_business_location_country",
            "general_business_location_area", "general_number_of_employees",
            "business_overview", "business_main_products_services",
            "business_major_clients", "business_major_suppliers",
            "business_future_growth_projection", "financial_current_valuation",
            "reason_deal_reason", "reason_deal_timeline"}

SellShares == {"transaction_sell_shares_percentage", "transaction_sell_shares_amount"}
IssueShares == {"transaction_issue_shares_percentage", "transaction_issue_shares_amount"}
OtherDeal == {"transaction_other_details"}
Groups == {SellShares, IssueShares, OtherDeal}

InformationFields == Details \cup UNION Groups

Numbers == {"general_year_of_establishment", "general_number_of_employees",
            "financial_current_valuation"} \cup SellShares \cup IssueShares

Values == {"absent", "null", "blank", "good", "bad", "long"}
StoredValues == {"null", "blank", "good", "bad"}

FormValues == [CompanyFields \cup InformationFields -> Values]

-----------------------------------------------------------------------------
(***************************************************************************)
(* Validators.                                                             *)
(***************************************************************************)

\* @MaxLength, @Max, @IsEnumKey or @IsEmail keep the value inside its column.
Bounded == CompanyFields \cup {"general_headquarter", "general_business_type",
    "general_business_location_country", "general_business_location_area",
    "transaction_sell_shares_percentage", "transaction_issue_shares_percentage"}

\* What @IsString and its companions accept: an enum key or an address is not blank.
Accepts(f, v) ==
    \/ v = "good"
    \/ v = "long" /\ f \notin Bounded
    \/ v = "blank" /\ f \notin Numbers \cup {"general_business_type", "contact_person_email"}

Optional(form, f) == form.values[f] \in {"absent", "null"} \/ Accepts(f, form.values[f])

\* @IsNotEmpty with the validators of the type.
Required(form, f) ==
    /\ form.values[f] \notin {"absent", "null", "blank"}
    /\ Accepts(f, form.values[f])

Submitted(form) == form.status = "SUBMITTED"

\* A group has data when one of its fields is not null, and is valid when
\* all of them are then positive (or, the text, not blank).
HasData(values, group) == \E f \in group : values[f] \notin {"absent", "null"}

GroupIsValid(values, group) ==
    HasData(values, group) => \A f \in group : values[f] \in {"good", "long"}

IsOneOfThreeGroups(form) ==
    /\ \E group \in Groups : HasData(form.values, group)
    /\ \A group \in Groups : GroupIsValid(form.values, group)

RequiredYears(thisYear) == {thisYear, thisYear - 1, thisYear - 2}

\* Broken CombinedFinancialData: amounts may be left out.
AnyFinancialData(form, thisYear) ==
    {form.financial_data[i].year : i \in DOMAIN form.financial_data} = RequiredYears(thisYear)

\* Runs for a SUBMITTED form only: @ValidateIf is on the same property.
CombinedFinancialData(form, thisYear) ==
    LET entries == {form.financial_data[i] : i \in DOMAIN form.financial_data}
    IN /\ Len(form.financial_data) \in 1 .. 3
       /\ {e.year : e \in entries} = RequiredYears(thisYear)
       /\ \A e \in entries : e.data \in {"all", "long"}

\* A body without the key, or with a key of the other DTO, is refused
\* (whitelist with forbidNonWhitelisted).
CompanyInformationDto(form, thisYear) ==
    /\ Required(form, "name")
    /\ \A f \in {"phone_number", "website"} \cup UNION Groups : Optional(form, f)
    /\ \A f \in {"contact_person_name", "contact_person_email"} : form.values[f] = "absent"
    /\ Submitted(form) =>
        /\ \A f \in Details \cup {"position"} : Required(form, f)
        /\ Len(form.financial_data) = 3
        /\ CombinedFinancialData(form, thisYear)
        /\ IsOneOfThreeGroups(form)

\* The form of an administrator: nothing depends on the status.
CreateUpdateCompanyByAdminDto(form) ==
    /\ Required(form, "name")
    /\ \A f \in CompanyFields \cup InformationFields : Optional(form, f)

-----------------------------------------------------------------------------
(***************************************************************************)
(* The database (MySQL, strict mode).                                      *)
(***************************************************************************)

\* A value that its column takes; every column of these can be null.
Fits(f, v) == v # "long" /\ ~(v = "blank" /\ f \in Numbers)

\* The columns whose transformer is parseInt: NULL is read as NaN, a value that
\* differs from itself and is therefore written back, and no column takes it.
Transformed == {"financial_current_valuation", "transaction_sell_shares_amount",
                "transaction_issue_shares_amount"}

\* What was read can be saved again with the form over it.
CopyFits(stored, form) ==
    \A f \in Transformed \cap DOMAIN stored : stored[f] = "null" => form.values[f] # "absent"

FormFits(form, fields) == \A f \in fields : Fits(f, form.values[f])

\* Broken Merge: the columns of absent keys are written too.
Overwrite(stored, form) == [f \in DOMAIN stored |-> form.values[f]]

\* Object.assign and save: a key that the body does not have keeps its column.
Merge(stored, form) ==
    [f \in DOMAIN stored |-> IF form.values[f] = "absent" THEN stored[f] ELSE form.values[f]]

EmptyColumns(fields) == [f \in fields |-> "null"]
=============================================================================
