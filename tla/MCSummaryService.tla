-------------------------- MODULE MCSummaryService --------------------------
\* Instances of SummaryService for TLC.
EXTENDS SummaryService, TLC

CONSTANTS u1, i1, i2, k1, k2

\* What may come after a DRAFT_FROM_ADMIN or a REQUEST may come after a DRAFT; a
\* REQUEST is mailed once it is saved.
AllStatuses == DtoStatuses
DraftAndSubmit == {"DRAFT", "SUBMITTED"}

OneClient == {k1}
TwoClients == {k1, k2}
OneCompany == {i1}
TwoCompanies == {i1, i2}

\* i1 is the company of u1, i2 was created by an administrator.
MCOwner == [i \in Infos |-> IF i = i1 THEN u1 ELSE NoUser]

Symmetry == Permutations(Clients)
=============================================================================
