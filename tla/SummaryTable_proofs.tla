------------------------- MODULE SummaryTable_proofs -------------------------
(***************************************************************************)
(* The promises of SummaryTable hold for every set of companies and        *)
(* contents and every bound on the rows.  The invariant TableInv is        *)
(* inductive: each of its parts needs TypeOK, and CardIdentifiesCompany    *)
(* needs CardsWithoutGaps (a row that is not POSTED has no card, so that   *)
(* the greatest card of the table is the greatest card in master).         *)
(***************************************************************************)
EXTENDS SummaryTable, Summaries_lemmas

TableInv == TypeOK /\ OriginalIsPosted /\ CardIdentifiesCompany /\ CardsWithoutGaps

\* How any step but an insertion changes the table: rows keep what makes
\* them the version they are, and a POSTED row keeps its status and card.
InPlace(old, new) ==
    /\ new \in Seq(Row)
    /\ DOMAIN new = DOMAIN old
    /\ \A i \in DOMAIN old :
          /\ new[i].info = old[i].info
          /\ new[i].version = old[i].version
          /\ new[i].original_version_id = old[i].original_version_id
          /\ old[i].status = "POSTED" =>
                new[i].status = "POSTED" /\ new[i].card_order = old[i].card_order

\* A step that posts nothing either.
PostsNothing(old, new) ==
    \A i \in DOMAIN old :
        /\ new[i].card_order = old[i].card_order
        /\ new[i].status = "POSTED" <=> old[i].status = "POSTED"

LEMMA InPlaceKeepsOriginals ==
  ASSUME TypeOK, OriginalIsPosted, InPlace(rows, rows')
  PROVE  OriginalIsPosted'
  <1> SUFFICES ASSUME NEW i \in DOMAIN rows'
               PROVE  LET o == rows'[i].original_version_id
                      IN /\ o = 0 <=> rows'[i].version = 1
                         /\ o # 0 => /\ o \in DOMAIN rows'
                                     /\ rows'[o].status = "POSTED"
                                     /\ rows'[o].info = rows'[i].info
                                     /\ rows'[o].version + 1 = rows'[i].version
    BY DEF OriginalIsPosted
  <1>1. i \in DOMAIN rows
    BY DEF InPlace
  <1>2. QED
    BY <1>1 DEF InPlace, OriginalIsPosted

LEMMA PostsNothingKeepsCards ==
  ASSUME CardIdentifiesCompany, CardsWithoutGaps,
         InPlace(rows, rows'), PostsNothing(rows, rows')
  PROVE  CardIdentifiesCompany' /\ CardsWithoutGaps'
  <1>1. CardIdentifiesCompany'
    BY DEF CardIdentifiesCompany, InPlace, PostsNothing
  <1>2. CardsWithoutGaps'
    BY DEF CardsWithoutGaps, InPlace, PostsNothing
  <1>3. QED
    BY <1>1, <1>2

LEMMA DraftKeepsInv ==
  ASSUME TableInv, NEW info \in Infos, NEW status \in DtoStatuses, NEW content \in Contents,
         Draft(info, status, content)
  PROVE  TableInv'
  <1> USE DEF TableInv
  <1>1. PICK base \in NewestPosted(rows, info, 0) :
           rows' = Append(rows, NewVersion(rows, info, base, status, content))
    BY DEF Draft
  <1> DEFINE e == NewVersion(rows, info, base, status, content)
             n == Len(rows) + 1
  <1>2. rows \in Seq(Row)
    BY DEF TypeOK
  <1>3. /\ e \in Row
        /\ e.info = info /\ e.status = status /\ e.card_order = 0
        /\ e.original_version_id = base
        /\ base = 0 => e.version = 1
        /\ base # 0 => e.version = rows[base].version + 1 /\ e.version # 1
    BY <1>2, NewVersionIsRow
  <1>4. /\ rows' \in Seq(Row)
        /\ DOMAIN rows' = DOMAIN rows \cup {n}
        /\ n \notin DOMAIN rows
        /\ \A i \in DOMAIN rows : rows'[i] = rows[i]
        /\ rows'[n] = e
    BY <1>1, <1>2, <1>3, InsertRow
  <1>5. status # "POSTED"
    BY DEF DtoStatuses
  <1>6. base = 0 \/ (base \in DOMAIN rows /\ rows[base].info = info
                       /\ rows[base].status = "POSTED")
    BY <1>2, NewestPostedIsPosted
  <1> HIDE DEF e, n
  <1>7. OriginalIsPosted'
    <2>1. ASSUME NEW i \in DOMAIN rows
          PROVE  LET o == rows'[i].original_version_id
                 IN /\ o = 0 <=> rows'[i].version = 1
                    /\ o # 0 => /\ o \in DOMAIN rows'
                                /\ rows'[o].status = "POSTED"
                                /\ rows'[o].info = rows'[i].info
                                /\ rows'[o].version + 1 = rows'[i].version
      BY <1>4 DEF OriginalIsPosted
    <2>2. LET o == rows'[n].original_version_id
          IN /\ o = 0 <=> rows'[n].version = 1
             /\ o # 0 => /\ o \in DOMAIN rows'
                         /\ rows'[o].status = "POSTED"
                         /\ rows'[o].info = rows'[n].info
                         /\ rows'[o].version + 1 = rows'[n].version
      BY <1>3, <1>4, <1>6
    <2>3. QED
      BY <1>4, <2>1, <2>2 DEF OriginalIsPosted
  <1>8. CardIdentifiesCompany'
    BY <1>3, <1>4, <1>5 DEF CardIdentifiesCompany
  <1>9. CardsWithoutGaps'
    BY <1>3, <1>4, <1>5 DEF CardsWithoutGaps
  <1>10. QED
    BY <1>4, <1>7, <1>8, <1>9 DEF TypeOK

\* Every other action edits one row, or the visibility of all of a company.
LEMMA EditsAreInPlace ==
  ASSUME TypeOK, NEW id \in DOMAIN rows, NEW status \in DtoStatuses,
         NEW content \in Contents, NEW b \in BOOLEAN,
         \/ Rework(id, status, content)
         \/ Correct(id, content)
         \/ Toggle(id, b)
         \/ Show(id, b)
  PROVE  InPlace(rows, rows') /\ PostsNothing(rows, rows')
  <1>1. rows \in Seq(Row) /\ rows[id] \in Row
    BY TableShape DEF TypeOK
  <1>2. CASE Rework(id, status, content)
    <2> DEFINE e == [rows[id] EXCEPT !.status = status, !.content = content]
    <2>1. rows' = [rows EXCEPT ![id] = e] /\ rows[id].status # "POSTED"
      BY <1>1, <1>2 DEF Rework
    <2>2. status \in Statuses /\ status # "POSTED"
      BY DEF DtoStatuses
    <2>3. e \in Row /\ e.status = status /\ e.card_order = rows[id].card_order
          /\ e.info = rows[id].info /\ e.version = rows[id].version
          /\ e.original_version_id = rows[id].original_version_id
      BY <1>1, <2>2 DEF Row
    <2> HIDE DEF e
    <2>4. QED
      BY <1>1, <2>1, <2>2, <2>3, UpdateRow DEF InPlace, PostsNothing
  <1>3. CASE Correct(id, content)
    <2> DEFINE e == [rows[id] EXCEPT !.content = content]
    <2>1. rows' = [rows EXCEPT ![id] = e]
      BY <1>1, <1>3 DEF Correct
    <2>2. e \in Row /\ e.status = rows[id].status /\ e.card_order = rows[id].card_order
          /\ e.info = rows[id].info /\ e.version = rows[id].version
          /\ e.original_version_id = rows[id].original_version_id
      BY <1>1 DEF Row
    <2> HIDE DEF e
    <2>3. QED
      BY <1>1, <2>1, <2>2, UpdateRow DEF InPlace, PostsNothing
  <1>4. CASE Toggle(id, b)
    <2> DEFINE e == [rows[id] EXCEPT !.is_public = b]
    <2>1. rows' = [rows EXCEPT ![id] = e]
      BY <1>1, <1>4 DEF Toggle
    <2>2. e \in Row /\ e.status = rows[id].status /\ e.card_order = rows[id].card_order
          /\ e.info = rows[id].info /\ e.version = rows[id].version
          /\ e.original_version_id = rows[id].original_version_id
      BY <1>1 DEF Row
    <2> HIDE DEF e
    <2>3. QED
      BY <1>1, <2>1, <2>2, UpdateRow DEF InPlace, PostsNothing
  <1>5. CASE Show(id, b)
    <2>1. rows' = SetVisibility(rows, rows[id].info, b)
      BY <1>5 DEF Show
    <2>2. QED
      BY <1>1, <2>1, BulkUpdateRows DEF InPlace, PostsNothing
  <1>6. QED
    BY <1>2, <1>3, <1>4, <1>5

LEMMA PostKeepsInv ==
  ASSUME TableInv, NEW id \in DOMAIN rows, NEW b \in BOOLEAN, Post(id, b)
  PROVE  TableInv' /\ InPlace(rows, rows')
  <1> USE DEF TableInv
  <1>1. PICK k \in CardFor(rows, rows[id].info) :
           rows' = [rows EXCEPT ![id].status = "POSTED", ![id].is_public = b,
                                ![id].card_order = k]
    BY DEF Post
  <1> DEFINE e == [rows[id] EXCEPT !.status = "POSTED", !.is_public = b, !.card_order = k]
  <1>2. rows \in Seq(Row) /\ \A i \in DOMAIN rows : rows[i] \in Row /\ rows[i].card_order \in Nat
    BY TableShape DEF TypeOK, Row
  <1>3. rows[id].status = "SUBMITTED"
    BY DEF Post
  <1>4. \/ \E j \in DOMAIN rows : rows[j].info = rows[id].info /\ rows[j].status = "POSTED"
                                 /\ k = rows[j].card_order
        \/ /\ \A i \in DOMAIN rows : ~ (rows[i].info = rows[id].info /\ rows[i].status = "POSTED")
           /\ \E m \in Nat : /\ k = m + 1
                             /\ \A i \in DOMAIN rows : rows[i].card_order <= m
                             /\ m = 0 \/ \E i \in DOMAIN rows : rows[i].card_order = m
    BY <1>2, CardForCompany
  <1>5. k \in Nat /\ k # 0
    BY <1>2, <1>4 DEF CardsWithoutGaps
  <1>7. rows' = [rows EXCEPT ![id] = e]
    BY <1>1, <1>2
  <1>8. /\ e \in Row /\ e.status = "POSTED" /\ e.card_order = k
        /\ e.info = rows[id].info /\ e.version = rows[id].version
        /\ e.original_version_id = rows[id].original_version_id
    BY <1>2, <1>5 DEF Row, Statuses
  <1> HIDE DEF e
  <1>10. /\ rows' \in Seq(Row)
         /\ DOMAIN rows' = DOMAIN rows
         /\ rows'[id] = e
         /\ \A i \in DOMAIN rows : i # id => rows'[i] = rows[i]
    BY <1>2, <1>7, <1>8, UpdateRow
  <1>11. InPlace(rows, rows')
    BY <1>3, <1>8, <1>10 DEF InPlace
  <1>12. OriginalIsPosted'
    BY <1>11, InPlaceKeepsOriginals
  <1>13. CardIdentifiesCompany'
    <2>1. ASSUME NEW j \in DOMAIN rows, j # id, rows[j].status = "POSTED"
          PROVE  rows[j].card_order = k <=> rows[j].info = rows[id].info
      BY <1>2, <1>4, <2>1 DEF CardIdentifiesCompany
    <2>2. QED
      BY <1>8, <1>10, <2>1 DEF CardIdentifiesCompany
  <1>14. CardsWithoutGaps'
    <2>1. \A i \in DOMAIN rows : rows'[i].status = "POSTED" <=> rows'[i].card_order # 0
      BY <1>5, <1>8, <1>10 DEF CardsWithoutGaps
    <2>2. \A j \in DOMAIN rows : rows[j].card_order # 0 => rows'[j].card_order = rows[j].card_order
      BY <1>3, <1>10 DEF CardsWithoutGaps
    <2>3. ASSUME NEW i \in DOMAIN rows, rows'[i].card_order > 1
          PROVE  \E j \in DOMAIN rows : rows'[j].card_order = rows'[i].card_order - 1
      <3>1. CASE i # id
        BY <1>2, <1>10, <2>2, <2>3, <3>1 DEF CardsWithoutGaps
      <3>2. CASE i = id
        <4>1. rows'[i].card_order = k
          BY <1>8, <1>10, <3>2
        <4>2. PICK j \in DOMAIN rows : rows[j].card_order = k - 1
          BY <1>2, <1>4, <2>3, <4>1 DEF CardsWithoutGaps
        <4>3. rows[j].card_order # 0
          BY <1>5, <2>3, <4>1, <4>2
        <4>4. QED
          BY <2>2, <4>1, <4>2, <4>3
      <3>3. QED
        BY <3>1, <3>2
    <2>4. QED
      BY <1>10, <2>1, <2>3 DEF CardsWithoutGaps
  <1>15. QED
    BY <1>10, <1>11, <1>12, <1>13, <1>14 DEF TypeOK

LEMMA TableInvInductive == TableInv /\ [Next]_rows => TableInv'
  <1> SUFFICES ASSUME TableInv, [Next]_rows
               PROVE  TableInv'
    OBVIOUS
  <1> USE DEF TableInv
  <1>1. ASSUME NEW info \in Infos, NEW status \in DtoStatuses, NEW content \in Contents,
               Draft(info, status, content)
        PROVE  TableInv'
    BY <1>1, DraftKeepsInv
  <1>2. ASSUME NEW id \in DOMAIN rows, NEW status \in DtoStatuses, NEW content \in Contents,
               NEW b \in BOOLEAN,
               Rework(id, status, content) \/ Correct(id, content) \/ Toggle(id, b) \/ Show(id, b)
        PROVE  TableInv'
    <2>1. InPlace(rows, rows') /\ PostsNothing(rows, rows')
      BY <1>2, EditsAreInPlace
    <2>2. QED
      BY <2>1, InPlaceKeepsOriginals, PostsNothingKeepsCards DEF InPlace, TypeOK
  <1>3. ASSUME NEW id \in DOMAIN rows, NEW b \in BOOLEAN, Post(id, b)
        PROVE  TableInv'
    BY <1>3, PostKeepsInv
  <1>4. CASE UNCHANGED rows
    BY <1>4 DEF TypeOK, OriginalIsPosted, CardIdentifiesCompany, CardsWithoutGaps
  <1>5. "DRAFT" \in DtoStatuses /\ TRUE \in BOOLEAN
    BY DEF DtoStatuses, Statuses
  <1>6. ASSUME NEW id \in DOMAIN rows
        PROVE  rows[id].content \in Contents
    BY TableShape DEF TypeOK, Row
  <1>7. QED
    BY <1>1, <1>2, <1>3, <1>4, <1>5, <1>6 DEF Next

\* The table keeps its type; originals are POSTED rows of the version below;
\* a card identifies a company and cards have no gaps (createSummary,
\* addSummaryToMaster), whatever the companies and however many rows.
THEOREM TableIsConsistent ==
  Spec => [](TypeOK /\ OriginalIsPosted /\ CardIdentifiesCompany /\ CardsWithoutGaps)
  <1>1. Init => TableInv
    BY EmptySeq DEF Init, TableInv, TypeOK, OriginalIsPosted, CardIdentifiesCompany, CardsWithoutGaps
  <1>2. QED
    BY <1>1, TableInvInductive, PTL DEF Spec, TableInv

\* What the table is made of, the chain of versions and the cards without holes
\* (createSummary, addSummaryToMaster), each by itself.
THEOREM TableTypeCorrect == Spec => []TypeOK
  BY TableIsConsistent, PTL

\* original_version_id names a POSTED row of the version below.
THEOREM OriginalsArePosted == Spec => []OriginalIsPosted
  BY TableIsConsistent, PTL

\* MAX(card_order) + 1 leaves no holes.
THEOREM CardsHaveNoGaps == Spec => []CardsWithoutGaps
  BY TableIsConsistent, PTL

\* A company's newest summary has an original, which is POSTED: it is another
\* row, it is one version older, and neither findRelatedPostedSummary nor
\* getSummaryForUser passes it over.
LEMMA OriginalsKeepUp == TableInv => NobodyFallsBehind
  <1> SUFFICES ASSUME TableInv, NEW info \in Infos, NEW shown \in getSummaryForAdmin(rows, info),
                      shown # 0, rows[shown].version > 1,
                      NEW other \in NewestPosted(rows, info, shown)
                                      \cup getSummaryForUser(rows, info)
               PROVE  other # 0 /\ rows[other].version >= rows[shown].version - 1
    BY DEF NobodyFallsBehind
  <1> USE DEF TableInv
  <1> DEFINE o == rows[shown].original_version_id
             posted == PostedIds(rows, info) \ {shown}
             visible == {i \in DOMAIN rows :
                           rows[i].info = info /\ rows[i].status # "DRAFT_FROM_ADMIN"}
  <1>1. shown \in DOMAIN rows /\ rows[shown].info = info
    BY DEF getSummaryForAdmin, Newest
  <1>2. rows[shown].version \in Nat /\ o \in Nat
    BY <1>1, TableShape DEF TypeOK, Row
  <1>3. /\ o \in DOMAIN rows /\ rows[o].status = "POSTED"
        /\ rows[o].info = info /\ rows[o].version + 1 = rows[shown].version
    <2>1. o # 0
      BY <1>1, <1>2 DEF OriginalIsPosted
    <2>2. QED
      BY <1>1, <2>1 DEF OriginalIsPosted
  <1>4. rows[o].version \in Nat
    BY <1>3, TableShape DEF TypeOK, Row
  <1>5. o \in posted /\ o \in visible
    BY <1>2, <1>3, <1>4 DEF PostedIds
  <1>6. other \in DOMAIN rows /\ rows[o].version <= rows[other].version
    <2>1. CASE other \in NewestPosted(rows, info, shown)
      <3>1. other \in posted /\ rows[o].version <= rows[other].version
        BY <1>5, <2>1, NewestIsNewest DEF NewestPosted
      <3>2. QED
        BY <3>1 DEF PostedIds
    <2>2. CASE other \in getSummaryForUser(rows, info)
      <3>1. other \in visible /\ rows[o].version <= rows[other].version
        BY <1>5, <2>2, NewestIsNewest DEF getSummaryForUser
      <3>2. QED
        BY <3>1
    <2>3. QED
      BY <2>1, <2>2
  <1>7. other # 0
    BY <1>6, TableShape
  <1>8. rows[other].version \in Nat
    BY <1>6, <1>7, TableShape DEF TypeOK, Row
  <1>9. QED
    BY <1>2, <1>3, <1>4, <1>6, <1>7, <1>8

\* The one who edits the newest summary of a company sees what is published, and
\* its user is at most one version behind (getSummaryForAdmin, getSummaryForUser).
THEOREM EditorsKeepUp == Spec => []NobodyFallsBehind
  BY TableIsConsistent, OriginalsKeepUp, PTL DEF TableInv

\* No statement takes a POSTED row out of master or changes its card.
THEOREM PostedRowsAreFinal == Spec => PostedIsFinal
  <1>1. ASSUME TableInv, [Next]_rows
        PROVE  [\A i \in DOMAIN rows :
                   rows[i].status = "POSTED" =>
                       /\ rows'[i].status = "POSTED"
                       /\ rows'[i].card_order = rows[i].card_order]_rows
    <2>1. ASSUME NEW info \in Infos, NEW status \in DtoStatuses, NEW content \in Contents,
                 Draft(info, status, content), NEW i \in DOMAIN rows
          PROVE  rows'[i] = rows[i]
      BY <1>1, <2>1, NewVersionIsRow, InsertRow DEF Draft, TableInv, TypeOK
    <2>2. ASSUME NEW id \in DOMAIN rows, NEW status \in DtoStatuses, NEW content \in Contents,
                 NEW b \in BOOLEAN,
                 Rework(id, status, content) \/ Correct(id, content) \/ Toggle(id, b) \/ Show(id, b)
          PROVE  InPlace(rows, rows')
      BY <1>1, <2>2, EditsAreInPlace DEF TableInv
    <2>3. ASSUME NEW id \in DOMAIN rows, NEW b \in BOOLEAN, Post(id, b)
          PROVE  InPlace(rows, rows')
      BY <1>1, <2>3, PostKeepsInv
    <2>4. "DRAFT" \in DtoStatuses /\ TRUE \in BOOLEAN
      BY DEF DtoStatuses, Statuses
    <2>5. ASSUME NEW id \in DOMAIN rows
          PROVE  rows[id].content \in Contents
      BY <1>1, TableShape DEF TableInv, TypeOK, Row
    <2>6. QED
      BY <1>1, <2>1, <2>2, <2>3, <2>4, <2>5 DEF Next, InPlace
  <1>2. QED
    BY <1>1, TableIsConsistent, PTL DEF Spec, PostedIsFinal, TableInv
=============================================================================
