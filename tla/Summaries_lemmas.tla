-------------------------- MODULE Summaries_lemmas --------------------------
(***************************************************************************)
(* What the queries and the statements on the table of summaries return    *)
(* and preserve, for every table.                                          *)
(***************************************************************************)
EXTENDS Summaries, SequenceTheorems, WellFoundedInduction, TLAPS

\* A table holds rows, and its ids are 1..Len.
LEMMA TableShape ==
  ASSUME NEW rows \in Seq(Row)
  PROVE  /\ Len(rows) \in Nat
         /\ DOMAIN rows = 1..Len(rows)
         /\ \A i \in DOMAIN rows : rows[i] \in Row
  BY LenProperties, ElementOfSeq

\* INSERT adds one row at the end and leaves the others alone.
LEMMA InsertRow ==
  ASSUME NEW rows \in Seq(Row), NEW e \in Row
  PROVE  /\ Append(rows, e) \in Seq(Row)
         /\ DOMAIN Append(rows, e) = DOMAIN rows \cup {Len(rows) + 1}
         /\ Len(rows) + 1 \notin DOMAIN rows
         /\ \A i \in DOMAIN rows : Append(rows, e)[i] = rows[i]
         /\ Append(rows, e)[Len(rows) + 1] = e
  BY TableShape

\* UPDATE of one row leaves the others alone.
LEMMA UpdateRow ==
  ASSUME NEW rows \in Seq(Row), NEW id \in DOMAIN rows, NEW e \in Row
  PROVE  /\ [rows EXCEPT ![id] = e] \in Seq(Row)
         /\ DOMAIN [rows EXCEPT ![id] = e] = DOMAIN rows
         /\ [rows EXCEPT ![id] = e][id] = e
         /\ \A i \in DOMAIN rows : i # id => [rows EXCEPT ![id] = e][i] = rows[i]
  <1>1. id \in 1..Len(rows)
    BY TableShape
  <1>2. [rows EXCEPT ![id] = e] \in Seq(Row)
    BY <1>1, ExceptSeq
  <1>3. QED
    BY <1>2, TableShape

\* The bulk UPDATE changes is_public only.
LEMMA BulkUpdateRows ==
  ASSUME NEW rows \in Seq(Row), NEW info, NEW b \in BOOLEAN
  PROVE  /\ SetVisibility(rows, info, b) \in Seq(Row)
         /\ DOMAIN SetVisibility(rows, info, b) = DOMAIN rows
         /\ \A i \in DOMAIN rows :
              LET new == SetVisibility(rows, info, b)[i]
              IN /\ new.info = rows[i].info
                 /\ new.status = rows[i].status
                 /\ new.version = rows[i].version
                 /\ new.original_version_id = rows[i].original_version_id
                 /\ new.card_order = rows[i].card_order
                 /\ new.content = rows[i].content
                 /\ new.is_public = IF rows[i].info = info THEN b ELSE rows[i].is_public
  <1> DEFINE new == SetVisibility(rows, info, b)
  <1>1. DOMAIN new = DOMAIN rows
    BY DEF SetVisibility
  <1>2. \A i \in DOMAIN rows : new[i] = IF rows[i].info = info
                                        THEN [rows[i] EXCEPT !.is_public = b] ELSE rows[i]
    BY DEF SetVisibility
  <1>3. \A i \in DOMAIN rows : rows[i] \in Row
    BY TableShape
  <1>4. \A i \in DOMAIN rows : new[i] \in Row
    BY <1>2, <1>3 DEF Row
  <1>5. new \in [1..Len(rows) -> Row] /\ Len(rows) \in Nat
    BY <1>4, TableShape DEF SetVisibility
  <1>6. new \in Seq(Row)
    BY <1>5, SeqDef
  <1>7. ASSUME NEW i \in DOMAIN rows
        PROVE  /\ new[i].info = rows[i].info
               /\ new[i].status = rows[i].status
               /\ new[i].version = rows[i].version
               /\ new[i].original_version_id = rows[i].original_version_id
               /\ new[i].card_order = rows[i].card_order
               /\ new[i].content = rows[i].content
               /\ new[i].is_public = IF rows[i].info = info THEN b ELSE rows[i].is_public
    BY <1>2, <1>3 DEF Row
  <1>8. QED
    BY <1>1, <1>6, <1>7

\* ORDER BY version DESC answers with one of the rows, and none of them is newer.
LEMMA NewestIsNewest ==
  ASSUME NEW rows, NEW ids, NEW id \in ids, NEW newest \in Newest(rows, ids)
  PROVE  newest \in ids /\ rows[id].version <= rows[newest].version
  BY DEF Newest

\* The newest POSTED row of a company is a POSTED row of that company; when
\* the company has none the query answers 0.
LEMMA NewestPostedIsPosted ==
  ASSUME NEW rows \in Seq(Row), NEW info, NEW exclude,
         NEW base \in NewestPosted(rows, info, exclude)
  PROVE  \/ base = 0
         \/ base \in DOMAIN rows /\ rows[base].info = info /\ rows[base].status = "POSTED"
  BY DEF NewestPosted, Newest, PostedIds

\* The entity createSummary builds is a row, one version above its original.
LEMMA NewVersionIsRow ==
  ASSUME NEW rows \in Seq(Row), NEW info \in Infos, NEW status \in DtoStatuses,
         NEW content \in Contents, NEW base \in NewestPosted(rows, info, 0)
  PROVE  LET e == NewVersion(rows, info, base, status, content)
         IN /\ e \in Row
            /\ e.info = info /\ e.status = status /\ e.card_order = 0
            /\ e.original_version_id = base
            /\ base = 0 => e.version = 1
            /\ base # 0 => e.version = rows[base].version + 1 /\ e.version # 1
  <1> DEFINE v == IF base = 0 THEN 1 ELSE rows[base].version + 1
  <1>1. base = 0 \/ (base \in DOMAIN rows /\ rows[base] \in Row)
    BY NewestPostedIsPosted, TableShape
  <1>2. base \in Nat
    BY <1>1, TableShape
  <1>3. base # 0 => rows[base].version \in Nat \ {0}
    BY <1>1 DEF Row
  <1>4. /\ v \in Nat \ {0}
        /\ base = 0 => v = 1
        /\ base # 0 => v = rows[base].version + 1 /\ v # 1
    BY <1>3
  <1>5. status \in Statuses /\ 0 \in Nat /\ FALSE \in BOOLEAN
    BY DEF DtoStatuses
  <1>6. NewVersion(rows, info, base, status, content)
          = [info |-> info, status |-> status, is_public |-> FALSE, version |-> v,
             original_version_id |-> base, card_order |-> 0, content |-> content]
    BY DEF NewVersion
  <1>7. v \in Nat \ {0}
    BY <1>4
  <1> HIDE DEF v
  <1>8. NewVersion(rows, info, base, status, content) \in Row
    BY <1>2, <1>5, <1>6, <1>7 DEF Row
  <1>9. QED
    BY <1>4, <1>6, <1>8

\* The row whose card addSummaryToMaster copies is a POSTED row of the
\* company; the answer is 0 only when the company has none.
LEMMA CardHolderIsPosted ==
  ASSUME NEW rows \in Seq(Row), NEW info, NEW holder \in CardHolder(rows, info)
  PROVE  /\ holder = 0 => \A i \in DOMAIN rows :
                             ~ (rows[i].info = info /\ rows[i].status = "POSTED")
         /\ holder # 0 => /\ holder \in DOMAIN rows
                          /\ rows[holder].info = info
                          /\ rows[holder].status = "POSTED"
  BY TableShape DEF CardHolder, PostedIds

\* MAX(card_order) is a number at least as great as every card.
LEMMA MaxCardIsMax ==
  ASSUME NEW rows \in Seq(Row), NEW m \in MaxCard(rows)
  PROVE  /\ m \in Nat
         /\ \A i \in DOMAIN rows : rows[i].card_order <= m
         /\ m = 0 \/ \E i \in DOMAIN rows : rows[i].card_order = m
  <1>1. /\ m \in {0} \cup {rows[i].card_order : i \in DOMAIN rows}
        /\ \A i \in DOMAIN rows : rows[i].card_order <= m
    BY DEF MaxCard
  <1>2. \A i \in DOMAIN rows : rows[i].card_order \in Nat
    BY TableShape DEF Row
  <1>3. m = 0 \/ \E i \in DOMAIN rows : rows[i].card_order = m
    BY <1>1
  <1>4. QED
    BY <1>1, <1>2, <1>3

\* A row is posted with the card of a POSTED row of its company or, when
\* there is none, with one more than the greatest card of the table.
LEMMA CardForCompany ==
  ASSUME NEW rows \in Seq(Row), NEW info, NEW card \in CardFor(rows, info)
  PROVE  \/ \E j \in DOMAIN rows : rows[j].info = info /\ rows[j].status = "POSTED"
                                 /\ card = rows[j].card_order
         \/ /\ \A i \in DOMAIN rows : ~ (rows[i].info = info /\ rows[i].status = "POSTED")
            /\ \E m \in Nat : /\ card = m + 1
                              /\ \A i \in DOMAIN rows : rows[i].card_order <= m
                              /\ m = 0 \/ \E i \in DOMAIN rows : rows[i].card_order = m
  <1>1. CASE PostedIds(rows, info) = {}
    <2>1. PICK m \in MaxCard(rows) : card = m + 1
      BY <1>1 DEF CardFor
    <2>2. QED
      BY <1>1, <2>1, MaxCardIsMax DEF PostedIds
  <1>2. CASE PostedIds(rows, info) # {}
    BY <1>2 DEF CardFor, CardHolder, PostedIds
  <1>3. QED
    BY <1>1, <1>2

\* The bulk UPDATE changes nobody's card.
LEMMA BulkUpdateKeepsCardFor ==
  ASSUME NEW rows \in Seq(Row), NEW info, NEW b \in BOOLEAN, NEW other
  PROVE  LET new == SetVisibility(rows, info, b)
         IN CardFor(new, other) = CardFor(rows, other)
  <1> DEFINE new == SetVisibility(rows, info, b)
  <1>1. /\ DOMAIN new = DOMAIN rows
        /\ \A i \in DOMAIN rows : /\ new[i].info = rows[i].info
                                 /\ new[i].status = rows[i].status
                                 /\ new[i].card_order = rows[i].card_order
    BY BulkUpdateRows
  <1> HIDE DEF new
  <1>2. PostedIds(new, other) = PostedIds(rows, other)
    BY <1>1 DEF PostedIds
  <1>3. \A i \in PostedIds(rows, other) : new[i].card_order = rows[i].card_order
    BY <1>1 DEF PostedIds
  <1>4. CardHolder(new, other) = CardHolder(rows, other)
    <2>1. CASE PostedIds(rows, other) = {}
      BY <1>2, <2>1 DEF CardHolder
    <2>2. CASE PostedIds(rows, other) # {}
      <3> DEFINE P == PostedIds(rows, other)
      <3>1. \A i, j \in P : new[j].card_order <= new[i].card_order
                              <=> rows[j].card_order <= rows[i].card_order
        BY <1>3
      <3>2. {i \in P : \A j \in P : new[j].card_order <= new[i].card_order}
              = {i \in P : \A j \in P : rows[j].card_order <= rows[i].card_order}
        BY <3>1
      <3>3. QED
        BY <1>2, <2>2, <3>2 DEF CardHolder
    <2>3. QED
      BY <2>1, <2>2
  <1>5. {new[i].card_order : i \in DOMAIN new} = {rows[i].card_order : i \in DOMAIN rows}
    BY <1>1
  <1>6. MaxCard(new) = MaxCard(rows)
    BY <1>1, <1>5 DEF MaxCard
  <1>7. PostedIds(rows, other) # {} => CardHolder(rows, other) \subseteq PostedIds(rows, other)
    BY DEF CardHolder
  <1>8. CardFor(new, other) = CardFor(rows, other)
    BY <1>2, <1>3, <1>4, <1>6, <1>7 DEF CardFor
  <1>9. QED
    BY <1>8 DEF new

-----------------------------------------------------------------------------
(***************************************************************************)
(* Every query of a table has an answer: ORDER BY ... DESC finds a row     *)
(* unless there is none, and MAX is a number.                              *)
(***************************************************************************)

\* A set of numbers has a least one.
LEMMA LeastNumber ==
  ASSUME NEW T \in SUBSET Nat, T # {}
  PROVE  \E m \in T : \A k \in T : m <= k
  <1>1. PICK m \in T : \A k \in T : ~ (<<k, m>> \in OpToRel(<, Nat))
    BY NatLessThanWellFounded, WFMin
  <1>2. \A k \in T : ~ (k < m)
    BY <1>1 DEF OpToRel
  <1>3. QED
    BY <1>2

\* Among rows with numbers there is one with the greatest: otherwise take the
\* shortest table without; it has a last row, and the rows before it do have one.
LEMMA GreatestExists ==
  ASSUME NEW n \in Nat, NEW ids \in SUBSET (1..n), ids # {}, NEW key \in [ids -> Nat]
  PROVE  \E i \in ids : \A j \in ids : key[j] <= key[i]
  <1> DEFINE HasGreatest(S) == \E i \in S : \A j \in S : key[j] <= key[i]
             Bad == {m \in Nat : \E S \in SUBSET ids : /\ S \subseteq 1..m
                                                     /\ S # {}
                                                     /\ ~ HasGreatest(S)}
  <1>1. Bad = {}
    <2> SUFFICES ASSUME Bad # {} PROVE FALSE
      OBVIOUS
    <2>1. PICK m \in Bad : \A k \in Bad : m <= k
      BY LeastNumber
    <2>2. PICK S \in SUBSET ids : S \subseteq 1..m /\ S # {} /\ ~ HasGreatest(S)
      BY <2>1
    <2>3. m \in Nat /\ m # 0
      <3>1. m \in Nat
        OBVIOUS
      <3>2. m = 0 => 1..m = {}
        OBVIOUS
      <3>3. QED
        BY <2>2, <3>1, <3>2
    <2>4. m - 1 \in Nat /\ m - 1 \notin Bad
      <3>1. m - 1 \in Nat /\ ~ (m <= m - 1)
        BY <2>3
      <3>2. QED
        BY <2>1, <3>1
    <2>5. S \ {m} \in SUBSET ids /\ S \ {m} \subseteq 1..(m - 1)
      BY <2>2, <2>3
    <2>6. S \ {m} = {} \/ HasGreatest(S \ {m})
      BY <2>4, <2>5
    <2>7. \A i \in S : key[i] \in Nat
      BY <2>2
    <2>8. CASE S \ {m} = {}
      <3>1. S = {m}
        BY <2>2, <2>8
      <3>2. HasGreatest(S)
        BY <2>7, <3>1
      <3>3. QED
        BY <2>2, <3>2
    <2>9. CASE HasGreatest(S \ {m})
      <3>1. PICK i \in S \ {m} : \A j \in S \ {m} : key[j] <= key[i]
        BY <2>9
      <3>2. CASE m \in S /\ key[i] <= key[m]
        <4>1. \A j \in S : key[j] <= key[m]
          BY <2>7, <3>1, <3>2
        <4>2. QED
          BY <2>2, <3>2, <4>1
      <3>3. CASE m \notin S \/ ~ (key[i] <= key[m])
        <4>1. \A j \in S : key[j] <= key[i]
          BY <2>7, <3>1, <3>3
        <4>2. QED
          BY <2>2, <4>1
      <3>4. QED
        BY <3>2, <3>3
    <2>10. QED
      BY <2>6, <2>8, <2>9
  <1>2. n \notin Bad
    BY <1>1
  <1>3. QED
    BY <1>2

\* ORDER BY version DESC finds a row when there is one.
LEMMA NewestAnswers ==
  ASSUME NEW rows \in Seq(Row), NEW ids \in SUBSET DOMAIN rows
  PROVE  Newest(rows, ids) # {}
  <1>1. CASE ids = {}
    BY <1>1 DEF Newest
  <1>2. CASE ids # {}
    <2> DEFINE key == [i \in ids |-> rows[i].version]
    <2>1. key \in [ids -> Nat] /\ Len(rows) \in Nat /\ ids \in SUBSET (1..Len(rows))
      BY TableShape DEF Row
    <2>2. PICK i \in ids : \A j \in ids : key[j] <= key[i]
      BY <1>2, <2>1, GreatestExists
    <2>3. QED
      BY <1>2, <2>2 DEF Newest
  <1>3. QED
    BY <1>1, <1>2

\* addSummaryToMaster always finds a card.
LEMMA CardForAnswers ==
  ASSUME NEW rows \in Seq(Row), NEW info
  PROVE  CardFor(rows, info) # {}
  <1>t. /\ Len(rows) \in Nat /\ DOMAIN rows = 1..Len(rows)
        /\ \A i \in DOMAIN rows : rows[i].card_order \in Nat
    BY TableShape DEF Row
  <1>1. ASSUME NEW ids \in SUBSET DOMAIN rows, ids # {}
        PROVE  \E i \in ids : \A j \in ids : rows[j].card_order <= rows[i].card_order
    <2> DEFINE key == [i \in ids |-> rows[i].card_order]
    <2>1. key \in [ids -> Nat] /\ ids \in SUBSET (1..Len(rows))
      BY <1>t
    <2>2. PICK i \in ids : \A j \in ids : key[j] <= key[i]
      BY <1>t, <1>1, <2>1, GreatestExists
    <2>3. QED
      BY <2>2
  <1>2. MaxCard(rows) # {}
    <2>1. CASE DOMAIN rows = {}
      BY <2>1 DEF MaxCard
    <2>2. CASE DOMAIN rows # {}
      <3>1. PICK i \in DOMAIN rows : \A j \in DOMAIN rows : rows[j].card_order <= rows[i].card_order
        BY <1>1, <2>2
      <3>2. rows[i].card_order \in MaxCard(rows)
        BY <3>1 DEF MaxCard
      <3>3. QED
        BY <3>2
    <2>3. QED
      BY <2>1, <2>2
  <1>3. CASE PostedIds(rows, info) = {}
    <2>1. PICK m \in MaxCard(rows) : TRUE
      BY <1>2
    <2>2. m + 1 \in CardFor(rows, info)
      BY <1>3, <2>1 DEF CardFor
    <2>3. QED
      BY <2>2
  <1>4. CASE PostedIds(rows, info) # {}
    <2>1. PICK i \in PostedIds(rows, info) :
             \A j \in PostedIds(rows, info) : rows[j].card_order <= rows[i].card_order
      BY <1>1, <1>4 DEF PostedIds
    <2>2. i \in CardHolder(rows, info)
      BY <1>4, <2>1 DEF CardHolder
    <2>3. rows[i].card_order \in CardFor(rows, info)
      BY <1>4, <2>2 DEF CardFor
    <2>4. QED
      BY <2>3
  <1>5. QED
    BY <1>3, <1>4
=============================================================================
