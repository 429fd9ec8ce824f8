------------------------ MODULE SummaryService_proofs ------------------------
(***************************************************************************)
(* What any number of overlapping requests of SummaryService preserve, and *)
(* for every set of companies, users and request slots.                    *)
(*                                                                         *)
(* The properties of the table are not inductive by themselves: a request  *)
(* may save the copy of a row that it read long ago.  ServiceInv adds what *)
(* is true of every copy in memory, however stale: it is a copy of the     *)
(* same version of the same company, and when it will be saved as POSTED   *)
(* its row has been SUBMITTED.  That a POSTED row has a card is true of    *)
(* two requests at a time only: see CardInv.                               *)
(***************************************************************************)
EXTENDS SummaryService, Summaries_lemmas

EditWaits == {"existing", "maxCard", "bulk", "save", "update"}

\* The entity e is a copy of row id of the table rs, as far as no request may
\* change it.
IsCopyOf(e, id, rs) ==
    /\ id \in DOMAIN rs
    /\ e.info = rs[id].info
    /\ e.version = rs[id].version
    /\ e.original_version_id = rs[id].original_version_id

\* The new entity e is version 1, or one above a row that has been SUBMITTED.
IsNextVersion(e, rs, sub) ==
    LET o == e.original_version_id
    IN /\ o = 0 <=> e.version = 1
       /\ o # 0 => /\ o \in sub
                   /\ rs[o].info = e.info
                   /\ rs[o].version + 1 = e.version

CopyOK(r, rs, sub) ==
    /\ r.pc \in EditWaits \cup {"insert"} => r.entity \in Row
    /\ r.pc \in EditWaits =>
          /\ IsCopyOf(r.entity, r.target, rs)
          /\ r.entity.status = "POSTED" => r.target \in sub
    /\ r.pc = "insert" => r.entity.status # "POSTED" /\ IsNextVersion(r.entity, rs, sub)

CopiesOK == \A c \in Clients : CopyOK(req[c], rows, submitted)

SubmittedIsKnown ==
    \A i \in DOMAIN rows : rows[i].status = "SUBMITTED" => i \in submitted

ServiceInv ==
    /\ TypeOK
    /\ SubmittedIsKnown
    /\ OnlySubmittedIsPosted
    /\ VersionChain
    /\ CopiesOK

\* How every step changes the table.
Evolves(rs, new) ==
    \A i \in DOMAIN rs :
        /\ i \in DOMAIN new
        /\ new[i].info = rs[i].info
        /\ new[i].version = rs[i].version
        /\ new[i].original_version_id = rs[i].original_version_id

-----------------------------------------------------------------------------

\* A copy in memory stays a copy while others change the table.
LEMMA CopySurvives ==
  ASSUME NEW rs, NEW new, NEW sub, NEW newsub, NEW r,
         Evolves(rs, new), sub \subseteq newsub, sub \subseteq DOMAIN rs,
         CopyOK(r, rs, sub)
  PROVE  CopyOK(r, new, newsub)
  <1>1. r.pc \in EditWaits => IsCopyOf(r.entity, r.target, new)
    BY DEF CopyOK, IsCopyOf, Evolves
  <1>2. r.pc = "insert" => IsNextVersion(r.entity, new, newsub)
    BY DEF CopyOK, IsNextVersion, Evolves
  <1>3. QED
    BY <1>1, <1>2 DEF CopyOK

\* A step that leaves the table alone keeps the invariant when the request it
\* leaves behind is in order.
LEMMA QuietStep ==
  ASSUME ServiceInv, UNCHANGED <<rows, submitted>>,
         NEW c \in Clients, NEW r \in Request,
         CopyOK(r, rows, submitted), req' = [req EXCEPT ![c] = r]
  PROVE  ServiceInv'
  <1>1. TypeOK'
    BY DEF ServiceInv, TypeOK
  <1>2. CopiesOK'
    BY DEF ServiceInv, TypeOK, CopiesOK
  <1>3. QED
    BY <1>1, <1>2
    DEF ServiceInv, SubmittedIsKnown, OnlySubmittedIsPosted, VersionChain

\* A step that commits a table keeps the invariant when it loses no row,
\* posts only what was submitted, and links what it inserts.
LEMMA TableStep ==
  ASSUME ServiceInv, NEW c \in Clients, NEW r \in Request,
         rows' \in Seq(Row), Evolves(rows, rows'), VersionChain',
         submitted' = submitted \cup {i \in DOMAIN rows' : rows'[i].status = "SUBMITTED"},
         \A i \in DOMAIN rows' : rows'[i].status = "POSTED" => i \in submitted,
         req' = [req EXCEPT ![c] = r], CopyOK(r, rows', submitted')
  PROVE  ServiceInv'
  <1>1. submitted \subseteq DOMAIN rows'
    BY DEF ServiceInv, TypeOK, Evolves
  <1>2. TypeOK'
    BY <1>1 DEF ServiceInv, TypeOK
  <1>3. ASSUME NEW d \in Clients
        PROVE  CopyOK(req'[d], rows', submitted')
    <2>1. CASE d = c
      BY <2>1 DEF ServiceInv, TypeOK
    <2>2. CASE d # c
      <3>1. req'[d] = req[d]
        BY <2>2 DEF ServiceInv, TypeOK
      <3>2. CopyOK(req[d], rows, submitted)
        BY DEF ServiceInv, CopiesOK
      <3>3. submitted \subseteq submitted' /\ submitted \subseteq DOMAIN rows
        BY DEF ServiceInv, TypeOK
      <3>4. CopyOK(req[d], rows', submitted')
        BY <3>2, <3>3, CopySurvives
      <3>5. QED
        BY <3>1, <3>4
    <2>3. QED
      BY <2>1, <2>2
  <1>4. CopiesOK'
    BY <1>3 DEF CopiesOK
  <1>5. SubmittedIsKnown' /\ OnlySubmittedIsPosted'
    BY DEF SubmittedIsKnown, OnlySubmittedIsPosted
  <1>6. QED
    BY <1>2, <1>4, <1>5 DEF ServiceInv

\* Updates keep the chain of versions.
LEMMA UpdatesKeepChain ==
  ASSUME VersionChain, Evolves(rows, rows'), DOMAIN rows' = DOMAIN rows,
         submitted \subseteq submitted', submitted \subseteq DOMAIN rows
  PROVE  VersionChain'
  <1> SUFFICES ASSUME NEW i \in DOMAIN rows'
               PROVE  LET o == rows'[i].original_version_id
                      IN /\ o = 0 <=> rows'[i].version = 1
                         /\ o # 0 => /\ o < i /\ o \in submitted'
                                     /\ rows'[o].info = rows'[i].info
                                     /\ rows'[o].version + 1 = rows'[i].version
    BY DEF VersionChain
  <1>1. QED
    BY DEF VersionChain, Evolves

-----------------------------------------------------------------------------

\* A request that arrives starts with an entity that is in order.
LEMMA BeginKeepsInv ==
  ASSUME ServiceInv, NEW c \in Clients, NEW m \in Methods, NEW p \in Waits,
         NEW id \in Nat, NEW e \in Row, Begin(c, m, p, id, e),
         p \in EditWaits => /\ IsCopyOf(e, id, rows)
                            /\ e.status = "POSTED" => id \in submitted,
         p = "insert" => e.status # "POSTED" /\ IsNextVersion(e, rows, submitted)
  PROVE  ServiceInv'
  <1> DEFINE r == [pc |-> p, method |-> m, target |-> id, entity |-> e, diff |-> {},
                   wrote |-> FALSE]
  <1>1. r \in Request
    BY DEF Request
  <1>2. CopyOK(r, rows, submitted)
    BY DEF CopyOK
  <1>3. req' = [req EXCEPT ![c] = r] /\ UNCHANGED <<rows, submitted>>
    BY DEF Begin
  <1> HIDE DEF r
  <1>4. QED
    BY <1>1, <1>2, <1>3, QuietStep

\* The early returns of createSummary and of the methods that edit a row.
LEMMA EditArrives ==
  ASSUME ServiceInv, NEW c \in Clients, NEW id \in DOMAIN rows, NEW m \in Methods,
         NEW status \in Statuses, NEW content \in Contents, NEW b \in BOOLEAN,
         NEW p \in EditWaits,
         \/ rows[id].status = "POSTED" /\ status = "POSTED"
         \/ status # "POSTED"
         \/ rows[id].status = "SUBMITTED" /\ p = "existing",
         Begin(c, m, p, id, [rows[id] EXCEPT !.status = status, !.content = content,
                                             !.is_public = b])
  PROVE  ServiceInv'
  <1> DEFINE e == [rows[id] EXCEPT !.status = status, !.content = content, !.is_public = b]
  <1>1. rows[id] \in Row /\ id \in Nat
    BY TableShape DEF ServiceInv, TypeOK
  <1>2. /\ e \in Row
        /\ e.info = rows[id].info /\ e.version = rows[id].version
        /\ e.original_version_id = rows[id].original_version_id
        /\ e.card_order = rows[id].card_order /\ e.status = status
    BY <1>1 DEF Row
  <1>3. p \in Waits /\ p # "insert"
    BY DEF Waits, EditWaits
  <1>4. Begin(c, m, p, id, e)
    OBVIOUS
  <1> HIDE DEF e
  <1>5. IsCopyOf(e, id, rows)
    BY <1>2 DEF IsCopyOf
  <1>6. e.status = "POSTED" => id \in submitted
    BY <1>2 DEF ServiceInv, OnlySubmittedIsPosted, SubmittedIsKnown
  <1>7. QED
    BY <1>1, <1>2, <1>3, <1>4, <1>5, <1>6, BeginKeepsInv

LEMMA CreateArrives ==
  ASSUME ServiceInv, NEW c \in Clients, NEW info \in Infos, NEW status \in Sent,
         NEW content \in Contents, createSummary(c, info, status, content)
  PROVE  ServiceInv'
  <1>1. PICK base \in NewestPosted(rows, info, 0) :
           Begin(c, "createSummary", "insert", 0, NewVersion(rows, info, base, status, content))
    BY DEF createSummary
  <1> DEFINE e == NewVersion(rows, info, base, status, content)
  <1>2. rows \in Seq(Row)
    BY DEF ServiceInv, TypeOK
  <1>3. /\ e \in Row
        /\ e.info = info /\ e.status = status /\ e.card_order = 0
        /\ e.original_version_id = base
        /\ base = 0 => e.version = 1
        /\ base # 0 => e.version = rows[base].version + 1 /\ e.version # 1
    BY <1>2, SentAssumption, NewVersionIsRow
  <1>4. base = 0 \/ (base \in DOMAIN rows /\ rows[base].info = info
                       /\ rows[base].status = "POSTED")
    BY <1>2, NewestPostedIsPosted
  <1> HIDE DEF e
  <1>5. e.status # "POSTED"
    BY <1>3, SentAssumption DEF DtoStatuses
  <1>6. IsNextVersion(e, rows, submitted)
    BY <1>3, <1>4 DEF IsNextVersion, ServiceInv, OnlySubmittedIsPosted
  <1>7. Begin(c, "createSummary", "insert", 0, e)
    BY <1>1 DEF e
  <1>8. "createSummary" \in Methods /\ "insert" \in Waits /\ 0 \in Nat
        /\ "insert" \notin EditWaits
    BY DEF Methods, Waits, EditWaits
  <1>9. QED
    BY <1>3, <1>5, <1>6, <1>7, <1>8, BeginKeepsInv

LEMMA ArriveKeepsInv ==
  ASSUME ServiceInv, NEW c \in Clients, Arrive(c)
  PROVE  ServiceInv'
  <1>1. ASSUME NEW info \in Infos, NEW status \in Sent, NEW content \in Contents,
               createSummary(c, info, status, content)
        PROVE  ServiceInv'
    BY <1>1, CreateArrives
  <1>2. ASSUME NEW id \in DOMAIN rows
        PROVE  /\ rows[id] \in Row
               /\ rows[id].status \in Statuses
               /\ rows[id].content \in Contents
               /\ rows[id].is_public \in BOOLEAN
    BY TableShape DEF ServiceInv, TypeOK, Row
  <1>3. ASSUME NEW status \in Sent
        PROVE  status \in Statuses /\ status # "POSTED"
    BY SentAssumption DEF DtoStatuses
  <1>4. /\ {"updateSummary", "updateSummaryForUser", "updateSummaryMaster",
            "changePublicStatus", "addSummaryToMaster"} \subseteq Methods
        /\ {"save", "bulk", "existing"} \subseteq EditWaits
        /\ "POSTED" \in Statuses
    BY DEF Methods, EditWaits, Statuses
  <1>5. ASSUME NEW id \in DOMAIN rows, NEW status \in Sent, NEW content \in Contents,
               updateSummary(c, id, status, content)
        PROVE  ServiceInv'
    <2>1. Begin(c, "updateSummary", "save", id,
                [rows[id] EXCEPT !.status = status, !.content = content,
                                 !.is_public = rows[id].is_public])
      BY <1>2, <1>5 DEF updateSummary, Row
    <2>2. QED
      BY <1>2, <1>3, <1>4, <2>1, EditArrives
  <1>6. ASSUME NEW id \in DOMAIN rows, NEW status \in Sent, NEW content \in Contents,
               NEW user \in Users, updateSummaryForUser(c, user, id, status, content)
        PROVE  ServiceInv'
    <2>1. Begin(c, "updateSummaryForUser", "save", id,
                [rows[id] EXCEPT !.status = status, !.content = content,
                                 !.is_public = rows[id].is_public])
      BY <1>2, <1>6 DEF updateSummaryForUser, Row
    <2>2. QED
      BY <1>2, <1>3, <1>4, <2>1, EditArrives
  <1>7. ASSUME NEW id \in DOMAIN rows, NEW content \in Contents,
               updateSummaryMaster(c, id, content)
        PROVE  ServiceInv'
    <2>1. /\ rows[id].status = "POSTED"
          /\ Begin(c, "updateSummaryMaster", "save", id,
                   [rows[id] EXCEPT !.status = "POSTED", !.content = content,
                                    !.is_public = rows[id].is_public])
      BY <1>2, <1>7 DEF updateSummaryMaster, Row
    <2>2. QED
      BY <1>2, <1>4, <2>1, EditArrives
  <1>8. ASSUME NEW id \in DOMAIN rows, NEW b \in BOOLEAN, changePublicStatus(c, id, b)
        PROVE  ServiceInv'
    <2>1. /\ rows[id].status = "POSTED"
          /\ Begin(c, "changePublicStatus", "save", id,
                   [rows[id] EXCEPT !.status = "POSTED", !.content = rows[id].content,
                                    !.is_public = b])
      BY <1>2, <1>8 DEF changePublicStatus, Row
    <2>2. QED
      BY <1>2, <1>4, <2>1, EditArrives
  <1>9. ASSUME NEW id \in DOMAIN rows, NEW b \in BOOLEAN, addSummaryToMaster(c, id, b)
        PROVE  ServiceInv'
    <2>1. CASE rows[id].status = "SUBMITTED"
      <3>1. Begin(c, "addSummaryToMaster", "existing", id,
                  [rows[id] EXCEPT !.status = "POSTED", !.content = rows[id].content,
                                   !.is_public = b])
        BY <1>2, <1>9, <2>1 DEF addSummaryToMaster, Row
      <3>2. QED
        BY <1>2, <1>4, <2>1, <3>1, EditArrives
    <2>2. CASE rows[id].status = "POSTED"
      <3>1. Begin(c, "addSummaryToMaster", "bulk", id,
                  [rows[id] EXCEPT !.status = "POSTED", !.content = rows[id].content,
                                   !.is_public = b])
        BY <1>2, <1>9, <2>2 DEF addSummaryToMaster, Row
      <3>2. QED
        BY <1>2, <1>4, <2>2, <3>1, EditArrives
    <2>3. QED
      BY <1>9, <2>1, <2>2 DEF addSummaryToMaster
  <1>10. QED
    BY <1>1, <1>5, <1>6, <1>7, <1>8, <1>9 DEF Arrive

-----------------------------------------------------------------------------

\* Continue, Answer and Break leave the table alone.
LEMMA IdleIsOK == Idle \in Request /\ CopyOK(Idle, rows, submitted)
  BY DEF Idle, Request, CopyOK, Waits, EditWaits

LEMMA BreakKeepsInv ==
  ASSUME ServiceInv, NEW c \in Clients, Break(c)
  PROVE  ServiceInv'
  <1> DEFINE r == [Idle EXCEPT !.pc = "failed"]
  <1>1. r \in Request /\ CopyOK(r, rows, submitted)
    BY DEF Idle, Request, CopyOK, Waits, EditWaits
  <1>2. QED
    BY <1>1, QuietStep DEF Break

LEMMA AnswerKeepsInv ==
  ASSUME ServiceInv, NEW c \in Clients, Answer(c), UNCHANGED <<rows, submitted>>
  PROVE  ServiceInv'
  BY IdleIsOK, QuietStep DEF Answer

LEMMA ContinueKeepsInv ==
  ASSUME ServiceInv, NEW c \in Clients, NEW p \in Waits, NEW e \in Row \cup {NoEntity},
         Continue(c, p, e), p # "insert",
         p \in EditWaits => /\ e \in Row
                            /\ IsCopyOf(e, req[c].target, rows)
                            /\ e.status = "POSTED" => req[c].target \in submitted
  PROVE  ServiceInv'
  <1> DEFINE r == [req[c] EXCEPT !.pc = p, !.entity = e]
  <1>1. req[c] \in Request
    BY DEF ServiceInv, TypeOK
  <1>2. r \in Request /\ r.pc = p /\ r.entity = e /\ r.target = req[c].target
    BY <1>1 DEF Request
  <1>3. req' = [req EXCEPT ![c] = r] /\ UNCHANGED <<rows, submitted>>
    BY <1>1 DEF Continue, ServiceInv, TypeOK
  <1> HIDE DEF r
  <1>4. CopyOK(r, rows, submitted)
    BY <1>2 DEF CopyOK
  <1>5. QED
    BY <1>2, <1>3, <1>4, QuietStep

\* The awaits of addSummaryToMaster before its first write.
LEMMA ReadsKeepInv ==
  ASSUME ServiceInv, NEW c \in Clients, ReadExisting(c) \/ ReadMaxCard(c)
  PROVE  ServiceInv'
  <1> DEFINE e == req[c].entity
  <1>1. req[c] \in Request /\ CopyOK(req[c], rows, submitted)
    BY DEF ServiceInv, TypeOK, CopiesOK
  <1>2. /\ e \in Row /\ IsCopyOf(e, req[c].target, rows)
        /\ e.status = "POSTED" => req[c].target \in submitted
    BY <1>1 DEF ReadExisting, ReadMaxCard, CopyOK, Waits, EditWaits
  <1>3. "maxCard" \in Waits /\ "bulk" \in Waits
    BY DEF Waits
  <1>4. rows \in Seq(Row)
    BY DEF ServiceInv, TypeOK
  <1>5. ASSUME NEW k \in Nat
        PROVE  LET f == [e EXCEPT !.card_order = k]
               IN f \in Row /\ IsCopyOf(f, req[c].target, rows) /\ f.status = e.status
    BY <1>2 DEF Row, IsCopyOf
  <1> HIDE DEF e
  <1>6. CASE ReadExisting(c)
    <2>1. PICK holder \in CardHolder(rows, e.info) :
             IF holder = 0
             THEN Continue(c, "maxCard", e)
             ELSE Continue(c, "bulk", [e EXCEPT !.card_order = rows[holder].card_order])
      BY <1>6 DEF ReadExisting, e
    <2>2. CASE holder = 0
      BY <1>2, <1>3, <2>1, <2>2, ContinueKeepsInv
    <2>3. CASE holder # 0
      <3>1. holder \in DOMAIN rows
        BY <1>4, <2>3, CardHolderIsPosted
      <3>2. rows[holder].card_order \in Nat
        BY <1>4, <3>1, TableShape DEF Row
      <3>3. QED
        BY <1>2, <1>3, <1>5, <2>1, <2>3, <3>2, ContinueKeepsInv
    <2>4. QED
      BY <2>2, <2>3
  <1>7. CASE ReadMaxCard(c)
    <2>1. PICK m \in MaxCard(rows) : Continue(c, "bulk", [e EXCEPT !.card_order = m + 1])
      BY <1>7 DEF ReadMaxCard, e
    <2>2. m + 1 \in Nat
      BY <1>4, MaxCardIsMax
    <2>3. QED
      BY <1>2, <1>3, <1>5, <2>1, <2>2, ContinueKeepsInv
  <1>8. QED
    BY <1>6, <1>7

\* A request whose row is saved holds no copy any more.
LEMMA SavedLeaves ==
  ASSUME ServiceInv, NEW c \in Clients, NEW id \in Nat, NEW wrote \in BOOLEAN,
         NEW p, p \in {"mail", "related", "idle"}, Saved(c, id, p, wrote)
  PROVE  \E r \in Request : /\ req' = [req EXCEPT ![c] = r]
                            /\ r.pc = p
                            /\ \A rs, sub : CopyOK(r, rs, sub)
  <1>1. req[c] \in Request
    BY DEF ServiceInv, TypeOK
  <1> DEFINE r == IF p = "idle" THEN Idle
                  ELSE [Idle EXCEPT !.pc = p, !.method = req[c].method,
                                    !.target = id, !.wrote = wrote]
  <1>2. r \in Request /\ r.pc = p
    BY <1>1 DEF Request, Idle, Waits
  <1>3. req' = [req EXCEPT ![c] = r]
    BY DEF Saved, Answer
  <1> HIDE DEF r
  <1>4. \A rs, sub : CopyOK(r, rs, sub)
    BY <1>2 DEF CopyOK, EditWaits
  <1>5. QED
    BY <1>2, <1>3, <1>4

LEMMA BulkUpdateKeepsInv ==
  ASSUME ServiceInv, NEW c \in Clients, BulkUpdate(c)
  PROVE  ServiceInv' /\ Evolves(rows, rows')
  <1> DEFINE e == req[c].entity
             new == SetVisibility(rows, e.info, e.is_public)
             r == [req[c] EXCEPT !.pc = "save", !.wrote = TRUE]
  <1>1. req[c] \in Request /\ CopyOK(req[c], rows, submitted) /\ rows \in Seq(Row)
    BY DEF ServiceInv, TypeOK, CopiesOK
  <1>2. req[c].pc = "bulk" /\ Commit(new) /\ req' = [req EXCEPT ![c] = r]
    BY DEF BulkUpdate, ServiceInv, TypeOK
  <1>3. e \in Row /\ e.is_public \in BOOLEAN
    BY <1>1, <1>2 DEF CopyOK, EditWaits, Row
  <1>4. /\ new \in Seq(Row) /\ DOMAIN new = DOMAIN rows
        /\ \A i \in DOMAIN rows :
             /\ new[i].info = rows[i].info /\ new[i].status = rows[i].status
             /\ new[i].version = rows[i].version
             /\ new[i].original_version_id = rows[i].original_version_id
             /\ new[i].card_order = rows[i].card_order
    BY <1>1, <1>3, BulkUpdateRows
  <1>5. r \in Request /\ r.pc = "save" /\ r.entity = req[c].entity /\ r.target = req[c].target
    BY <1>1 DEF Request, Waits
  <1> HIDE DEF new, e, r
  <1>6. Evolves(rows, new)
    BY <1>4 DEF Evolves
  <1>7. /\ rows' = new
        /\ submitted' = submitted \cup {i \in DOMAIN new : new[i].status = "SUBMITTED"}
    BY <1>2 DEF Commit
  <1>8. submitted \subseteq submitted' /\ submitted \subseteq DOMAIN rows
    BY <1>7 DEF ServiceInv, TypeOK
  <1>9. CopyOK(r, rows', submitted')
    <2>1. CopyOK(req[c], rows', submitted')
      BY <1>1, <1>6, <1>7, <1>8, CopySurvives
    <2>2. QED
      BY <1>2, <1>5, <2>1 DEF CopyOK, EditWaits
  <1>10. VersionChain'
    BY <1>4, <1>6, <1>7, <1>8, UpdatesKeepChain DEF ServiceInv
  <1>11. \A i \in DOMAIN rows' : rows'[i].status = "POSTED" => i \in submitted
    BY <1>4, <1>7 DEF ServiceInv, OnlySubmittedIsPosted
  <1>12. QED
    BY <1>2, <1>4, <1>5, <1>6, <1>7, <1>9, <1>10, <1>11, TableStep

\* The SELECT of a save.
LEMMA SaveKeepsInv ==
  ASSUME ServiceInv, NEW c \in Clients, Save(c)
  PROVE  ServiceInv'
  <1> DEFINE e == req[c].entity
             cols == Differing(rows[req[c].target], e)
             p == AfterSave(req[c].method, e.status)
             r == [req[c] EXCEPT !.pc = "update", !.diff = cols]
  <1>1. req[c] \in Request /\ CopyOK(req[c], rows, submitted) /\ req \in [Clients -> Request]
    BY DEF ServiceInv, TypeOK, CopiesOK
  <1>2. req[c].pc = "save" /\ UNCHANGED <<rows, submitted>>
    BY DEF Save
  <1>3. CASE cols = {}
    <2>1. Saved(c, req[c].target, p, req[c].wrote)
      BY <1>3 DEF Save
    <2>2. p \in {"mail", "related", "idle"} /\ req[c].target \in Nat /\ req[c].wrote \in BOOLEAN
      BY <1>1 DEF AfterSave, Request
    <2> HIDE DEF p
    <2>3. QED
      BY <1>2, <2>1, <2>2, SavedLeaves, QuietStep
  <1>4. CASE cols # {}
    <2>1. req' = [req EXCEPT ![c] = r]
      BY <1>1, <1>4 DEF Save
    <2>2. /\ r \in Request /\ r.pc = "update" /\ r.entity = req[c].entity
          /\ r.target = req[c].target
      BY <1>1 DEF Request, Waits, Differing
    <2> HIDE DEF r
    <2>3. CopyOK(r, rows, submitted)
      BY <1>1, <1>2, <2>2 DEF CopyOK, EditWaits
    <2>4. QED
      BY <1>2, <2>1, <2>2, <2>3, QuietStep
  <1>5. QED
    BY <1>3, <1>4

\* What an UPDATE makes of a row.
LEMMA MergedRow ==
  ASSUME NEW row \in Row, NEW e \in Row, NEW cols
  PROVE  LET new == Merged(row, e, cols)
         IN /\ new \in Row
            /\ new.info = row.info
            /\ new.version = row.version
            /\ new.original_version_id = row.original_version_id
            /\ new.status = IF "status" \in cols THEN e.status ELSE row.status
            /\ new.content = IF "content" \in cols THEN e.content ELSE row.content
            /\ new.card_order = IF "card_order" \in cols THEN e.card_order ELSE row.card_order
            /\ new.is_public = IF "is_public" \in cols THEN e.is_public ELSE row.is_public
  BY DEF Merged, Row

\* The UPDATE of a save, as a step of the table.
LEMMA UpdateChanges ==
  ASSUME ServiceInv, NEW c \in Clients, Update(c)
  PROVE  LET e == req[c].entity
             id == req[c].target
         IN /\ req[c].pc = "update" /\ id \in DOMAIN rows /\ e \in Row /\ rows[id] \in Row
            /\ rows' \in Seq(Row) /\ DOMAIN rows' = DOMAIN rows
            /\ rows'[id] = Merged(rows[id], e, req[c].diff)
            /\ \A i \in DOMAIN rows : i # id => rows'[i] = rows[i]
            /\ submitted' = submitted \cup {i \in DOMAIN rows' : rows'[i].status = "SUBMITTED"}
            /\ \E r \in Request : /\ req' = [req EXCEPT ![c] = r]
                                  /\ r.pc \in {"mail", "related", "idle"}
                                  /\ \A rs, sub : CopyOK(r, rs, sub)
  <1> DEFINE e == req[c].entity
             id == req[c].target
             p == AfterSave(req[c].method, e.status)
             new == Merged(rows[id], e, req[c].diff)
  <1>1. req[c] \in Request /\ CopyOK(req[c], rows, submitted) /\ rows \in Seq(Row)
    BY DEF ServiceInv, TypeOK, CopiesOK
  <1>2. req[c].pc = "update" /\ Commit([rows EXCEPT ![id] = new]) /\ Saved(c, id, p, TRUE)
    BY DEF Update
  <1>3. id \in DOMAIN rows /\ id \in Nat /\ e \in Row /\ rows[id] \in Row
    BY <1>1, <1>2, TableShape DEF CopyOK, IsCopyOf, EditWaits
  <1>4. p \in {"mail", "related", "idle"}
    BY DEF AfterSave
  <1>5. new \in Row
    BY <1>3, MergedRow
  <1> HIDE DEF p, new
  <1>6. /\ [rows EXCEPT ![id] = new] \in Seq(Row)
        /\ DOMAIN [rows EXCEPT ![id] = new] = DOMAIN rows
        /\ [rows EXCEPT ![id] = new][id] = new
        /\ \A i \in DOMAIN rows : i # id => [rows EXCEPT ![id] = new][i] = rows[i]
    BY <1>1, <1>3, <1>5, UpdateRow
  <1>7. \E r \in Request : req' = [req EXCEPT ![c] = r] /\ r.pc = p
                             /\ \A rs, sub : CopyOK(r, rs, sub)
    <2>1. \E wrote \in BOOLEAN : Saved(c, id, p, wrote)
      <3> WITNESS TRUE \in BOOLEAN
      <3>1. QED
        BY <1>2
    <2>2. QED
      BY <1>3, <1>4, <2>1, SavedLeaves
  <1>8. QED
    BY <1>2, <1>3, <1>4, <1>6, <1>7 DEF Commit, new

LEMMA UpdateKeepsInv ==
  ASSUME ServiceInv, NEW c \in Clients, Update(c)
  PROVE  ServiceInv' /\ Evolves(rows, rows')
  <1> DEFINE e == req[c].entity
             id == req[c].target
  <1>1. /\ req[c].pc = "update" /\ id \in DOMAIN rows /\ e \in Row /\ rows[id] \in Row
        /\ rows' \in Seq(Row) /\ DOMAIN rows' = DOMAIN rows
        /\ rows'[id] = Merged(rows[id], e, req[c].diff)
        /\ \A i \in DOMAIN rows : i # id => rows'[i] = rows[i]
        /\ submitted' = submitted \cup {i \in DOMAIN rows' : rows'[i].status = "SUBMITTED"}
    BY UpdateChanges
  <1>2. PICK r \in Request : req' = [req EXCEPT ![c] = r] /\ \A rs, sub : CopyOK(r, rs, sub)
    BY UpdateChanges
  <1>3. /\ rows'[id].info = rows[id].info /\ rows'[id].version = rows[id].version
        /\ rows'[id].original_version_id = rows[id].original_version_id
        /\ rows'[id].status = "POSTED" => e.status = "POSTED" \/ rows[id].status = "POSTED"
    BY <1>1, MergedRow
  <1>4. e.status = "POSTED" => id \in submitted
    BY <1>1 DEF ServiceInv, CopiesOK, CopyOK, EditWaits
  <1> HIDE DEF e, id
  <1>5. Evolves(rows, rows')
    BY <1>1, <1>3 DEF Evolves
  <1>6. submitted \subseteq submitted' /\ submitted \subseteq DOMAIN rows
    BY <1>1 DEF ServiceInv, TypeOK
  <1>7. VersionChain'
    BY <1>1, <1>5, <1>6, UpdatesKeepChain DEF ServiceInv
  <1>8. \A i \in DOMAIN rows' : rows'[i].status = "POSTED" => i \in submitted
    BY <1>1, <1>3, <1>4 DEF ServiceInv, OnlySubmittedIsPosted
  <1>9. QED
    BY <1>1, <1>2, <1>5, <1>7, <1>8, TableStep

LEMMA InsertKeepsInv ==
  ASSUME ServiceInv, NEW c \in Clients, Insert(c)
  PROVE  ServiceInv' /\ Evolves(rows, rows')
  <1> DEFINE e == req[c].entity
             n == Len(rows) + 1
             p == IF e.status = "REQUEST" THEN "mail" ELSE "idle"
             new == Append(rows, e)
  <1>1. req[c] \in Request /\ CopyOK(req[c], rows, submitted) /\ rows \in Seq(Row)
    BY DEF ServiceInv, TypeOK, CopiesOK
  <1>2. req[c].pc = "insert" /\ Commit(new) /\ Saved(c, n, p, TRUE)
    BY DEF Insert
  <1>3. e \in Row /\ e.status # "POSTED" /\ IsNextVersion(e, rows, submitted)
    BY <1>1, <1>2 DEF CopyOK
  <1>4. p \in {"mail", "idle"} /\ n \in Nat
    BY <1>1
  <1> HIDE DEF e, p
  <1>5. /\ new \in Seq(Row) /\ DOMAIN new = DOMAIN rows \cup {n} /\ n \notin DOMAIN rows
        /\ \A i \in DOMAIN rows : new[i] = rows[i]
        /\ new[n] = e
    BY <1>1, <1>3, InsertRow
  <1>6. \A i \in DOMAIN rows : i < n
    BY <1>1, TableShape
  <1> HIDE DEF new, n
  <1>7. Evolves(rows, new)
    BY <1>5 DEF Evolves
  <1>8. /\ rows' = new
        /\ submitted' = submitted \cup {i \in DOMAIN new : new[i].status = "SUBMITTED"}
    BY <1>2 DEF Commit
  <1>9. submitted \subseteq submitted' /\ submitted \subseteq DOMAIN rows
    BY <1>8 DEF ServiceInv, TypeOK
  <1>10. PICK r \in Request : req' = [req EXCEPT ![c] = r] /\ CopyOK(r, rows', submitted')
    <2>1. \E wrote \in BOOLEAN : Saved(c, n, p, wrote)
      <3> WITNESS TRUE \in BOOLEAN
      <3>1. QED
        BY <1>2
    <2>2. QED
      BY <1>4, <2>1, SavedLeaves
  <1>11. VersionChain'
    <2>1. ASSUME NEW i \in DOMAIN rows
          PROVE  LET o == rows'[i].original_version_id
                 IN /\ o = 0 <=> rows'[i].version = 1
                    /\ o # 0 => /\ o < i /\ o \in submitted'
                                /\ rows'[o].info = rows'[i].info
                                /\ rows'[o].version + 1 = rows'[i].version
      BY <1>5, <1>8, <1>9 DEF ServiceInv, VersionChain
    <2>2. LET o == rows'[n].original_version_id
          IN /\ o = 0 <=> rows'[n].version = 1
             /\ o # 0 => /\ o < n /\ o \in submitted'
                         /\ rows'[o].info = rows'[n].info
                         /\ rows'[o].version + 1 = rows'[n].version
      BY <1>3, <1>5, <1>6, <1>8, <1>9 DEF IsNextVersion
    <2>3. QED
      BY <1>5, <1>8, <2>1, <2>2 DEF VersionChain
  <1>12. \A i \in DOMAIN rows' : rows'[i].status = "POSTED" => i \in submitted
    BY <1>3, <1>5, <1>8 DEF ServiceInv, OnlySubmittedIsPosted
  <1>13. QED
    BY <1>5, <1>7, <1>8, <1>10, <1>11, <1>12, TableStep

\* Mails and the last read.
LEMMA TailKeepsInv ==
  ASSUME ServiceInv, NEW c \in Clients,
         SendMail(c) \/ MailTypeError(c) \/ ReadRelated(c) \/ Fail(c)
  PROVE  ServiceInv'
  <1>1. req[c] \in Request /\ CopyOK(req[c], rows, submitted)
    BY DEF ServiceInv, TypeOK, CopiesOK
  <1>2. CASE SendMail(c)
    <2>1. req[c].entity \in Row \cup {NoEntity}
      BY <1>1 DEF Request
    <2>2. CASE req[c].method = "updateSummary"
      <3>1. Continue(c, "related", req[c].entity)
        BY <1>2, <2>2 DEF SendMail
      <3>2. "related" \in Waits /\ "related" \notin EditWaits
        BY DEF Waits, EditWaits
      <3>3. QED
        BY <2>1, <3>1, <3>2, ContinueKeepsInv
    <2>3. CASE req[c].method # "updateSummary"
      BY <1>2, <2>3, AnswerKeepsInv DEF SendMail
    <2>4. QED
      BY <2>2, <2>3
  <1>3. CASE MailTypeError(c)
    BY <1>3, BreakKeepsInv DEF MailTypeError
  <1>4. CASE ReadRelated(c)
    BY <1>4, AnswerKeepsInv DEF ReadRelated
  <1>5. CASE Fail(c)
    BY <1>5, BreakKeepsInv DEF Fail
  <1>6. QED
    BY <1>2, <1>3, <1>4, <1>5

LEMMA ServiceInvInductive == ServiceInv /\ [Next]_vars => ServiceInv'
  <1> SUFFICES ASSUME ServiceInv, [Next]_vars
               PROVE  ServiceInv'
    OBVIOUS
  <1>1. ASSUME NEW c \in Clients, Arrive(c)
        PROVE  ServiceInv'
    BY <1>1, ArriveKeepsInv
  <1>2. ASSUME NEW c \in Clients, Step(c) \/ Fail(c)
        PROVE  ServiceInv'
    BY <1>2, ReadsKeepInv, BulkUpdateKeepsInv, InsertKeepsInv, SaveKeepsInv, UpdateKeepsInv,
       TailKeepsInv
    DEF Step
  <1>3. CASE UNCHANGED vars
    BY <1>3 DEF vars, ServiceInv, TypeOK, SubmittedIsKnown, OnlySubmittedIsPosted,
                VersionChain, CopiesOK
  <1>4. QED
    BY <1>1, <1>2, <1>3 DEF Next

LEMMA ServiceInvInitially == Init => ServiceInv
  <1> SUFFICES ASSUME Init
               PROVE  ServiceInv
    OBVIOUS
  <1>1. TypeOK
    BY EmptySeq, IdleIsOK DEF Init, TypeOK
  <1>2. CopiesOK
    BY IdleIsOK DEF Init, CopiesOK
  <1>3. DOMAIN rows = {}
    BY EmptySeq DEF Init
  <1>4. QED
    BY <1>1, <1>2, <1>3
    DEF ServiceInv, SubmittedIsKnown, OnlySubmittedIsPosted, VersionChain

\* The service keeps the type of its state, whatever requests overlap.
THEOREM ServiceTypeCorrect == Spec => []TypeOK
  BY ServiceInvInitially, ServiceInvInductive, PTL DEF Spec, ServiceInv

\* No summary reaches the investors' side that had never been SUBMITTED,
\* however many requests save stale copies (addSummaryToMaster and the edits).
THEOREM PostingNeedsSubmission == Spec => []OnlySubmittedIsPosted
  BY ServiceInvInitially, ServiceInvInductive, PTL DEF Spec, ServiceInv

\* The history of every company is a chain: each version above 1 is one above
\* an earlier, submitted row of the same company (createSummary).
THEOREM HistoryIsAChain == Spec => []VersionChain
  BY ServiceInvInitially, ServiceInvInductive, PTL DEF Spec, ServiceInv

\* No request, stale or not, deletes a row or makes it another version.
THEOREM RowsKeepTheirIdentity == Spec => IdentityIsFixed
  <1>1. ASSUME ServiceInv, [Next]_vars
        PROVE  [Evolves(rows, rows')]_rows
    <2>1. ASSUME NEW c \in Clients, Arrive(c)
          PROVE  rows' = rows
      BY <2>1 DEF Arrive, createSummary, updateSummary, updateSummaryForUser, updateSummaryMaster,
                  changePublicStatus, addSummaryToMaster, Begin
    <2>2. ASSUME NEW c \in Clients, Step(c) \/ Fail(c)
          PROVE  rows' = rows \/ Evolves(rows, rows')
      <3>1. CASE BulkUpdate(c) \/ Insert(c) \/ Update(c)
        BY <1>1, <3>1, BulkUpdateKeepsInv, InsertKeepsInv, UpdateKeepsInv
      <3>2. CASE ReadExisting(c) \/ ReadMaxCard(c) \/ Save(c) \/ SendMail(c) \/ MailTypeError(c)
                 \/ ReadRelated(c) \/ Fail(c)
        BY <3>2 DEF ReadExisting, ReadMaxCard, Save, SendMail, MailTypeError, ReadRelated, Fail,
                    Continue, Break
      <3>3. QED
        BY <2>2, <3>1, <3>2 DEF Step
    <2>3. QED
      BY <1>1, <2>1, <2>2 DEF Next, vars
  <1>2. QED
    BY <1>1, ServiceInvInitially, ServiceInvInductive, PTL DEF Spec, IdentityIsFixed, Evolves

-----------------------------------------------------------------------------
(***************************************************************************)
(* Cards, with two requests at a time.  A row loses its card, or is POSTED *)
(* without one, only when the UPDATE of one request mixes with that of     *)
(* another.  CardInv says what two copies of a row may differ in; a third  *)
(* request could change the row under both.                                *)
(***************************************************************************)

TwoAtATime == \A b, c, d \in Clients : b = c \/ c = d \/ b = d

\* The copy r will not be saved as POSTED.
Edits(r) == r.entity.status # "POSTED"

\* A copy r of row, whatever the other requests hold.
CopyHasCard(r, row) ==
    /\ r.pc \in {"existing", "maxCard", "bulk"} => ~ Edits(r)
    /\ ~ Edits(r) /\ r.pc \in {"bulk", "save", "update"} => r.entity.card_order # 0
    /\ Edits(r) =>
          IF r.entity.card_order = 0
          THEN row.card_order = 0 \/ row.status = "POSTED"
          ELSE row.card_order # 0
    /\ r.pc = "update" =>
          /\ Edits(r) /\ r.entity.card_order = 0 /\ "card_order" \in r.diff =>
                "status" \in r.diff
          /\ ~ Edits(r) /\ "status" \in r.diff /\ "card_order" \notin r.diff =>
                row.card_order # 0
          /\ ~ Edits(r) /\ "status" \notin r.diff /\ "card_order" \in r.diff =>
                row.status = "POSTED"

\* A copy r of row, when the other request holds the copy s of it.
CopiesFit(r, s, row) ==
    Edits(s) =>
        /\ Edits(r) => (r.entity.card_order = 0 <=> s.entity.card_order = 0)
        /\ row.status = "POSTED" =>
              /\ ~ Edits(r) /\ r.pc \in {"bulk", "save", "update"}
              /\ r.entity.card_order = row.card_order
        /\ ~ Edits(r) /\ r.pc = "update" /\ "card_order" \notin r.diff
                /\ "status" \in r.diff => s.entity.card_order # 0
        /\ ~ Edits(r) /\ r.pc = "update" /\ "status" \notin r.diff =>
              "card_order" \notin r.diff

HaveCards ==
    /\ \A c \in Clients : req[c].pc \in EditWaits => CopyHasCard(req[c], rows[req[c].target])
    /\ \A c, d \in Clients :
          /\ c # d /\ req[c].pc \in EditWaits /\ req[d].pc \in EditWaits
          /\ req[c].target = req[d].target
          => CopiesFit(req[c], req[d], rows[req[c].target])

CardInv == ServiceInv /\ PostedHasCard /\ HaveCards

\* A step of c keeps HaveCards when the request r it leaves behind and what the
\* others hold fit the table.
LEMMA CardStep ==
  ASSUME TwoAtATime, ServiceInv, HaveCards, NEW c \in Clients, NEW r,
         req' = [req EXCEPT ![c] = r],
         r.pc \in EditWaits => CopyHasCard(r, rows'[r.target]),
         \A d \in Clients : d # c /\ req[d].pc \in EditWaits =>
             /\ CopyHasCard(req[d], rows'[req[d].target])
             /\ r.pc \in EditWaits /\ r.target = req[d].target =>
                   /\ CopiesFit(r, req[d], rows'[r.target])
                   /\ CopiesFit(req[d], r, rows'[r.target])
  PROVE  HaveCards'
  <1>1. \A d \in Clients : req'[d] = IF d = c THEN r ELSE req[d]
    BY DEF ServiceInv, TypeOK
  <1>2. ASSUME NEW d \in Clients, req'[d].pc \in EditWaits
        PROVE  CopyHasCard(req'[d], rows'[req'[d].target])
    BY <1>1, <1>2
  <1>3. ASSUME NEW b \in Clients, NEW d \in Clients, b # d, req'[b].pc \in EditWaits,
               req'[d].pc \in EditWaits, req'[b].target = req'[d].target
        PROVE  CopiesFit(req'[b], req'[d], rows'[req'[b].target])
    <2>1. b = c \/ d = c
      BY <1>3 DEF TwoAtATime
    <2>2. QED
      BY <1>1, <1>3, <2>1
  <1>4. QED
    BY <1>2, <1>3 DEF HaveCards

\* What copies must have depends on the status and the card of the row only.
LEMMA SameCards ==
  ASSUME NEW row, NEW new, new.status = row.status, new.card_order = row.card_order
  PROVE  \A r, s : /\ CopyHasCard(r, row) => CopyHasCard(r, new)
                   /\ CopiesFit(r, s, row) => CopiesFit(r, s, new)
  BY DEF CopyHasCard, CopiesFit

\* A step of c that leaves statuses and cards alone.
LEMMA QuietCardStep ==
  ASSUME TwoAtATime, CardInv, NEW c \in Clients, NEW r,
         req' = [req EXCEPT ![c] = r],
         \A i \in DOMAIN rows : /\ rows'[i].status = rows[i].status
                                /\ rows'[i].card_order = rows[i].card_order,
         r.pc \in EditWaits =>
             /\ r.target \in DOMAIN rows
             /\ CopyHasCard(r, rows[r.target])
             /\ \A d \in Clients :
                   d # c /\ req[d].pc \in EditWaits /\ r.target = req[d].target =>
                      /\ CopiesFit(r, req[d], rows[r.target])
                      /\ CopiesFit(req[d], r, rows[r.target])
  PROVE  HaveCards'
  <1>1. \A d \in Clients : req[d].pc \in EditWaits => req[d].target \in DOMAIN rows
    BY DEF CardInv, ServiceInv, CopiesOK, CopyOK, IsCopyOf
  <1>2. r.pc \in EditWaits => CopyHasCard(r, rows'[r.target])
    BY SameCards
  <1>3. ASSUME NEW d \in Clients, d # c, req[d].pc \in EditWaits
        PROVE  /\ CopyHasCard(req[d], rows'[req[d].target])
               /\ r.pc \in EditWaits /\ r.target = req[d].target =>
                     /\ CopiesFit(r, req[d], rows'[r.target])
                     /\ CopiesFit(req[d], r, rows'[r.target])
    <2>1. CopyHasCard(req[d], rows'[req[d].target])
      <3>1. CopyHasCard(req[d], rows[req[d].target])
        BY <1>3 DEF CardInv, HaveCards
      <3>2. QED
        BY <1>1, <1>3, <3>1, SameCards
    <2>2. ASSUME r.pc \in EditWaits, r.target = req[d].target
          PROVE  CopiesFit(r, req[d], rows'[r.target]) /\ CopiesFit(req[d], r, rows'[r.target])
      BY <1>3, <2>2, SameCards
    <2>3. QED
      BY <2>1, <2>2
  <1>4. QED
    BY <1>2, <1>3, CardStep DEF CardInv

\* A request that holds no copy.
LEMMA NoCopyStep ==
  ASSUME TwoAtATime, CardInv, NEW c \in Clients, NEW r, r.pc \notin EditWaits,
         req' = [req EXCEPT ![c] = r],
         \A i \in DOMAIN rows : rows'[i] = rows[i]
  PROVE  HaveCards'
  BY QuietCardStep

-----------------------------------------------------------------------------

\* A request that has just read row id: its copy has the card of the row, and is
\* to be saved as POSTED if the row is.
LEMMA ArrivalFits ==
  ASSUME TwoAtATime, CardInv, NEW c \in Clients, NEW m, NEW p \in {"existing", "bulk", "save"},
         NEW id \in DOMAIN rows, NEW e, Begin(c, m, p, id, e),
         e.card_order = rows[id].card_order,
         rows[id].status = "POSTED" => e.status = "POSTED" /\ p # "existing",
         e.status # "POSTED" => p = "save",
         p # "existing" /\ e.status = "POSTED" => rows[id].status = "POSTED"
  PROVE  PostedHasCard' /\ HaveCards'
  <1> DEFINE r == [pc |-> p, method |-> m, target |-> id, entity |-> e, diff |-> {},
                   wrote |-> FALSE]
             row == rows[id]
  <1>1. req' = [req EXCEPT ![c] = r] /\ UNCHANGED <<rows, submitted>>
    BY DEF Begin
  <1>2. /\ r.pc = p /\ r.target = id /\ r.entity = e
    OBVIOUS
  <1> HIDE DEF r
  <1>3. row.status = "POSTED" => row.card_order # 0
    BY DEF CardInv, PostedHasCard
  <1>4. CopyHasCard(r, row)
    BY <1>2, <1>3 DEF CopyHasCard, Edits
  <1>5. ASSUME NEW d \in Clients, d # c, req[d].pc \in EditWaits, req[d].target = id
        PROVE  CopiesFit(r, req[d], row) /\ CopiesFit(req[d], r, row)
    <2>1. CopyHasCard(req[d], row)
      BY <1>5 DEF CardInv, HaveCards
    <2> HIDE DEF row
    <2>2. CopiesFit(r, req[d], row)
      BY <1>2, <2>1 DEF CopyHasCard, CopiesFit, Edits, row
    <2>3. CopiesFit(req[d], r, row)
      BY <1>2, <2>1 DEF CopyHasCard, CopiesFit, Edits, row
    <2>4. QED
      BY <2>2, <2>3
  <1>6. HaveCards'
    BY <1>1, <1>2, <1>4, <1>5, QuietCardStep
  <1>7. PostedHasCard'
    BY <1>1 DEF CardInv, PostedHasCard
  <1>8. QED
    BY <1>6, <1>7

LEMMA ArriveFits ==
  ASSUME TwoAtATime, CardInv, NEW c \in Clients, Arrive(c)
  PROVE  PostedHasCard' /\ HaveCards'
  <1>1. ASSUME NEW id \in DOMAIN rows
        PROVE  rows[id] \in Row
    BY TableShape DEF CardInv, ServiceInv, TypeOK
  <1>2. \A status \in Sent : status # "POSTED"
    BY SentAssumption DEF DtoStatuses
  <1>3. ASSUME NEW info, NEW status, NEW content, createSummary(c, info, status, content)
        PROVE  PostedHasCard' /\ HaveCards'
    <2>1. PICK e : Begin(c, "createSummary", "insert", 0, e)
      BY <1>3 DEF createSummary
    <2> DEFINE r == [pc |-> "insert", method |-> "createSummary", target |-> 0, entity |-> e,
                     diff |-> {}, wrote |-> FALSE]
    <2>2. /\ r.pc \notin EditWaits /\ req' = [req EXCEPT ![c] = r]
          /\ UNCHANGED <<rows, submitted>>
      BY <2>1 DEF Begin, EditWaits
    <2> HIDE DEF r
    <2>3. QED
      BY <2>2, NoCopyStep DEF CardInv, PostedHasCard
  <1>4. ASSUME NEW id \in DOMAIN rows, NEW status \in Sent, NEW content, NEW m,
               rows[id].status # "POSTED",
               Begin(c, m, "save", id, [rows[id] EXCEPT !.status = status, !.content = content])
        PROVE  PostedHasCard' /\ HaveCards'
    <2> DEFINE e == [rows[id] EXCEPT !.status = status, !.content = content]
    <2>1. e.card_order = rows[id].card_order /\ e.status = status
      BY <1>1 DEF Row
    <2>2. Begin(c, m, "save", id, e)
      BY <1>4
    <2> HIDE DEF e
    <2>3. QED
      BY <1>2, <1>4, <2>1, <2>2, ArrivalFits
  <1>5. ASSUME NEW id \in DOMAIN rows, NEW content, updateSummaryMaster(c, id, content)
        PROVE  PostedHasCard' /\ HaveCards'
    <2> DEFINE e == [rows[id] EXCEPT !.content = content]
    <2>1. e.card_order = rows[id].card_order /\ e.status = rows[id].status
      BY <1>1 DEF Row
    <2>2. rows[id].status = "POSTED" /\ Begin(c, "updateSummaryMaster", "save", id, e)
      BY <1>5 DEF updateSummaryMaster
    <2> HIDE DEF e
    <2>3. QED
      BY <2>1, <2>2, ArrivalFits
  <1>6. ASSUME NEW id \in DOMAIN rows, NEW b, NEW m, NEW p \in {"bulk", "save"},
               rows[id].status = "POSTED",
               Begin(c, m, p, id, [rows[id] EXCEPT !.is_public = b])
        PROVE  PostedHasCard' /\ HaveCards'
    <2> DEFINE e == [rows[id] EXCEPT !.is_public = b]
    <2>1. e.card_order = rows[id].card_order /\ e.status = rows[id].status
      BY <1>1 DEF Row
    <2>2. Begin(c, m, p, id, e)
      BY <1>6
    <2> HIDE DEF e
    <2>3. QED
      BY <1>6, <2>1, <2>2, ArrivalFits
  <1>7. ASSUME NEW id \in DOMAIN rows, NEW b, rows[id].status = "SUBMITTED",
               Begin(c, "addSummaryToMaster", "existing", id,
                     [rows[id] EXCEPT !.status = "POSTED", !.is_public = b])
        PROVE  PostedHasCard' /\ HaveCards'
    <2> DEFINE e == [rows[id] EXCEPT !.status = "POSTED", !.is_public = b]
    <2>1. e.card_order = rows[id].card_order /\ e.status = "POSTED"
      BY <1>1 DEF Row
    <2>2. Begin(c, "addSummaryToMaster", "existing", id, e)
      BY <1>7
    <2> HIDE DEF e
    <2>3. QED
      BY <1>7, <2>1, <2>2, ArrivalFits
  <1>8. ASSUME NEW id \in DOMAIN rows, NEW status \in Sent, NEW content,
               \/ updateSummary(c, id, status, content)
               \/ \E user \in Users : updateSummaryForUser(c, user, id, status, content)
        PROVE  PostedHasCard' /\ HaveCards'
    BY <1>4, <1>8 DEF updateSummary, updateSummaryForUser
  <1>9. ASSUME NEW id \in DOMAIN rows, NEW b,
               changePublicStatus(c, id, b) \/ addSummaryToMaster(c, id, b)
        PROVE  PostedHasCard' /\ HaveCards'
    BY <1>6, <1>7, <1>9 DEF changePublicStatus, addSummaryToMaster
  <1>10. QED
    BY <1>3, <1>5, <1>8, <1>9 DEF Arrive

\* The awaits of addSummaryToMaster: they give the copy its card.
LEMMA ReadsFit ==
  ASSUME TwoAtATime, CardInv, NEW c \in Clients, ReadExisting(c) \/ ReadMaxCard(c)
  PROVE  PostedHasCard' /\ HaveCards'
  <1> DEFINE e == req[c].entity
             row == rows[req[c].target]
  <1>1. /\ req \in [Clients -> Request] /\ req[c] \in Request
        /\ CopyOK(req[c], rows, submitted) /\ rows \in Seq(Row)
    BY DEF CardInv, ServiceInv, TypeOK, CopiesOK
  <1>2. req[c].pc \in {"existing", "maxCard"}
    BY DEF ReadExisting, ReadMaxCard
  <1>3. e \in Row /\ req[c].target \in DOMAIN rows
    BY <1>1, <1>2 DEF CopyOK, IsCopyOf, EditWaits
  <1>4. PICK p, f :
           /\ Continue(c, p, f) /\ p \in {"maxCard", "bulk"}
           /\ f.status = e.status
           /\ p = "bulk" => f.card_order # 0
    <2>1. CASE ReadExisting(c)
      <3>1. PICK holder \in CardHolder(rows, e.info) :
               IF holder = 0
               THEN Continue(c, "maxCard", e)
               ELSE Continue(c, "bulk", [e EXCEPT !.card_order = rows[holder].card_order])
        BY <2>1 DEF ReadExisting
      <3>2. holder # 0 => rows[holder].card_order # 0
        BY <1>1, CardHolderIsPosted DEF CardInv, PostedHasCard
      <3>3. CASE holder = 0
        BY <3>1, <3>3
      <3>4. CASE holder # 0
        <4> DEFINE f == [e EXCEPT !.card_order = rows[holder].card_order]
        <4>1. f.status = e.status /\ f.card_order # 0
          BY <1>3, <3>2, <3>4 DEF Row
        <4>2. Continue(c, "bulk", f)
          BY <3>1, <3>4
        <4> HIDE DEF f
        <4>3. QED
          BY <4>1, <4>2
      <3>5. QED
        BY <3>3, <3>4
    <2>2. CASE ReadMaxCard(c)
      <3>1. PICK m \in MaxCard(rows) : Continue(c, "bulk", [e EXCEPT !.card_order = m + 1])
        BY <2>2 DEF ReadMaxCard
      <3> DEFINE f == [e EXCEPT !.card_order = m + 1]
      <3>2. f.status = e.status /\ f.card_order # 0
        <4>1. m \in Nat
          BY <1>1, MaxCardIsMax
        <4>2. f.status = e.status /\ f.card_order = m + 1
          BY <1>3 DEF Row
        <4>3. QED
          BY <4>1, <4>2
      <3>3. Continue(c, "bulk", f)
        BY <3>1
      <3> HIDE DEF f
      <3>4. QED
        BY <3>2, <3>3
    <2>3. QED
      BY <2>1, <2>2
  <1> DEFINE r == [req[c] EXCEPT !.pc = p, !.entity = f]
  <1>5. r.pc = p /\ r.entity = f /\ r.target = req[c].target
    BY <1>1 DEF Request
  <1>6. req' = [req EXCEPT ![c] = r] /\ UNCHANGED <<rows, submitted>>
    BY <1>1, <1>4 DEF Continue
  <1>7. CopyHasCard(req[c], row)
    BY <1>2 DEF CardInv, HaveCards, EditWaits
  <1> HIDE DEF r
  <1>8. ~ Edits(req[c]) /\ ~ Edits(r)
    BY <1>2, <1>4, <1>5, <1>7 DEF CopyHasCard, Edits
  <1>9. CopyHasCard(r, row)
    BY <1>4, <1>5, <1>8 DEF CopyHasCard
  <1>10. ASSUME NEW d \in Clients, d # c, req[d].pc \in EditWaits, r.target = req[d].target
         PROVE  CopiesFit(r, req[d], row) /\ CopiesFit(req[d], r, row)
    <2>1. CopiesFit(req[c], req[d], row)
      BY <1>2, <1>5, <1>10 DEF CardInv, HaveCards, EditWaits
    <2>2. QED
      BY <1>2, <1>4, <1>5, <1>8, <2>1 DEF CopiesFit
  <1>11. HaveCards'
    BY <1>3, <1>5, <1>6, <1>9, <1>10, QuietCardStep
  <1>12. QED
    BY <1>6, <1>11 DEF CardInv, PostedHasCard

LEMMA BulkUpdateFits ==
  ASSUME TwoAtATime, CardInv, NEW c \in Clients, BulkUpdate(c)
  PROVE  PostedHasCard' /\ HaveCards'
  <1> DEFINE e == req[c].entity
             row == rows[req[c].target]
             new == SetVisibility(rows, e.info, e.is_public)
             r == [req[c] EXCEPT !.pc = "save", !.wrote = TRUE]
  <1>1. /\ req \in [Clients -> Request] /\ req[c] \in Request
        /\ CopyOK(req[c], rows, submitted) /\ rows \in Seq(Row)
    BY DEF CardInv, ServiceInv, TypeOK, CopiesOK
  <1>2. /\ req[c].pc = "bulk" /\ Commit(new) /\ req' = [req EXCEPT ![c] = r]
    BY <1>1 DEF BulkUpdate
  <1>3. e \in Row /\ e.is_public \in BOOLEAN /\ req[c].target \in DOMAIN rows
    BY <1>1, <1>2 DEF CopyOK, IsCopyOf, EditWaits, Row
  <1>4. /\ DOMAIN new = DOMAIN rows
        /\ \A i \in DOMAIN rows :
             new[i].status = rows[i].status /\ new[i].card_order = rows[i].card_order
    BY <1>1, <1>3, BulkUpdateRows
  <1>5. r.pc = "save" /\ r.entity = e /\ r.target = req[c].target
    BY <1>1 DEF Request
  <1> HIDE DEF new, r
  <1>6. rows' = new
    BY <1>2 DEF Commit
  <1>7. CopyHasCard(req[c], row)
    BY <1>2 DEF CardInv, HaveCards, EditWaits
  <1>8. CopyHasCard(r, row) /\ ~ Edits(r)
    BY <1>2, <1>5, <1>7 DEF CopyHasCard, Edits
  <1>9. ASSUME NEW d \in Clients, d # c, req[d].pc \in EditWaits, r.target = req[d].target
        PROVE  CopiesFit(r, req[d], row) /\ CopiesFit(req[d], r, row)
    <2>1. CopiesFit(req[c], req[d], row)
      BY <1>2, <1>5, <1>9 DEF CardInv, HaveCards, EditWaits
    <2>2. QED
      BY <1>2, <1>5, <1>8, <2>1 DEF CopiesFit, Edits
  <1>10. HaveCards'
    BY <1>2, <1>3, <1>4, <1>5, <1>6, <1>8, <1>9, QuietCardStep
  <1>11. PostedHasCard'
    BY <1>4, <1>6 DEF CardInv, PostedHasCard
  <1>12. QED
    BY <1>10, <1>11

\* The SELECT of a save: what the UPDATE will set fits the row as it is read.
LEMMA SaveFits ==
  ASSUME TwoAtATime, CardInv, NEW c \in Clients, Save(c)
  PROVE  PostedHasCard' /\ HaveCards'
  <1> DEFINE e == req[c].entity
             row == rows[req[c].target]
             cols == Differing(row, e)
             r == [req[c] EXCEPT !.pc = "update", !.diff = cols]
  <1>1. /\ req \in [Clients -> Request] /\ req[c] \in Request
        /\ CopyOK(req[c], rows, submitted)
    BY DEF CardInv, ServiceInv, TypeOK, CopiesOK
  <1>2. req[c].pc = "save" /\ UNCHANGED <<rows, submitted>>
    BY DEF Save
  <1>3. PostedHasCard'
    BY <1>2 DEF CardInv, PostedHasCard
  <1>4. CASE cols = {}
    <2>1. Saved(c, req[c].target, AfterSave(req[c].method, e.status), req[c].wrote)
      BY <1>4 DEF Save
    <2>2. /\ AfterSave(req[c].method, e.status) \in {"mail", "related", "idle"}
          /\ req[c].target \in Nat /\ req[c].wrote \in BOOLEAN
      BY <1>1 DEF AfterSave, Request
    <2>3. PICK q \in Request : req' = [req EXCEPT ![c] = q]
                               /\ q.pc = AfterSave(req[c].method, e.status)
      BY <2>1, <2>2, SavedLeaves DEF CardInv
    <2>4. q.pc \notin EditWaits
      BY <2>2, <2>3 DEF EditWaits
    <2>5. QED
      BY <1>2, <1>3, <2>3, <2>4, NoCopyStep
  <1>5. CASE cols # {}
    <2>1. req' = [req EXCEPT ![c] = r]
      BY <1>1, <1>5 DEF Save
    <2>2. r.pc = "update" /\ r.entity = e /\ r.target = req[c].target /\ r.diff = cols
      BY <1>1 DEF Request
    <2>3. /\ "status" \in cols <=> row.status # e.status
          /\ "card_order" \in cols <=> row.card_order # e.card_order
      BY DEF Differing, Columns
    <2>4. CopyHasCard(req[c], row) /\ req[c].target \in DOMAIN rows
      BY <1>1, <1>2 DEF CardInv, HaveCards, EditWaits, CopyOK, IsCopyOf
    <2> HIDE DEF r, cols, row
    <2>5. CopyHasCard(r, row)
      BY <1>2, <2>2, <2>3, <2>4 DEF CopyHasCard, Edits
    <2>6. ASSUME NEW d \in Clients, d # c, req[d].pc \in EditWaits, r.target = req[d].target
          PROVE  CopiesFit(r, req[d], row) /\ CopiesFit(req[d], r, row)
      <3>1. CopiesFit(req[c], req[d], row) /\ CopiesFit(req[d], req[c], row)
        BY <1>2, <2>2, <2>6 DEF CardInv, HaveCards, EditWaits, row
      <3>2. CopyHasCard(req[d], row)
        BY <2>2, <2>6 DEF CardInv, HaveCards, row
      <3>3. CopiesFit(req[d], r, row)
        BY <2>2, <3>1 DEF CopiesFit, Edits
      <3>4. CopiesFit(r, req[d], row)
        BY <1>2, <2>2, <2>3, <2>4, <3>1, <3>2 DEF CopiesFit, CopyHasCard, Edits
      <3>5. QED
        BY <3>3, <3>4
    <2>7. HaveCards'
      BY <1>2, <2>1, <2>2, <2>4, <2>5, <2>6, QuietCardStep DEF row
    <2>8. QED
      BY <1>3, <2>7
  <1>6. QED
    BY <1>4, <1>5

\* The row that an UPDATE of r leaves has a card if it is POSTED, and what the
\* other request holds fits it.
LEMMA MergedFits ==
  ASSUME NEW row \in Row, NEW r, r.pc = "update", r.entity \in Row, CopyHasCard(r, row),
         row.status = "POSTED" => row.card_order # 0
  PROVE  LET new == Merged(row, r.entity, r.diff)
         IN /\ new.status = "POSTED" => new.card_order # 0
            /\ \A s : CopyHasCard(s, row) /\ CopiesFit(r, s, row) /\ CopiesFit(s, r, row)
                         => CopyHasCard(s, new)
  <1> DEFINE new == Merged(row, r.entity, r.diff)
  <1>1. /\ new.status = IF "status" \in r.diff THEN r.entity.status ELSE row.status
        /\ new.card_order = IF "card_order" \in r.diff THEN r.entity.card_order
                                                       ELSE row.card_order
    BY MergedRow
  <1> HIDE DEF new
  <1>2. new.status = "POSTED" => new.card_order # 0
    BY <1>1 DEF CopyHasCard, Edits
  <1>3. ASSUME NEW s, CopyHasCard(s, row), CopiesFit(r, s, row), CopiesFit(s, r, row)
        PROVE  CopyHasCard(s, new)
    <2>1. CASE Edits(s) /\ Edits(r)
      BY <1>1, <1>3, <2>1 DEF CopyHasCard, CopiesFit, Edits
    <2>2. CASE Edits(s) /\ ~ Edits(r)
      BY <1>1, <1>3, <2>2 DEF CopyHasCard, CopiesFit, Edits
    <2>3. CASE ~ Edits(s)
      BY <1>1, <1>3, <2>3 DEF CopyHasCard, CopiesFit, Edits
    <2>4. QED
      BY <2>1, <2>2, <2>3
  <1>4. QED
    BY <1>2, <1>3 DEF new

LEMMA UpdateFits ==
  ASSUME TwoAtATime, CardInv, NEW c \in Clients, Update(c)
  PROVE  PostedHasCard' /\ HaveCards'
  <1> DEFINE e == req[c].entity
             id == req[c].target
             new == Merged(rows[id], e, req[c].diff)
  <1>1. /\ req[c].pc = "update" /\ id \in DOMAIN rows /\ e \in Row /\ rows[id] \in Row
        /\ DOMAIN rows' = DOMAIN rows /\ rows'[id] = new
        /\ \A i \in DOMAIN rows : i # id => rows'[i] = rows[i]
    BY UpdateChanges DEF CardInv
  <1>2. PICK r \in Request : req' = [req EXCEPT ![c] = r] /\ r.pc \in {"mail", "related", "idle"}
    BY UpdateChanges DEF CardInv
  <1>3. CopyHasCard(req[c], rows[id])
    BY <1>1 DEF CardInv, HaveCards, EditWaits
  <1>4. rows[id].status = "POSTED" => rows[id].card_order # 0
    BY <1>1 DEF CardInv, PostedHasCard
  <1>5. /\ new.status = "POSTED" => new.card_order # 0
        /\ \A s : /\ CopyHasCard(s, rows[id])
                  /\ CopiesFit(req[c], s, rows[id]) /\ CopiesFit(s, req[c], rows[id])
                  => CopyHasCard(s, new)
    BY <1>1, <1>3, <1>4, MergedFits
  <1> HIDE DEF new
  <1>6. PostedHasCard'
    BY <1>1, <1>5 DEF CardInv, PostedHasCard
  <1>7. ASSUME NEW d \in Clients, d # c, req[d].pc \in EditWaits
        PROVE  CopyHasCard(req[d], rows'[req[d].target])
    <2>1. CopyHasCard(req[d], rows[req[d].target]) /\ req[d].target \in DOMAIN rows
      BY <1>7 DEF CardInv, HaveCards, ServiceInv, CopiesOK, CopyOK, IsCopyOf
    <2>2. CASE req[d].target = id
      <3>1. CopiesFit(req[c], req[d], rows[id]) /\ CopiesFit(req[d], req[c], rows[id])
        BY <1>1, <1>7, <2>2 DEF CardInv, HaveCards, EditWaits
      <3>2. QED
        BY <1>1, <1>5, <2>1, <2>2, <3>1
    <2>3. CASE req[d].target # id
      BY <1>1, <2>1, <2>3
    <2>4. QED
      BY <2>2, <2>3
  <1>8. HaveCards'
    BY <1>2, <1>7, CardStep DEF CardInv, EditWaits
  <1>9. QED
    BY <1>6, <1>8

LEMMA InsertFits ==
  ASSUME TwoAtATime, CardInv, NEW c \in Clients, Insert(c)
  PROVE  PostedHasCard' /\ HaveCards'
  <1> DEFINE e == req[c].entity
             n == Len(rows) + 1
             p == IF e.status = "REQUEST" THEN "mail" ELSE "idle"
  <1>1. /\ req[c] \in Request /\ CopyOK(req[c], rows, submitted) /\ rows \in Seq(Row)
        /\ req[c].pc = "insert" /\ rows' = Append(rows, e) /\ Saved(c, n, p, TRUE)
    BY DEF CardInv, ServiceInv, TypeOK, CopiesOK, Insert, Commit
  <1>2. e \in Row /\ e.status # "POSTED" /\ n \in Nat
    BY <1>1 DEF CopyOK
  <1>3. /\ DOMAIN rows' = DOMAIN rows \cup {n} /\ rows'[n] = e
        /\ \A i \in DOMAIN rows : rows'[i] = rows[i]
    BY <1>1, <1>2, InsertRow
  <1>4. PostedHasCard'
    BY <1>2, <1>3 DEF CardInv, PostedHasCard
  <1>5. PICK r \in Request : req' = [req EXCEPT ![c] = r] /\ r.pc \in {"mail", "idle"}
    <2>1. \E wrote \in BOOLEAN : Saved(c, n, p, wrote)
      <3> WITNESS TRUE \in BOOLEAN
      <3>1. QED
        BY <1>1
    <2>2. p \in {"mail", "idle"}
      OBVIOUS
    <2> HIDE DEF p
    <2>3. QED
      BY <1>2, <2>1, <2>2, SavedLeaves DEF CardInv
  <1>6. HaveCards'
    BY <1>3, <1>5, NoCopyStep DEF EditWaits
  <1>7. QED
    BY <1>4, <1>6

LEMMA TailFits ==
  ASSUME TwoAtATime, CardInv, NEW c \in Clients,
         SendMail(c) \/ MailTypeError(c) \/ ReadRelated(c) \/ Fail(c)
  PROVE  PostedHasCard' /\ HaveCards'
  <1>1. req \in [Clients -> Request] /\ req[c] \in Request
    BY DEF CardInv, ServiceInv, TypeOK
  <1>2. UNCHANGED <<rows, submitted>>
    BY DEF SendMail, MailTypeError, ReadRelated, Fail, Continue, Break
  <1>3. PICK r : req' = [req EXCEPT ![c] = r] /\ r.pc \in {"related", "idle", "failed"}
    <2>1. \/ Continue(c, "related", req[c].entity) \/ Answer(c) \/ Break(c)
      BY DEF SendMail, MailTypeError, ReadRelated, Fail
    <2>2. CASE Continue(c, "related", req[c].entity)
      <3> DEFINE q == [req[c] EXCEPT !.pc = "related", !.entity = req[c].entity]
      <3>1. req' = [req EXCEPT ![c] = q] /\ q.pc = "related"
        BY <1>1, <2>2 DEF Continue, Request
      <3> HIDE DEF q
      <3>2. QED
        BY <3>1
    <2>3. CASE Answer(c)
      <3>1. req' = [req EXCEPT ![c] = Idle] /\ Idle.pc = "idle"
        BY <2>3 DEF Answer, Idle
      <3>2. QED
        BY <3>1
    <2>4. CASE Break(c)
      <3> DEFINE q == [Idle EXCEPT !.pc = "failed"]
      <3>1. req' = [req EXCEPT ![c] = q] /\ q.pc = "failed"
        BY <2>4 DEF Break, Idle
      <3> HIDE DEF q
      <3>2. QED
        BY <3>1
    <2>5. QED
      BY <2>1, <2>2, <2>3, <2>4
  <1>4. HaveCards'
    BY <1>2, <1>3, NoCopyStep DEF EditWaits
  <1>5. QED
    BY <1>2, <1>4 DEF CardInv, PostedHasCard

LEMMA CardInvInductive ==
  ASSUME TwoAtATime, CardInv, [Next]_vars
  PROVE  CardInv'
  <1>1. ServiceInv'
    BY ServiceInvInductive DEF CardInv
  <1>2. ASSUME NEW c \in Clients, Arrive(c)
        PROVE  PostedHasCard' /\ HaveCards'
    BY <1>2, ArriveFits
  <1>3. ASSUME NEW c \in Clients, Step(c) \/ Fail(c)
        PROVE  PostedHasCard' /\ HaveCards'
    BY <1>3, ReadsFit, BulkUpdateFits, InsertFits, SaveFits, UpdateFits, TailFits DEF Step
  <1>4. CASE UNCHANGED vars
    BY <1>1, <1>4 DEF vars, CardInv, PostedHasCard, HaveCards
  <1>5. QED
    BY <1>1, <1>2, <1>3, <1>4 DEF Next, CardInv

\* Every POSTED summary has its place in master, whatever stale values one other
\* request updates it with (addSummaryToMaster, Repository.save).
THEOREM PostedSummariesHaveCards ==
  ASSUME TwoAtATime
  PROVE  Spec => []PostedHasCard
  <1>1. Init => CardInv
    <2> SUFFICES ASSUME Init
                 PROVE  PostedHasCard /\ HaveCards
      BY ServiceInvInitially DEF CardInv
    <2>1. PostedHasCard
      BY EmptySeq DEF Init, PostedHasCard
    <2>2. HaveCards
      BY DEF Init, HaveCards, Idle, EditWaits
    <2>3. QED
      BY <2>1, <2>2
  <1>2. CardInv /\ [Next]_vars => CardInv'
    BY CardInvInductive
  <1>3. CardInv => PostedHasCard
    BY DEF CardInv
  <1>4. QED
    BY <1>1, <1>2, <1>3, PTL DEF Spec

-----------------------------------------------------------------------------
(***************************************************************************)
(* The readers.                                                            *)
(***************************************************************************)

\* A company with a POSTED row has one that searchSummaries lists.
LEMMA SomeRowIsListed ==
  ASSUME TypeOK, NEW i \in DOMAIN rows, rows[i].status = "POSTED"
  PROVE  \E j \in AdminList(rows) : rows[j].info = rows[i].info
                                   /\ rows[i].version <= rows[j].version
  <1> DEFINE ids == PostedIds(rows, rows[i].info)
  <1>1. i \in ids /\ ids \in SUBSET DOMAIN rows
    BY DEF PostedIds
  <1>2. PICK j \in Newest(rows, ids) : TRUE
    BY <1>1, NewestAnswers DEF TypeOK
  <1>3. j \in ids /\ \A k \in ids : rows[k].version <= rows[j].version
    BY <1>1, <1>2 DEF Newest
  <1>4. j \in DOMAIN rows /\ rows[j].status = "POSTED" /\ rows[j].info = rows[i].info
    BY <1>3 DEF PostedIds
  <1>5. j \in AdminList(rows)
    BY <1>3, <1>4 DEF AdminList
  <1>6. QED
    BY <1>1, <1>3, <1>4, <1>5

\* The rows of a list are those of the greatest version the filters look for.
LEMMA ListedIsNewest ==
  ASSUME TypeOK, NEW i \in DOMAIN rows, rows[i].status = "POSTED"
  PROVE  i \in AdminList(rows) <=> i \in UniqueValuesForAdmin(rows)
  <1> DEFINE ids == PostedIds(rows, rows[i].info)
  <1>1. /\ i \in ids /\ i # 0 /\ NewestPosted(rows, rows[i].info, 0) = Newest(rows, ids)
        /\ \A j \in ids : j \in DOMAIN rows /\ rows[j].version \in Nat
    <2>1. 0 \notin ids /\ \A j \in ids : j \in DOMAIN rows /\ rows[j].version \in Nat
      <3>1. \A j \in DOMAIN rows : rows[j].version \in Nat
        BY TableShape DEF TypeOK, Row
      <3>2. 0 \notin DOMAIN rows
        <4>1. rows \in Seq(Row)
          BY DEF TypeOK
        <4>2. DOMAIN rows = 1 .. Len(rows) /\ Len(rows) \in Nat
          BY <4>1
        <4>3. QED
          BY <4>2
      <3>3. QED
        BY <3>1, <3>2 DEF PostedIds
    <2>2. ids \ {0} = ids
      BY <2>1
    <2>3. QED
      BY <2>1, <2>2 DEF NewestPosted, PostedIds
  <1>2. Newest(rows, ids) = {j \in ids : \A k \in ids : rows[k].version <= rows[j].version}
    BY <1>1 DEF Newest
  <1>3. ASSUME i \in AdminList(rows)
        PROVE  i \in UniqueValuesForAdmin(rows)
    <2>1. i \in Newest(rows, ids) \ {0}
      BY <1>1, <1>2, <1>3 DEF AdminList
    <2>2. QED
      BY <1>1, <2>1 DEF UniqueValuesForAdmin
  <1>4. ASSUME i \in UniqueValuesForAdmin(rows)
        PROVE  i \in AdminList(rows)
    <2>1. PICK newest \in Newest(rows, ids) : rows[newest].version = rows[i].version
      BY <1>1, <1>4 DEF UniqueValuesForAdmin
    <2>2. \A k \in ids : rows[k].version <= rows[i].version
      BY <1>2, <2>1
    <2>3. QED
      BY <2>2 DEF AdminList
  <1>5. QED
    BY <1>3, <1>4

LEMMA ReadersAgree == TypeOK => ViewsAgree
  <1> SUFFICES ASSUME TypeOK PROVE ViewsAgree
    OBVIOUS
  <1>1. AdminList(rows) \subseteq OpenableByAdmin(rows) \cap UniqueValuesForAdmin(rows)
    BY ListedIsNewest DEF AdminList, OpenableByAdmin
  <1>2. UniqueValuesForInvestor(rows) = InvestorList(rows)
    <2>1. \A i \in UniqueValuesForInvestor(rows) : i \in InvestorList(rows)
      BY ListedIsNewest DEF UniqueValuesForInvestor, UniqueValuesForAdmin, InvestorList
    <2>2. \A i \in InvestorList(rows) : i \in UniqueValuesForInvestor(rows)
      BY ListedIsNewest DEF UniqueValuesForInvestor, InvestorList, AdminList
    <2>3. QED
      BY <2>1, <2>2
  <1>3. \A i \in DOMAIN rows : rows[i].version \in Nat
    BY TableShape DEF TypeOK, Row
  <1>4. InvestorList(rows) \subseteq Openable(rows)
    <2> SUFFICES ASSUME NEW i \in InvestorList(rows) PROVE i \in Openable(rows)
      OBVIOUS
    <2>1. /\ i \in DOMAIN rows /\ rows[i].status = "POSTED" /\ rows[i].is_public
          /\ \A j \in PostedIds(rows, rows[i].info) : rows[j].version <= rows[i].version
      BY DEF InvestorList, AdminList
    <2>2. \A j \in PostedIds(rows, rows[i].info) : ~ (rows[j].version > rows[i].version)
      BY <1>3, <2>1 DEF PostedIds
    <2>3. QED
      BY <2>1, <2>2 DEF Openable
  <1>5. ASSUME NEW i \in Openable(rows) \ InvestorList(rows)
        PROVE  \E j \in AdminList(rows) : /\ rows[j].info = rows[i].info
                                         /\ rows[j].version > rows[i].version
                                         /\ ~ rows[j].is_public
    <2>1. /\ i \in DOMAIN rows /\ rows[i].status = "POSTED" /\ rows[i].is_public
          /\ \A j \in PostedIds(rows, rows[i].info) :
                ~ (rows[j].is_public /\ rows[j].version > rows[i].version)
      BY DEF Openable
    <2>2. i \notin AdminList(rows)
      BY <2>1 DEF InvestorList
    <2>3. PICK j \in AdminList(rows) : rows[j].info = rows[i].info
                                     /\ rows[i].version <= rows[j].version
      BY <2>1, SomeRowIsListed
    <2>4. /\ j \in DOMAIN rows /\ rows[j].status = "POSTED"
          /\ \A k \in PostedIds(rows, rows[j].info) : rows[k].version <= rows[j].version
      BY DEF AdminList
    <2>5. rows[j].version # rows[i].version
      BY <2>1, <2>2, <2>3, <2>4 DEF AdminList
    <2>6. rows[j].version > rows[i].version
      BY <1>3, <2>1, <2>3, <2>4, <2>5
    <2>7. ~ rows[j].is_public
      BY <2>1, <2>3, <2>4, <2>6 DEF PostedIds
    <2>8. QED
      BY <2>3, <2>6, <2>7
  <1>6. QED
    BY <1>1, <1>2, <1>4, <1>5 DEF ViewsAgree

\* The queries of the readers agree on every table that any number of requests can
\* leave behind (searchSummaries, searchSummariesForInvestor,
\* getSummaryPostedByIdForAdmin, getSummaryPostedByIdForInvestor,
\* getUniqueSummaryValues).
THEOREM QueriesAgree == Spec => []ViewsAgree
  BY ServiceTypeCorrect, ReadersAgree, PTL
=============================================================================
