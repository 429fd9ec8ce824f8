---------------------- MODULE SummaryRefinement_proofs ----------------------
(***************************************************************************)
(* When requests do not overlap, SummaryService implements SummaryTable:   *)
(* every step changes the table as one action of SummaryTable does, or not *)
(* at all.  With one request at a time the copy in memory is never stale;  *)
(* Fresh says what it differs from its row in, at each await.              *)
(***************************************************************************)
EXTENDS SummaryService_proofs, FiniteSetTheorems

OneAtATime == \A c, d \in Clients : c = d

\* The entity e publishes row id, with the card of its company.
IsPosting(e, id) ==
    /\ rows[id].status = "SUBMITTED"
    /\ \E b \in BOOLEAN, card \in CardFor(rows, rows[id].info) :
          e = [rows[id] EXCEPT !.status = "POSTED", !.is_public = b, !.card_order = card]

FreshEdit(r) ==
    \/ /\ r.method \in {"updateSummary", "updateSummaryForUser"}
       /\ rows[r.target].status # "POSTED"
       /\ \E status \in DtoStatuses, content \in Contents :
             r.entity = [rows[r.target] EXCEPT !.status = status, !.content = content]
    \/ /\ r.method = "updateSummaryMaster"
       /\ rows[r.target].status = "POSTED"
       /\ \E content \in Contents : r.entity = [rows[r.target] EXCEPT !.content = content]
    \/ /\ r.method = "changePublicStatus"
       /\ rows[r.target].status = "POSTED"
       /\ \E b \in BOOLEAN : r.entity = [rows[r.target] EXCEPT !.is_public = b]

\* The entity e is the next version of a company, as the table stands.
IsDraft(e) ==
    /\ Len(rows) < MaxRows
    /\ \E info \in Infos, status \in DtoStatuses, content \in Contents :
       \E base \in NewestPosted(rows, info, 0) :
          e = NewVersion(rows, info, base, status, content)

Fresh(r) ==
    /\ r.pc = "insert" => IsDraft(r.entity)
    /\ r.pc \in {"existing", "maxCard"} =>
          /\ rows[r.target].status = "SUBMITTED"
          /\ \E b \in BOOLEAN :
                r.entity = [rows[r.target] EXCEPT !.status = "POSTED", !.is_public = b]
    /\ r.pc = "maxCard" => PostedIds(rows, rows[r.target].info) = {}
    /\ r.pc = "bulk" =>
          \/ IsPosting(r.entity, r.target)
          \/ /\ rows[r.target].status = "POSTED"
             /\ \E b \in BOOLEAN : r.entity = [rows[r.target] EXCEPT !.is_public = b]
    /\ r.pc \in {"save", "update"} =>
          \/ FreshEdit(r)
          \/ IsPosting(r.entity, r.target)
          \/ r.entity = rows[r.target]
    /\ r.pc = "update" => r.diff = Differing(rows[r.target], r.entity)

AllFresh == \A c \in Clients : Fresh(req[c])

SerialInv == ServiceInv /\ AllFresh

-----------------------------------------------------------------------------

\* What is known of the request that takes a step.
LEMMA Facts ==
  ASSUME SerialInv, NEW c \in Clients
  PROVE  /\ rows \in Seq(Row)
         /\ req \in [Clients -> Request] /\ req[c] \in Request
         /\ Fresh(req[c])
         /\ req[c].pc \in EditWaits => /\ req[c].target \in DOMAIN rows
                                      /\ rows[req[c].target] \in Row
                                      /\ req[c].entity \in Row
                                      /\ req[c].entity.info = rows[req[c].target].info
  BY TableShape
  DEF SerialInv, ServiceInv, TypeOK, CopiesOK, CopyOK, IsCopyOf, AllFresh, EditWaits, Waits

LEMMA ContinueLeaves ==
  ASSUME SerialInv, NEW c \in Clients, NEW p, NEW e, Continue(c, p, e)
  PROVE  /\ rows' = rows /\ req'[c].pc = p /\ req'[c].entity = e
         /\ req'[c].target = req[c].target /\ req'[c].method = req[c].method
  <1>1. req' = [req EXCEPT ![c] = [req[c] EXCEPT !.pc = p, !.entity = e]]
    BY Facts DEF Continue
  <1>2. req'[c] = [req[c] EXCEPT !.pc = p, !.entity = e]
    BY <1>1, Facts
  <1>3. QED
    BY <1>2, Facts DEF Continue, Request

LEMMA CreateIsFresh ==
  ASSUME OneAtATime, SerialInv, NEW c \in Clients,
         NEW info \in Infos, NEW status \in Sent, NEW content \in Contents,
         createSummary(c, info, status, content)
  PROVE  Fresh(req[c])'
  <1>1. PICK base \in NewestPosted(rows, info, 0) :
           Begin(c, "createSummary", "insert", 0, NewVersion(rows, info, base, status, content))
    BY DEF createSummary
  <1>2. {d \in Clients : req[d].pc = "insert"} = {}
    BY <1>1 DEF Begin, OneAtATime
  <1>3. Len(rows) + 0 < MaxRows
    BY <1>2, FS_EmptySet DEF createSummary, RoomForARow
  <1>4. Len(rows) < MaxRows
    BY <1>3, TableShape, Facts
  <1>5. /\ rows' = rows /\ req'[c].pc = "insert"
        /\ req'[c].entity = NewVersion(rows, info, base, status, content)
    BY <1>1, Facts DEF Begin
  <1>6. QED
    BY <1>4, <1>5, SentAssumption DEF Fresh, IsDraft

LEMMA EditIsFresh ==
  ASSUME SerialInv, NEW c \in Clients, NEW id \in DOMAIN rows,
         NEW status \in DtoStatuses, NEW content \in Contents, NEW b \in BOOLEAN,
         \/ updateSummary(c, id, status, content)
         \/ \E user \in Users : updateSummaryForUser(c, user, id, status, content)
         \/ updateSummaryMaster(c, id, content)
         \/ changePublicStatus(c, id, b)
  PROVE  Fresh(req[c])'
  <1>1. rows' = rows /\ req'[c].pc = "save" /\ req'[c].target = id
    BY Facts DEF updateSummary, updateSummaryForUser, updateSummaryMaster, changePublicStatus, Begin
  <1>2. FreshEdit(req[c])'
    <2>1. CASE updateSummary(c, id, status, content)
      <3>1. /\ rows[id].status # "POSTED" /\ req'[c].method = "updateSummary"
            /\ req'[c].entity = [rows[id] EXCEPT !.status = status, !.content = content]
        BY <2>1, Facts DEF updateSummary, Begin
      <3>2. QED
        BY <1>1, <3>1 DEF FreshEdit
    <2>2. CASE \E user \in Users : updateSummaryForUser(c, user, id, status, content)
      <3>1. /\ rows[id].status # "POSTED" /\ req'[c].method = "updateSummaryForUser"
            /\ req'[c].entity = [rows[id] EXCEPT !.status = status, !.content = content]
        BY <2>2, Facts DEF updateSummaryForUser, Begin
      <3>2. QED
        BY <1>1, <3>1 DEF FreshEdit
    <2>3. CASE updateSummaryMaster(c, id, content)
      <3>1. /\ rows[id].status = "POSTED" /\ req'[c].method = "updateSummaryMaster"
            /\ req'[c].entity = [rows[id] EXCEPT !.content = content]
        BY <2>3, Facts DEF updateSummaryMaster, Begin
      <3>2. QED
        BY <1>1, <3>1 DEF FreshEdit
    <2>4. CASE changePublicStatus(c, id, b)
      <3>1. /\ rows[id].status = "POSTED" /\ req'[c].method = "changePublicStatus"
            /\ req'[c].entity = [rows[id] EXCEPT !.is_public = b]
        BY <2>4, Facts DEF changePublicStatus, Begin
      <3>2. QED
        BY <1>1, <3>1 DEF FreshEdit
    <2>5. QED
      BY <2>1, <2>2, <2>3, <2>4
  <1>3. QED
    BY <1>1, <1>2 DEF Fresh

LEMMA AddIsFresh ==
  ASSUME SerialInv, NEW c \in Clients, NEW id \in DOMAIN rows, NEW b \in BOOLEAN,
         addSummaryToMaster(c, id, b)
  PROVE  Fresh(req[c])'
  <1>1. rows' = rows /\ req'[c].target = id
    BY Facts DEF addSummaryToMaster, Begin
  <1>2. CASE rows[id].status = "SUBMITTED"
    <2>1. /\ req'[c].pc = "existing"
          /\ req'[c].entity = [rows[id] EXCEPT !.status = "POSTED", !.is_public = b]
      BY <1>2, Facts DEF addSummaryToMaster, Begin
    <2>2. QED
      BY <1>1, <1>2, <2>1 DEF Fresh
  <1>3. CASE rows[id].status = "POSTED"
    <2>1. req'[c].pc = "bulk" /\ req'[c].entity = [rows[id] EXCEPT !.is_public = b]
      BY <1>3, Facts DEF addSummaryToMaster, Begin
    <2>2. QED
      BY <1>1, <1>3, <2>1 DEF Fresh
  <1>4. QED
    BY <1>2, <1>3 DEF addSummaryToMaster

LEMMA ReadsAreFresh ==
  ASSUME SerialInv, NEW c \in Clients, ReadExisting(c) \/ ReadMaxCard(c)
  PROVE  Fresh(req[c])'
  <1> DEFINE e == req[c].entity
             id == req[c].target
  <1>1. /\ rows[id].status = "SUBMITTED" /\ id \in DOMAIN rows /\ rows[id] \in Row
        /\ e.info = rows[id].info
        /\ req[c].pc = "maxCard" => PostedIds(rows, rows[id].info) = {}
    BY Facts DEF ReadExisting, ReadMaxCard, Fresh, EditWaits
  <1>2. PICK b \in BOOLEAN : e = [rows[id] EXCEPT !.status = "POSTED", !.is_public = b]
    BY Facts DEF ReadExisting, ReadMaxCard, Fresh
  <1>3. rows' = rows /\ req'[c].target = id
    BY ContinueLeaves DEF ReadExisting, ReadMaxCard
  <1>4. ASSUME NEW card \in CardFor(rows, rows[id].info), req'[c].pc = "bulk",
               req'[c].entity = [e EXCEPT !.card_order = card]
        PROVE  Fresh(req[c])'
    <2>1. req'[c].entity = [rows[id] EXCEPT !.status = "POSTED", !.is_public = b, !.card_order = card]
      BY <1>2, <1>4
    <2>2. IsPosting(req[c].entity, req[c].target)'
      BY <1>1, <1>3, <1>4, <2>1 DEF IsPosting
    <2>3. QED
      BY <1>3, <1>4, <2>2 DEF Fresh
  <1>5. CASE ReadExisting(c)
    <2>1. PICK holder \in CardHolder(rows, e.info) :
             IF holder = 0
             THEN Continue(c, "maxCard", e)
             ELSE Continue(c, "bulk", [e EXCEPT !.card_order = rows[holder].card_order])
      BY <1>5 DEF ReadExisting
    <2>2. holder = 0 <=> PostedIds(rows, rows[id].info) = {}
      BY <1>1, TableShape, Facts DEF CardHolder, PostedIds
    <2>3. CASE holder = 0
      <3>1. req'[c].pc = "maxCard" /\ req'[c].entity = e
        BY <2>1, <2>3, ContinueLeaves
      <3>2. QED
        BY <1>1, <1>2, <1>3, <2>2, <2>3, <3>1 DEF Fresh
    <2>4. CASE holder # 0
      <3>1. rows[holder].card_order \in CardFor(rows, rows[id].info)
        BY <1>1, <2>2, <2>4 DEF CardFor
      <3>2. /\ req'[c].pc = "bulk"
            /\ req'[c].entity = [e EXCEPT !.card_order = rows[holder].card_order]
        BY <2>1, <2>4, ContinueLeaves
      <3>3. QED
        BY <1>4, <3>1, <3>2
    <2>5. QED
      BY <2>3, <2>4
  <1>6. CASE ReadMaxCard(c)
    <2>1. PICK m \in MaxCard(rows) : Continue(c, "bulk", [e EXCEPT !.card_order = m + 1])
      BY <1>6 DEF ReadMaxCard
    <2>2. m + 1 \in CardFor(rows, rows[id].info)
      BY <1>1, <1>6 DEF CardFor, ReadMaxCard
    <2>3. req'[c].pc = "bulk" /\ req'[c].entity = [e EXCEPT !.card_order = m + 1]
      BY <2>1, ContinueLeaves
    <2>4. QED
      BY <1>4, <2>2, <2>3
  <1>7. QED
    BY <1>5, <1>6

-----------------------------------------------------------------------------

\* A row is what its columns are.
LEMMA SameRow ==
  ASSUME NEW a \in Row, NEW b \in Row, a.info = b.info, a.status = b.status,
         a.is_public = b.is_public, a.version = b.version,
         a.original_version_id = b.original_version_id, a.card_order = b.card_order,
         a.content = b.content
  PROVE  a = b
  BY DEF Row

\* A request whose row is saved holds no copy any more.
LEMMA SavedIsFresh ==
  ASSUME SerialInv, NEW c \in Clients, NEW id, NEW p, p \in {"idle", "mail", "related"},
         NEW wrote, Saved(c, id, p, wrote)
  PROVE  Fresh(req[c])' /\ req'[c].pc \in {"idle", "mail", "related"}
  <1> DEFINE r == [Idle EXCEPT !.pc = p, !.method = req[c].method, !.target = id,
                               !.wrote = wrote]
  <1>1. req'[c].pc \in {"idle", "mail", "related"}
    <2>1. req'[c] = Idle \/ req'[c] = r
      BY Facts DEF Saved, Answer
    <2>2. Idle.pc = "idle" /\ r.pc = p
      BY DEF Idle
    <2>3. QED
      BY <2>1, <2>2
  <1>2. QED
    BY <1>1 DEF Fresh

\* The columns in which a copy differs from its row make the row the copy.
LEMMA MergedIsCopy ==
  ASSUME NEW row \in Row, NEW e \in Row, e.info = row.info, e.version = row.version,
         e.original_version_id = row.original_version_id
  PROVE  /\ Merged(row, e, Differing(row, e)) = e
         /\ Differing(row, e) = {} => e = row
  <1> DEFINE new == Merged(row, e, Differing(row, e))
  <1>1. /\ "status" \in Differing(row, e) <=> row.status # e.status
        /\ "content" \in Differing(row, e) <=> row.content # e.content
        /\ "card_order" \in Differing(row, e) <=> row.card_order # e.card_order
        /\ "is_public" \in Differing(row, e) <=> row.is_public # e.is_public
    BY DEF Differing, Columns
  <1>2. /\ new \in Row /\ new.info = e.info /\ new.version = e.version
        /\ new.original_version_id = e.original_version_id
        /\ new.status = e.status /\ new.content = e.content
        /\ new.card_order = e.card_order /\ new.is_public = e.is_public
    BY <1>1, MergedRow
  <1> HIDE DEF new
  <1>3. new = e
    BY <1>2, SameRow
  <1>4. Differing(row, e) = {} => e = row
    BY <1>1, SameRow
  <1>5. QED
    BY <1>3, <1>4 DEF new

\* The bulk UPDATE is Show, and leaves the request with its row.
LEMMA BulkUpdateShows ==
  ASSUME SerialInv, NEW c \in Clients, BulkUpdate(c)
  PROVE  Table!Next /\ Fresh(req[c])'
  <1> DEFINE e == req[c].entity
             id == req[c].target
             new == SetVisibility(rows, e.info, e.is_public)
  <1>1. /\ req[c].pc = "bulk" /\ id \in DOMAIN rows /\ rows[id] \in Row /\ e \in Row
        /\ e.info = rows[id].info
        /\ rows \in Seq(Row) /\ e.is_public \in BOOLEAN
    BY Facts DEF BulkUpdate, EditWaits, Row
  <1>2. \/ IsPosting(e, id)
        \/ /\ rows[id].status = "POSTED"
           /\ \E b \in BOOLEAN : e = [rows[id] EXCEPT !.is_public = b]
    BY <1>1, Facts DEF Fresh
  <1>3. rows' = new
    BY DEF BulkUpdate, Commit
  <1>4. Table!Next
    <2>1. rows[id].status \in {"SUBMITTED", "POSTED"}
      BY <1>2 DEF IsPosting
    <2>2. Table!Show(id, e.is_public)
      BY <1>1, <1>3, <2>1 DEF Table!Show, SetVisibility, Table!SetVisibility
    <2>3. QED
      BY <1>1, <2>2 DEF Table!Next
  <1>5. req'[c].pc = "save" /\ req'[c].target = id /\ req'[c].entity = e
    BY <1>1, Facts DEF BulkUpdate, Request
  <1>6. rows'[id] = [rows[id] EXCEPT !.is_public = e.is_public]
    BY <1>1, <1>3 DEF SetVisibility
  <1>7. CASE IsPosting(e, id)
    <2>1. PICK b \in BOOLEAN, card \in CardFor(rows, rows[id].info) :
             e = [rows[id] EXCEPT !.status = "POSTED", !.is_public = b, !.card_order = card]
      BY <1>7 DEF IsPosting
    <2>2. e.is_public = b
      BY <1>1, <2>1 DEF Row
    <2>3. /\ rows'[id].status = "SUBMITTED" /\ rows'[id].info = rows[id].info
          /\ e = [rows'[id] EXCEPT !.status = "POSTED", !.is_public = b, !.card_order = card]
      BY <1>1, <1>6, <1>7, <2>1, <2>2 DEF IsPosting, Row
    <2>4. card \in CardFor(rows', rows'[id].info)
      BY <1>1, <1>3, <2>1, <2>3, BulkUpdateKeepsCardFor
    <2>5. IsPosting(req[c].entity, req[c].target)'
      BY <1>5, <2>3, <2>4 DEF IsPosting
    <2>6. QED
      BY <1>4, <1>5, <2>5 DEF Fresh
  <1>8. CASE \E b \in BOOLEAN : e = [rows[id] EXCEPT !.is_public = b]
    <2>1. PICK b \in BOOLEAN : e = [rows[id] EXCEPT !.is_public = b]
      BY <1>8
    <2>2. rows'[id] = e
      BY <1>1, <1>6, <2>1 DEF Row
    <2>3. QED
      BY <1>4, <1>5, <2>2 DEF Fresh
  <1>9. QED
    BY <1>2, <1>4, <1>7, <1>8

LEMMA InsertDrafts ==
  ASSUME SerialInv, NEW c \in Clients, Insert(c)
  PROVE  Table!Next /\ Fresh(req[c])'
  <1> DEFINE e == req[c].entity
  <1>1. /\ req[c].pc = "insert" /\ rows' = Append(rows, e)
        /\ Saved(c, Len(rows) + 1, IF e.status = "REQUEST" THEN "mail" ELSE "idle", TRUE)
    BY DEF Insert, Commit
  <1>2. rows' = Append(rows, e) /\ Fresh(req[c])'
    BY <1>1, SavedIsFresh
  <1>3. Len(rows) < MaxRows
    BY <1>1, Facts DEF Fresh, IsDraft
  <1>4. PICK info \in Infos, status \in DtoStatuses, content \in Contents :
           \E base \in NewestPosted(rows, info, 0) :
              e = NewVersion(rows, info, base, status, content)
    BY <1>1, Facts DEF Fresh, IsDraft
  <1>5. Table!Draft(info, status, content)
    BY <1>2, <1>3, <1>4
    DEF Table!Draft, Table!NewestPosted, Table!Newest, Table!PostedIds, Table!NewVersion,
        NewestPosted, Newest, PostedIds, NewVersion
  <1>6. QED
    BY <1>2, <1>5 DEF Table!Next, Table!DtoStatuses, Table!Statuses, DtoStatuses, Statuses

\* The SELECT of a save: what the UPDATE will set is what the copy differs in.
LEMMA SaveIsFresh ==
  ASSUME SerialInv, NEW c \in Clients, Save(c)
  PROVE  rows' = rows /\ Fresh(req[c])'
  <1> DEFINE e == req[c].entity
             id == req[c].target
             cols == Differing(rows[id], e)
  <1>1. req[c].pc = "save" /\ rows' = rows
    BY DEF Save
  <1>2. CASE cols = {}
    <2>1. Saved(c, id, AfterSave(req[c].method, e.status), req[c].wrote)
      BY <1>2 DEF Save
    <2>2. AfterSave(req[c].method, e.status) \in {"mail", "related", "idle"}
      BY DEF AfterSave
    <2>3. QED
      BY <1>1, <2>1, <2>2, SavedIsFresh
  <1>3. CASE cols # {}
    <2>1. /\ req'[c].pc = "update" /\ req'[c].entity = e /\ req'[c].target = id
          /\ req'[c].diff = cols /\ req'[c].method = req[c].method
      BY <1>3, Facts DEF Save, Request
    <2>2. FreshEdit(req[c]) \/ IsPosting(e, id) \/ e = rows[id]
      BY <1>1, Facts DEF Fresh
    <2>3. FreshEdit(req[c])' <=> FreshEdit(req[c])
      BY <1>1, <2>1 DEF FreshEdit
    <2>4. IsPosting(req[c].entity, req[c].target)' <=> IsPosting(e, id)
      BY <1>1, <2>1 DEF IsPosting
    <2>5. QED
      BY <1>1, <2>1, <2>2, <2>3, <2>4 DEF Fresh
  <1>4. QED
    BY <1>2, <1>3

\* An UPDATE is Rework, Correct, Toggle or Post of the row, or changes nothing.
LEMMA UpdateImplements ==
  ASSUME SerialInv, NEW c \in Clients, Update(c)
  PROVE  (Table!Next \/ UNCHANGED rows) /\ Fresh(req[c])'
  <1> DEFINE e == req[c].entity
             id == req[c].target
             p == AfterSave(req[c].method, e.status)
  <1>1. /\ req[c].pc = "update" /\ Saved(c, id, p, TRUE)
        /\ rows' = [rows EXCEPT ![id] = Merged(rows[id], e, req[c].diff)]
    BY DEF Update, Commit
  <1>2. p \in {"mail", "related", "idle"}
    BY DEF AfterSave
  <1>3. rows' = [rows EXCEPT ![id] = e] /\ Fresh(req[c])'
    <2>1. /\ rows[id] \in Row /\ e \in Row /\ e.info = rows[id].info
          /\ e.version = rows[id].version
          /\ e.original_version_id = rows[id].original_version_id
      BY <1>1, Facts DEF SerialInv, ServiceInv, CopiesOK, CopyOK, IsCopyOf, EditWaits
    <2>2. req[c].diff = Differing(rows[id], e)
      BY <1>1, Facts DEF Fresh
    <2>3. Merged(rows[id], e, req[c].diff) = e
      BY <2>1, <2>2, MergedIsCopy
    <2>4. QED
      BY <1>1, <1>2, <2>3, SavedIsFresh
  <1>4. /\ id \in DOMAIN rows /\ rows[id] \in Row /\ rows \in Seq(Row)
    BY <1>1, Facts DEF EditWaits
  <1>5. FreshEdit(req[c]) \/ IsPosting(e, id) \/ e = rows[id]
    BY <1>1, Facts DEF Fresh
  <1>6. CASE e = rows[id]
    BY <1>3, <1>4, <1>6
  <1>7. CASE IsPosting(e, id)
    <2>1. PICK b \in BOOLEAN, card \in CardFor(rows, rows[id].info) :
             e = [rows[id] EXCEPT !.status = "POSTED", !.is_public = b, !.card_order = card]
      BY <1>7 DEF IsPosting
    <2>2. rows' = [rows EXCEPT ![id].status = "POSTED", ![id].is_public = b,
                               ![id].card_order = card]
      BY <1>3, <1>4, <2>1
    <2>3. Table!CardFor(rows, rows[id].info) = CardFor(rows, rows[id].info)
      BY DEF Table!CardFor, Table!PostedIds, Table!MaxCard, Table!CardHolder,
             CardFor, PostedIds, MaxCard, CardHolder
    <2>4. Table!Post(id, b)
      BY <1>7, <2>1, <2>2, <2>3 DEF Table!Post, IsPosting
    <2>5. QED
      BY <1>3, <1>4, <2>4 DEF Table!Next
  <1>8. CASE FreshEdit(req[c])
    <2>1. CASE /\ rows[id].status # "POSTED"
               /\ \E status \in DtoStatuses, content \in Contents :
                     e = [rows[id] EXCEPT !.status = status, !.content = content]
      <3>1. PICK status \in DtoStatuses, content \in Contents :
               e = [rows[id] EXCEPT !.status = status, !.content = content]
        BY <2>1
      <3>2. rows' = [rows EXCEPT ![id].status = status, ![id].content = content]
        BY <1>3, <1>4, <3>1
      <3>3. Table!Rework(id, status, content)
        BY <2>1, <3>2 DEF Table!Rework
      <3>4. QED
        BY <1>3, <1>4, <3>3
        DEF Table!Next, Table!DtoStatuses, Table!Statuses, DtoStatuses, Statuses
    <2>2. CASE /\ rows[id].status = "POSTED"
               /\ \E content \in Contents : e = [rows[id] EXCEPT !.content = content]
      <3>1. PICK content \in Contents : e = [rows[id] EXCEPT !.content = content]
        BY <2>2
      <3>2. Table!Correct(id, content)
        BY <1>3, <1>4, <2>2, <3>1 DEF Table!Correct
      <3>3. QED
        BY <1>3, <1>4, <3>2 DEF Table!Next
    <2>3. CASE /\ rows[id].status = "POSTED"
               /\ \E b \in BOOLEAN : e = [rows[id] EXCEPT !.is_public = b]
      <3>1. PICK b \in BOOLEAN : e = [rows[id] EXCEPT !.is_public = b]
        BY <2>3
      <3>2. Table!Toggle(id, b)
        BY <1>3, <1>4, <2>3, <3>1 DEF Table!Toggle
      <3>3. QED
        BY <1>3, <1>4, <3>2 DEF Table!Next
    <2>4. QED
      BY <1>8, <2>1, <2>2, <2>3 DEF FreshEdit
  <1>9. QED
    BY <1>5, <1>6, <1>7, <1>8

\* Every other step leaves the table alone.
LEMMA QuietSteps ==
  ASSUME OneAtATime, SerialInv, NEW c \in Clients,
         \/ Arrive(c) \/ ReadExisting(c) \/ ReadMaxCard(c) \/ Save(c)
         \/ SendMail(c) \/ MailTypeError(c) \/ ReadRelated(c) \/ Fail(c)
  PROVE  rows' = rows /\ Fresh(req[c])'
  <1>1. CASE Arrive(c)
    <2>1. rows' = rows
      BY <1>1 DEF Arrive, createSummary, updateSummary, updateSummaryForUser,
                  updateSummaryMaster, changePublicStatus, addSummaryToMaster, Begin
    <2>2. ASSUME NEW info \in Infos, NEW status \in Sent, NEW content \in Contents,
                 createSummary(c, info, status, content)
          PROVE  Fresh(req[c])'
      BY <2>2, CreateIsFresh
    <2>3. ASSUME NEW id \in DOMAIN rows, NEW status \in Sent, NEW content \in Contents,
                 \/ updateSummary(c, id, status, content)
                 \/ \E user \in Users : updateSummaryForUser(c, user, id, status, content)
          PROVE  Fresh(req[c])'
      BY <2>3, SentAssumption, EditIsFresh
    <2>4. ASSUME NEW id \in DOMAIN rows, NEW content \in Contents,
                 updateSummaryMaster(c, id, content)
          PROVE  Fresh(req[c])'
      <3>1. "DRAFT" \in DtoStatuses
        BY DEF DtoStatuses, Statuses
      <3>2. QED
        BY <2>4, <3>1, EditIsFresh
    <2>5. ASSUME NEW id \in DOMAIN rows, NEW b \in BOOLEAN, addSummaryToMaster(c, id, b)
          PROVE  Fresh(req[c])'
      BY <2>5, AddIsFresh
    <2>6. ASSUME NEW id \in DOMAIN rows, NEW b \in BOOLEAN, changePublicStatus(c, id, b)
          PROVE  Fresh(req[c])'
      <3>1. "DRAFT" \in DtoStatuses
        BY DEF DtoStatuses, Statuses
      <3>2. rows[id].content \in Contents
        BY Facts, TableShape DEF Row
      <3>3. QED
        BY <2>6, <3>1, <3>2, EditIsFresh
    <2>7. QED
      BY <1>1, <2>1, <2>2, <2>3, <2>4, <2>5, <2>6 DEF Arrive
  <1>2. CASE ReadExisting(c) \/ ReadMaxCard(c)
    BY <1>2, ReadsAreFresh, ContinueLeaves DEF ReadExisting, ReadMaxCard
  <1>3. CASE SendMail(c) \/ MailTypeError(c) \/ ReadRelated(c) \/ Fail(c)
    <2>1. \/ Continue(c, "related", req[c].entity)
          \/ Answer(c) /\ rows' = rows
          \/ Break(c)
      BY <1>3 DEF SendMail, MailTypeError, ReadRelated, Fail
    <2>2. CASE Continue(c, "related", req[c].entity)
      <3>1. rows' = rows /\ req'[c].pc = "related"
        BY <2>2, ContinueLeaves
      <3>2. QED
        BY <3>1 DEF Fresh
    <2>3. CASE Answer(c) /\ rows' = rows
      BY <2>3, Facts DEF Answer, Idle, Fresh
    <2>4. CASE Break(c)
      <3>1. rows' = rows /\ req'[c].pc = "failed"
        BY <2>4, Facts DEF Break, Idle
      <3>2. QED
        BY <3>1 DEF Fresh
    <2>5. QED
      BY <2>1, <2>2, <2>3, <2>4
  <1>4. QED
    BY <1>1, <1>2, <1>3, SaveIsFresh

LEMMA SerialStep ==
  ASSUME OneAtATime, SerialInv, [Next]_vars
  PROVE  SerialInv' /\ [Table!Next]_rows
  <1>1. ServiceInv'
    BY ServiceInvInductive DEF SerialInv
  <1>2. ASSUME NEW c \in Clients, Arrive(c) \/ Step(c) \/ Fail(c)
        PROVE  Fresh(req[c])' /\ [Table!Next]_rows
    BY <1>2, BulkUpdateShows, InsertDrafts, UpdateImplements, QuietSteps DEF Step
  <1>3. CASE UNCHANGED vars
    <2>1. rows' = rows /\ req' = req
      BY <1>3 DEF vars
    <2>2. ASSUME NEW d \in Clients
          PROVE  Fresh(req[d])'
      <3>1. Fresh(req[d])
        BY DEF SerialInv, AllFresh
      <3>2. FreshEdit(req[d])' <=> FreshEdit(req[d])
        BY <2>1 DEF FreshEdit
      <3>3. IsPosting(req[d].entity, req[d].target)' <=> IsPosting(req[d].entity, req[d].target)
        BY <2>1 DEF IsPosting
      <3>4. IsDraft(req[d].entity)' <=> IsDraft(req[d].entity)
        BY <2>1 DEF IsDraft
      <3>5. QED
        BY <2>1, <3>1, <3>2, <3>3, <3>4 DEF Fresh
    <2>3. QED
      BY <1>1, <2>1, <2>2 DEF SerialInv, AllFresh
  <1>4. CASE Next
    <2>1. PICK c \in Clients : Arrive(c) \/ Step(c) \/ Fail(c)
      BY <1>4 DEF Next
    <2>2. Fresh(req[c])' /\ [Table!Next]_rows
      BY <1>2, <2>1
    <2>3. ASSUME NEW d \in Clients
          PROVE  Fresh(req[d])'
      BY <2>2 DEF OneAtATime
    <2>4. AllFresh'
      BY <2>3 DEF AllFresh
    <2>5. QED
      BY <1>1, <2>2, <2>4 DEF SerialInv
  <1>5. QED
    BY <1>3, <1>4

LEMMA InitIsSerial == Init => SerialInv
  <1> SUFFICES ASSUME Init
               PROVE  SerialInv
    OBVIOUS
  <1>1. AllFresh
    BY DEF Init, Idle, AllFresh, Fresh
  <1>2. QED
    BY <1>1, ServiceInvInitially DEF SerialInv

\* With requests one at a time the service implements SummaryTable: every
\* statement a request commits is one action of the table.
THEOREM ServiceImplementsTable ==
  ASSUME OneAtATime
  PROVE  Spec => TableSpec
  <1>1. Init => SerialInv /\ Table!Init
    BY InitIsSerial DEF Init, Table!Init
  <1>2. SerialInv /\ [Next]_vars => SerialInv' /\ [Table!Next]_rows
    BY SerialStep
  <1>3. QED
    BY <1>1, <1>2, PTL DEF Spec, TableSpec, Table!Spec

-----------------------------------------------------------------------------
(***************************************************************************)
(* What addSummaryToMaster leaves behind when it answers.  Between its     *)
(* bulk UPDATE and its save it has already shown or hidden the company.    *)
(***************************************************************************)

\* Every row of the company of r has the visibility that r will save.
Shows(r, tbl) ==
    \A i \in DOMAIN tbl :
        tbl[i].info = r.entity.info => tbl[i].is_public = r.entity.is_public

AtSave(r) == r.method = "addSummaryToMaster" /\ r.pc \in {"save", "update"}

HasShown == \A c \in Clients : AtSave(req[c]) => Shows(req[c], rows)

\* The bulk UPDATE, the only step of addSummaryToMaster that goes on to the save.
LEMMA BulkUpdateHasShown ==
  ASSUME SerialInv, NEW c \in Clients, BulkUpdate(c)
  PROVE  Shows(req[c], rows)'
  <1> DEFINE e == req[c].entity
  <1>1. rows' = SetVisibility(rows, e.info, e.is_public)
    BY DEF BulkUpdate, Commit
  <1>2. req'[c].entity = e
    BY Facts DEF BulkUpdate, Request
  <1>3. \A i \in DOMAIN rows : rows[i] \in Row
    BY Facts, TableShape
  <1>4. DOMAIN rows' = DOMAIN rows
    BY <1>1 DEF SetVisibility
  <1>5. ASSUME NEW i \in DOMAIN rows, rows'[i].info = e.info
        PROVE  rows'[i].is_public = e.is_public
    <2>1. rows'[i] = IF rows[i].info = e.info
                     THEN [rows[i] EXCEPT !.is_public = e.is_public] ELSE rows[i]
      BY <1>1 DEF SetVisibility
    <2>2. QED
      BY <1>3, <1>5, <2>1 DEF Row
  <1>6. QED
    BY <1>2, <1>4, <1>5 DEF Shows

\* Every other step but the SELECT of the save leaves the save, or is of another
\* method.
LEMMA OthersDoNotGoOnToSave ==
  ASSUME SerialInv, NEW c \in Clients,
         \/ Arrive(c) \/ ReadExisting(c) \/ ReadMaxCard(c) \/ Insert(c) \/ Update(c)
         \/ SendMail(c) \/ MailTypeError(c) \/ ReadRelated(c) \/ Fail(c)
  PROVE  ~ AtSave(req'[c])
  <1>f. req \in [Clients -> Request] /\ req[c] \in Request
    BY Facts
  <1>1. CASE Arrive(c)
    <2>1. ASSUME NEW m, NEW p, NEW id, NEW e, Begin(c, m, p, id, e),
                 m # "addSummaryToMaster" \/ p \notin {"save", "update"}
          PROVE  ~ AtSave(req'[c])
      <3>1. req'[c] = [pc |-> p, method |-> m, target |-> id, entity |-> e, diff |-> {},
                       wrote |-> FALSE]
        BY <1>f, <2>1 DEF Begin
      <3>2. QED
        BY <2>1, <3>1 DEF AtSave
    <2>2. ASSUME NEW info, NEW status, NEW content, createSummary(c, info, status, content)
          PROVE  ~ AtSave(req'[c])
      BY <2>1, <2>2 DEF createSummary
    <2>3. ASSUME NEW id, NEW status, NEW content, updateSummary(c, id, status, content)
          PROVE  ~ AtSave(req'[c])
      BY <2>1, <2>3 DEF updateSummary
    <2>4. ASSUME NEW user, NEW id, NEW status, NEW content,
                 updateSummaryForUser(c, user, id, status, content)
          PROVE  ~ AtSave(req'[c])
      BY <2>1, <2>4 DEF updateSummaryForUser
    <2>5. ASSUME NEW id, NEW content, updateSummaryMaster(c, id, content)
          PROVE  ~ AtSave(req'[c])
      BY <2>1, <2>5 DEF updateSummaryMaster
    <2>6. ASSUME NEW id, NEW b, changePublicStatus(c, id, b)
          PROVE  ~ AtSave(req'[c])
      BY <2>1, <2>6 DEF changePublicStatus
    <2>7. ASSUME NEW id, NEW b, addSummaryToMaster(c, id, b)
          PROVE  ~ AtSave(req'[c])
      BY <2>1, <2>7 DEF addSummaryToMaster
    <2>8. QED
      BY <1>1, <2>2, <2>3, <2>4, <2>5, <2>6, <2>7 DEF Arrive
  <1>2. CASE ReadExisting(c) \/ ReadMaxCard(c)
    <2>1. PICK p \in {"maxCard", "bulk"} : \E e : Continue(c, p, e)
      <3>1. CASE ReadExisting(c)
        <4>1. PICK holder : IF holder = 0
                            THEN Continue(c, "maxCard", req[c].entity)
                            ELSE Continue(c, "bulk", [req[c].entity EXCEPT
                                                        !.card_order = rows[holder].card_order])
          BY <3>1 DEF ReadExisting
        <4>2. QED
          BY <4>1
      <3>2. CASE ReadMaxCard(c)
        BY <3>2 DEF ReadMaxCard
      <3>3. QED
        BY <1>2, <3>1, <3>2
    <2>2. QED
      BY <2>1, ContinueLeaves DEF AtSave
  <1>3. CASE Insert(c) \/ Update(c)
    <2>1. \E p \in {"idle", "mail", "related"} : \E id, wrote : Saved(c, id, p, wrote)
      <3>1. CASE Insert(c)
        BY <3>1 DEF Insert
      <3>2. CASE Update(c)
        <4>1. AfterSave(req[c].method, req[c].entity.status) \in {"idle", "mail", "related"}
          BY DEF AfterSave
        <4>2. QED
          BY <3>2, <4>1 DEF Update
      <3>3. QED
        BY <1>3, <3>1, <3>2
    <2>2. QED
      BY <2>1, SavedIsFresh DEF AtSave
  <1>4. CASE SendMail(c) \/ MailTypeError(c) \/ ReadRelated(c) \/ Fail(c)
    <2>1. Continue(c, "related", req[c].entity) \/ Answer(c) \/ Break(c)
      BY <1>4 DEF SendMail, MailTypeError, ReadRelated, Fail
    <2>2. CASE Continue(c, "related", req[c].entity)
      BY <2>2, ContinueLeaves DEF AtSave
    <2>3. CASE Answer(c)
      BY <1>f, <2>3 DEF Answer, Idle, AtSave
    <2>4. CASE Break(c)
      BY <1>f, <2>4 DEF Break, Idle, AtSave
    <2>5. QED
      BY <2>1, <2>2, <2>3, <2>4
  <1>5. QED
    BY <1>1, <1>2, <1>3, <1>4

\* The SELECT of the save leaves the table and the copy.
LEMMA SaveHasShown ==
  ASSUME SerialInv, HasShown, NEW c \in Clients, Save(c), AtSave(req'[c])
  PROVE  Shows(req[c], rows)'
  <1> DEFINE e == req[c].entity
             cols == Differing(rows[req[c].target], e)
  <1>1. req[c].pc = "save" /\ rows' = rows
    BY DEF Save
  <1>2. cols # {}
    <2> SUFFICES ASSUME cols = {}
                 PROVE  FALSE
      OBVIOUS
    <2>1. Saved(c, req[c].target, AfterSave(req[c].method, e.status), req[c].wrote)
      BY DEF Save
    <2>2. AfterSave(req[c].method, e.status) \in {"idle", "mail", "related"}
      BY DEF AfterSave
    <2>3. QED
      BY <2>1, <2>2, SavedIsFresh DEF AtSave
  <1>3. req'[c].entity = e /\ req'[c].method = req[c].method
    BY <1>2, Facts DEF Save, Request
  <1>4. Shows(req[c], rows)
    BY <1>1, <1>3 DEF HasShown, AtSave
  <1>5. QED
    BY <1>1, <1>3, <1>4 DEF Shows

LEMMA HasShownStep ==
  ASSUME OneAtATime, SerialInv, HasShown, [Next]_vars
  PROVE  HasShown'
  <1>1. CASE UNCHANGED vars
    BY <1>1 DEF vars, HasShown, Shows, AtSave
  <1>2. CASE Next
    <2>1. PICK c \in Clients : Arrive(c) \/ Step(c) \/ Fail(c)
      BY <1>2 DEF Next
    <2>2. AtSave(req'[c]) => Shows(req[c], rows)'
      BY <2>1, BulkUpdateHasShown, SaveHasShown, OthersDoNotGoOnToSave DEF Step
    <2>3. QED
      BY <2>2 DEF HasShown, OneAtATime
  <1>3. QED
    BY <1>1, <1>2

\* What the UPDATE of addSummaryToMaster leaves.
LEMMA UpdateStillShows ==
  ASSUME SerialInv, HasShown, NEW c \in Clients, Update(c),
         req[c].method = "addSummaryToMaster"
  PROVE  \A i \in DOMAIN rows' :
            rows'[i].info = req[c].entity.info => rows'[i].is_public = req[c].entity.is_public
  <1> DEFINE e == req[c].entity
             id == req[c].target
  <1>1. /\ req[c].pc = "update" /\ id \in DOMAIN rows /\ e \in Row /\ rows[id] \in Row
        /\ DOMAIN rows' = DOMAIN rows
        /\ rows'[id] = Merged(rows[id], e, req[c].diff)
        /\ \A i \in DOMAIN rows : i # id => rows'[i] = rows[i]
    BY UpdateChanges DEF SerialInv
  <1>2. /\ rows'[id].info = rows[id].info
        /\ rows'[id].is_public \in {e.is_public, rows[id].is_public}
    BY <1>1, MergedRow
  <1>3. Shows(req[c], rows)
    BY <1>1 DEF HasShown, AtSave
  <1> HIDE DEF id
  <1>4. QED
    BY <1>1, <1>2, <1>3 DEF Shows

\* An answer of addSummaryToMaster means what it says of the whole company.
THEOREM MasterShowsCompany ==
  ASSUME OneAtATime
  PROVE  Spec => MasterShowsWholeCompany
  <1> DEFINE A == \A c \in Clients :
                   /\ req[c].method = "addSummaryToMaster" /\ req[c].pc \in {"save", "update"}
                   /\ req'[c].pc = "idle"
                   => \A i \in DOMAIN rows' :
                         rows'[i].info = req[c].entity.info =>
                             rows'[i].is_public = req[c].entity.is_public
  <1>1. Init => SerialInv /\ HasShown
    BY InitIsSerial DEF Init, Idle, HasShown, AtSave
  <1>2. SerialInv /\ HasShown /\ [Next]_vars => SerialInv' /\ HasShown'
    BY SerialStep, HasShownStep
  <1>3. ASSUME SerialInv, HasShown, Next
        PROVE  A
    <2> SUFFICES ASSUME NEW c \in Clients, AtSave(req[c]), req'[c].pc = "idle"
                 PROVE  \A i \in DOMAIN rows' :
                           rows'[i].info = req[c].entity.info =>
                               rows'[i].is_public = req[c].entity.is_public
      BY DEF AtSave
    <2>1. Arrive(c) \/ Step(c) \/ Fail(c)
      BY <1>3 DEF Next, OneAtATime
    <2>2. Save(c) \/ Update(c)
      <3>1. ~ Fail(c)
        BY Facts, <1>3 DEF Fail, Break, Idle
      <3>2. ~ Arrive(c)
        BY DEF Arrive, createSummary, updateSummary, updateSummaryForUser,
               updateSummaryMaster, changePublicStatus, addSummaryToMaster, Begin, AtSave
      <3>3. QED
        BY <2>1, <3>1, <3>2
        DEF Step, ReadExisting, ReadMaxCard, BulkUpdate, Insert, SendMail, MailTypeError,
            ReadRelated, AtSave
    <2>3. CASE Save(c)
      <3>1. rows' = rows
        BY <2>3 DEF Save
      <3>2. Shows(req[c], rows)
        BY <1>3 DEF HasShown
      <3>3. QED
        BY <3>1, <3>2 DEF Shows
    <2>4. CASE Update(c)
      BY <1>3, <2>4, UpdateStillShows DEF AtSave
    <2>5. QED
      BY <2>2, <2>3, <2>4
  <1>4. SerialInv /\ HasShown /\ [Next]_vars => [A]_vars
    BY <1>3
  <1> HIDE DEF A
  <1>5. Spec => [][A]_vars
    BY <1>1, <1>2, <1>4, PTL DEF Spec
  <1>6. QED
    BY <1>5 DEF A, MasterShowsWholeCompany

-----------------------------------------------------------------------------
(***************************************************************************)
(* What is proved of the table holds of the service that implements it.    *)
(***************************************************************************)

TableProofs == INSTANCE SummaryTable_proofs

\* Between any two statements of requests one at a time the table is as SummaryTable
\* promises: originals are POSTED, cards tell companies apart and have no gaps, and
\* what the editors are shown is not behind the POSTED version.
THEOREM ServiceKeepsTablePromises ==
  ASSUME OneAtATime
  PROVE  Spec => /\ []Table!OriginalIsPosted
                 /\ []Table!CardIdentifiesCompany
                 /\ []Table!CardsWithoutGaps
                 /\ []Table!NobodyFallsBehind
                 /\ Table!PostedIsFinal
  <1>1. Table!Init => TableProofs!Init
    BY DEF Table!Init, TableProofs!Init
  <1>2. [Table!Next]_rows => [TableProofs!Next]_rows
    BY DEF Table!Next, Table!Draft, Table!Rework, Table!Correct, Table!Toggle, Table!Show,
           Table!Post, Table!DtoStatuses, Table!Statuses, Table!NewestPosted, Table!Newest,
           Table!PostedIds, Table!NewVersion, Table!SetVisibility, Table!CardFor,
           Table!MaxCard, Table!CardHolder,
           TableProofs!Next, TableProofs!Draft, TableProofs!Rework, TableProofs!Correct,
           TableProofs!Toggle, TableProofs!Show, TableProofs!Post, TableProofs!DtoStatuses,
           TableProofs!Statuses, TableProofs!NewestPosted, TableProofs!Newest,
           TableProofs!PostedIds, TableProofs!NewVersion, TableProofs!SetVisibility,
           TableProofs!CardFor, TableProofs!MaxCard, TableProofs!CardHolder
  <1>3. TableProofs!OriginalIsPosted => Table!OriginalIsPosted
    BY DEF TableProofs!OriginalIsPosted, Table!OriginalIsPosted
  <1>4. TableProofs!CardIdentifiesCompany => Table!CardIdentifiesCompany
    BY DEF TableProofs!CardIdentifiesCompany, Table!CardIdentifiesCompany
  <1>5. TableProofs!CardsWithoutGaps => Table!CardsWithoutGaps
    BY DEF TableProofs!CardsWithoutGaps, Table!CardsWithoutGaps
  <1>6. TableProofs!NobodyFallsBehind => Table!NobodyFallsBehind
    BY DEF TableProofs!NobodyFallsBehind, Table!NobodyFallsBehind,
           TableProofs!getSummaryForAdmin, Table!getSummaryForAdmin,
           TableProofs!getSummaryForUser, Table!getSummaryForUser,
           TableProofs!NewestPosted, Table!NewestPosted, TableProofs!PostedIds,
           Table!PostedIds, TableProofs!Newest, Table!Newest
  <1>7. Spec => TableProofs!Spec
    BY <1>1, <1>2, ServiceImplementsTable, PTL DEF TableSpec, Table!Spec, TableProofs!Spec
  <1>8. TableProofs!Spec => []TableProofs!NobodyFallsBehind
    BY BoundsAssumption, TableProofs!EditorsKeepUp
  <1>9. TableProofs!Spec => 
            [](TableProofs!TypeOK /\ TableProofs!OriginalIsPosted
                 /\ TableProofs!CardIdentifiesCompany /\ TableProofs!CardsWithoutGaps)
    BY BoundsAssumption, TableProofs!TableIsConsistent
  <1>10. TableProofs!Spec => TableProofs!PostedIsFinal
    BY BoundsAssumption, TableProofs!PostedRowsAreFinal
  <1>11. TableProofs!PostedIsFinal => Table!PostedIsFinal
    BY DEF TableProofs!PostedIsFinal, Table!PostedIsFinal
  <1>12. QED
    BY <1>3, <1>4, <1>5, <1>6, <1>7, <1>8, <1>9, <1>10, <1>11, PTL
=============================================================================
