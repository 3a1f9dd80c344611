------------------------- MODULE DocumentStoreProofs -------------------------
(***************************************************************************)
(* Proofs about DocumentStore, for any contents, any numbers of documents, *)
(* reviews, clean-ups and crashes, and batches of any size.                *)
(***************************************************************************)
EXTENDS DocumentStore, FiniteSetTheorems, TLAPS

\* What the loop, the clean-up and the reader are in the middle of.
LoopState ==
  {Idle} \union [at : {"look", "store"}, content : Content, inBatch : BOOLEAN]
         \union [at : {"insert"}, content : Content, inBatch : BOOLEAN, doc : Doc]
         \union [at : {"start"}, doc : Doc, inBatch : BOOLEAN]
         \union [at : {"item"}, item : [there : {TRUE}, doc : Doc \union {None},
                                        review : Review \union {None}]]
CleanerState == [at : {"idle", "unlink", "purge", "forget"}, cand : SUBSET Doc,
                 ids : SUBSET Review, todo : SUBSET Doc, good : SUBSET Doc, read : SUBSET Review]
ReaderState  == {Idle} \union [at : {"report"}, id : Review]

RowsTyped ==
  /\ Docs \subseteq Doc /\ docs \in [Docs -> DocRow]
  /\ Revs \subseteq Review /\ revs \in [Revs -> RevRow]
  /\ \A r \in Revs : revs[r].doc \in Docs
FilesTyped  == disk \subseteq File /\ strays \subseteq File
BatchTyped  == batch \in [status : {"none", "running", "done", "deleted"},
                          items : [1..BatchSize -> Item], made : BOOLEAN]
CountsTyped ==
  /\ docCache \subseteq Doc /\ next \in [doc : 1..MaxDoc + 1, review : 1..MaxReview + 1]
  /\ feeding \in 0..BatchSize
  /\ used \in [cleanups : 0..MaxCleanups, crashes : 0..MaxCrashes]
LoopTyped    == loop \in LoopState
CleanerTyped ==
  /\ cleaner \in CleanerState /\ (cleaner.at = "idle" => cleaner = Resting)
  /\ cleaner.good \subseteq cleaner.cand /\ cleaner.todo \subseteq cleaner.cand
ReaderTyped  == reader \in ReaderState

Shapes ==
  RowsTyped /\ FilesTyped /\ BatchTyped /\ CountsTyped /\ LoopTyped /\ CleanerTyped /\ ReaderTyped

\* The loop works on a file of the batch, and has stored it, if it had to.
InBatch == loop.at = "item" \/ (loop.at \in {"look", "store", "insert", "start"} /\ loop.inBatch)
Stored  == loop.at \in {"insert", "start", "item"}

\* The ids the batch may still need are there.
Room ==
  /\ InBatch => feeding # 0
  /\ feeding # 0 => batch.status # "none"
  /\ next.doc + Reserved <= MaxDoc + (IF InBatch /\ Stored THEN 2 ELSE 1)
  /\ loop.at \in {"look", "store"} /\ ~InBatch => next.doc + Reserved <= MaxDoc
  /\ next.review + Reserved <= MaxReview + (IF loop.at = "item" THEN 2 ELSE 1)
  /\ loop.at = "start" /\ ~InBatch => next.review + Reserved <= MaxReview

\* Ids are given in order, and what anybody has in hand had its id by then.
Ids ==
  /\ \A d \in Docs : d < next.doc
  /\ \A d \in cleaner.cand : d < next.doc
  /\ \A r \in Revs \union cleaner.ids : r < next.review
  /\ loop.at = "insert" => loop.doc < next.doc /\ \A d \in Docs \union cleaner.cand : d < loop.doc

\* Of the copies of a content only the newest has its file, and none while one is made.
Copies ==
  /\ \A d, e \in Docs : docs[d].content = docs[e].content /\ d < e => ~Present("original", d)
  /\ loop.at \in {"store", "insert"} =>
       \A d \in Docs : docs[d].content = loop.content => ~Present("original", d)

\* No clean-up has the document of a review at work that was made in order.
Spared == \A r \in Revs : revs[r].status = "active" /\ ~revs[r].late =>
  Present("original", revs[r].doc) /\ revs[r].doc \notin cleaner.cand

\* What the clean-up is to purge has no files but reports written behind its back.
Bare == cleaner.at \in {"unlink", "purge"} =>
  \A d \in cleaner.good :
    /\ ~Present("original", d)
    /\ \A r \in cleaner.ids \intersect TasksOf(d) : Present("report", r) => <<"report", r>> \in strays

\* The purge reads the reviews of what it is to delete.
ReadOfGood == cleaner.at = "purge" =>
  \A r \in cleaner.read : r \in Revs /\ revs[r].doc \in cleaner.good

\* The batch is filled in order, and its items have their rows.
BatchKept ==
  /\ batch.status = "none" => ~batch.made /\ Items = {}
  /\ batch.made => feeding = 0
  /\ ~batch.made => IF feeding = 0 THEN Items # 1..BatchSize
                    ELSE \A i \in Items : i < feeding
  /\ \A i \in Items : Refers(batch.items[i])
  /\ DoneBatchIsOver

IInv == Shapes /\ Room /\ Ids /\ Copies /\ Spared /\ Bare /\ ReadOfGood /\ NothingLeftBehind /\ BatchKept

-----------------------------------------------------------------------------
(* What the model's operators make.                                        *)

LEMMA Constants ==
  /\ Doc \subseteq Int /\ Review \subseteq Int /\ None \notin Doc /\ None \notin Review
  /\ NoItem \in Item /\ Failed \in Item /\ Failed.there = TRUE /\ Failed.review = None
  /\ Resting \in CleanerState /\ Resting.at = "idle"
  /\ Idle \in LoopState /\ Idle \in ReaderState /\ Idle.at = "idle"
<1>1. Doc \subseteq Int /\ Review \subseteq Int /\ None \notin Doc /\ None \notin Review
  BY DocumentAssumption DEF Doc, Review, None
<1>2. NoItem \in Item /\ Failed \in Item /\ Failed.there = TRUE /\ Failed.review = None
  BY DEF NoItem, Failed, Item
<1>3. Resting \in CleanerState /\ Resting.at = "idle"
  BY DEF Resting, CleanerState
<1>4. Idle \in LoopState /\ Idle \in ReaderState /\ Idle.at = "idle"
  BY DEF Idle, LoopState, ReaderState
<1> QED BY <1>1, <1>2, <1>3, <1>4

\* What the loop carries at each of its points.
LEMMA LoopHas ==
  ASSUME loop \in LoopState
  PROVE  /\ loop.at \in {"idle", "look", "store", "insert", "start", "item"}
         /\ loop.at = "idle" => loop = Idle
         /\ loop.at \in {"look", "store"} =>
              loop \in [at : {"look", "store"}, content : Content, inBatch : BOOLEAN]
         /\ loop.at = "insert" =>
              loop \in [at : {"insert"}, content : Content, inBatch : BOOLEAN, doc : Doc]
         /\ loop.at = "start" => loop \in [at : {"start"}, doc : Doc, inBatch : BOOLEAN]
         /\ loop.at = "item" => loop.item \in Item /\ loop.item.there = TRUE
<1>1. CASE loop = Idle
  BY <1>1, Constants
<1>2. CASE loop # Idle
  BY <1>2 DEF LoopState, Item
<1> QED BY <1>1, <1>2

LEMMA LoopGoesOn ==
  /\ \A d \in Doc : loop \in LoopState /\ loop.at \in {"look", "insert"} => Uploaded(d) \in LoopState
  /\ \A d \in Doc, r \in Review : Started(d, r) \in LoopState
  /\ NotStarted \in LoopState
<1>1. ASSUME NEW d \in Doc, loop \in LoopState, loop.at \in {"look", "insert"}
      PROVE  Uploaded(d) \in LoopState
  <2>1. loop.inBatch => [at |-> "start", doc |-> d, inBatch |-> TRUE] \in LoopState
    BY DEF LoopState
  <2> QED BY <2>1, Constants DEF Uploaded
<1>2. ASSUME NEW d \in Doc, NEW r \in Review PROVE Started(d, r) \in LoopState
  <2>1. [at |-> "item", item |-> [there |-> TRUE, doc |-> d, review |-> r]] \in LoopState
    BY DEF LoopState
  <2> QED BY <2>1, Constants DEF Started
<1>3. NotStarted \in LoopState
  <2>1. [at |-> "item", item |-> Failed] \in LoopState
    BY DEF LoopState, Failed, NoItem
  <2> QED BY <2>1, Constants DEF NotStarted
<1> QED BY <1>1, <1>2, <1>3

-----------------------------------------------------------------------------
(* Shapes.                                                                 *)

LEMMA ShapesAreTypes == Shapes => TypeOK
<1> SUFFICES ASSUME Shapes PROVE TypeOK
  OBVIOUS
<1>1. loop.at \in {"idle", "look", "store", "insert", "start", "item"}
  BY LoopHas DEF Shapes, LoopTyped
<1>2. reader.at \in {"idle", "report"}
  BY Constants DEF Shapes, ReaderTyped, ReaderState
<1> QED BY <1>1, <1>2 DEF Shapes, RowsTyped, FilesTyped, BatchTyped, CountsTyped, CleanerTyped, TypeOK

LEMMA ShapesInit == Init => Shapes
<1> SUFFICES ASSUME Init PROVE Shapes
  OBVIOUS
<1>1. Docs = {} /\ Revs = {} /\ docs \in [{} -> DocRow] /\ revs \in [{} -> RevRow]
  BY DEF Init, Docs, Revs
<1>2. RowsTyped
  BY <1>1 DEF RowsTyped
<1>3. BatchTyped
  BY Constants DEF Init, BatchTyped
<1>4. CountsTyped
  BY DocumentAssumption DEF Init, CountsTyped
<1> QED BY <1>2, <1>3, <1>4, Constants
    DEF Init, Shapes, FilesTyped, LoopTyped, CleanerTyped, ReaderTyped, Resting

\* The bounds have room for the file to be stored and the review to be made.
LEMMA RoomForMore ==
  ASSUME Shapes, Room
  PROVE  /\ Reserved \in Nat /\ (InBatch => Reserved > 0)
         /\ loop.at = "store" => next.doc \in Doc
         /\ loop.at = "start" => next.review \in Review
<1>1. feeding \in 0..BatchSize /\ next.doc \in 1..MaxDoc + 1 /\ next.review \in 1..MaxReview + 1
  BY DEF Shapes, CountsTyped
<1>2. Reserved \in Nat /\ (feeding # 0 /\ batch.status # "none" => Reserved > 0)
  BY <1>1, DocumentAssumption DEF Reserved
<1>3. InBatch => Reserved > 0
  BY <1>2 DEF Room
<1>4. loop.at = "store" => next.doc \in Doc
  BY <1>1, <1>2, <1>3, DocumentAssumption DEF Room, Stored, Doc
<1>5. loop.at = "start" => next.review \in Review
  BY <1>1, <1>2, <1>3, DocumentAssumption DEF Room, Review
<1> QED BY <1>2, <1>3, <1>4, <1>5

\* The statements on rows: a document is inserted.
LEMMA InsertMakes ==
  ASSUME Shapes, Insert
  PROVE  /\ loop \in [at : {"insert"}, content : Content, inBatch : BOOLEAN, doc : Doc]
         /\ docs' \in [Docs' -> DocRow] /\ Docs' = Docs \union {loop.doc}
         /\ docs'[loop.doc].content = loop.content
         /\ \A d \in Docs \ {loop.doc} : docs'[d] = docs[d]
<1> USE DEF Shapes, RowsTyped
<1>1. loop \in [at : {"insert"}, content : Content, inBatch : BOOLEAN, doc : Doc]
  BY LoopHas DEF Insert, LoopTyped
<1> DEFINE row == [content |-> loop.content, old |-> FALSE]
<1>2. row \in DocRow /\ row.content = loop.content /\ docs' = Extend(docs, loop.doc, row)
  BY <1>1 DEF Insert, DocRow
<1> HIDE DEF row
<1> DEFINE new == Extend(docs, loop.doc, row)
<1>3. /\ new \in [Docs \union {loop.doc} -> DocRow] /\ DOMAIN new = Docs \union {loop.doc}
      /\ new[loop.doc] = row /\ \A d \in Docs \ {loop.doc} : new[d] = docs[d]
  BY <1>2 DEF Extend
<1>4. docs' = new
  BY <1>2
<1> HIDE DEF new
<1>5. Docs' = Docs \union {loop.doc}
  BY <1>3, <1>4 DEF Docs
<1> QED BY <1>1, <1>2, <1>3, <1>4, <1>5

\* A review is inserted, with the next id, or there is no new one.
StartedNew ==
  LET r == next.review IN
  /\ loop.doc \in Docs /\ r \in Review
  /\ revs' \in [Revs' -> RevRow] /\ Revs' = Revs \union {r}
  /\ revs'[r].doc = loop.doc /\ revs'[r].late = (loop.doc \in cleaner.cand \/ ~Present("original", loop.doc))
  /\ \A x \in Revs \ {r} : revs'[x] = revs[x]
  /\ next' = [next EXCEPT !.review = r + 1]

LEMMA StartMakes == ASSUME Shapes, Room, Start PROVE UNCHANGED <<revs, next>> \/ StartedNew
<1> USE DEF Shapes, RowsTyped
<1> DEFINE late == loop.doc \in cleaner.cand \/ ~Present("original", loop.doc)
           Row(status) == [doc |-> loop.doc, status |-> status, old |-> FALSE, late |-> late]
<1> SUFFICES ASSUME ~UNCHANGED <<revs, next>> PROVE StartedNew
  OBVIOUS
<1>1. PICK status \in {"active", "ended"} :
        /\ loop.doc \in Docs /\ revs' = Extend(revs, next.review, Row(status))
        /\ next' = [next EXCEPT !.review = @ + 1]
  BY DEF Start
<1> DEFINE row == Row(status)
           new == Extend(revs, next.review, row)
<1>2. row \in RevRow /\ row.doc = loop.doc /\ row.late = late
  BY <1>1 DEF RevRow
<1> HIDE DEF late, row
<1>3. next.review \in Review
  BY RoomForMore DEF Start
<1>4. /\ new \in [Revs \union {next.review} -> RevRow] /\ DOMAIN new = Revs \union {next.review}
      /\ new[next.review] = row /\ \A r \in Revs \ {next.review} : new[r] = revs[r]
  BY <1>2 DEF Extend
<1>5. revs' = new
  BY <1>1 DEF row
<1> HIDE DEF new
<1>6. Revs' = Revs \union {next.review}
  BY <1>4, <1>5 DEF Revs
<1> QED BY <1>1, <1>2, <1>3, <1>4, <1>5, <1>6 DEF StartedNew, late

\* Rows are deleted, with the items that refer to them, or nothing is.
Purged ==
  /\ docs' \in [Docs' -> DocRow] /\ Docs' = Docs \ cleaner.good
  /\ \A d \in Docs' : docs'[d] = docs[d]
  /\ revs' \in [Revs' -> RevRow] /\ Revs' = Revs \ cleaner.read
  /\ \A r \in Revs' : revs'[r] = revs[r] /\ revs[r].doc \notin cleaner.good
  /\ batch' \in [status : {"none", "running", "done", "deleted"},
                 items : [1..BatchSize -> Item], made : BOOLEAN]
  /\ batch'.made = batch.made /\ batch'.status \in {batch.status, "deleted"}
  /\ batch'.status = "deleted" => batch.status # "none"
  /\ \A i \in 1..BatchSize :
       \/ batch'.items[i] = NoItem
       \/ /\ batch'.items[i] = batch.items[i]
          /\ batch.items[i].doc \notin cleaner.good /\ batch.items[i].review \notin cleaner.read
  /\ strays' = strays \union {f \in disk : f[1] = "report" /\ f[2] \in cleaner.read \ cleaner.ids}

LEMMA PurgeMakes ==
  ASSUME Shapes, Purge
  PROVE  (PurgeRefused /\ UNCHANGED rows /\ UNCHANGED strays /\ cleaner' = Resting) \/ Purged
<1> USE DEF Shapes, RowsTyped, BatchTyped
<1> SUFFICES ASSUME ~PurgeRefused PROVE Purged
  BY DEF Purge
<1> DEFINE left == [i \in 1..BatchSize |->
             IF batch.items[i].doc \in cleaner.good \/ batch.items[i].review \in cleaner.read
             THEN NoItem ELSE batch.items[i]]
           over == BatchRow /\ \A i \in 1..BatchSize : ~left[i].there
           newDocs == Without(docs, cleaner.good)
           newRevs == Without(revs, cleaner.read)
<1>1. /\ newDocs \in [Docs \ cleaner.good -> DocRow] /\ DOMAIN newDocs = Docs \ cleaner.good
      /\ \A d \in Docs \ cleaner.good : newDocs[d] = docs[d]
  BY DEF Without
<1>2. /\ newRevs \in [Revs \ cleaner.read -> RevRow] /\ DOMAIN newRevs = Revs \ cleaner.read
      /\ \A r \in Revs \ cleaner.read : newRevs[r] = revs[r]
  BY DEF Without
<1>3. /\ docs' = newDocs /\ revs' = newRevs
      /\ batch' = [batch EXCEPT !.items = left, !.status = IF over THEN "deleted" ELSE @]
      /\ strays' = strays \union {f \in disk : f[1] = "report" /\ f[2] \in cleaner.read \ cleaner.ids}
  BY DEF Purge
<1> HIDE DEF newDocs, newRevs
<1>4. Docs' = Docs \ cleaner.good /\ Revs' = Revs \ cleaner.read
  BY <1>1, <1>2, <1>3 DEF Docs, Revs
<1>5. left \in [1..BatchSize -> Item] /\ (over => batch.status # "none")
  BY Constants DEF BatchRow
<1>6. \A i \in 1..BatchSize :
        \/ left[i] = NoItem
        \/ /\ left[i] = batch.items[i]
           /\ batch.items[i].doc \notin cleaner.good /\ batch.items[i].review \notin cleaner.read
  OBVIOUS
<1> HIDE DEF left, over
<1>7. /\ batch'.items = left /\ batch'.made = batch.made
      /\ batch'.status = IF over THEN "deleted" ELSE batch.status
      /\ batch' \in [status : {"none", "running", "done", "deleted"},
                     items : [1..BatchSize -> Item], made : BOOLEAN]
  BY <1>3, <1>5
<1> QED BY <1>1, <1>2, <1>3, <1>4, <1>5, <1>6, <1>7 DEF PurgeRefused, Purged

\* Rows grow old, and a review ends: nothing else of them changes.
LEMMA AgeMakes ==
  ASSUME Shapes, Age
  PROVE  /\ docs' \in [Docs' -> DocRow] /\ Docs' = Docs /\ revs' \in [Revs' -> RevRow] /\ Revs' = Revs
         /\ \A d \in Docs : docs'[d].content = docs[d].content
         /\ \A r \in Revs : /\ revs'[r].doc = revs[r].doc /\ revs'[r].status = revs[r].status
                            /\ revs'[r].late = revs[r].late
<1> USE DEF Shapes, RowsTyped
<1>1. /\ docs' \in [Docs -> DocRow] /\ Docs' = Docs
      /\ \A d \in Docs : docs'[d].content = docs[d].content
  BY DEF Age, Docs, DocRow
<1>2. \A r \in Revs : revs[r] \in RevRow /\ Terminal(r) \in BOOLEAN
  BY DEF Terminal
<1>3. /\ revs' \in [Revs -> RevRow] /\ Revs' = Revs
      /\ \A r \in Revs : /\ revs'[r].doc = revs[r].doc /\ revs'[r].status = revs[r].status
                         /\ revs'[r].late = revs[r].late
  BY <1>2 DEF Age, Revs, RevRow
<1> QED BY <1>1, <1>3

LEMMA FinishMakes ==
  ASSUME Shapes, NEW r \in Review, NEW status \in {"done", "ended"}, Finish(r, status)
  PROVE  /\ r \in Revs /\ revs[r].status = "active" /\ revs'[r].status = status
         /\ revs' \in [Revs' -> RevRow] /\ Revs' = Revs
         /\ \A x \in Revs : /\ revs'[x].doc = revs[x].doc /\ revs'[x].late = revs[x].late
                            /\ x # r => revs'[x].status = revs[x].status
BY DEF Finish, Shapes, RowsTyped, Revs, RevRow, Terminal

LEMMA RowsStep == ASSUME Shapes, Room, [Next]_vars PROVE RowsTyped'
<1> USE DEF Shapes, RowsTyped
<1>1. ASSUME UNCHANGED <<docs, revs>> PROVE RowsTyped'
  BY <1>1 DEF Docs, Revs
<1>2. CASE Insert
  <2>1. UNCHANGED revs
    BY <1>2 DEF Insert
  <2> QED BY <1>2, <2>1, InsertMakes DEF Revs
<1>3. CASE Start
  <2>1. UNCHANGED docs
    BY <1>3 DEF Start
  <2> QED BY <1>1, <1>3, <2>1, StartMakes DEF StartedNew, Docs
<1>4. ASSUME NEW r \in Review, NEW status \in {"done", "ended"}, Finish(r, status) PROVE RowsTyped'
  BY <1>4, FinishMakes DEF Finish, Docs
<1>5. CASE Purge
  BY <1>1, <1>5, PurgeMakes DEF Purged, rows
<1>6. CASE Age
  BY <1>6, AgeMakes
<1> QED
  BY <1>1, <1>2, <1>3, <1>4, <1>5, <1>6
  DEF Next, vars, rows, Upload, Look, Store, AskReview, CreateBatch, NextFile, AddItem, PollBatch,
      AskReport, WriteReport, ListCandidates, Unlink, PurgeRead, Forget, Crash

LEMMA FilesStep == ASSUME Shapes, Room, [Next]_vars PROVE FilesTyped'
<1> USE DEF Shapes, FilesTyped
<1>1. ASSUME UNCHANGED <<disk, strays>> PROVE FilesTyped'
  BY <1>1
<1>2. CASE Store
  BY <1>2, RoomForMore DEF Store, File
<1>3. CASE WriteReport
  BY <1>3 DEF WriteReport, ReaderTyped, ReaderState, File
<1>4. ASSUME NEW d \in Doc, Unlink(d) PROVE FilesTyped'
  BY <1>4 DEF Unlink
<1>5. CASE Purge
  BY <1>5 DEF Purge
<1>6. CASE Crash
  BY <1>6, LoopHas DEF Crash, LoopTyped, File, rows
<1> QED
  BY <1>1, <1>2, <1>3, <1>4, <1>5, <1>6
  DEF Next, vars, rows, Upload, Look, Insert, AskReview, Start, Finish, CreateBatch, NextFile, AddItem,
      PollBatch, AskReport, ListCandidates, PurgeRead, Forget, Age

LEMMA BatchStep == ASSUME Shapes, Room, [Next]_vars PROVE BatchTyped'
<1> USE DEF Shapes, BatchTyped
<1>1. ASSUME UNCHANGED batch PROVE BatchTyped'
  BY <1>1
<1>2. CASE CreateBatch
  BY <1>2 DEF CreateBatch
<1>3. CASE AddItem
  <2>1. loop.item \in Item
    BY <1>3, LoopHas DEF AddItem, LoopTyped
  <2>2. CASE BatchRow
    <3> DEFINE new == IF Refers(loop.item) THEN loop.item ELSE Failed
               all == feeding = BatchSize
    <3>1. new \in Item /\ all \in BOOLEAN
      BY <2>1, Constants
    <3>2. batch' = [batch EXCEPT !.items[feeding] = new, !.made = all]
      BY <1>3, <2>2 DEF AddItem
    <3> HIDE DEF new, all
    <3> QED BY <3>1, <3>2
  <2> QED BY <1>1, <1>3, <2>2 DEF AddItem
<1>4. CASE PollBatch
  BY <1>4 DEF PollBatch
<1>5. CASE Purge
  BY <1>1, <1>5, PurgeMakes DEF rows, Purged
<1> QED
  BY <1>1, <1>2, <1>3, <1>4, <1>5
  DEF Next, vars, rows, Upload, Look, Store, Insert, AskReview, Start, Finish, NextFile, AskReport,
      WriteReport, ListCandidates, Unlink, PurgeRead, Forget, Age, Crash

LEMMA CountsStep == ASSUME Shapes, Room, [Next]_vars PROVE CountsTyped'
<1> USE DEF Shapes, CountsTyped
<1>1. ASSUME UNCHANGED <<docCache, next, feeding, used>> PROVE CountsTyped'
  BY <1>1
<1>2. CASE Look
  BY <1>2 DEF Look, Existing, RowsTyped
<1>3. CASE Store
  BY <1>3, RoomForMore, DocumentAssumption DEF Store, Doc
<1>4. CASE Insert
  BY <1>4, LoopHas DEF Insert, LoopTyped
<1>5. CASE Start
  BY <1>5, RoomForMore, DocumentAssumption DEF Start, Review
<1>6. CASE CreateBatch
  BY <1>6, DocumentAssumption DEF CreateBatch
<1>7. CASE AddItem
  BY <1>7, DocumentAssumption DEF AddItem, Room
<1>8. CASE ListCandidates
  BY <1>8, DocumentAssumption DEF ListCandidates
<1>9. CASE Forget
  BY <1>9 DEF Forget
<1>10. CASE Crash
  BY <1>10, DocumentAssumption DEF Crash
<1> QED
  BY <1>1, <1>2, <1>3, <1>4, <1>5, <1>6, <1>7, <1>8, <1>9, <1>10
  DEF Next, vars, rows, Upload, AskReview, Finish, NextFile, PollBatch, AskReport, WriteReport,
      Unlink, PurgeRead, Purge, Age

LEMMA LoopStep == ASSUME Shapes, Room, [Next]_vars PROVE LoopTyped'
<1> USE DEF Shapes, LoopTyped
<1>1. ASSUME UNCHANGED loop PROVE LoopTyped'
  BY <1>1
<1>2. ASSUME NEW c \in Content, Upload(c) PROVE LoopTyped'
  BY <1>2 DEF Upload, Handling, LoopState
<1>3. CASE Look
  <2>1. [loop EXCEPT !.at = "store"] \in LoopState
    BY <1>3, LoopHas DEF Look, LoopState
  <2>2. Existing(loop.content) \subseteq Doc
    BY DEF Existing, RowsTyped
  <2> QED BY <1>3, <2>1, <2>2, LoopGoesOn DEF Look
<1>4. CASE Store
  <2>1. loop.content \in Content /\ loop.inBatch \in BOOLEAN /\ next.doc \in Doc
    BY <1>4, LoopHas, RoomForMore DEF Store
  <2> QED BY <1>4, <2>1 DEF Store, LoopState
<1>5. CASE Insert
  BY <1>5, LoopHas, LoopGoesOn DEF Insert
<1>6. ASSUME NEW d \in Doc, AskReview(d) PROVE LoopTyped'
  BY <1>6 DEF AskReview, LoopState
<1>7. CASE Start
  <2>1. loop.doc \in Doc /\ next.review \in Review /\ Reusable(loop.doc) \subseteq Review
    BY <1>7, LoopHas, RoomForMore DEF Start, Reusable, RowsTyped
  <2> QED BY <1>7, <2>1, LoopGoesOn DEF Start
<1>8. CASE NextFile
  <2>1. [at |-> "item", item |-> Failed] \in LoopState
    BY DEF LoopState, Failed, NoItem
  <2>2. \A c \in Content : Handling(c, TRUE) \in LoopState
    BY DEF Handling, LoopState
  <2> QED BY <1>8, <2>1, <2>2 DEF NextFile
<1>9. CASE AddItem \/ Crash
  BY <1>9, Constants DEF AddItem, Crash
<1> QED
  BY <1>1, <1>2, <1>3, <1>4, <1>5, <1>6, <1>7, <1>8, <1>9
  DEF Next, vars, rows, Finish, CreateBatch, PollBatch, AskReport, WriteReport, ListCandidates,
      Unlink, PurgeRead, Purge, Forget, Age

LEMMA CleanerStep == ASSUME Shapes, [Next]_vars PROVE CleanerTyped' /\ ReaderTyped'
<1> USE DEF Shapes, CleanerTyped, ReaderTyped
<1>1. ASSUME UNCHANGED <<cleaner, reader>> PROVE CleanerTyped' /\ ReaderTyped'
  BY <1>1
<1>2. ASSUME NEW r \in Review, AskReport(r) PROVE CleanerTyped' /\ ReaderTyped'
  BY <1>2 DEF AskReport, ReaderState
<1>3. CASE WriteReport
  BY <1>3, Constants DEF WriteReport
<1>4. CASE ListCandidates
  BY <1>4 DEF ListCandidates, CleanerState, Resting, RowsTyped
<1>5. ASSUME NEW d \in Doc, Unlink(d) PROVE CleanerTyped' /\ ReaderTyped'
  <2>1. cleaner'.todo = cleaner.todo \ {d} /\ cleaner'.good \in {cleaner.good, cleaner.good \union {d}}
        /\ cleaner'.at = "unlink" /\ cleaner'.cand = cleaner.cand /\ cleaner' \in CleanerState
    <3>1. PICK kept : cleaner' = [cleaner EXCEPT !.todo = @ \ {d},
                        !.good = IF Purgeable(d, kept) THEN @ \union {d} ELSE @]
      BY <1>5 DEF Unlink
    <3> DEFINE good == IF Purgeable(d, kept) THEN cleaner.good \union {d} ELSE cleaner.good
    <3>2. good \in {cleaner.good, cleaner.good \union {d}}
      OBVIOUS
    <3>3. cleaner' = [cleaner EXCEPT !.todo = @ \ {d}, !.good = good]
      BY <3>1
    <3> HIDE DEF good
    <3> QED BY <1>5, <3>2, <3>3 DEF Unlink, CleanerState
  <2>2. d \in cleaner.cand /\ UNCHANGED reader
    BY <1>5 DEF Unlink
  <2> QED BY <2>1, <2>2
<1>6. CASE PurgeRead
  BY <1>6, Constants DEF PurgeRead, CleanerState, Resting, RowsTyped
<1>7. CASE Purge
  BY <1>7, Constants DEF Purge, CleanerState, Resting
<1>8. CASE Forget \/ Crash
  <2>1. cleaner' = Resting /\ reader' \in {reader, Idle}
    BY <1>8 DEF Forget, Crash
  <2>2. Resting.good = {} /\ Resting.todo = {} /\ Resting.cand = {}
    BY DEF Resting
  <2> QED BY <2>1, <2>2, Constants
<1> QED
  BY <1>1, <1>2, <1>3, <1>4, <1>5, <1>6, <1>7, <1>8
  DEF Next, vars, rows, Upload, Look, Store, Insert, AskReview, Start, Finish, CreateBatch, NextFile,
      AddItem, PollBatch, Age

LEMMA ShapesStep == Shapes /\ Room /\ [Next]_vars => Shapes'
BY RowsStep, FilesStep, BatchStep, CountsStep, LoopStep, CleanerStep DEF Shapes

-----------------------------------------------------------------------------
(* Room and ids.                                                           *)

\* Where the loop is next, and whether on a file of the batch.
LEMMA LoopMoves ==
  ASSUME Shapes
  PROVE  /\ loop = Idle => ~InBatch /\ ~Stored /\ loop.at = "idle"
         /\ loop' = Idle => ~InBatch' /\ ~Stored' /\ loop'.at = "idle"
         /\ \A c \in Content, b \in BOOLEAN :
              loop' = Handling(c, b) => (InBatch' <=> b) /\ loop'.at = "look" /\ ~Stored'
         /\ \A d \in Doc : loop.at \in {"look", "insert"} /\ loop' = Uploaded(d) =>
              (InBatch' <=> InBatch) /\ (InBatch => Stored') /\ loop'.at \in {"idle", "start"}
              /\ (loop'.at = "start" => InBatch)
         /\ \A d, r : loop.at = "start" /\ loop' \in {Started(d, r), NotStarted} =>
              (InBatch' <=> InBatch) /\ (InBatch => loop'.at = "item" /\ Stored')
              /\ (~InBatch => loop'.at = "idle")
BY LoopHas DEF InBatch, Stored, Idle, Handling, Uploaded, Started, NotStarted, Shapes, LoopTyped

LEMMA RoomStep == ASSUME Shapes, Room, [Next]_vars PROVE Room'
<1> USE DEF Room
<1>0. /\ MaxDoc \in Nat /\ MaxReview \in Nat /\ BatchSize \in Nat /\ BatchSize > 0
      /\ feeding \in 0..BatchSize /\ next.doc \in Nat /\ next.review \in Nat /\ Reserved \in Nat
      /\ next \in [doc : 1..MaxDoc + 1, review : 1..MaxReview + 1]
  BY RoomForMore, DocumentAssumption DEF Shapes, CountsTyped
<1> USE <1>0
<1>1. ASSUME UNCHANGED <<next, feeding, loop>>, batch'.status = "none" <=> batch.status = "none"
      PROVE  Room'
  <2>1. Reserved' = Reserved /\ (InBatch' <=> InBatch) /\ (Stored' <=> Stored)
    BY <1>1 DEF Reserved, InBatch, Stored
  <2> QED BY <1>1, <2>1
<1>2. ASSUME NEW c \in Content, Upload(c) PROVE Room'
  <2>1. Reserved' = Reserved /\ UNCHANGED <<batch, feeding, next>>
    BY <1>2 DEF Upload, rows, Reserved
  <2>2. loop.at = "idle" /\ loop'.at = "look" /\ ~InBatch' /\ ~InBatch
    BY <1>2, LoopMoves DEF Upload
  <2> QED BY <1>2, <2>1, <2>2 DEF Upload
<1>3. CASE Look
  <2>1. Reserved' = Reserved /\ UNCHANGED <<batch, feeding, next>> /\ ~Stored
    BY <1>3 DEF Look, rows, Reserved, Stored
  <2>2. CASE \E d \in Doc : loop' = Uploaded(d)
    BY <1>3, <2>1, <2>2, LoopMoves DEF Look
  <2>3. CASE loop' = [loop EXCEPT !.at = "store"]
    <3>1. loop'.at = "store" /\ (InBatch' <=> InBatch)
      BY <1>3, <2>3, LoopHas DEF Look, InBatch, Shapes, LoopTyped
    <3> QED BY <1>3, <2>1, <3>1 DEF Look, Stored
  <2> QED BY <1>3, <2>2, <2>3 DEF Look, Existing, Shapes, RowsTyped
<1>4. CASE Store
  <2>1. Reserved' = Reserved /\ UNCHANGED <<batch, feeding>>
        /\ next'.doc = next.doc + 1 /\ next'.review = next.review
    BY <1>4 DEF Store, rows, Reserved
  <2>2. loop'.at = "insert" /\ (InBatch' <=> InBatch) /\ Stored' /\ ~Stored
    BY <1>4 DEF Store, InBatch, Stored
  <2> QED BY <1>4, <2>1, <2>2 DEF Store
<1>5. CASE Insert
  <2>1. Reserved' = Reserved /\ UNCHANGED <<batch, feeding, next>> /\ Stored
    BY <1>5 DEF Insert, Reserved, Stored
  <2>2. \E d \in Doc : loop' = Uploaded(d)
    BY <1>5, InsertMakes DEF Insert
  <2> QED BY <1>5, <2>1, <2>2, LoopMoves DEF Insert
<1>6. ASSUME NEW d \in Doc, AskReview(d) PROVE Room'
  <2>1. Reserved' = Reserved /\ UNCHANGED <<batch, feeding, next>>
    BY <1>6 DEF AskReview, rows, Reserved
  <2>2. loop.at = "idle" /\ loop'.at = "start" /\ ~InBatch' /\ ~InBatch
    BY <1>6, LoopMoves DEF AskReview, InBatch
  <2> QED BY <1>6, <2>1, <2>2 DEF AskReview
<1>7. CASE Start
  <2>1. Reserved' = Reserved /\ UNCHANGED <<batch, feeding>> /\ Stored
        /\ next'.doc = next.doc /\ next'.review \in {next.review, next.review + 1}
    BY <1>7, StartMakes DEF Start, Reserved, Stored, StartedNew
  <2>2. \E d, r : loop' \in {Started(d, r), NotStarted}
    BY <1>7 DEF Start
  <2>3. (InBatch' <=> InBatch) /\ (InBatch => loop'.at = "item" /\ Stored') /\ (~InBatch => loop'.at = "idle")
    BY <1>7, <2>2, LoopMoves DEF Start
  <2> QED BY <1>7, <2>1, <2>3 DEF Start
<1>8. CASE CreateBatch
  <2>1. ~InBatch /\ ~InBatch' /\ loop.at = "idle" /\ loop' = loop
    BY <1>8, LoopMoves DEF CreateBatch
  <2>2. batch'.status = "running" /\ Reserved = BatchSize /\ Reserved' = BatchSize
    BY <1>8, <2>1 DEF CreateBatch, Reserved, Shapes, BatchTyped
  <2> QED BY <1>8, <2>1, <2>2 DEF CreateBatch
<1>9. CASE NextFile
  <2>1. Reserved' = Reserved /\ UNCHANGED <<batch, feeding, next>> /\ feeding # 0
    BY <1>9 DEF NextFile, rows, Reserved
  <2>2. loop.at = "idle" /\ ~InBatch /\ InBatch' /\ (Stored' \/ loop'.at = "look") /\ loop'.at # "start"
    <3>1. CASE loop' = [at |-> "item", item |-> Failed]
      BY <1>9, <3>1, LoopMoves DEF NextFile, InBatch, Stored
    <3>2. CASE \E c \in Content : loop' = Handling(c, TRUE)
      BY <1>9, <3>2, LoopMoves DEF NextFile
    <3> QED BY <1>9, <3>1, <3>2 DEF NextFile
  <2> QED BY <2>1, <2>2
<1>10. CASE AddItem
  <2>1. loop.at = "item" /\ InBatch /\ feeding # 0 /\ batch.status # "none" /\ UNCHANGED next
    BY <1>10 DEF AddItem, InBatch
  <2>2. loop'.at = "idle" /\ ~InBatch'
    BY <1>10, LoopMoves DEF AddItem
  <2>3. batch'.status = batch.status
    BY <1>10 DEF AddItem, Shapes, BatchTyped
  <2>4. Reserved = BatchSize - feeding + 1 /\ feeding' \in {0, feeding + 1} /\ feeding' <= BatchSize
    BY <1>10, <2>1 DEF AddItem, Reserved
  <2>5. Reserved' \in Nat /\ Reserved' < Reserved
    <3>1. CASE feeding' = 0
      BY <2>1, <2>3, <2>4, <3>1 DEF Reserved
    <3>2. CASE feeding' = feeding + 1
      BY <2>1, <2>3, <2>4, <3>2 DEF Reserved
    <3> QED BY <2>4, <3>1, <3>2
  <2> QED BY <2>1, <2>2, <2>3, <2>5
<1>11. CASE PollBatch
  <2>1. batch'.status \in {batch.status, "done"} /\ batch.status # "none"
    BY <1>11 DEF PollBatch, BatchRow, Shapes, BatchTyped
  <2> QED BY <1>1, <1>11, <2>1 DEF PollBatch
<1>12. CASE Purge
  BY <1>1, <1>12, PurgeMakes DEF Purge, Purged, rows
<1>13. CASE Crash
  <2>1. loop'.at = "idle" /\ ~InBatch' /\ feeding' = 0 /\ UNCHANGED <<next, batch>>
    BY <1>13, LoopMoves DEF Crash, rows
  <2>2. Reserved' \in Nat /\ Reserved' <= Reserved /\ (InBatch => Reserved' < Reserved)
        /\ (loop.at = "item" => InBatch)
    BY <2>1 DEF Reserved, InBatch
  <2> QED BY <2>1, <2>2
<1> QED
  BY <1>1, <1>2, <1>3, <1>4, <1>5, <1>6, <1>7, <1>8, <1>9, <1>10, <1>11, <1>12, <1>13
  DEF Next, vars, rows, Finish, AskReport, WriteReport, ListCandidates, Unlink, PurgeRead, Forget, Age

LEMMA IdsStep == ASSUME Shapes, Room, Ids, [Next]_vars PROVE Ids'
<1> USE DEF Ids
<1>0. /\ Docs \subseteq Int /\ Revs \subseteq Int /\ next.doc \in Int /\ next.review \in Int
      /\ cleaner.cand \subseteq Int /\ cleaner.ids \subseteq Int
      /\ next \in [doc : 1..MaxDoc + 1, review : 1..MaxReview + 1]
      /\ cleaner \in CleanerState
  <2>1. next.doc \in Int /\ next.review \in Int /\ next \in [doc : 1..MaxDoc + 1, review : 1..MaxReview + 1]
    BY DocumentAssumption DEF Shapes, CountsTyped
  <2>2. cleaner.cand \subseteq Doc /\ cleaner.ids \subseteq Review /\ cleaner \in CleanerState
    BY DEF Shapes, CleanerTyped, CleanerState
  <2>3. Docs \subseteq Doc /\ Revs \subseteq Review
    BY DEF Shapes, RowsTyped
  <2> QED BY <2>1, <2>2, <2>3, Constants
<1>1. ASSUME UNCHANGED <<Docs, Revs, next>>, cleaner'.cand \subseteq cleaner.cand,
             cleaner'.ids \subseteq cleaner.ids, loop'.at # "insert" \/ UNCHANGED loop
      PROVE  Ids'
  BY <1>1
<1>2. CASE Store
  <2>1. loop'.at = "insert" /\ loop'.doc = next.doc /\ next'.doc = next.doc + 1
        /\ next'.review = next.review
    BY <1>0, <1>2 DEF Store
  <2>2. UNCHANGED <<docs, revs, cleaner>>
    BY <1>2 DEF Store, rows
  <2> QED BY <1>0, <2>1, <2>2 DEF Docs, Revs
<1>3. CASE Insert
  <2>1. loop.at = "insert" /\ loop.doc \in Int /\ UNCHANGED <<revs, cleaner, next>>
    BY <1>3, InsertMakes, Constants DEF Insert
  <2>2. loop'.at # "insert"
    BY <1>3, InsertMakes, LoopMoves DEF Insert
  <2> QED BY <1>0, <1>3, <2>1, <2>2, InsertMakes DEF Revs
<1>4. CASE Start
  <2>1. loop'.at # "insert" /\ UNCHANGED <<docs, cleaner>>
    BY <1>4, LoopMoves DEF Start
  <2>2. CASE UNCHANGED <<revs, next>>
    BY <1>1, <2>1, <2>2 DEF Docs, Revs
  <2>3. CASE StartedNew
    <3>1. next' = [next EXCEPT !.review = next.review + 1] /\ Revs' = Revs \union {next.review}
      BY <2>3 DEF StartedNew
    <3>2. next'.doc = next.doc /\ next'.review = next.review + 1
      BY <3>1 DEF Shapes, CountsTyped
    <3> QED BY <1>0, <2>1, <3>1, <3>2 DEF Docs
  <2> QED BY <1>4, <2>2, <2>3, StartMakes
<1>5. CASE ListCandidates
  <2>1. cleaner'.cand \subseteq Docs /\ cleaner'.ids \subseteq Revs
    BY <1>5 DEF ListCandidates, Resting
  <2> QED BY <1>5, <2>1 DEF ListCandidates, rows, Docs, Revs
<1>6. CASE Purge
  <2>1. cleaner'.cand \subseteq cleaner.cand /\ cleaner'.ids \subseteq cleaner.ids
    <3>1. cleaner' = Resting \/ cleaner' = [cleaner EXCEPT !.at = "forget"]
      BY <1>6 DEF Purge
    <3>2. cleaner' = Resting \/ (cleaner'.cand = cleaner.cand /\ cleaner'.ids = cleaner.ids)
      BY <1>0, <3>1 DEF CleanerState
    <3> QED BY <3>2 DEF Resting
  <2>2. Docs' \subseteq Docs /\ Revs' \subseteq Revs /\ UNCHANGED <<loop, next>>
    BY <1>6, PurgeMakes DEF Purge, Purged, rows, Docs, Revs
  <2> QED BY <2>1, <2>2
<1>7. ASSUME (\E c \in Content : Upload(c)) \/ Look \/ (\E d \in Doc : AskReview(d)) \/ NextFile \/ AddItem
      PROVE  Ids'
  <2>1. loop'.at # "insert"
    <3>1. CASE Look
      <4>1. CASE \E d \in Doc : loop' = Uploaded(d)
        BY <3>1, <4>1, LoopMoves DEF Look
      <4>2. CASE loop' = [loop EXCEPT !.at = "store"]
        BY <3>1, <4>2, LoopHas DEF Look, Shapes, LoopTyped
      <4> QED BY <3>1, <4>1, <4>2 DEF Look, Existing, Shapes, RowsTyped
    <3>2. CASE NextFile
      <4>1. CASE loop' = [at |-> "item", item |-> Failed]
        BY <4>1
      <4> QED BY <3>2, <4>1, LoopMoves DEF NextFile
    <3>3. ASSUME NEW c \in Content, Upload(c) PROVE loop'.at = "look"
      BY <3>3, LoopMoves DEF Upload
    <3>4. ASSUME NEW d \in Doc, AskReview(d) PROVE loop'.at = "start"
      BY <3>4 DEF AskReview
    <3>5. CASE AddItem
      BY <3>5, LoopMoves DEF AddItem
    <3> QED BY <1>7, <3>1, <3>2, <3>3, <3>4, <3>5
  <2> QED BY <1>1, <1>7, <2>1 DEF Upload, Look, AskReview, NextFile, AddItem, rows, Docs, Revs
<1>8. CASE Crash
  <2>1. loop'.at = "idle" /\ cleaner'.cand = {} /\ cleaner'.ids = {}
    BY <1>8, LoopMoves DEF Crash, Resting
  <2> QED BY <1>1, <1>8, <2>1 DEF Crash, rows, Docs, Revs
<1>9. ASSUME NEW d \in Doc, Unlink(d) PROVE Ids'
  <2>1. cleaner'.cand = cleaner.cand /\ cleaner'.ids = cleaner.ids
    BY <1>9 DEF Unlink, Shapes, CleanerTyped, CleanerState
  <2> QED BY <1>1, <1>9, <2>1 DEF Unlink, rows, Docs, Revs
<1>10. CASE PurgeRead \/ Forget
  <2>1. cleaner' = Resting \/ (cleaner'.cand = cleaner.cand /\ cleaner'.ids = cleaner.ids)
    BY <1>0, <1>10 DEF PurgeRead, Forget, CleanerState
  <2>2. cleaner'.cand \subseteq cleaner.cand /\ cleaner'.ids \subseteq cleaner.ids
    BY <2>1 DEF Resting
  <2> QED BY <1>1, <1>10, <2>2 DEF PurgeRead, Forget, rows, Docs, Revs
<1>11. CASE Age
  BY <1>1, <1>11, AgeMakes DEF Age
<1>12. ASSUME NEW r \in Review, NEW status \in {"done", "ended"}, Finish(r, status) PROVE Ids'
  BY <1>1, <1>12, FinishMakes DEF Finish, Docs
<1>13. ASSUME UNCHANGED <<docs, revs, next, cleaner, loop>> PROVE Ids'
  BY <1>1, <1>13 DEF Docs, Revs
<1> QED
  BY <1>2, <1>3, <1>4, <1>5, <1>6, <1>7, <1>8, <1>9, <1>10, <1>11, <1>12, <1>13
  DEF Next, vars, rows, CreateBatch, PollBatch, AskReport, WriteReport

-----------------------------------------------------------------------------
(* Files and rows.                                                         *)

\* Files come from the upload and the reports, and go with the clean-up.
LEMMA FilesKept ==
  ASSUME Shapes, [Next]_vars
  PROVE  /\ \A f \in disk' \ disk : \/ Store /\ f = <<"original", next.doc>>
                                    \/ WriteReport /\ f = <<"report", reader.id>>
         /\ \A f \in disk \ disk' : \E d \in cleaner.todo : Unlink(d) /\ f \in Paths(d)
         /\ strays \subseteq strays'
<1>1. CASE UNCHANGED disk /\ strays \subseteq strays'
  BY <1>1
<1>2. CASE Store
  BY <1>2 DEF Store
<1>3. CASE WriteReport
  BY <1>3 DEF WriteReport
<1>4. ASSUME NEW d \in Doc, Unlink(d)
      PROVE  /\ disk' \subseteq disk /\ strays' = strays /\ d \in cleaner.todo
             /\ \A f \in disk \ disk' : f \in Paths(d)
  BY <1>4 DEF Unlink
<1>5. (\E d \in Doc : Unlink(d)) \/ Store \/ WriteReport \/ (UNCHANGED disk /\ strays \subseteq strays')
  BY DEF Next, vars, rows, Upload, Look, Insert, AskReview, Start, Finish, CreateBatch, NextFile,
         AddItem, PollBatch, AskReport, ListCandidates, PurgeRead, Purge, Forget, Age, Crash
<1> QED BY <1>1, <1>2, <1>3, <1>4, <1>5

\* Documents come by Insert and go by Purge, and keep their content.
LEMMA DocsKept ==
  ASSUME Shapes, Ids, [Next]_vars
  PROVE  /\ \A d \in Docs \intersect Docs' : docs'[d].content = docs[d].content
         /\ \A d \in Docs' \ Docs : Insert /\ d = loop.doc
         /\ \A d \in Docs \ Docs' : Purge /\ Purged /\ d \in cleaner.good
<1>1. CASE Insert
  <2>1. loop.doc \in Int /\ \A d \in Docs : d < loop.doc
    BY <1>1, InsertMakes, Constants DEF Ids, Insert
  <2>2. loop.doc \notin Docs
    BY <2>1
  <2> QED BY <1>1, <2>2, InsertMakes
<1>2. CASE Purge
  BY <1>2, PurgeMakes DEF Purged, rows, Docs
<1>3. CASE Age
  BY <1>3, AgeMakes
<1>4. CASE UNCHANGED docs
  BY <1>4 DEF Docs
<1> QED
  BY <1>1, <1>2, <1>3, <1>4
  DEF Next, vars, rows, Upload, Look, Store, AskReview, Start, Finish, CreateBatch, NextFile, AddItem,
      PollBatch, AskReport, WriteReport, ListCandidates, Unlink, PurgeRead, Forget, Crash

\* Reviews come by Start and go by Purge, keep their document and end once.
LEMMA RevsKept ==
  ASSUME Shapes, Room, Ids, [Next]_vars
  PROVE  /\ \A r \in Revs \intersect Revs' :
              /\ revs'[r].doc = revs[r].doc /\ revs'[r].late = revs[r].late
              /\ revs[r].status # "active" => revs'[r].status # "active"
         /\ \A r \in Revs' \ Revs : Start /\ StartedNew /\ r = next.review
         /\ \A r \in Revs \ Revs' : Purge /\ Purged /\ r \in cleaner.read
<1>1. CASE Start
  <2>1. next.review \notin Revs
    BY Constants DEF Ids, Shapes, RowsTyped, CountsTyped
  <2> QED BY <1>1, <2>1, StartMakes DEF StartedNew, Revs
<1>2. CASE Purge
  BY <1>2, PurgeMakes DEF Purged, rows, Revs
<1>3. CASE Age
  BY <1>3, AgeMakes
<1>4. ASSUME NEW r \in Review, NEW status \in {"done", "ended"}, Finish(r, status)
      PROVE  Revs' = Revs /\ \A x \in Revs :
               /\ revs'[x].doc = revs[x].doc /\ revs'[x].late = revs[x].late
               /\ revs[x].status # "active" => revs'[x].status # "active"
  BY <1>4, FinishMakes
<1>5. CASE UNCHANGED revs
  BY <1>5 DEF Revs
<1> QED
  BY <1>1, <1>2, <1>3, <1>4, <1>5
  DEF Next, vars, rows, Upload, Look, Store, Insert, AskReview, CreateBatch, NextFile, AddItem,
      PollBatch, AskReport, WriteReport, ListCandidates, Unlink, PurgeRead, Forget, Crash

\* What a clean-up has listed it keeps to, until it is over.
LEMMA CleanerKept ==
  ASSUME Shapes, [Next]_vars
  PROVE  /\ \/ ListCandidates \/ PurgeRead \/ UNCHANGED cleaner
            \/ (\E d \in cleaner.todo : Unlink(d)) \/ cleaner'.at \in {"idle", "forget"}
         /\ ListCandidates \/ cleaner'.cand \subseteq cleaner.cand
<1>0. cleaner \in CleanerState /\ Resting.cand = {}
  BY DEF Shapes, CleanerTyped, Resting
<1>1. CASE Purge
  <2>1. cleaner' = Resting \/ cleaner' = [cleaner EXCEPT !.at = "forget"]
    BY <1>1 DEF Purge
  <2> QED BY <1>0, <2>1, Constants DEF CleanerState
<1>2. CASE Forget \/ Crash
  BY <1>0, <1>2, Constants DEF Forget, Crash
<1>3. ASSUME NEW d \in Doc, Unlink(d) PROVE d \in cleaner.todo /\ cleaner'.cand = cleaner.cand
  BY <1>0, <1>3 DEF Unlink, CleanerState
<1>4. CASE PurgeRead
  BY <1>0, <1>4 DEF PurgeRead, CleanerState
<1>5. CASE ListCandidates \/ UNCHANGED cleaner
  BY <1>5
<1> QED
  BY <1>1, <1>2, <1>3, <1>4, <1>5
  DEF Next, vars, rows, Upload, Look, Store, Insert, AskReview, Start, Finish, CreateBatch, NextFile,
      AddItem, PollBatch, AskReport, WriteReport, Age

\* The loop leaves a file it is storing only by going on with it, or by dying.
LEMMA LoopKept ==
  ASSUME Shapes, [Next]_vars
  PROVE  /\ loop'.at \in {"store", "insert"} => Look \/ Store \/ UNCHANGED loop
         /\ loop.at = "insert" => Insert \/ Crash \/ UNCHANGED loop
<1>1. ASSUME NEW c \in Content, Upload(c) PROVE loop.at = "idle" /\ loop'.at = "look"
  BY <1>1, LoopMoves DEF Upload
<1>2. CASE Insert \/ Start
  BY <1>2, LoopMoves, InsertMakes DEF Insert, Start
<1>3. ASSUME NEW d \in Doc, AskReview(d) PROVE loop.at = "idle" /\ loop'.at = "start"
  BY <1>3, LoopMoves DEF AskReview
<1>4. ASSUME NextFile PROVE loop.at = "idle" /\ loop'.at \in {"look", "item"}
  <2>1. loop' = [at |-> "item", item |-> Failed] \/ \E c \in Content : loop' = Handling(c, TRUE)
    BY <1>4 DEF NextFile
  <2>2. loop'.at \in {"look", "item"}
    <3>1. CASE loop' = [at |-> "item", item |-> Failed]
      BY <3>1
    <3> QED BY <2>1, <3>1, LoopMoves
  <2> QED BY <1>4, <2>2, LoopMoves DEF NextFile
<1>5. CASE AddItem
  BY <1>5, LoopMoves DEF AddItem
<1>6. CASE Crash
  BY <1>6, LoopMoves DEF Crash
<1>7. CASE Look \/ Store
  BY <1>7 DEF Look, Store
<1> QED
  BY <1>1, <1>2, <1>3, <1>4, <1>5, <1>6, <1>7
  DEF Next, vars, rows, Finish, CreateBatch, PollBatch, AskReport, WriteReport, ListCandidates, Unlink,
      PurgeRead, Purge, Forget, Age

LEMMA CopiesStep == ASSUME Shapes, Room, Ids, Copies, [Next]_vars PROVE Copies'
<1>0. Docs \subseteq Int /\ next.doc \in Int
  BY DocumentAssumption, Constants DEF Shapes, RowsTyped, CountsTyped
<1>1. \A d \in Docs : Present("original", d)' => Present("original", d)
  BY <1>0, FilesKept DEF Present, Ids
<1>2. ASSUME NEW d \in Docs', NEW e \in Docs', docs'[d].content = docs'[e].content, d < e
      PROVE  ~Present("original", d)'
  <2>1. CASE e \in Docs
    <3>1. d \in Docs
      BY <1>0, <1>2, <2>1, DocsKept, InsertMakes, Constants DEF Ids, Insert
    <3> QED BY <1>1, <1>2, <2>1, <3>1, DocsKept DEF Copies
  <2>2. CASE e \notin Docs
    <3>1. Insert /\ e = loop.doc /\ d \in Docs
      <4>1. Insert /\ e = loop.doc
        BY <2>2, DocsKept
      <4>2. e \in Int
        BY <4>1, InsertMakes, Constants
      <4>3. d # e
        BY <1>2, <4>2
      <4> QED BY <4>1, <4>3, DocsKept
    <3>2. docs[d].content = loop.content
      BY <1>2, <3>1, DocsKept, InsertMakes
    <3> QED BY <1>1, <3>1, <3>2 DEF Copies, Insert
  <2> QED BY <2>1, <2>2
<1>3. ASSUME loop'.at \in {"store", "insert"}, NEW d \in Docs', docs'[d].content = loop'.content
      PROVE  ~Present("original", d)'
  <2>1. d \in Docs /\ docs[d].content = loop'.content
    BY <1>3, DocsKept, InsertMakes, LoopMoves DEF Insert
  <2>2. CASE Look
    <3>1. Existing(loop.content) = {} /\ loop'.content = loop.content
      <4>1. Existing(loop.content) \subseteq Doc
        BY DEF Existing, Shapes, RowsTyped
      <4>2. Existing(loop.content) = {}
        BY <1>3, <2>2, <4>1, LoopMoves DEF Look
      <4>3. loop' = [loop EXCEPT !.at = "store"]
        BY <2>2, <4>2 DEF Look
      <4> QED BY <2>2, <4>2, <4>3, LoopHas DEF Look, Shapes, LoopTyped
    <3>2. ASSUME Present("original", d) PROVE d \in Existing(loop.content)
      <4>1. docs[d].content = loop.content
        BY <2>1, <3>1
      <4>2. \A e \in Docs : docs[e].content = docs[d].content => ~(d < e)
        BY <2>1, <3>2 DEF Copies
      <4>3. \A e \in Docs : ~(d < e) => e <= d
        BY <1>0, <2>1
      <4> QED BY <2>1, <3>2, <4>1, <4>2, <4>3 DEF Existing
    <3> QED BY <1>1, <2>1, <3>1, <3>2
  <2>3. CASE Store
    BY <1>1, <2>1, <2>3 DEF Store, Copies
  <2>4. CASE UNCHANGED loop
    BY <1>1, <1>3, <2>1, <2>4 DEF Copies
  <2> QED BY <1>3, <2>2, <2>3, <2>4, LoopKept
<1> QED BY <1>2, <1>3 DEF Copies

LEMMA SparedStep == ASSUME Shapes, Room, Ids, Spared, [Next]_vars PROVE Spared'
<1> SUFFICES ASSUME NEW r \in Revs', revs'[r].status = "active", ~revs'[r].late
             PROVE  <<"original", revs'[r].doc>> \in disk' /\ revs'[r].doc \notin cleaner'.cand
  BY DEF Spared, Present
<1>1. CASE r \in Revs
  <2>1. revs[r].status = "active" /\ ~revs[r].late /\ revs'[r].doc = revs[r].doc
    BY <1>1, RevsKept
  <2>2. Present("original", revs[r].doc) /\ revs[r].doc \notin cleaner.cand
    BY <1>1, <2>1 DEF Spared
  <2>3. \A d \in cleaner.todo : <<"original", revs[r].doc>> \notin Paths(d)
    BY <2>2 DEF Paths, Shapes, CleanerTyped
  <2>4. <<"original", revs[r].doc>> \in disk'
    BY <2>2, <2>3, FilesKept DEF Present
  <2>5. CASE ListCandidates
    <3>1. cleaner'.cand = {d \in Docs : IdleLong(d)}
      BY <2>5 DEF ListCandidates, Resting
    <3>2. ~IdleLong(revs[r].doc)
      BY <1>1, <2>1 DEF IdleLong, TasksOf, Terminal
    <3> QED BY <2>1, <2>4, <3>1, <3>2
  <2>6. CASE cleaner'.cand \subseteq cleaner.cand
    BY <2>1, <2>2, <2>4, <2>6
  <2> QED BY <2>5, <2>6, CleanerKept
<1>2. CASE r \notin Revs
  <2>1. Start /\ StartedNew /\ r = next.review
    BY <1>2, RevsKept
  <2>2. loop.doc \notin cleaner.cand /\ Present("original", loop.doc)
    BY <2>1 DEF StartedNew
  <2> QED BY <2>1, <2>2 DEF StartedNew, Start, Present
<1> QED BY <1>1, <1>2

LEMMA BareStep == ASSUME Shapes, Room, Ids, Bare, [Next]_vars PROVE Bare'
<1> SUFFICES ASSUME cleaner'.at \in {"unlink", "purge"}, NEW d \in cleaner'.good
             PROVE  /\ <<"original", d>> \notin disk'
                    /\ \A r \in cleaner'.ids \intersect Revs' : revs'[r].doc = d =>
                         (<<"report", r>> \in disk' => <<"report", r>> \in strays')
  BY DEF Bare, Present, TasksOf
<1>0. cleaner \in CleanerState /\ cleaner.good \subseteq cleaner.cand
  BY DEF Shapes, CleanerTyped
<1>1. CASE ListCandidates
  BY <1>1 DEF ListCandidates, Resting
<1>2. ASSUME cleaner.at \in {"unlink", "purge"}, d \in cleaner.good, cleaner'.ids = cleaner.ids
      PROVE  /\ <<"original", d>> \notin disk'
             /\ \A r \in cleaner'.ids \intersect Revs' : revs'[r].doc = d =>
                  (<<"report", r>> \in disk' => <<"report", r>> \in strays')
  <2>1. /\ <<"original", d>> \notin disk
        /\ \A r \in cleaner.ids \intersect Revs : revs[r].doc = d =>
             (<<"report", r>> \in disk => <<"report", r>> \in strays)
    BY <1>2 DEF Bare, Present, TasksOf
  <2>2. d # next.doc
    BY <1>0, <1>2 DEF Ids, Shapes, CountsTyped
  <2>3. <<"original", d>> \notin disk'
    BY <2>1, <2>2, FilesKept
  <2>4. ASSUME NEW r \in cleaner.ids \intersect Revs', revs'[r].doc = d, <<"report", r>> \in disk'
        PROVE  <<"report", r>> \in strays'
    <3>1. r # next.review
      BY <2>4 DEF Ids, Shapes, CountsTyped
    <3>2. r \in Revs /\ revs[r].doc = d
      BY <2>4, <3>1, RevsKept
    <3>3. CASE <<"report", r>> \in disk
      BY <2>1, <2>4, <3>2, <3>3, FilesKept
    <3>4. CASE <<"report", r>> \notin disk
      <4>1. WriteReport /\ reader.id = r
        BY <2>4, <3>4, FilesKept
      <4>2. cleaner # Resting
        BY <1>2, Constants
      <4> QED BY <4>1, <4>2 DEF WriteReport
    <3> QED BY <3>3, <3>4
  <2> QED BY <1>2, <2>3, <2>4
<1>3. CASE UNCHANGED cleaner
  BY <1>2, <1>3
<1>4. CASE PurgeRead
  <2>1. cleaner.good # {} /\ cleaner'.good = cleaner.good /\ cleaner'.ids = cleaner.ids
    BY <1>0, <1>4, Constants DEF PurgeRead, CleanerState
  <2> QED BY <1>2, <1>4, <2>1 DEF PurgeRead
<1>5. ASSUME NEW x \in cleaner.todo, Unlink(x)
      PROVE  /\ <<"original", d>> \notin disk'
             /\ \A r \in cleaner'.ids \intersect Revs' : revs'[r].doc = d =>
                  (<<"report", r>> \in disk' => <<"report", r>> \in strays')
  <2>1. PICK kept \in SUBSET (Paths(x) \intersect disk) :
          /\ disk' = disk \ (Paths(x) \ kept)
          /\ cleaner' = [cleaner EXCEPT !.todo = @ \ {x},
                           !.good = IF Purgeable(x, kept) THEN @ \union {x} ELSE @]
    BY <1>5 DEF Unlink
  <2>2. cleaner.at = "unlink" /\ cleaner'.ids = cleaner.ids /\ UNCHANGED revs
    BY <1>0, <1>5, <2>1 DEF Unlink, rows, CleanerState
  <2>3. CASE d \in cleaner.good
    BY <1>2, <2>2, <2>3
  <2>4. CASE d \notin cleaner.good
    <3>1. d = x /\ kept = {}
      BY <1>0, <2>1, <2>4 DEF Purgeable, CleanerState
    <3>2. <<"original", d>> \in Paths(d)
          /\ \A r \in cleaner.ids \intersect Revs : revs[r].doc = d => <<"report", r>> \in Paths(d)
      BY DEF Paths, TasksOf
    <3> QED BY <2>1, <2>2, <3>1, <3>2 DEF Revs
  <2> QED BY <2>3, <2>4
<1> QED BY <1>1, <1>3, <1>4, <1>5, CleanerKept

LEMMA ReadStep == ASSUME Shapes, Room, Ids, ReadOfGood, [Next]_vars PROVE ReadOfGood'
<1> SUFFICES ASSUME cleaner'.at = "purge", NEW r \in cleaner'.read
             PROVE  r \in Revs' /\ revs'[r].doc \in cleaner'.good
  BY DEF ReadOfGood
<1>0. cleaner \in CleanerState
  BY DEF Shapes, CleanerTyped
<1>1. CASE ListCandidates
  BY <1>1 DEF ListCandidates, Resting
<1>2. CASE UNCHANGED cleaner
  <2>1. r \in Revs /\ revs[r].doc \in cleaner.good
    BY <1>2 DEF ReadOfGood
  <2>2. ~Purge
    BY <1>0, <1>2, Constants DEF Purge, CleanerState
  <2> QED BY <1>2, <2>1, <2>2, RevsKept
<1>3. CASE PurgeRead
  <2>1. cleaner'.good = cleaner.good /\ cleaner'.read = {x \in Revs : revs[x].doc \in cleaner.good}
        /\ UNCHANGED revs
    BY <1>0, <1>3, Constants DEF PurgeRead, CleanerState, rows
  <2> QED BY <2>1 DEF Revs
<1>4. ASSUME NEW d \in cleaner.todo, Unlink(d) PROVE FALSE
  BY <1>0, <1>4 DEF Unlink, CleanerState
<1> QED BY <1>1, <1>2, <1>3, <1>4, CleanerKept

LEMMA LeftStep ==
  ASSUME Shapes, Room, Ids, Bare, ReadOfGood, NothingLeftBehind, [Next]_vars
  PROVE  NothingLeftBehind'
<1> DEFINE Kept(f) == \/ f[2] \in (IF f[1] = "report" THEN Revs' ELSE Docs')
                      \/ f \in strays'
                      \/ loop'.at = "insert" /\ f = <<"original", loop'.doc>>
<1> SUFFICES ASSUME NEW f \in disk' PROVE Kept(f)
  BY DEF NothingLeftBehind
<1>1. CASE f \notin disk
  <2>1. CASE Store /\ f = <<"original", next.doc>>
    BY <2>1 DEF Store
  <2>2. CASE WriteReport /\ f = <<"report", reader.id>>
    BY <2>2 DEF WriteReport, rows, Revs
  <2> QED BY <1>1, <2>1, <2>2, FilesKept
<1>2. CASE f \in strays
  BY <1>2, FilesKept
<1>3. CASE loop.at = "insert" /\ f = <<"original", loop.doc>>
  <2>1. CASE Insert
    BY <1>3, <2>1, InsertMakes
  <2>2. CASE Crash
    BY <1>3, <2>2 DEF Crash
  <2>3. CASE UNCHANGED loop
    BY <1>3, <2>3
  <2> QED BY <1>3, <2>1, <2>2, <2>3, LoopKept
<1>4. CASE f[1] = "report" /\ f[2] \in Revs
  <2> SUFFICES ASSUME f[2] \notin Revs', f \in disk PROVE f \in strays'
    BY <1>1, <1>4
  <2>1. Purge /\ Purged /\ f[2] \in cleaner.read
    BY <1>4, RevsKept
  <2>2. cleaner.at = "purge" /\ f = <<"report", f[2]>>
    BY <1>4, <2>1 DEF Purge, Shapes, FilesTyped, File
  <2>3. CASE f[2] \in cleaner.ids
    <3>1. revs[f[2]].doc \in cleaner.good
      BY <2>1, <2>2 DEF ReadOfGood
    <3>2. f \in strays
      BY <1>4, <2>2, <2>3, <3>1 DEF Bare, Present, TasksOf
    <3> QED BY <3>2, FilesKept
  <2>4. CASE f[2] \notin cleaner.ids
    BY <1>4, <2>1, <2>4 DEF Purged
  <2> QED BY <2>3, <2>4
<1>5. CASE f[1] # "report" /\ f[2] \in Docs
  <2> SUFFICES ASSUME f[2] \notin Docs', f \in disk PROVE FALSE
    BY <1>1, <1>5
  <2>1. Purge /\ f[2] \in cleaner.good
    BY <1>5, DocsKept
  <2>2. f = <<"original", f[2]>>
    BY <1>5 DEF Shapes, FilesTyped, File
  <2> QED BY <2>1, <2>2 DEF Bare, Purge, Present
<1> QED BY <1>1, <1>2, <1>3, <1>4, <1>5 DEF NothingLeftBehind

-----------------------------------------------------------------------------
(* The batch.                                                              *)

\* Unless the clean-up purges, the rows an item refers to stay, and a review stays over.
LEMMA ItemsKept ==
  ASSUME Shapes, Room, Ids, [Next]_vars, ~Purge, NEW item, Refers(item), item.review # None
  PROVE  /\ item.review \in Revs' /\ item.doc \in Docs'
         /\ revs[item.review].status # "active" => revs'[item.review].status # "active"
<1>1. item.review \in Revs /\ item.doc \in Docs
  BY DEF Refers
<1> QED BY <1>1, RevsKept, DocsKept

\* The loop adds the item that is due, unless the batch is gone.
LEMMA AddItemMakes ==
  ASSUME Shapes, Room, BatchKept, AddItem
  PROVE  /\ feeding \in 1..BatchSize /\ ~batch.made /\ feeding \notin Items
         /\ batch.status \in {"running", "deleted"}
         /\ \/ batch.status = "deleted" /\ UNCHANGED batch /\ feeding' = 0
            \/ /\ batch'.status = "running" /\ batch'.made = (feeding = BatchSize)
               /\ feeding' = IF feeding = BatchSize THEN 0 ELSE feeding + 1
               /\ \A i \in 1..BatchSize \ {feeding} : batch'.items[i] = batch.items[i]
               /\ batch'.items[feeding].there /\ Refers(batch'.items[feeding])
<1>0. /\ batch.items \in [1..BatchSize -> Item] /\ feeding \in 0..BatchSize /\ BatchSize \in Nat
      /\ batch \in [status : {"none", "running", "done", "deleted"},
                    items : [1..BatchSize -> Item], made : BOOLEAN]
  BY DocumentAssumption DEF Shapes, BatchTyped, CountsTyped
<1>1. feeding # 0 /\ batch.status # "none"
  BY DEF Room, InBatch, AddItem
<1>2. feeding \in 1..BatchSize /\ ~batch.made /\ batch.status \in {"running", "deleted"}
  BY <1>0, <1>1 DEF BatchKept, DoneBatchIsOver
<1>3. feeding \notin Items
  <2>1. \A i \in Items : i < feeding
    BY <1>1, <1>2 DEF BatchKept
  <2> QED BY <1>2, <2>1
<1>4. CASE batch.status = "deleted"
  BY <1>2, <1>3, <1>4 DEF AddItem, BatchRow
<1>5. CASE batch.status = "running"
  <2> DEFINE new == IF Refers(loop.item) THEN loop.item ELSE Failed
  <2>1. new.there /\ Refers(new)
    BY Constants, LoopHas DEF AddItem, Shapes, LoopTyped, Refers
  <2>2. /\ batch' = [batch EXCEPT !.items[feeding] = new, !.made = (feeding = BatchSize)]
        /\ feeding' = IF feeding = BatchSize THEN 0 ELSE feeding + 1
    BY <1>5 DEF AddItem, BatchRow
  <2> HIDE DEF new
  <2>3. /\ batch'.status = "running" /\ batch'.made = (feeding = BatchSize)
        /\ batch'.items = [batch.items EXCEPT ![feeding] = new]
    BY <1>0, <1>5, <2>2
  <2>4. /\ \A i \in 1..BatchSize \ {feeding} : batch'.items[i] = batch.items[i]
        /\ batch'.items[feeding] = new
    BY <1>0, <1>2, <2>3
  <2> QED BY <1>2, <1>3, <1>5, <2>1, <2>2, <2>3, <2>4
<1> QED BY <1>2, <1>4, <1>5

LEMMA BatchKeptStep == ASSUME Shapes, Room, Ids, BatchKept, [Next]_vars PROVE BatchKept'
<1>0. /\ batch.items \in [1..BatchSize -> Item] /\ feeding \in 0..BatchSize
      /\ BatchSize \in Nat /\ BatchSize > 0
      /\ batch \in [status : {"none", "running", "done", "deleted"},
                    items : [1..BatchSize -> Item], made : BOOLEAN]
  BY DocumentAssumption DEF Shapes, BatchTyped, CountsTyped
<1> DEFINE Kept(i) == /\ Refers(batch.items[i])'
                      /\ batch.status = "done" /\ batch.items[i].review # None =>
                           revs'[batch.items[i].review].status # "active"
<1>1. ASSUME ~Purge, NEW i \in Items, batch'.items[i] = batch.items[i] PROVE Kept(i)
  <2>1. Refers(batch.items[i])
    BY DEF BatchKept
  <2>2. batch.status = "done" /\ batch.items[i].review # None => revs[batch.items[i].review].status # "active"
    BY DEF BatchKept, DoneBatchIsOver, Terminal
  <2> QED BY <1>1, <2>1, <2>2, ItemsKept DEF Refers
<1>2. ASSUME ~Purge, UNCHANGED <<batch, feeding>> PROVE BatchKept'
  <2>1. Items' = Items /\ \A i \in Items : Kept(i)
    BY <1>1, <1>2 DEF Items
  <2> QED BY <1>2, <2>1 DEF BatchKept, DoneBatchIsOver, Terminal
<1>3. CASE CreateBatch
  <2>1. /\ batch'.status = "running" /\ batch'.items = batch.items /\ batch'.made = batch.made
        /\ feeding' = 1 /\ batch.status = "none"
    BY <1>0, <1>3 DEF CreateBatch
  <2>2. Items' = {} /\ ~batch'.made
    BY <2>1 DEF Items, BatchKept
  <2> QED BY <2>1, <2>2 DEF BatchKept, DoneBatchIsOver
<1>4. CASE AddItem
  <2>1. ~Purge /\ UNCHANGED <<docs, revs>>
    BY <1>4, Constants DEF AddItem, Purge, Shapes, CleanerTyped
  <2>2. CASE batch.status = "deleted" /\ UNCHANGED batch /\ feeding' = 0
    <3>1. Items' = Items /\ Items # 1..BatchSize
      BY <1>4, <2>2, AddItemMakes DEF Items
    <3>2. \A i \in Items : Kept(i)
      BY <1>1, <2>1, <2>2
    <3>3. ~batch'.made
      BY <1>4, <2>2, AddItemMakes
    <3> QED BY <2>2, <3>1, <3>2, <3>3 DEF BatchKept, DoneBatchIsOver
  <2>3. CASE batch'.status = "running"
    <3>1. /\ feeding \in 1..BatchSize /\ batch'.made = (feeding = BatchSize) /\ ~batch.made
          /\ feeding' = IF feeding = BatchSize THEN 0 ELSE feeding + 1
          /\ \A i \in 1..BatchSize \ {feeding} : batch'.items[i] = batch.items[i]
          /\ Refers(batch'.items[feeding])
      BY <1>4, <2>3, AddItemMakes
    <3>2. \A i \in Items' : i = feeding \/ i \in Items
      BY <3>1 DEF Items
    <3>3. \A i \in Items : i < feeding
      BY <3>1 DEF BatchKept
    <3>4. \A i \in Items' : i <= feeding
      BY <1>0, <3>1, <3>2, <3>3 DEF Items
    <3>5. ~batch'.made => feeding' # 0 /\ \A i \in Items' : i < feeding'
      <4> SUFFICES ASSUME ~batch'.made
                   PROVE  feeding' # 0 /\ \A i \in Items' : i < feeding'
        OBVIOUS
      <4>1. feeding' = feeding + 1
        BY <3>1
      <4>2. \A i \in Items' : i \in Int
        BY DEF Items
      <4> QED BY <1>0, <3>1, <3>4, <4>1, <4>2
    <3>6. batch'.made => feeding' = 0
      BY <3>1
    <3>7. \A i \in Items' : Refers(batch'.items[i])
      <4>1. \A i \in Items : Refers(batch.items[i])
        BY DEF BatchKept
      <4> QED BY <3>1, <3>2, <4>1 DEF Items
    <3>8. \A i \in Items' : Refers(batch.items[i])'
      BY <2>1, <3>7 DEF Refers, Docs, Revs
    <3> QED BY <2>3, <3>5, <3>6, <3>8 DEF BatchKept, DoneBatchIsOver
  <2> QED BY <1>4, <2>2, <2>3, AddItemMakes
<1>5. CASE PollBatch
  <2> DEFINE counted == {i \in Items : Counts(i)}
  <2>0. ~Purge
    BY <1>5, Constants DEF PollBatch, Purge, Shapes, CleanerTyped, CleanerState
  <2>1. ~Purge /\ UNCHANGED <<docs, revs, feeding>> /\ batch.status \in {"running", "done"}
    BY <1>5, <2>0 DEF PollBatch, BatchRow
  <2>2. /\ batch' = [batch EXCEPT !.status = IF Cardinality(counted) = BatchSize THEN "done" ELSE @]
        /\ batch'.items = batch.items /\ batch'.made = batch.made
        /\ batch'.status = IF Cardinality(counted) = BatchSize THEN "done" ELSE batch.status
    BY <1>0, <1>5 DEF PollBatch
  <2>3. Items' = Items
    BY <2>2 DEF Items
  <2>4. \A i \in Items : Refers(batch.items[i])'
    BY <1>1, <2>1, <2>2
  <2>5. CASE batch'.status = batch.status
    <3>1. \A i \in Items : Kept(i)
      BY <1>1, <2>1, <2>2
    <3> QED BY <2>1, <2>2, <2>3, <2>5, <3>1 DEF BatchKept, DoneBatchIsOver, Terminal
  <2>6. CASE Cardinality(counted) = BatchSize
    <3>1. counted = 1..BatchSize
      <4>1. IsFiniteSet(1..BatchSize) /\ Cardinality(1..BatchSize) = BatchSize
        BY <1>0, FS_Interval
      <4>2. counted \subseteq 1..BatchSize
        BY DEF Items
      <4> HIDE DEF counted
      <4> QED BY <2>6, <4>1, <4>2, FS_Subset
    <3>2. Items = 1..BatchSize /\ \A i \in Items : Counts(i)
      BY <3>1 DEF Items
    <3>3. batch.made
      <4> SUFFICES ASSUME ~batch.made PROVE FALSE
        OBVIOUS
      <4>1. feeding # 0 /\ \A i \in Items : i < feeding
        BY <3>2 DEF BatchKept
      <4>2. feeding \in Items
        BY <1>0, <3>2, <4>1
      <4> QED BY <1>0, <4>1, <4>2
    <3>4. feeding = 0
      BY <3>3 DEF BatchKept
    <3>5. \A i \in Items : batch.items[i].review # None => revs[batch.items[i].review].status # "active"
      BY <3>2 DEF Counts, Terminal
    <3> QED BY <2>1, <2>2, <2>3, <2>4, <2>6, <3>3, <3>4, <3>5 DEF BatchKept, DoneBatchIsOver, Terminal
  <2> QED BY <2>2, <2>5, <2>6
<1>6. CASE Purge
  <2>1. UNCHANGED feeding
    BY <1>6 DEF Purge
  <2>2. CASE UNCHANGED rows
    <3>1. Items' = Items /\ UNCHANGED <<docs, revs, batch>>
      BY <2>2 DEF rows, Items
    <3> QED BY <2>1, <3>1 DEF BatchKept, DoneBatchIsOver, Terminal, Refers, Docs, Revs
  <2>3. CASE Purged
    <3>1. /\ batch'.made = batch.made /\ batch'.status \in {batch.status, "deleted"}
          /\ batch'.status = "deleted" => batch.status # "none"
      BY <2>3 DEF Purged
    <3>2. \A i \in Items' : /\ i \in Items /\ batch'.items[i] = batch.items[i]
                            /\ batch.items[i].doc \notin cleaner.good
                            /\ batch.items[i].review \notin cleaner.read
      <4>1. NoItem.there = FALSE
        BY DEF NoItem
      <4> QED BY <2>3, <4>1 DEF Purged, Items
    <3>3. Items' \subseteq Items /\ Items \subseteq 1..BatchSize
      BY <3>2 DEF Items
    <3>4. ASSUME NEW i \in Items' PROVE Kept(i)
      <4>1. Refers(batch.items[i])
        BY <3>2, <3>4 DEF BatchKept
      <4>2. Refers(batch.items[i])'
        BY <2>3, <3>2, <3>4, <4>1 DEF Purged, Refers
      <4>3. batch.items[i].review # None => revs'[batch.items[i].review] = revs[batch.items[i].review]
        BY <2>3, <3>2, <3>4, <4>1 DEF Purged, Refers
      <4> QED BY <3>2, <3>4, <4>2, <4>3 DEF BatchKept, DoneBatchIsOver, Terminal
    <3>5. batch'.status = "done" => batch.status = "done"
      BY <3>1
    <3> QED BY <2>1, <3>1, <3>2, <3>3, <3>4, <3>5 DEF BatchKept, DoneBatchIsOver, Terminal
  <2> QED BY <1>6, <2>2, <2>3, PurgeMakes
<1>7. CASE Crash
  <2>0. ~Purge
    BY <1>7 DEF Crash, Purge, Shapes, CountsTyped
  <2>1. ~Purge /\ UNCHANGED <<docs, revs, batch>> /\ feeding' = 0 /\ Items' = Items
    BY <1>7, <2>0 DEF Crash, rows, Items
  <2>2. \A i \in Items : Kept(i)
    BY <1>1, <2>1
  <2>3. ~batch.made => Items # 1..BatchSize
    <3> SUFFICES ASSUME ~batch.made, Items = 1..BatchSize PROVE FALSE
      OBVIOUS
    <3>1. feeding # 0 /\ \A i \in Items : i < feeding
      BY DEF BatchKept
    <3> QED BY <1>0, <3>1
  <2> QED BY <2>1, <2>2, <2>3 DEF BatchKept, DoneBatchIsOver, Terminal
<1> QED
  BY <1>2, <1>3, <1>4, <1>5, <1>6, <1>7
  DEF Next, vars, rows, Upload, Look, Store, Insert, AskReview, Start, Finish, NextFile, AskReport,
      WriteReport, ListCandidates, Unlink, PurgeRead, Forget, Age

-----------------------------------------------------------------------------
(* The invariant, and what it says.                                        *)

LEMMA IInvInit == Init => IInv
<1> SUFFICES ASSUME Init PROVE IInv
  OBVIOUS
<1>1. Docs = {} /\ Revs = {} /\ Items = {} /\ BatchSize \in Nat /\ BatchSize > 0
  BY DocumentAssumption DEF Init, Docs, Revs, Items, NoItem
<1>2. Resting.cand = {} /\ Resting.ids = {} /\ Resting.at = "idle"
  BY DEF Resting
<1>3. Room
  BY DocumentAssumption, Constants DEF Init, Room, InBatch, Stored, Reserved
<1>4. Ids /\ Copies /\ Spared /\ Bare /\ ReadOfGood /\ NothingLeftBehind
  BY <1>1, <1>2, Constants DEF Init, Ids, Copies, Spared, Bare, ReadOfGood, NothingLeftBehind
<1>5. Items # 1..BatchSize
  BY <1>1
<1>6. BatchKept
  BY <1>1, <1>5 DEF Init, BatchKept, DoneBatchIsOver
<1> QED BY <1>3, <1>4, <1>6, ShapesInit DEF IInv

LEMMA IInvStep == IInv /\ [Next]_vars => IInv'
<1> SUFFICES ASSUME IInv, [Next]_vars PROVE IInv'
  OBVIOUS
<1>1. Shapes' /\ Room'
  BY ShapesStep, RoomStep DEF IInv
<1>2. Ids' /\ Copies' /\ Spared'
  BY IdsStep, CopiesStep, SparedStep DEF IInv
<1>3. Bare' /\ ReadOfGood' /\ NothingLeftBehind'
  BY BareStep, ReadStep, LeftStep DEF IInv
<1>4. BatchKept'
  BY BatchKeptStep DEF IInv
<1> QED BY <1>1, <1>2, <1>3, <1>4 DEF IInv

LEMMA IInvAlways == Spec => []IInv
BY IInvInit, IInvStep, PTL DEF Spec

\* Whatever uploads, batches, clean-ups, reports and crashes overlap, and however many
\* there are: no content has two copies on disk, a review at work that was made in order
\* has its file, and no file stays that neither a row, a running upload nor the history
\* accounts for (_save_upload, cleanup_retained_data, purge_documents).
THEOREM FilesMatchTheRows == Spec => []FilesMatchRows
<1>1. IInv => FilesMatchRows
  <2> SUFFICES ASSUME IInv PROVE FilesMatchRows
    OBVIOUS
  <2>1. Docs \subseteq Int
    BY Constants DEF IInv, Shapes, RowsTyped
  <2>2. OneCopy
    <3> SUFFICES ASSUME NEW d \in Docs, NEW e \in Docs, docs[d].content = docs[e].content,
                        Present("original", d), Present("original", e), d # e
                 PROVE  FALSE
      BY DEF OneCopy
    <3>1. d < e \/ e < d
      BY <2>1
    <3> QED BY <3>1 DEF IInv, Copies
  <2>3. ActiveKeepsFile
    BY DEF IInv, Spared, ActiveKeepsFile
  <2> QED BY <2>2, <2>3, ShapesAreTypes DEF IInv, FilesMatchRows
<1> QED BY <1>1, IInvAlways, PTL

\* A batch of any size that says it is done has handled all its files, and none of its
\* reviews is at work, through polls that fall between any two files and through purges
\* that take some of its rows (create_batch, add_batch_item, get_batch).
THEOREM DoneBatchesAreOver == Spec => []DoneBatchIsOver
<1>1. IInv => DoneBatchIsOver
  BY DEF IInv, BatchKept
<1> QED BY <1>1, IInvAlways, PTL
=============================================================================
