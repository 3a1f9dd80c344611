--------------------------- MODULE DocumentStore ---------------------------
(***************************************************************************)
(* Documents from upload to clean-up: the files on disk, the rows that     *)
(* name them, the reviews and the batch made of them, the reports written  *)
(* for them, and the retention clean-up that removes all of it             *)
(* (api/routes.py, services/review_store.py).                              *)
(*                                                                         *)
(* Upload, review and batch requests are coroutines of one event loop:     *)
(* between two awaits no other of them runs, and the only awaits are the   *)
(* reads of uploaded files.  The clean-up, the polling of a batch and the  *)
(* reports are threads, and so are the workers; they run at any time.      *)
(*                                                                         *)
(* Ids grow and are never reused.  Which statuses a worker gives and when  *)
(* is ReviewService's subject; here a review is active, done or ended      *)
(* otherwise.  Ownership is left out: one owner uploads.                   *)
(***************************************************************************)
EXTENDS Integers, FiniteSets

CONSTANTS Content,             \* what is in a file: its SHA-256
          MaxDoc, MaxReview,   \* bounds: documents and reviews ever made
          BatchSize,           \* files of the batch
          MaxCleanups, MaxCrashes

ASSUME DocumentAssumption ==
  /\ MaxDoc \in Nat \ {0} /\ MaxReview \in Nat \ {0} /\ BatchSize \in Nat \ {0}
  /\ BatchSize <= MaxDoc /\ BatchSize <= MaxReview     \* room for the batch
  /\ MaxCleanups \in Nat /\ MaxCrashes \in Nat

VARIABLES docs, revs,      \* rows of documents and review_tasks
          disk,            \* files
          batch,           \* the row of review_batches and its items
          docCache,        \* _documents
          next,            \* ids to be given next
          loop,            \* the coroutine at work
          feeding,         \* the number of the file create_batch awaits, 0: not running
          cleaner, reader, \* the threads of clean-up and of reports
          strays, used     \* history: files that lost their row; clean-ups and crashes

vars == <<docs, revs, disk, batch, docCache, next, loop, feeding, cleaner, reader, strays, used>>
rows == <<docs, revs, batch>>

Doc == 1..MaxDoc
Review == 1..MaxReview
None == 0
Max(S) == CHOOSE x \in S : \A y \in S : x >= y

\* old: the time stamps are beyond the retention period.
DocRow == [content : Content, old : BOOLEAN]
\* late: history, made while a clean-up had the document on its list, or without its file.
RevRow == [doc : Doc, status : {"active", "done", "ended"}, old : BOOLEAN, late : BOOLEAN]

\* A DOCX's converted PDF goes with its original.
File == {"original"} \X Doc \union {"report"} \X Review

Item   == [there : BOOLEAN, doc : Doc \union {None}, review : Review \union {None}]
NoItem == [there |-> FALSE, doc |-> None, review |-> None]
Failed == [NoItem EXCEPT !.there = TRUE]

Idle   == [at |-> "idle"]
Resting == [at |-> "idle", cand |-> {}, ids |-> {}, todo |-> {}, good |-> {}, read |-> {}]

Docs == DOMAIN docs
Revs == DOMAIN revs
Present(kind, id) == <<kind, id>> \in disk
TasksOf(d)  == {r \in Revs : revs[r].doc = d}
Terminal(r) == revs[r].status # "active"

TypeOK ==
  /\ Docs \subseteq Doc /\ docs \in [Docs -> DocRow]
  /\ Revs \subseteq Review /\ revs \in [Revs -> RevRow]
  /\ \A r \in Revs : revs[r].doc \in Docs                       \* the foreign key
  /\ disk \subseteq File /\ strays \subseteq File
  /\ batch \in [status : {"none", "running", "done", "deleted"},
                items : [1..BatchSize -> Item], made : BOOLEAN]
  /\ docCache \subseteq Doc /\ next \in [doc : 1..MaxDoc + 1, review : 1..MaxReview + 1]
  /\ feeding \in 0..BatchSize
  /\ cleaner.good \subseteq cleaner.cand /\ cleaner.todo \subseteq cleaner.cand
  /\ loop.at \in {"idle", "look", "store", "insert", "start", "item"}
  /\ reader.at \in {"idle", "report"}
  /\ used \in [cleanups : 0..MaxCleanups, crashes : 0..MaxCrashes]

Init ==
  /\ docs = [d \in {} |-> None] /\ revs = [r \in {} |-> None] /\ disk = {}
  /\ batch = [status |-> "none", items |-> [i \in 1..BatchSize |-> NoItem],
              made |-> FALSE]
  /\ docCache = {} /\ next = [doc |-> 1, review |-> 1]
  /\ loop = Idle /\ feeding = 0
  /\ cleaner = Resting /\ reader = Idle
  /\ strays = {} /\ used = [cleanups |-> 0, crashes |-> 0]
-----------------------------------------------------------------------------
(* Uploading: _save_upload, once the last chunk has been read.             *)

Extend(f, x, v) == [y \in DOMAIN f \union {x} |-> IF y = x THEN v ELSE f[y]]
Without(f, S)   == [y \in DOMAIN f \ S |-> f[y]]

\* How many ids the batch may still need: the bounds keep room for it.
Reserved == IF batch.status = "none" THEN BatchSize
            ELSE IF feeding = 0 THEN 0 ELSE BatchSize - feeding + 1

Handling(content, inBatch) == [at |-> "look", content |-> content, inBatch |-> inBatch]

Upload(c) ==
  /\ loop = Idle /\ next.doc + Reserved <= MaxDoc
  /\ loop' = Handling(c, FALSE)
  /\ UNCHANGED <<rows, disk, docCache, feeding, cleaner, reader, strays, next, used>>

\* What follows once document d is there: the answer, or the batch's next call.
Uploaded(d) == IF loop.inBatch THEN [at |-> "start", doc |-> d, inBatch |-> TRUE] ELSE Idle

\* Faulty variant: only what this process uploaded is looked through.
ExistingCached(c) ==
  {d \in docCache \intersect Docs : docs[d].content = c /\ Present("original", d)}

\* find_document_by_sha256 returns the newest, which counts if its file exists.
Existing(c) ==
  {d \in Docs : /\ docs[d].content = c /\ Present("original", d)
                /\ \A e \in Docs : docs[e].content = c => e <= d}

Look ==
  /\ loop.at = "look"
  /\ IF Existing(loop.content) # {}
     THEN \E d \in Existing(loop.content) :
            /\ docCache' = docCache \union {d}
            /\ loop' = Uploaded(d)
     ELSE /\ loop' = [loop EXCEPT !.at = "store"]
          /\ UNCHANGED docCache
  /\ UNCHANGED <<rows, disk, feeding, cleaner, reader, strays, next, used>>

Store ==
  /\ loop.at = "store"
  /\ disk' = disk \union {<<"original", next.doc>>}
  /\ next' = [next EXCEPT !.doc = @ + 1]
  /\ loop' = [at |-> "insert", content |-> loop.content, inBatch |-> loop.inBatch, doc |-> next.doc]
  /\ UNCHANGED <<rows, docCache, feeding, cleaner, reader, strays, used>>

\* create_document.
Insert ==
  /\ loop.at = "insert"
  /\ docs' = Extend(docs, loop.doc, [content |-> loop.content, old |-> FALSE])
  /\ docCache' = docCache \union {loop.doc}
  /\ loop' = Uploaded(loop.doc)
  /\ UNCHANGED <<revs, disk, batch, feeding, cleaner, reader, strays, next, used>>
-----------------------------------------------------------------------------
(* Starting a review, alone or of a batch's file.                          *)

\* create_review: _get_document prefers the cache.
AskReview(d) ==
  /\ loop = Idle /\ d \in docCache \union Docs /\ next.review + Reserved <= MaxReview
  /\ loop' = [at |-> "start", doc |-> d, inBatch |-> FALSE]
  /\ UNCHANGED <<rows, disk, docCache, feeding, cleaner, reader, strays, next, used>>

Started(d, r) == IF loop.inBatch
                 THEN [at |-> "item", item |-> [there |-> TRUE, doc |-> d, review |-> r]]
                 ELSE Idle
NotStarted    == IF loop.inBatch THEN [at |-> "item", item |-> Failed] ELSE Idle

\* The key is made of the content: an active review of another copy is reused.
Reusable(d) == {r \in Revs : ~Terminal(r) /\ docs[revs[r].doc].content = docs[d].content}

\* _start_review: the document is unknown or its row gone (the foreign key); or the
\* review is reused; or it is made, and ends at once if the queue is full or the
\* consent cannot be recorded.
Start ==
  /\ loop.at = "start"
  /\ LET d == loop.doc IN
     \/ /\ d \notin Docs
        /\ loop' = NotStarted
        /\ UNCHANGED <<revs, next>>
     \/ /\ d \in Docs
        /\ \E r \in Reusable(d) : loop' = Started(d, r)
        /\ UNCHANGED <<revs, next>>
     \/ /\ d \in Docs /\ Reusable(d) = {}
        /\ \E status \in {"active", "ended"} :
             /\ revs' = Extend(revs, next.review,
                  [doc |-> d, status |-> status, old |-> FALSE,
                   late |-> d \in cleaner.cand \/ ~Present("original", d)])
             /\ next' = [next EXCEPT !.review = @ + 1]
             /\ loop' = IF status = "active" THEN Started(d, next.review) ELSE NotStarted
  /\ UNCHANGED <<docs, disk, batch, docCache, feeding, cleaner, reader, strays, used>>

\* The worker ends a review, one way or the other.
Finish(r, status) ==
  /\ r \in Revs /\ ~Terminal(r)
  /\ revs' = [revs EXCEPT ![r].status = status]
  /\ UNCHANGED <<docs, disk, batch, docCache, loop, feeding, cleaner, reader, strays, next, used>>
-----------------------------------------------------------------------------
(* Batches: create_batch and get_batch.                                    *)

CreateBatch ==
  /\ loop = Idle /\ batch.status = "none"
  /\ batch' = [batch EXCEPT !.status = "running"]
  /\ feeding' = 1
  /\ UNCHANGED <<docs, revs, disk, docCache, loop, cleaner, reader, strays, next, used>>

\* The next file has been read: _save_upload goes on with it, or refuses it.
NextFile ==
  /\ loop = Idle /\ feeding # 0
  /\ \/ \E c \in Content : loop' = Handling(c, TRUE)
     \/ loop' = [at |-> "item", item |-> Failed]
  /\ UNCHANGED <<rows, disk, docCache, feeding, cleaner, reader, strays, next, used>>

BatchRow == batch.status \in {"running", "done"}
Refers(item) == item.review # None => item.review \in Revs /\ item.doc \in Docs

\* add_batch_item; if its foreign keys refuse the item, once more without them; if
\* they refuse the batch, the request fails.
AddItem ==
  /\ loop.at = "item"
  /\ IF BatchRow
     THEN /\ batch' = [batch EXCEPT !.items[feeding] = IF Refers(loop.item) THEN loop.item ELSE Failed,
                                    !.made = feeding = BatchSize]
          /\ feeding' = IF feeding = BatchSize THEN 0 ELSE feeding + 1
     ELSE feeding' = 0 /\ UNCHANGED batch
  /\ loop' = Idle
  /\ UNCHANGED <<docs, revs, disk, docCache, cleaner, reader, strays, next, used>>

Items == {i \in 1..BatchSize : batch.items[i].there}

\* Faulty variant: an item whose review was started counts.
CountsStarted(i) == batch.items[i].review # None \/ batch.items[i] = Failed

\* Faulty variant: a file that was refused never counts.
CountsReviewed(i) == batch.items[i].review \in Revs /\ Terminal(batch.items[i].review)

Counts(i) == IF batch.items[i].review = None THEN batch.items[i] = Failed
             ELSE batch.items[i].review \in Revs /\ Terminal(batch.items[i].review)

\* get_batch: every poll recomputes done_count; done stays done.
PollBatch ==
  /\ BatchRow
  /\ LET count == Cardinality({i \in Items : Counts(i)}) IN
       batch' = [batch EXCEPT !.status = IF count = BatchSize THEN "done" ELSE @]
  /\ UNCHANGED <<docs, revs, disk, docCache, loop, feeding, cleaner, reader, strays, next, used>>
-----------------------------------------------------------------------------
(* Reports of a review.                                                    *)

\* download_annotated_pdf and download_review_report: the review is done and its
\* source is there.
AskReport(r) ==
  /\ reader = Idle /\ r \in Revs /\ revs[r].status = "done"
  /\ Present("original", revs[r].doc) /\ ~Present("report", r)
  /\ reader' = [at |-> "report", id |-> r]
  /\ UNCHANGED <<rows, disk, docCache, loop, feeding, cleaner, strays, next, used>>

\* The file appears, whatever has become of the review meanwhile.
WriteReport ==
  /\ reader # Idle
  /\ LET file == <<"report", reader.id>> IN
       /\ disk' = disk \union {file}
       /\ strays' = IF reader.id \in Revs /\ cleaner = Resting THEN strays ELSE strays \union {file}
  /\ reader' = Idle
  /\ UNCHANGED <<rows, docCache, loop, feeding, cleaner, next, used>>
-----------------------------------------------------------------------------
(* The clean-up: cleanup_retained_data without dry_run.                    *)

\* Faulty variant: a document is idle if one of its reviews is.
IdleSome(d) == IF TasksOf(d) = {} THEN docs[d].old
               ELSE \E r \in TasksOf(d) : Terminal(r) /\ revs[r].old

\* retention_candidates: no review is active and the last use is long ago.
IdleLong(d) == IF TasksOf(d) = {} THEN docs[d].old
               ELSE \A r \in TasksOf(d) : Terminal(r) /\ revs[r].old

ListCandidates ==
  /\ cleaner = Resting /\ used.cleanups < MaxCleanups
  /\ LET cand == {d \in Docs : IdleLong(d)} IN
       /\ cand # {}
       /\ cleaner' = [Resting EXCEPT !.at = "unlink", !.cand = cand, !.todo = cand,
                                     !.ids = {r \in Revs : revs[r].doc \in cand}]
  /\ used' = [used EXCEPT !.cleanups = @ + 1]
  /\ UNCHANGED <<rows, disk, docCache, loop, feeding, reader, strays, next>>

\* The paths listed for a candidate: those of its row, and two reports for each review.
Paths(d) == {<<"original", d>>}
              \union {<<"report", r>> : r \in cleaner.ids \intersect TasksOf(d)}

\* Faulty variant: a file that cannot be removed is only logged.
PurgeableAnyway(d, kept) == TRUE

\* candidate_failed: then the rows stay, whatever was removed.
Purgeable(d, kept) == kept = {}

Unlink(d) ==
  /\ cleaner.at = "unlink" /\ d \in cleaner.todo
  /\ \E kept \in SUBSET (Paths(d) \intersect disk) :
       /\ disk' = disk \ (Paths(d) \ kept)
       /\ cleaner' = [cleaner EXCEPT !.todo = @ \ {d},
                                     !.good = IF Purgeable(d, kept) THEN @ \union {d} ELSE @]
  /\ UNCHANGED <<rows, docCache, loop, feeding, reader, strays, next, used>>

\* purge_documents reads the reviews to delete outside any transaction.
PurgeRead ==
  /\ cleaner.at = "unlink" /\ cleaner.todo = {}
  /\ cleaner' = IF cleaner.good = {} THEN Resting
                ELSE [cleaner EXCEPT !.at = "purge",
                                     !.read = {r \in Revs : revs[r].doc \in cleaner.good}]
  /\ UNCHANGED <<rows, disk, docCache, loop, feeding, reader, strays, next, used>>

\* Faulty variant: foreign keys are not enforced.
PurgedRegardless == FALSE

\* A review made since then keeps its document by the foreign key.
PurgeRefused == \E r \in Revs \ cleaner.read : revs[r].doc \in cleaner.good

\* purge_documents' transaction: all of it or nothing.
Purge ==
  /\ cleaner.at = "purge"
  /\ LET gone == cleaner.good
         left == [i \in 1..BatchSize |->
                    IF batch.items[i].doc \in gone \/ batch.items[i].review \in cleaner.read
                    THEN NoItem ELSE batch.items[i]]
     IN
     IF PurgeRefused
     THEN /\ cleaner' = Resting
          /\ UNCHANGED <<rows, strays>>
     ELSE /\ docs' = Without(docs, gone)
          /\ revs' = Without(revs, cleaner.read)
          /\ batch' = [batch EXCEPT !.items = left,
                         !.status = IF BatchRow /\ \A i \in 1..BatchSize : ~left[i].there
                                    THEN "deleted" ELSE @]
          /\ strays' = strays \union {f \in disk : f[1] = "report" /\ f[2] \in cleaner.read \ cleaner.ids}
          /\ cleaner' = [cleaner EXCEPT !.at = "forget"]
  /\ UNCHANGED <<disk, docCache, loop, feeding, reader, next, used>>

\* The caches forget what was listed.
Forget ==
  /\ cleaner.at = "forget"
  /\ docCache' = docCache \ cleaner.good
  /\ cleaner' = Resting
  /\ UNCHANGED <<rows, disk, loop, feeding, reader, strays, next, used>>
-----------------------------------------------------------------------------
\* A retention period goes by: whatever is not active is old.
Age ==
  /\ \E d \in Docs : ~docs[d].old \/ \E r \in TasksOf(d) : Terminal(r) /\ ~revs[r].old
  /\ docs' = [d \in Docs |-> [docs[d] EXCEPT !.old = TRUE]]
  /\ revs' = [r \in Revs |-> [revs[r] EXCEPT !.old = Terminal(r)]]
  /\ UNCHANGED <<batch, disk, docCache, loop, feeding, cleaner, reader, strays, next, used>>

\* The process dies and starts again; active reviews are recovered.
Crash ==
  /\ used.crashes < MaxCrashes
  /\ used' = [used EXCEPT !.crashes = @ + 1]
  /\ docCache' = {}
  /\ loop' = Idle /\ feeding' = 0 /\ cleaner' = Resting /\ reader' = Idle
  /\ strays' = strays \union (IF loop.at = "insert" THEN {<<"original", loop.doc>>} ELSE {})
  /\ UNCHANGED <<rows, disk, next>>
-----------------------------------------------------------------------------
Next ==
  \/ \E c \in Content : Upload(c)
  \/ Look \/ Store \/ Insert
  \/ \E d \in Doc : AskReview(d)
  \/ Start
  \/ \E r \in Review, status \in {"done", "ended"} : Finish(r, status)
  \/ CreateBatch \/ NextFile \/ AddItem \/ PollBatch
  \/ \E r \in Review : AskReport(r)
  \/ WriteReport
  \/ ListCandidates \/ (\E d \in Doc : Unlink(d)) \/ PurgeRead \/ Purge \/ Forget
  \/ Age \/ Crash

\* The loop goes on, files arrive, workers end what they have, and the page polls.
Fairness ==
  /\ WF_vars(Look \/ Store \/ Insert \/ Start \/ AddItem)
  /\ SF_vars(NextFile)
  /\ \A r \in Review : WF_vars(\E status \in {"done", "ended"} : Finish(r, status))
  /\ WF_vars(PollBatch)

Spec == Init /\ [][Next]_vars /\ Fairness
-----------------------------------------------------------------------------
(* Properties.                                                             *)

\* Uploading the same content again, alone or in batches, never makes a second copy
\* while the first has its file (_save_upload: find, replace and insert run without
\* an await between them).
OneCopy == \A d, e \in Docs :
  docs[d].content = docs[e].content /\ Present("original", d) /\ Present("original", e) => d = e

\* A review that is at work keeps its document and its file, unless it was made while
\* a clean-up had the document on its list, or of a document a clean-up left without
\* its file (README.md: active tasks are not cleaned).
ActiveKeepsFile == \A r \in Revs :
  revs[r].status = "active" /\ ~revs[r].late => Present("original", revs[r].doc)

\* Whatever the clean-up removed, its material is gone: a file without a row is one
\* whose upload is between the two, or that a report or an upload left there while
\* the clean-up ran or the process died.
NothingLeftBehind == \A f \in disk :
  \/ f[2] \in (IF f[1] = "report" THEN Revs ELSE Docs)
  \/ f \in strays
  \/ loop.at = "insert" /\ f = <<"original", loop.doc>>

\* What is on disk and what the rows say go together, whatever clean-ups, uploads,
\* reports and crashes overlap: one copy of a content, a file for every review at
\* work, and none of what was removed.  The types are part of it.
FilesMatchRows == TypeOK /\ OneCopy /\ ActiveKeepsFile /\ NothingLeftBehind

\* A batch that says it is done has handled all its files, and none of its reviews is
\* still at work, through polls that fall between any two files and through purges.
DoneBatchIsOver == batch.status = "done" =>
  /\ batch.made /\ feeding = 0
  /\ \A i \in Items : batch.items[i].review # None => Terminal(batch.items[i].review)

\* A batch becomes done unless the process died or a clean-up removed some of it.
Damaged == used.crashes > 0 \/ batch.status = "deleted" \/ \E i \in 1..BatchSize :
             batch.made /\ ~batch.items[i].there
BatchSettles == (batch.status = "running") ~> (batch.status = "done" \/ Damaged)

\* README.md, 数据保留: only documents whose tasks are terminal are candidates; active tasks
\* are not cleaned.
ActiveNotPurged == [][\A r \in Revs : revs[r].status = "active" => r \in DOMAIN revs']_vars
=============================================================================
