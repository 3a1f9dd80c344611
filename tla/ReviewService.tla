---------------------------- MODULE ReviewService ----------------------------
(***************************************************************************)
(* The review service of api/routes.py: review rows in SQLite, the cache   *)
(* _reviews beside them, the bounded executor with its worker threads, the *)
(* cancel handlers, the heartbeat watchdog, and the event loop, which      *)
(* recovers unfinished rows at start-up, creates reviews and shuts the     *)
(* process down.                                                           *)
(*                                                                         *)
(* Every actor runs a small program: pc[a] is its next step, rid[a] the    *)
(* review it works on, copy[a] a row it has read, to[a] the verdict it is  *)
(* about to write, next[a] where it continues after a subroutine.  One     *)
(* step is one access to shared state (an SQL statement, a cache write, a  *)
(* call of the executor); _update_review and _finalize_review are          *)
(* subroutines that several actors run.                                    *)
(*                                                                         *)
(* Time is free: a deadline may have passed at any checkpoint, and a row   *)
(* (of MayIdle) may have been idle for TASK_HEARTBEAT_TIMEOUT_SECONDS at   *)
(* any scan.                                                               *)
(* The pool's queue is a set: FIFO order is not needed for any property.   *)
(***************************************************************************)
EXTENDS ReviewStore, FiniteSets, Naturals

CONSTANTS Review,          \* review ids that may ever be created
          Worker,          \* threads of the executor's pool (TASK_MAX_WORKERS)
          Canceller,       \* request threads that run POST .../cancel
          Loop,            \* the event loop: start-up, creation, shutdown
          Watchdog,        \* the review-watchdog thread
          NoReview,        \* "no review" in rid
          QueueCapacity,   \* TASK_QUEUE_CAPACITY
          KeyOf,           \* the idempotency key a request for r carries
          MayIdle,         \* reviews whose row the watchdog may find idle
          MaxBoots         \* bound: processes started, one after the other

Actor == Worker \union Canceller \union {Loop, Watchdog}

ASSUME ServiceAssumption ==
  /\ NoReview \notin Review
  /\ Worker \intersect Canceller = {}
  /\ Loop \notin Worker \union Canceller
  /\ Watchdog \notin Worker \union Canceller
  /\ Loop # Watchdog
  /\ QueueCapacity \in Nat
  /\ MayIdle \subseteq Review
  /\ MaxBoots \in Nat

VARIABLES db,        \* durable: the row of each review
          cache,     \* volatile: _reviews, NoRow where it has no entry
          pending,   \* volatile: reviews whose future waits in the pool
          events,    \* volatile: reviews whose cancel event is set
          pc, rid, copy, to, next,
          todo,      \* what the loop's recovery or the watchdog has yet to visit
          boots

vars  == <<db, cache, pending, events, pc, rid, copy, to, next, todo, boots>>
local == <<pc, rid, copy, to, next>>

Label == {"idle", "down", "b_next", "consent", "submit", "drain",
          "w_check", "w_mark", "w_parse", "w_first", "w_rules", "w_last", "w_post", "w_end",
          "k_pre", "k_request", "k_sync", "k_executor",
          "d_next", "d_cancel",
          "upd_write", "upd_cache", "fin_db", "fin_again", "fin_sync"}

\* A note of the watchdog's scan or of the recovery loop: a review and the
\* status it had when the list was read.
Note == [review : Review, status : ActiveStatus]

TypeOK ==
  /\ db \in [Review -> Row]
  /\ cache \in [Review -> Row]
  /\ pending \in SUBSET Review
  /\ events \in SUBSET Review
  /\ pc \in [Actor -> Label]
  /\ rid \in [Actor -> Review \union {NoReview}]
  /\ copy \in [Actor -> Row]
  /\ to \in [Actor -> Status]
  /\ next \in [Actor -> Label]
  /\ todo \in [{Loop, Watchdog} -> SUBSET Note]
  /\ boots \in Nat

Quiet == [a \in Actor |-> IF a = Loop THEN "down" ELSE "idle"]

Init ==
  /\ db = [r \in Review |-> NoRow]
  /\ cache = [r \in Review |-> NoRow]
  /\ pending = {} /\ events = {}
  /\ pc = Quiet
  /\ rid = [a \in Actor |-> NoReview]
  /\ copy = [a \in Actor |-> NoRow]
  /\ to = [a \in Actor |-> "absent"]
  /\ next = [a \in Actor |-> "idle"]
  /\ todo = [a \in {Loop, Watchdog} |-> {}]
  /\ boots = 0

-----------------------------------------------------------------------------
(* Control of one actor.                                                   *)

Goto(a, l) == pc' = [pc EXCEPT ![a] = l]

\* The actor's call returns; it forgets its locals.
Return(a, l) ==
  /\ Goto(a, l)
  /\ rid'  = [rid  EXCEPT ![a] = NoReview]
  /\ copy' = [copy EXCEPT ![a] = NoRow]
  /\ to'   = [to   EXCEPT ![a] = "absent"]
  /\ next' = [next EXCEPT ![a] = "idle"]

Busy == {w \in Worker : pc[w] # "idle"}

\* The executor still holds a future for r (queued or on a thread).
Running(r) == \E w \in Busy : rid[w] = r
Held(r)    == r \in pending \/ Running(r)

Used == Cardinality(pending) + Cardinality(Busy)
Slots == Cardinality(Worker) + QueueCapacity

\* Requests are dispatched by the event loop, so only while it is free.
Serving == pc[Loop] = "idle"

\* startup_services has not returned: no requests, no watchdog.
Booting == pc[Loop] = "b_next" \/ next[Loop] = "b_next"
-----------------------------------------------------------------------------
(* _update_review: SELECT, then UPDATE by id, then the cache.              *)

\* The SELECT.  A terminal row is returned as it is, another one is changed.
ReadForUpdate(a, r, l) ==
  /\ copy' = [copy EXCEPT ![a] = IF IsTerminal(db[r]) THEN db[r] ELSE Reported(db[r])]
  /\ next' = [next EXCEPT ![a] = l]
  /\ Goto(a, IF IsTerminal(db[r]) THEN "upd_cache" ELSE "upd_write")
  /\ UNCHANGED <<db, cache, pending, events, rid, todo, boots>>

UpdWrite(a) ==
  /\ pc[a] = "upd_write"
  /\ db' = [db EXCEPT ![rid[a]] = Reported(@)]
  /\ Goto(a, "upd_cache")
  /\ UNCHANGED <<cache, pending, events, rid, copy, to, next, todo, boots>>

UpdCache(a) ==
  /\ pc[a] = "upd_cache"
  /\ cache' = [cache EXCEPT ![rid[a]] = copy[a]]
  /\ copy' = [copy EXCEPT ![a] = NoRow]
  /\ next' = [next EXCEPT ![a] = "idle"]
  /\ Goto(a, next[a])
  /\ UNCHANGED <<db, pending, events, rid, to, todo, boots>>
-----------------------------------------------------------------------------
(* _finalize_review: the conditional UPDATE; refused, perhaps a second one *)
(* with "cancelled"; after either, the row is read back into the cache.    *)

\* Where _finalize_review returns to; a worker and the watchdog go on with the
\* same review, a request and the loop's step are over.
FinalReturn(a) ==
  /\ \/ a \in Worker /\ Goto(a, "w_end") /\ UNCHANGED <<rid, copy, next>>
     \/ a = Watchdog /\ Goto(a, "d_cancel") /\ UNCHANGED <<rid, copy, next>>
     \/ /\ a \in Canceller \union {Loop}
        /\ Goto(a, next[a])
        /\ rid'  = [rid  EXCEPT ![a] = NoReview]
        /\ copy' = [copy EXCEPT ![a] = NoRow]
        /\ next' = [next EXCEPT ![a] = "idle"]
  /\ to' = [to EXCEPT ![a] = "absent"]

FinDb(a) ==
  /\ pc[a] = "fin_db"
  /\ LET ok == CanFinalize(db[rid[a]], to[a]) IN
     /\ db' = IF ok THEN [db EXCEPT ![rid[a]] = Finalized(@, to[a])] ELSE db
     /\ Goto(a, IF ok THEN "fin_sync" ELSE "fin_again")
  /\ UNCHANGED <<cache, pending, events, rid, copy, to, next, todo, boots>>

\* _get_review: the cache first, the row when the cache has no entry.
Known(r) == IF cache[r] # NoRow THEN cache[r] ELSE db[r]

Rejudge(a) ==
  /\ to[a] # "cancelled"
  /\ Known(rid[a]).status \notin TerminalStatus
  /\ Known(rid[a]).cancelRequested
  /\ CanFinalize(db[rid[a]], "cancelled")

FinAgain(a) ==
  /\ pc[a] = "fin_again"
  /\ \/ /\ Rejudge(a)
        /\ db' = [db EXCEPT ![rid[a]] = FinalizedBare(@, "cancelled")]
        /\ Goto(a, "fin_sync")
        /\ UNCHANGED <<rid, copy, to, next>>
     \/ /\ ~Rejudge(a)
        /\ FinalReturn(a)
        /\ UNCHANGED db
  /\ UNCHANGED <<cache, pending, events, todo, boots>>

\* Faulty variant: the cache gets the verdict asked for, not the row.
FinSyncAsked(a) ==
  /\ pc[a] = "fin_sync"
  /\ cache' = [cache EXCEPT ![rid[a]] = Finalized(db[rid[a]], to[a])]
  /\ FinalReturn(a)
  /\ UNCHANGED <<db, pending, events, todo, boots>>

FinSync(a) ==
  /\ pc[a] = "fin_sync"
  /\ cache' = [cache EXCEPT ![rid[a]] = db[rid[a]]]
  /\ FinalReturn(a)
  /\ UNCHANGED <<db, pending, events, todo, boots>>

\* Raise into an except clause of _execute_review, or call _finalize_review.
Settle(a, s) ==
  /\ to' = [to EXCEPT ![a] = s]
  /\ Goto(a, "fin_db")
-----------------------------------------------------------------------------
(* The executor (services/bounded_executor.py, in detail BoundedExecutor). *)

\* Faulty variant: a refused task is only logged.
SubmitOrLog(a) ==
  /\ pc[a] = "submit"
  /\ pending' = IF Used < Slots THEN pending \union {rid[a]} ELSE pending
  /\ Return(a, next[a])
  /\ UNCHANGED <<db, cache, events, todo, boots>>

\* Room in the semaphore: the future joins the queue.  Otherwise TaskQueueFull,
\* and _submit_existing finalizes the row as failed.
Submit(a) ==
  /\ pc[a] = "submit"
  /\ \/ /\ Used < Slots
        /\ pending' = pending \union {rid[a]}
        /\ Return(a, next[a])
     \/ /\ Used >= Slots
        /\ Settle(a, "failed")
        /\ UNCHANGED <<pending, rid, copy, next>>
  /\ UNCHANGED <<db, cache, events, todo, boots>>

\* cancel: set the event, and cancel the future if no thread has taken it.
CancelInExecutor(r) ==
  /\ events'  = IF Running(r) THEN events \union {r} ELSE events
  /\ pending' = pending \ {r}

\* A pool thread takes a queued future and enters the task's scope.
Take(w, r) ==
  /\ pc[w] = "idle" /\ r \in pending
  /\ pending' = pending \ {r}
  /\ rid' = [rid EXCEPT ![w] = r]
  /\ Goto(w, "w_check")
  /\ UNCHANGED <<db, cache, events, copy, to, next, todo, boots>>

\* The function has returned: cleanup forgets the event and frees the slot.
End(w) ==
  /\ pc[w] = "w_end"
  /\ events' = events \ {rid[w]}
  /\ Return(w, "idle")
  /\ UNCHANGED <<db, cache, pending, todo, boots>>
-----------------------------------------------------------------------------
(* _execute_review on a worker thread.                                     *)

\* What a checkpoint may raise: the cancel event is looked at first, then the
\* deadline of the rule or of the task.
Raised(w) == IF rid[w] \in events THEN {"cancelled"} ELSE {"timed_out"}

Passes(w) == rid[w] \notin events

\* Before mark_running: the checkpoint, and the document may be gone.
Check(w) ==
  /\ pc[w] = "w_check"
  /\ \/ Passes(w) /\ Goto(w, "w_mark") /\ UNCHANGED to
     \/ \E s \in Raised(w) : Settle(w, s)
     \/ Passes(w) /\ Settle(w, "failed")
  /\ UNCHANGED <<db, cache, pending, events, rid, copy, next, todo, boots>>

\* mark_running; a row that was cancelled or asked to be ends the task.
Mark(w) ==
  /\ pc[w] = "w_mark"
  /\ LET row == db[rid[w]] IN
     \/ /\ CanMarkRunning(row)
        /\ db' = [db EXCEPT ![rid[w]] = MarkedRunning(@)]
        /\ copy' = [copy EXCEPT ![w] = MarkedRunning(row)]
        /\ next' = [next EXCEPT ![w] = "w_parse"]
        /\ Goto(w, "upd_cache")
     \/ /\ ~CanMarkRunning(row)
        /\ Goto(w, "w_end")
        /\ UNCHANGED <<db, copy, next>>
  /\ UNCHANGED <<cache, pending, events, rid, to, todo, boots>>

\* Conversion, OCR and parsing report through heartbeats; engine.run through
\* on_rule_start, on_rule_result and heartbeats.  A rule that fails is an issue,
\* not the end of the task.
Report(w) ==
  /\ pc[w] \in {"w_parse", "w_rules"}
  /\ ReadForUpdate(w, rid[w], pc[w])
  /\ UNCHANGED to

\* The checkpoint behind parsing, or the one behind engine.run, passes.  None
\* follows the latter.
Proceed(w) ==
  /\ pc[w] \in {"w_parse", "w_rules"} /\ Passes(w)
  /\ Goto(w, IF pc[w] = "w_parse" THEN "w_first" ELSE "w_last")
  /\ UNCHANGED <<db, cache, pending, events, rid, copy, to, next, todo, boots>>

\* A checkpoint raises outside engine.run, or something fails there: conversion,
\* parsing, validation, the snapshot, the consent record.
Raise(w) ==
  /\ pc[w] \in {"w_parse", "w_rules"}
  /\ \E s \in Raised(w) \union {"failed"} : Settle(w, s)
  /\ UNCHANGED <<db, cache, pending, events, rid, copy, next, todo, boots>>

\* A checkpoint raises inside engine.run: on_rule_result reports once more on
\* the way out.
RuleRaise(w) ==
  /\ pc[w] = "w_rules"
  /\ ReadForUpdate(w, rid[w], "fin_db")
  /\ \E s \in Raised(w) : to' = [to EXCEPT ![w] = s]

\* stage="rules", or stage="finalizing", is reported.
StageReport(w) ==
  /\ \/ pc[w] = "w_first" /\ ReadForUpdate(w, rid[w], "w_rules")
     \/ pc[w] = "w_last"  /\ ReadForUpdate(w, rid[w], "w_post")
  /\ UNCHANGED to

\* The result is summed up and written, or summing it up fails.
Conclude(w) ==
  /\ pc[w] = "w_post"
  /\ \E s \in {"done", "failed"} : Settle(w, s)
  /\ UNCHANGED <<db, cache, pending, events, rid, copy, next, todo, boots>>
-----------------------------------------------------------------------------
(* cancel_review on a request thread.                                      *)

CancelRead(k, r) ==
  /\ pc[k] = "idle" /\ Serving
  /\ db[r].status # "absent"
  /\ rid' = [rid EXCEPT ![k] = r]
  /\ copy' = [copy EXCEPT ![k] = db[r]]
  /\ Goto(k, "k_pre")
  /\ UNCHANGED <<db, cache, pending, events, to, next, todo, boots>>

\* The row goes into the cache; a terminal one ends the request.  was_queued is
\* kept in next.
CancelPre(k) ==
  /\ pc[k] = "k_pre"
  /\ cache' = [cache EXCEPT ![rid[k]] = copy[k]]
  /\ \/ IsTerminal(copy[k]) /\ Return(k, "idle")
     \/ /\ ~IsTerminal(copy[k])
        /\ next' = [next EXCEPT ![k] = IF copy[k].status = "queued" THEN "fin_db" ELSE "idle"]
        /\ Goto(k, "k_request")
        /\ UNCHANGED <<rid, copy, to>>
  /\ UNCHANGED <<db, pending, events, todo, boots>>

CancelRequest(k) ==
  /\ pc[k] = "k_request"
  /\ LET row == db[rid[k]]
         new == IF CanRequestCancel(row) THEN CancelRequested(row) ELSE row
     IN /\ db' = [db EXCEPT ![rid[k]] = new]
        /\ copy' = [copy EXCEPT ![k] = new]
  /\ Goto(k, "k_sync")
  /\ UNCHANGED <<cache, pending, events, rid, to, next, todo, boots>>

CancelSync(k) ==
  /\ pc[k] = "k_sync"
  /\ cache' = [cache EXCEPT ![rid[k]] = copy[k]]
  /\ \/ IsTerminal(copy[k]) /\ Return(k, "idle")
     \/ ~IsTerminal(copy[k]) /\ Goto(k, "k_executor") /\ UNCHANGED <<rid, copy, to, next>>
  /\ UNCHANGED <<db, pending, events, todo, boots>>

\* A task that was queued, or that the executor no longer holds, is settled here;
\* another one is left to its worker.
CancelExecutor(k) ==
  /\ pc[k] = "k_executor"
  /\ CancelInExecutor(rid[k])
  /\ \/ /\ next[k] = "fin_db" \/ ~Held(rid[k])
        /\ Settle(k, "cancelled")
        /\ copy' = [copy EXCEPT ![k] = NoRow]
        /\ next' = [next EXCEPT ![k] = "idle"]
        /\ UNCHANGED rid
     \/ /\ next[k] # "fin_db" /\ Held(rid[k])
        /\ Return(k, "idle")
  /\ UNCHANGED <<db, cache, todo, boots>>
-----------------------------------------------------------------------------
(* _reap_stale_reviews on the watchdog thread.                             *)

\* Faulty variant: only running rows are looked at.
ScanRunning(S) ==
  /\ pc[Watchdog] = "idle"
  /\ pc[Loop] \notin {"down", "drain"} /\ ~Booting
  /\ S # {} /\ S \subseteq MayIdle
  /\ \A r \in S : db[r].status = "running"
  /\ todo' = [todo EXCEPT ![Watchdog] = {[review |-> r, status |-> db[r].status] : r \in S}]
  /\ Goto(Watchdog, "d_next")
  /\ UNCHANGED <<db, cache, pending, events, rid, copy, to, next, boots>>

\* One pass: the rows that were found idle too long, with the status they had.
Scan(S) ==
  /\ pc[Watchdog] = "idle"
  /\ pc[Loop] \notin {"down", "drain"} /\ ~Booting
  /\ S # {} /\ S \subseteq MayIdle
  /\ \A r \in S : db[r].status \in {"running", "cancelling"}
  /\ todo' = [todo EXCEPT ![Watchdog] = {[review |-> r, status |-> db[r].status] : r \in S}]
  /\ Goto(Watchdog, "d_next")
  /\ UNCHANGED <<db, cache, pending, events, rid, copy, to, next, boots>>

Reap(n) ==
  /\ pc[Watchdog] = "d_next" /\ n \in todo[Watchdog]
  /\ todo' = [todo EXCEPT ![Watchdog] = @ \ {n}]
  /\ rid' = [rid EXCEPT ![Watchdog] = n.review]
  /\ Settle(Watchdog, IF n.status = "cancelling" THEN "cancelled" ELSE "timed_out")
  /\ UNCHANGED <<db, cache, pending, events, copy, next, boots>>

\* The thread, if one runs, is told to stop.  At shutdown the executor is gone
\* from _task_executor and has set every event itself.
ReapCancel ==
  /\ pc[Watchdog] = "d_cancel"
  /\ \/ pc[Loop] # "drain" /\ CancelInExecutor(rid[Watchdog])
     \/ pc[Loop] = "drain" /\ UNCHANGED <<events, pending>>
  /\ Return(Watchdog, "d_next")
  /\ UNCHANGED <<db, cache, todo, boots>>

PassDone ==
  /\ pc[Watchdog] = "d_next" /\ todo[Watchdog] = {}
  /\ Goto(Watchdog, "idle")
  /\ UNCHANGED <<db, cache, pending, events, rid, copy, to, next, todo, boots>>
-----------------------------------------------------------------------------
(* The event loop: _start_review, startup_services, shutdown_services.     *)

\* Faulty variants: an equal key is not looked for; a review that is reused is
\* submitted once more.
CreateUnchecked(r) ==
  /\ Serving /\ db[r] = NoRow
  /\ db' = [db EXCEPT ![r] = NewRow]
  /\ cache' = [cache EXCEPT ![r] = NewRow]
  /\ rid' = [rid EXCEPT ![Loop] = r]
  /\ Goto(Loop, "consent")
  /\ UNCHANGED <<pending, events, copy, to, next, todo, boots>>

CreateResubmits(r) ==
  /\ Serving /\ ~IsTerminal(db[r])
  /\ \A q \in Review : IsActive(db[q]) => KeyOf[q] # KeyOf[r] \/ q = r
  /\ db' = [db EXCEPT ![r] = IF @ = NoRow THEN NewRow ELSE @]
  /\ cache' = [cache EXCEPT ![r] = db'[r]]
  /\ rid' = [rid EXCEPT ![Loop] = r]
  /\ Goto(Loop, "consent")
  /\ UNCHANGED <<pending, events, copy, to, next, todo, boots>>

\* _new_review, under _review_creation_lock: an active review with the same key
\* is reused (no step), otherwise a row and its cache entry are made.
Create(r) ==
  /\ Serving /\ db[r] = NoRow
  /\ \A q \in Review : IsActive(db[q]) => KeyOf[q] # KeyOf[r]
  /\ db' = [db EXCEPT ![r] = NewRow]
  /\ cache' = [cache EXCEPT ![r] = NewRow]
  /\ rid' = [rid EXCEPT ![Loop] = r]
  /\ Goto(Loop, "consent")
  /\ UNCHANGED <<pending, events, copy, to, next, todo, boots>>

\* The consent record is written before the task is scheduled; if it cannot be,
\* the task fails and is never scheduled.
RecordConsent ==
  /\ pc[Loop] = "consent"
  /\ \/ Goto(Loop, "submit") /\ UNCHANGED to
     \/ Settle(Loop, "failed")
  /\ UNCHANGED <<db, cache, pending, events, rid, copy, next, todo, boots>>

\* startup_services: the unfinished rows are listed.
Boot ==
  /\ pc[Loop] = "down" /\ boots < MaxBoots
  /\ boots' = boots + 1
  /\ todo' = [todo EXCEPT ![Loop] =
               {n \in Note : n.status = db[n.review].status}]
  /\ Goto(Loop, "b_next")
  /\ UNCHANGED <<db, cache, pending, events, rid, copy, to, next>>

\* One listed row: an accepted cancellation is carried out, any other row goes
\* back to the queue.  Nobody else can reach the row: requests are not served
\* yet, the watchdog is not started, no worker has been given the review.
Recover(n) ==
  /\ pc[Loop] = "b_next" /\ n \in todo[Loop]
  /\ todo' = [todo EXCEPT ![Loop] = @ \ {n}]
  /\ rid' = [rid EXCEPT ![Loop] = n.review]
  /\ next' = [next EXCEPT ![Loop] = "b_next"]
  /\ \/ /\ db[n.review].cancelRequested
        /\ Settle(Loop, "cancelled")
        /\ UNCHANGED <<db, cache>>
     \/ /\ ~db[n.review].cancelRequested
        /\ db' = [db EXCEPT ![n.review] = Requeued(@)]
        /\ cache' = [cache EXCEPT ![n.review] = Requeued(db[n.review])]
        /\ Goto(Loop, "submit")
        /\ UNCHANGED to
  /\ UNCHANGED <<pending, events, copy, boots>>

Serve ==
  /\ pc[Loop] = "b_next" /\ todo[Loop] = {}
  /\ Goto(Loop, "idle")
  /\ UNCHANGED <<db, cache, pending, events, rid, copy, to, next, todo, boots>>

\* The server has answered its requests.  Every cancel event is set and every
\* queued future is cancelled; the running threads are left to finish.
Shutdown ==
  /\ Serving /\ boots < MaxBoots
  /\ \A k \in Canceller : pc[k] = "idle"
  /\ events' = events \union {rid[w] : w \in Busy}
  /\ pending' = {}
  /\ Goto(Loop, "drain")
  /\ UNCHANGED <<db, cache, rid, copy, to, next, todo, boots>>

\* Nothing in memory survives the process.
Lost ==
  /\ cache' = [r \in Review |-> NoRow]
  /\ pending' = {} /\ events' = {}
  /\ pc' = Quiet
  /\ rid' = [a \in Actor |-> NoReview]
  /\ copy' = [a \in Actor |-> NoRow]
  /\ to' = [a \in Actor |-> "absent"]
  /\ next' = [a \in Actor |-> "idle"]
  /\ todo' = [a \in {Loop, Watchdog} |-> {}]
  /\ UNCHANGED <<db, boots>>

\* The interpreter joins the pool's threads, then exits.
Exit == pc[Loop] = "drain" /\ Busy = {} /\ Lost

Crash == pc[Loop] # "down" /\ boots < MaxBoots /\ Lost
-----------------------------------------------------------------------------
Subroutine(a) == UpdWrite(a) \/ UpdCache(a) \/ FinDb(a) \/ FinAgain(a) \/ FinSync(a)

WorkerStep(w) ==
  \/ \E r \in Review : Take(w, r)
  \/ Check(w) \/ Mark(w) \/ Report(w) \/ Proceed(w) \/ Raise(w)
  \/ RuleRaise(w) \/ StageReport(w) \/ Conclude(w) \/ End(w)

CancelStep(k) ==
  \/ \E r \in Review : CancelRead(k, r)
  \/ CancelPre(k) \/ CancelRequest(k) \/ CancelSync(k) \/ CancelExecutor(k)

WatchdogStep ==
  \/ \E S \in SUBSET Review : Scan(S)
  \/ \E n \in Note : Reap(n)
  \/ ReapCancel \/ PassDone

LoopStep ==
  \/ \E r \in Review : Create(r)
  \/ RecordConsent \/ Submit(Loop)
  \/ Boot \/ \E n \in Note : Recover(n)
  \/ Serve \/ Shutdown \/ Exit \/ Crash

Next ==
  \/ \E a \in Actor : Subroutine(a)
  \/ \E w \in Worker : WorkerStep(w)
  \/ \E k \in Canceller : CancelStep(k)
  \/ WatchdogStep
  \/ LoopStep

Spec == Init /\ [][Next]_vars

(***************************************************************************)
(* Fairness.  Threads that have something to do are scheduled; a process   *)
(* that is down is started again.  A worker leaves parsing and the rules   *)
(* (there are finitely many, and every checkpoint looks at the deadline);  *)
(* a row that nobody touches any more is found idle by some later scan.    *)
(* Nothing obliges a user to create or cancel, or the process to stop.     *)
(***************************************************************************)
LeaveParse(w) == pc[w] = "w_parse" /\ (Proceed(w) \/ Raise(w))
LeaveRules(w) == pc[w] = "w_rules" /\ (Proceed(w) \/ Raise(w) \/ RuleRaise(w))

Fairness ==
  /\ \A a \in Actor : WF_vars(Subroutine(a))
  /\ \A w \in Worker :
       /\ WF_vars(WorkerStep(w))
       /\ SF_vars(LeaveParse(w)) /\ SF_vars(LeaveRules(w))
  /\ \A k \in Canceller :
       WF_vars(CancelPre(k) \/ CancelRequest(k) \/ CancelSync(k) \/ CancelExecutor(k))
  /\ WF_vars((\E n \in Note : Reap(n)) \/ ReapCancel \/ PassDone)
  /\ \A r \in Review : SF_vars(\E S \in SUBSET Review : r \in S /\ Scan(S))
  /\ WF_vars(RecordConsent \/ Submit(Loop) \/ Boot \/ (\E n \in Note : Recover(n)) \/ Serve \/ Exit)

FairSpec == Spec /\ Fairness
-----------------------------------------------------------------------------
(* Safety.                                                                 *)

\* The rule TERMINAL_WINNING_RULE names, as a property of rows: once a cancel
\* request is accepted (request_cancel) the review is cancelling until it is
\* cancelled, whatever its worker, the watchdog and the recovery loop write.
CancelWins == \A r \in Review :
  /\ db[r].cancelRequested => db[r].status \in {"cancelling", "cancelled"}
  /\ db[r].status = "cancelling" => db[r].cancelRequested

\* find_active_review under _review_creation_lock, with recovery and verdicts
\* going on: two unfinished reviews never carry the same idempotency key.
NoDuplicateWork == \A q, r \in Review :
  IsActive(db[q]) /\ IsActive(db[r]) /\ KeyOf[q] = KeyOf[r] => q = r

\* A review is never executed twice at the same time: it is queued in the pool or
\* on one thread, not both, not on two; a restart does not double it.
ExecutedOnce ==
  /\ \A v, w \in Busy : rid[v] = rid[w] => v = w
  /\ \A r \in pending : ~Running(r)

\* The watchdog never looks at queued rows, so one that nobody holds would wait
\* for the next restart: while the service runs, every queued or running row is
\* in the executor, or the loop or the recovery list has it in hand.
ActiveIsHeld == \A r \in Review :
  pc[Loop] \notin {"down", "drain"} /\ db[r].status \in {"queued", "running"}
    => \/ Held(r) \/ rid[Loop] = r
       \/ \E n \in todo[Loop] : n.review = r

\* A verdict that GET /reviews/{id} shows is the verdict in the database: whatever
\* late cache writes happen, the cache never invents a terminal status.
ShownVerdictIsStored == \A r \in Review :
  IsTerminal(cache[r]) => db[r].status = cache[r].status

\* What the service promises of every status: ReviewLifecycle.
Life == INSTANCE ReviewLifecycle WITH life <- [r \in Review |-> db[r].status]
ImplementsLifecycle == Life!Spec
-----------------------------------------------------------------------------
(* The inductive invariant behind the safety theorems.                     *)

Finalizing == {"fin_db", "fin_again", "fin_sync"}
Marked     == {"w_parse", "w_first", "w_rules", "w_last", "w_post", "upd_write", "upd_cache"}

\* Each actor stays in its own program, has a review in hand where the program
\* needs one, and a verdict to write where it writes one.
Control ==
  /\ \A w \in Worker :
       /\ pc[w] \in {"idle", "w_check", "w_mark", "w_end"} \union Marked \union Finalizing
       /\ pc[w] # "idle" => rid[w] \in Review
       /\ pc[w] \in {"upd_write", "upd_cache"} =>
            /\ next[w] \in {"w_parse", "w_rules", "w_post", "fin_db"}
            /\ next[w] = "fin_db" => to[w] \in TerminalStatus
  /\ \A k \in Canceller :
       /\ pc[k] \in {"idle", "k_pre", "k_request", "k_sync", "k_executor"} \union Finalizing
       /\ pc[k] # "idle" => rid[k] \in Review
       /\ pc[k] \in {"k_request", "k_sync", "k_executor"} => next[k] \in {"idle", "fin_db"}
       /\ pc[k] \in {"idle", "k_pre"} \union Finalizing => next[k] = "idle"
  /\ pc[Watchdog] \in {"idle", "d_next", "d_cancel"} \union Finalizing
  /\ pc[Watchdog] \notin {"idle", "d_next"} => rid[Watchdog] \in Review
  /\ pc[Loop] \in {"down", "b_next", "idle", "consent", "submit", "drain"} \union Finalizing
  /\ next[Loop] \in {"idle", "b_next"}
  /\ pc[Loop] \in {"down", "b_next", "idle", "drain", "consent"} => next[Loop] = "idle"
  /\ pc[Loop] \in {"consent", "submit"} \union Finalizing => rid[Loop] \in Review
  /\ pc[Loop] \in {"down", "b_next", "idle", "drain"} => rid[Loop] = NoReview
  /\ \A a \in Actor : pc[a] \in Finalizing => to[a] \in TerminalStatus
  /\ \A a \in Actor : to[a] = "done" => a \in Worker /\ pc[a] \in Finalizing

\* Who may touch which row.  Whatever the executor holds has a row.
HeldHasRow == \A r \in Review : Held(r) => db[r].status # "absent"

\* A worker past mark_running has a row that left the queue.
MarkedLeftQueue == \A w \in Worker :
  pc[w] \in Marked \/ to[w] = "done" => db[rid[w]].status \notin {"absent", "queued"}

\* A review on its way to the pool is not in it yet.
SubmittedOnce ==
  pc[Loop] \in {"consent", "submit"} => ~Held(rid[Loop]) /\ db[rid[Loop]].status # "absent"

\* Recovery runs before any request and before the watchdog.
BootsAlone == Booting => \A a \in Canceller \union {Watchdog} : pc[a] = "idle"

DownIsEmpty == pc[Loop] = "down" =>
  /\ Busy = {} /\ pending = {}
  /\ \A a \in Canceller \union {Watchdog} : pc[a] = "idle"

\* What recovery has yet to visit is as it was listed, and nobody else's.
ListedIsUntouched == \A n \in todo[Loop] :
  /\ Booting /\ db[n.review].status = n.status
  /\ ~Held(n.review) /\ rid[Loop] # n.review

Ownership ==
  /\ ExecutedOnce /\ HeldHasRow /\ MarkedLeftQueue /\ SubmittedOnce
  /\ BootsAlone /\ DownIsEmpty /\ ListedIsUntouched

IInv == TypeOK /\ Control /\ CancelWins /\ Ownership
-----------------------------------------------------------------------------
(* Liveness.                                                               *)

\* Every review that was created ends in a verdict, across crashes, shutdowns
\* and cancellations that race the worker.
EverySettles == \A r \in Review : IsActive(db[r]) ~> IsTerminal(db[r])

=============================================================================
