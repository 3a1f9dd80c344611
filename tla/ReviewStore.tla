----------------------------- MODULE ReviewStore -----------------------------
(***************************************************************************)
(* The row of one review task (table review_tasks) and the statements the  *)
(* repository runs on it (services/review_store.py).                       *)
(*                                                                         *)
(* A row keeps the fields that decide what may happen to it next.  The     *)
(* columns a page shows while a task runs (stage, progress, current_rule,  *)
(* rule_status_json) are one field, "stage": "working" stands for whatever *)
(* a progress report wrote, "settled" for what a terminal write put there. *)
(* Each operator below is one SQL statement, so it is atomic; what a       *)
(* function of the store does around it (a SELECT before an UPDATE) is     *)
(* split into steps by the modules that use it.                            *)
(***************************************************************************)

TerminalStatus == {"done", "failed", "cancelled", "timed_out"}
ActiveStatus   == {"queued", "running", "cancelling"}
Status         == {"absent"} \union ActiveStatus \union TerminalStatus

Stage == {"none", "queued", "recovered", "parsing", "working", "cancelling", "settled"}

Row == [status : Status, cancelRequested : BOOLEAN, stage : Stage]

\* A review id that has no row (and no entry in a cache).
NoRow == [status |-> "absent", cancelRequested |-> FALSE, stage |-> "none"]

IsActive(row)   == row.status \in ActiveStatus
IsTerminal(row) == row.status \in TerminalStatus

\* create_review
NewRow == [status |-> "queued", cancelRequested |-> FALSE, stage |-> "queued"]

\* Faulty variants, for the mutants of the project: the WHERE clause of a statement
\* loses one condition, or a column is confused with another.
FinalizesOverCancel(row, s) == IsActive(row)
FinalizesTwice(row, s) == s = "cancelled" \/ ~row.cancelRequested
RequeuedAsStage(row) == [row EXCEPT !.status = "recovered"]

\* mark_running: UPDATE ... WHERE status IN active AND NOT cancel_requested.
CanMarkRunning(row) == IsActive(row) /\ ~row.cancelRequested
MarkedRunning(row)  == [row EXCEPT !.status = "running", !.stage = "parsing"]

\* finalize: UPDATE ... WHERE status NOT IN terminal, and for any status but
\* "cancelled" AND NOT cancel_requested.
CanFinalize(row, s) == IsActive(row) /\ (s = "cancelled" \/ ~row.cancelRequested)
Finalized(row, s)   == [row EXCEPT !.status = s, !.stage = "settled"]

\* finalize with no other column: the verdict falls, the display stays.
FinalizedBare(row, s) == [row EXCEPT !.status = s]

\* request_cancel: UPDATE ... WHERE status NOT IN terminal.
CanRequestCancel(row) == IsActive(row)
CancelRequested(row)  ==
  [row EXCEPT !.status = "cancelling", !.cancelRequested = TRUE, !.stage = "cancelling"]

\* The UPDATE at the end of update_review: it names only the columns that the
\* caller changed, so a progress report leaves status and cancel_requested alone.
Reported(row) == [row EXCEPT !.stage = "working"]

\* update_review(status="queued", stage="recovered") of the recovery loop.
Requeued(row) == [row EXCEPT !.status = "queued", !.stage = "recovered"]

=============================================================================
