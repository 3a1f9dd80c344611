------------------------- MODULE ReviewServiceProofs -------------------------
(***************************************************************************)
(* Proofs about ReviewService, for any number of reviews, worker threads,  *)
(* request threads, queue slots and restarts.                              *)
(***************************************************************************)
EXTENDS ReviewService, TLAPS

\* What the statements of the store make of a row is a row.
LEMMA RowOperators ==
  ASSUME NEW row \in Row, NEW s \in Status
  PROVE  /\ Reported(row) \in Row /\ MarkedRunning(row) \in Row
         /\ CancelRequested(row) \in Row /\ Requeued(row) \in Row
         /\ Finalized(row, s) \in Row /\ FinalizedBare(row, s) \in Row
BY DEF Row, Stage, Status, ActiveStatus, TerminalStatus, Reported, MarkedRunning,
       CancelRequested, Requeued, Finalized, FinalizedBare

LEMMA RowConstants == NoRow \in Row /\ NewRow \in Row
BY DEF Row, Stage, Status, ActiveStatus, TerminalStatus, NoRow, NewRow

LEMMA ActorClasses ==
  /\ Worker \subseteq Actor /\ Canceller \subseteq Actor
  /\ Loop \in Actor /\ Watchdog \in Actor
BY DEF Actor

LEMMA TypeInit == Init => TypeOK
BY RowConstants, ActorClasses DEF Init, TypeOK, Quiet, Label, Status, Note

\* Every step keeps every variable in its type.
LEMMA TypeStep == ASSUME TypeOK, Control, [Next]_vars PROVE TypeOK'
<1> USE RowOperators, RowConstants, ActorClasses
<1>1. ASSUME NEW a \in Actor, UpdWrite(a) PROVE TypeOK'
  BY <1>1 DEF TypeOK, Control, UpdWrite, Goto, Label
<1>2. ASSUME NEW a \in Actor, UpdCache(a) PROVE TypeOK'
  BY <1>2 DEF TypeOK, UpdCache, Goto, Label
<1>3. ASSUME NEW a \in Actor, FinDb(a) PROVE TypeOK'
  BY <1>3 DEF TypeOK, FinDb, Goto, Label
<1>4. ASSUME NEW a \in Actor, FinAgain(a) PROVE TypeOK'
  BY <1>4 DEF TypeOK, FinAgain, FinalReturn, Goto, Label, Status, TerminalStatus
<1>5. ASSUME NEW a \in Actor, FinSync(a) PROVE TypeOK'
  BY <1>5 DEF TypeOK, Control, FinSync, FinalReturn, Goto, Label, Status, Finalizing, Actor
<1>6. ASSUME NEW w \in Worker, NEW r \in Review, Take(w, r) PROVE TypeOK'
  BY <1>6 DEF TypeOK, Take, Goto, Label
<1>7. ASSUME NEW w \in Worker, Check(w) PROVE TypeOK'
  BY <1>7 DEF TypeOK, Check, Settle, Raised, Goto, Label, Status, TerminalStatus
<1>8. ASSUME NEW w \in Worker, Mark(w) PROVE TypeOK'
  BY <1>8 DEF TypeOK, Control, Mark, Goto, Label
<1>9. ASSUME NEW w \in Worker, Report(w) PROVE TypeOK'
  BY <1>9 DEF TypeOK, Control, Report, ReadForUpdate, Goto, Label
<1>10. ASSUME NEW w \in Worker, Proceed(w) PROVE TypeOK'
  BY <1>10 DEF TypeOK, Proceed, Goto, Label
<1>11. ASSUME NEW w \in Worker, Raise(w) PROVE TypeOK'
  BY <1>11 DEF TypeOK, Raise, Settle, Raised, Goto, Label, Status, TerminalStatus
<1>12. ASSUME NEW w \in Worker, RuleRaise(w) PROVE TypeOK'
  BY <1>12 DEF TypeOK, Control, RuleRaise, ReadForUpdate, Raised, Goto, Label, Status, TerminalStatus
<1>13. ASSUME NEW w \in Worker, StageReport(w) PROVE TypeOK'
  BY <1>13 DEF TypeOK, Control, StageReport, ReadForUpdate, Goto, Label
<1>14. ASSUME NEW w \in Worker, Conclude(w) PROVE TypeOK'
  BY <1>14 DEF TypeOK, Conclude, Settle, Goto, Label, Status, TerminalStatus
<1>15. ASSUME NEW w \in Worker, End(w) PROVE TypeOK'
  BY <1>15 DEF TypeOK, End, Return, Goto, Label, Status
<1>16. ASSUME NEW k \in Canceller, NEW r \in Review, CancelRead(k, r) PROVE TypeOK'
  BY <1>16 DEF TypeOK, CancelRead, Goto, Label
<1>17. ASSUME NEW k \in Canceller, CancelPre(k) PROVE TypeOK'
  <2>1. cache' \in [Review -> Row]
    BY <1>17 DEF TypeOK, CancelPre
  <2>2. CASE IsTerminal(copy[k]) /\ Return(k, "idle")
    BY <1>17, <2>1, <2>2 DEF TypeOK, CancelPre, Return, Goto, Label, Status
  <2>3. CASE ~(IsTerminal(copy[k]) /\ Return(k, "idle"))
    BY <1>17, <2>1, <2>3 DEF TypeOK, CancelPre, Goto, Label
  <2> QED BY <2>2, <2>3
<1>18. ASSUME NEW k \in Canceller, CancelRequest(k) PROVE TypeOK'
  BY <1>18 DEF TypeOK, Control, CancelRequest, Goto, Label
<1>19. ASSUME NEW k \in Canceller, CancelSync(k) PROVE TypeOK'
  <2>1. cache' \in [Review -> Row]
    BY <1>19 DEF TypeOK, CancelSync
  <2>2. CASE IsTerminal(copy[k]) /\ Return(k, "idle")
    BY <1>19, <2>1, <2>2 DEF TypeOK, CancelSync, Return, Goto, Label, Status
  <2>3. CASE ~(IsTerminal(copy[k]) /\ Return(k, "idle"))
    BY <1>19, <2>1, <2>3 DEF TypeOK, CancelSync, Goto, Label
  <2> QED BY <2>2, <2>3
<1>20. ASSUME NEW k \in Canceller, CancelExecutor(k) PROVE TypeOK'
  BY <1>20 DEF TypeOK, Control, CancelExecutor, CancelInExecutor, Settle, Return, Goto, Label, Status, TerminalStatus
<1>21. ASSUME NEW S \in SUBSET Review, Scan(S) PROVE TypeOK'
  BY <1>21 DEF TypeOK, Scan, Goto, Label, Note, ActiveStatus
<1>22. ASSUME NEW n \in Note, Reap(n) PROVE TypeOK'
  BY <1>22 DEF TypeOK, Reap, Settle, Goto, Label, Status, TerminalStatus, Note
<1>23. CASE ReapCancel
  BY <1>23 DEF TypeOK, Control, ReapCancel, CancelInExecutor, Return, Goto, Label, Status
<1>24. CASE PassDone
  BY <1>24 DEF TypeOK, PassDone, Goto, Label
<1>25. ASSUME NEW r \in Review, Create(r) PROVE TypeOK'
  BY <1>25 DEF TypeOK, Create, Goto, Label
<1>26. CASE RecordConsent
  BY <1>26 DEF TypeOK, RecordConsent, Settle, Goto, Label, Status, TerminalStatus
<1>27. CASE Submit(Loop)
  BY <1>27 DEF TypeOK, Control, Submit, Settle, Return, Goto, Label, Status, TerminalStatus
<1>28. CASE Boot
  BY <1>28 DEF TypeOK, Boot, Goto, Label
<1>29. ASSUME NEW n \in Note, Recover(n) PROVE TypeOK'
  BY <1>29 DEF TypeOK, Recover, Settle, Goto, Label, Status, TerminalStatus, Note
<1>30. CASE Serve
  BY <1>30 DEF TypeOK, Serve, Goto, Label
<1>31. CASE Shutdown
  BY <1>31 DEF TypeOK, Control, Shutdown, Busy, Goto, Label
<1>32. CASE Exit \/ Crash
  BY <1>32 DEF TypeOK, Exit, Crash, Lost, Quiet, Label, Status, Note
<1>33. CASE UNCHANGED vars
  BY <1>33 DEF TypeOK, vars
<1> QED
  BY <1>1, <1>2, <1>3, <1>4, <1>5, <1>6, <1>7, <1>8, <1>9, <1>10, <1>11, <1>12, <1>13,
     <1>14, <1>15, <1>16, <1>17, <1>18, <1>19, <1>20, <1>21, <1>22, <1>23, <1>24, <1>25,
     <1>26, <1>27, <1>28, <1>29, <1>30, <1>31, <1>32, <1>33
  DEF Next, Subroutine, WorkerStep, CancelStep, WatchdogStep, LoopStep

-----------------------------------------------------------------------------
(* What one step may do to the database: create a row, or change one in    *)
(* one of the ways of the store, each under the condition of its statement.*)

RowChange(old, new) ==
  \/ new = Reported(old)
  \/ CanMarkRunning(old) /\ new = MarkedRunning(old)
  \/ \E s \in TerminalStatus :
       /\ CanFinalize(old, s) /\ (s = "done" => old.status = "running")
       /\ new = Finalized(old, s) \/ new = FinalizedBare(old, s)
  \/ CanRequestCancel(old) /\ new = CancelRequested(old)
  \/ IsActive(old) /\ ~old.cancelRequested /\ new = Requeued(old)

RowStep ==
  \/ UNCHANGED db
  \/ \E r \in Review : Create(r)
  \/ \E r \in Review : \E new \in Row :
       db' = [db EXCEPT ![r] = new] /\ RowChange(db[r], new)

LEMMA RowSteps == ASSUME IInv, [Next]_vars PROVE RowStep
<1> USE RowOperators, RowConstants, ActorClasses DEF IInv
<1>1. ASSUME NEW a \in Actor, UpdWrite(a) PROVE RowStep
  <2>1. rid[a] \in Review
    BY <1>1, ServiceAssumption DEF Control, UpdWrite, Actor, Marked, Finalizing
  <2> QED BY <1>1, <2>1 DEF UpdWrite, TypeOK, RowStep, RowChange
<1>2. ASSUME NEW a \in Actor, FinDb(a) PROVE RowStep
  <2>1. rid[a] \in Review /\ to[a] \in TerminalStatus /\ to[a] \in Status /\ db[rid[a]] \in Row
    BY <1>2 DEF Control, FinDb, Actor, Finalizing, TypeOK, Status
  <2>2. CASE UNCHANGED db
    BY <2>2 DEF RowStep
  <2>3. CASE /\ CanFinalize(db[rid[a]], to[a])
             /\ db' = [db EXCEPT ![rid[a]] = Finalized(db[rid[a]], to[a])]
    <3>1. to[a] = "done" => db[rid[a]].status = "running"
      BY <1>2, <2>1, <2>3 DEF Control, Ownership, MarkedLeftQueue, CancelWins, CanFinalize, IsActive, ActiveStatus
    <3>2. RowChange(db[rid[a]], Finalized(db[rid[a]], to[a]))
      BY <2>1, <2>3, <3>1 DEF RowChange
    <3> QED BY <2>1, <2>3, <3>2 DEF RowStep
  <2> QED BY <1>2, <2>2, <2>3 DEF FinDb
<1>3. ASSUME NEW a \in Actor, FinAgain(a) PROVE RowStep
  <2>1. rid[a] \in Review /\ db[rid[a]] \in Row
    BY <1>3 DEF Control, FinAgain, Actor, Finalizing, TypeOK
  <2>2. CASE UNCHANGED db
    BY <2>2 DEF RowStep
  <2>3. CASE /\ CanFinalize(db[rid[a]], "cancelled")
             /\ db' = [db EXCEPT ![rid[a]] = FinalizedBare(db[rid[a]], "cancelled")]
    <3>1. "cancelled" \in TerminalStatus /\ "cancelled" \in Status
      BY DEF TerminalStatus, Status
    <3>2. RowChange(db[rid[a]], FinalizedBare(db[rid[a]], "cancelled"))
      BY <2>1, <2>3, <3>1 DEF RowChange
    <3> QED BY <2>1, <2>3, <3>1, <3>2 DEF RowStep
  <2> QED BY <1>3, <2>2, <2>3 DEF FinAgain, Rejudge
<1>4. ASSUME NEW w \in Worker, Mark(w) PROVE RowStep
  <2>1. rid[w] \in Review /\ db[rid[w]] \in Row
    BY <1>4 DEF Control, Mark, TypeOK
  <2> QED BY <1>4, <2>1 DEF Mark, RowStep, RowChange, TypeOK
<1>5. ASSUME NEW k \in Canceller, CancelRequest(k) PROVE RowStep
  <2>1. rid[k] \in Review /\ db[rid[k]] \in Row
    BY <1>5 DEF Control, CancelRequest, TypeOK
  <2>2. CASE CanRequestCancel(db[rid[k]])
    BY <1>5, <2>1, <2>2 DEF CancelRequest, RowStep, RowChange, TypeOK
  <2>3. CASE ~CanRequestCancel(db[rid[k]])
    BY <1>5, <2>1, <2>3 DEF CancelRequest, RowStep, TypeOK
  <2> QED BY <2>2, <2>3
<1>6. ASSUME NEW r \in Review, Create(r) PROVE RowStep
  BY <1>6 DEF RowStep
<1>7. ASSUME NEW n \in Note, Recover(n) PROVE RowStep
  <2>1. n.review \in Review /\ db[n.review] \in Row /\ IsActive(db[n.review])
    BY <1>7 DEF Note, Recover, Ownership, ListedIsUntouched, IsActive, TypeOK
  <2>2. CASE UNCHANGED db
    BY <2>2 DEF RowStep
  <2>3. CASE /\ ~db[n.review].cancelRequested
             /\ db' = [db EXCEPT ![n.review] = Requeued(db[n.review])]
    <3>1. RowChange(db[n.review], Requeued(db[n.review]))
      BY <2>1, <2>3 DEF RowChange
    <3>2. Requeued(db[n.review]) \in Row
      BY <2>1 DEF Row, Requeued, Status, ActiveStatus, Stage
    <3> QED BY <2>1, <2>3, <3>1, <3>2 DEF RowStep
  <2> QED BY <1>7, <2>2, <2>3 DEF Recover
<1>8. ASSUME UNCHANGED db PROVE RowStep
  BY <1>8 DEF RowStep
<1>9. ASSUME NEW a \in Actor, UpdCache(a) \/ FinSync(a) PROVE UNCHANGED db
  BY <1>9 DEF UpdCache, FinSync
<1>10. ASSUME NEW w \in Worker, WorkerStep(w), ~Mark(w) PROVE UNCHANGED db
  BY <1>10 DEF WorkerStep, Take, Check, Report, ReadForUpdate, Proceed, Raise, RuleRaise,
               StageReport, Conclude, End
<1>11. ASSUME NEW k \in Canceller, CancelStep(k), ~CancelRequest(k) PROVE UNCHANGED db
  BY <1>11 DEF CancelStep, CancelRead, CancelPre, CancelSync, CancelExecutor
<1>12. ASSUME WatchdogStep PROVE UNCHANGED db
  BY <1>12 DEF WatchdogStep, Scan, Reap, ReapCancel, PassDone
<1>13. CASE RecordConsent \/ Submit(Loop) \/ Boot \/ Serve \/ Shutdown \/ Exit \/ Crash
  BY <1>13, <1>8 DEF RecordConsent, Submit, Boot, Serve, Shutdown, Exit, Crash, Lost
<1>14. CASE UNCHANGED vars
  BY <1>14, <1>8 DEF vars
<1> QED
  BY <1>1, <1>2, <1>3, <1>4, <1>5, <1>6, <1>7, <1>8, <1>9, <1>10, <1>11, <1>12, <1>13, <1>14
  DEF Next, Subroutine, LoopStep

\* The store's statements keep status and cancel_requested in step.
LEMMA RowStepCancelWins == ASSUME TypeOK, CancelWins, RowStep PROVE CancelWins'
<1>1. CASE UNCHANGED db
  BY <1>1 DEF CancelWins
<1>2. ASSUME NEW r \in Review, NEW new \in Row, db' = [db EXCEPT ![r] = new], RowChange(db[r], new)
      PROVE CancelWins'
  <2>1. db[r] \in Row /\ (db[r].cancelRequested => db[r].status \in {"cancelling", "cancelled"})
        /\ (db[r].status = "cancelling" => db[r].cancelRequested)
    BY DEF TypeOK, CancelWins
  <2>2. /\ new.cancelRequested => new.status \in {"cancelling", "cancelled"}
        /\ new.status = "cancelling" => new.cancelRequested
    <3> DEFINE Agrees == /\ new.cancelRequested => new.status \in {"cancelling", "cancelled"}
                         /\ new.status = "cancelling" => new.cancelRequested
    <3> SUFFICES Agrees OBVIOUS
    <3>1. CASE new = Reported(db[r])
      BY <2>1, <3>1 DEF Row, Reported
    <3>2. CASE CanMarkRunning(db[r]) /\ new = MarkedRunning(db[r])
      BY <2>1, <3>2 DEF Row, CanMarkRunning, MarkedRunning
    <3>3. ASSUME NEW s \in TerminalStatus, CanFinalize(db[r], s),
                 new = Finalized(db[r], s) \/ new = FinalizedBare(db[r], s)
          PROVE Agrees
      BY <2>1, <3>3 DEF Row, CanFinalize, Finalized, FinalizedBare, TerminalStatus
    <3>4. CASE CanRequestCancel(db[r]) /\ new = CancelRequested(db[r])
      BY <2>1, <3>4 DEF Row, CancelRequested
    <3>5. CASE ~db[r].cancelRequested /\ new = Requeued(db[r])
      BY <2>1, <3>5 DEF Row, Requeued
    <3> QED BY <1>2, <3>1, <3>2, <3>3, <3>4, <3>5 DEF RowChange
  <2> QED BY <1>2, <2>2 DEF CancelWins, TypeOK
<1>3. ASSUME NEW r \in Review, Create(r) PROVE CancelWins'
  BY <1>3 DEF Create, NewRow, CancelWins, TypeOK
<1> QED BY <1>1, <1>2, <1>3 DEF RowStep

\* Every actor stays in its program.
LEMMA ControlStep == ASSUME TypeOK, Control, [Next]_vars PROVE Control'
<1> USE ServiceAssumption
<1>1. ASSUME NEW a \in Actor, UpdWrite(a) PROVE Control'
  BY <1>1 DEF Control, TypeOK, Actor, Marked, Finalizing, TerminalStatus, UpdWrite, Goto
<1>2. ASSUME NEW a \in Actor, UpdCache(a) PROVE Control'
  BY <1>2 DEF Control, TypeOK, Actor, Marked, Finalizing, TerminalStatus, UpdCache, Goto
<1>3. ASSUME NEW a \in Actor, FinDb(a) PROVE Control'
  BY <1>3 DEF Control, TypeOK, Actor, Marked, Finalizing, TerminalStatus, FinDb, Goto
<1>4. ASSUME NEW a \in Actor, FinAgain(a) PROVE Control'
  BY <1>4 DEF Control, TypeOK, Actor, Marked, Finalizing, TerminalStatus, FinAgain, FinalReturn, Goto
<1>5. ASSUME NEW a \in Actor, FinSync(a) PROVE Control'
  BY <1>5 DEF Control, TypeOK, Actor, Marked, Finalizing, TerminalStatus, FinSync, FinalReturn, Goto
<1>6. ASSUME NEW w \in Worker, NEW r \in Review, Take(w, r) PROVE Control'
  BY <1>6 DEF Control, TypeOK, Actor, Marked, Finalizing, TerminalStatus, Take, Goto
<1>7. ASSUME NEW w \in Worker, Check(w) PROVE Control'
  BY <1>7 DEF Control, TypeOK, Actor, Marked, Finalizing, TerminalStatus, Check, Settle, Raised, Goto
<1>8. ASSUME NEW w \in Worker, Mark(w) PROVE Control'
  BY <1>8 DEF Control, TypeOK, Actor, Marked, Finalizing, TerminalStatus, Mark, Goto
<1>9. ASSUME NEW w \in Worker, Report(w) PROVE Control'
  BY <1>9 DEF Control, TypeOK, Actor, Marked, Finalizing, TerminalStatus, Report, ReadForUpdate, Goto
<1>10. ASSUME NEW w \in Worker, Proceed(w) PROVE Control'
  BY <1>10 DEF Control, TypeOK, Actor, Marked, Finalizing, TerminalStatus, Proceed, Goto
<1>11. ASSUME NEW w \in Worker, Raise(w) PROVE Control'
  BY <1>11 DEF Control, TypeOK, Actor, Marked, Finalizing, TerminalStatus, Raise, Settle, Raised, Goto
<1>12. ASSUME NEW w \in Worker, RuleRaise(w) PROVE Control'
  BY <1>12 DEF Control, TypeOK, Actor, Marked, Finalizing, TerminalStatus, RuleRaise, ReadForUpdate, Raised, Goto
<1>13. ASSUME NEW w \in Worker, StageReport(w) PROVE Control'
  BY <1>13 DEF Control, TypeOK, Actor, Marked, Finalizing, TerminalStatus, StageReport, ReadForUpdate, Goto
<1>14. ASSUME NEW w \in Worker, Conclude(w) PROVE Control'
  BY <1>14 DEF Control, TypeOK, Actor, Marked, Finalizing, TerminalStatus, Conclude, Settle, Goto
<1>15. ASSUME NEW w \in Worker, End(w) PROVE Control'
  BY <1>15 DEF Control, TypeOK, Actor, Marked, Finalizing, TerminalStatus, End, Return, Goto
<1>16. ASSUME NEW k \in Canceller, NEW r \in Review, CancelRead(k, r) PROVE Control'
  BY <1>16 DEF Control, TypeOK, Actor, Marked, Finalizing, TerminalStatus, CancelRead, Goto
<1>17. ASSUME NEW k \in Canceller, CancelPre(k) PROVE Control'
  BY <1>17 DEF Control, TypeOK, Actor, Marked, Finalizing, TerminalStatus, CancelPre, Return, Goto
<1>18. ASSUME NEW k \in Canceller, CancelRequest(k) PROVE Control'
  BY <1>18 DEF Control, TypeOK, Actor, Marked, Finalizing, TerminalStatus, CancelRequest, Goto
<1>19. ASSUME NEW k \in Canceller, CancelSync(k) PROVE Control'
  BY <1>19 DEF Control, TypeOK, Actor, Marked, Finalizing, TerminalStatus, CancelSync, Return, Goto
<1>20. ASSUME NEW k \in Canceller, CancelExecutor(k) PROVE Control'
  BY <1>20 DEF Control, TypeOK, Actor, Marked, Finalizing, TerminalStatus, CancelExecutor, CancelInExecutor, Settle, Return, Goto
<1>21. ASSUME NEW S \in SUBSET Review, Scan(S) PROVE Control'
  BY <1>21 DEF Control, TypeOK, Actor, Marked, Finalizing, TerminalStatus, Scan, Goto
<1>22. ASSUME NEW n \in Note, Reap(n) PROVE Control'
  BY <1>22 DEF Control, TypeOK, Actor, Marked, Finalizing, TerminalStatus, Reap, Settle, Goto, Note
<1>23. CASE ReapCancel
  BY <1>23 DEF Control, TypeOK, Actor, Marked, Finalizing, TerminalStatus, ReapCancel, CancelInExecutor, Return, Goto
<1>24. CASE PassDone
  BY <1>24 DEF Control, TypeOK, Actor, Marked, Finalizing, TerminalStatus, PassDone, Goto
<1>25. ASSUME NEW r \in Review, Create(r) PROVE Control'
  BY <1>25 DEF Control, TypeOK, Actor, Marked, Finalizing, TerminalStatus, Create, Serving, Goto
<1>26. CASE RecordConsent
  BY <1>26 DEF Control, TypeOK, Actor, Marked, Finalizing, TerminalStatus, RecordConsent, Settle, Goto
<1>27. CASE Submit(Loop)
  BY <1>27 DEF Control, TypeOK, Actor, Marked, Finalizing, TerminalStatus, Submit, Settle, Return, Goto
<1>28. CASE Boot
  BY <1>28 DEF Control, TypeOK, Actor, Marked, Finalizing, TerminalStatus, Boot, Goto
<1>29. ASSUME NEW n \in Note, Recover(n) PROVE Control'
  BY <1>29 DEF Control, TypeOK, Actor, Marked, Finalizing, TerminalStatus, Recover, Settle, Goto, Note
<1>30. CASE Serve
  BY <1>30 DEF Control, TypeOK, Actor, Marked, Finalizing, TerminalStatus, Serve, Goto
<1>31. CASE Shutdown
  BY <1>31 DEF Control, TypeOK, Actor, Marked, Finalizing, TerminalStatus, Shutdown, Serving, Goto
<1>32. CASE Exit \/ Crash
  BY <1>32 DEF Control, TypeOK, Actor, Marked, Finalizing, TerminalStatus, Exit, Crash, Lost, Quiet
<1>33. CASE UNCHANGED vars
  BY <1>33 DEF Control, TypeOK, Actor, Marked, Finalizing, TerminalStatus, vars
<1> QED
  BY <1>1, <1>2, <1>3, <1>4, <1>5, <1>6, <1>7, <1>8, <1>9, <1>10, <1>11, <1>12, <1>13, <1>14, <1>15, <1>16, <1>17, <1>18, <1>19, <1>20, <1>21, <1>22, <1>23, <1>24, <1>25, <1>26, <1>27, <1>28, <1>29, <1>30, <1>31, <1>32, <1>33
  DEF Next, Subroutine, WorkerStep, CancelStep, WatchdogStep, LoopStep

\* A statement of the store, creation and recovery aside, brings no row back to
\* the queue or out of existence.
Advance == \A r \in Review :
  /\ db[r].status # "absent" => db'[r].status # "absent"
  /\ db[r].status \notin {"absent", "queued"} => db'[r].status \notin {"absent", "queued"}

\* Reviews keep their one owner.
LEMMA OwnershipStep == ASSUME IInv, [Next]_vars PROVE Ownership'
<1> USE ServiceAssumption
    DEF IInv, Ownership, ExecutedOnce, HeldHasRow, MarkedLeftQueue, SubmittedOnce, BootsAlone,
        DownIsEmpty, ListedIsUntouched, Control, TypeOK, Held, Running, Busy, Booting, Actor,
        Marked, Finalizing
<1>1. ASSUME NEW a \in Actor, UpdWrite(a) PROVE Ownership'
  <2>0. Advance
    BY <1>1 DEF Row, Advance, Rejudge, UpdWrite, Reported
  <2>1. ExecutedOnce'
    BY <1>1 DEF UpdWrite, Goto
  <2>2. HeldHasRow'
    BY <1>1, <2>0 DEF Advance, UpdWrite, Goto
  <2>3. MarkedLeftQueue'
    BY <1>1, <2>0 DEF Advance, UpdWrite, Goto
  <2>4. SubmittedOnce'
    BY <1>1, <2>0 DEF Advance, UpdWrite, Goto
  <2>5. BootsAlone'
    BY <1>1 DEF UpdWrite, Goto
  <2>6. DownIsEmpty'
    BY <1>1 DEF UpdWrite, Goto
  <2>7. ListedIsUntouched'
    BY <1>1 DEF UpdWrite, Goto
  <2> QED BY <2>1, <2>2, <2>3, <2>4, <2>5, <2>6, <2>7
<1>2. ASSUME NEW a \in Actor, UpdCache(a) PROVE Ownership'
  BY <1>2 DEF UpdCache, Goto
<1>3. ASSUME NEW a \in Actor, FinDb(a) PROVE Ownership'
  <2>0. Advance
    BY <1>3 DEF Row, Advance, Rejudge, FinDb, Finalized, CanFinalize, IsActive, ActiveStatus, TerminalStatus
  <2>1. ExecutedOnce'
    BY <1>3 DEF FinDb, Goto
  <2>2. HeldHasRow'
    BY <1>3, <2>0 DEF Advance, FinDb, Goto
  <2>3. MarkedLeftQueue'
    BY <1>3, <2>0 DEF Advance, FinDb, Goto
  <2>4. SubmittedOnce'
    BY <1>3, <2>0 DEF Advance, FinDb, Goto
  <2>5. BootsAlone'
    BY <1>3 DEF FinDb, Goto
  <2>6. DownIsEmpty'
    BY <1>3 DEF FinDb, Goto
  <2>7. ListedIsUntouched'
    BY <1>3 DEF FinDb, Goto
  <2> QED BY <2>1, <2>2, <2>3, <2>4, <2>5, <2>6, <2>7
<1>4. ASSUME NEW a \in Actor, FinAgain(a) PROVE Ownership'
  <2>0. Advance
    BY <1>4 DEF Row, Advance, Rejudge, FinAgain, FinalizedBare
  <2>1. ExecutedOnce'
    BY <1>4 DEF FinAgain, FinalReturn, Goto
  <2>2. HeldHasRow'
    BY <1>4, <2>0 DEF Advance, FinAgain, FinalReturn, Goto
  <2>3. MarkedLeftQueue'
    BY <1>4, <2>0 DEF Advance, FinAgain, FinalReturn, Goto
  <2>4. SubmittedOnce'
    BY <1>4, <2>0 DEF Advance, FinAgain, FinalReturn, Goto
  <2>5. BootsAlone'
    BY <1>4 DEF FinAgain, FinalReturn, Goto
  <2>6. DownIsEmpty'
    BY <1>4 DEF FinAgain, FinalReturn, Goto
  <2>7. ListedIsUntouched'
    <3>1. CASE a = Loop
      <4>1. next[Loop] = "b_next" \/ todo[Loop] = {}
        BY <1>4, <3>1 DEF FinAgain
      <4>2. \A n \in todo[Loop] : /\ db'[n.review].status = n.status
                                  /\ ~Held(n.review)'
        BY <1>4, <3>1 DEF Note, FinAgain, FinalReturn, Goto, FinalizedBare, Rejudge
      <4> QED BY <1>4, <3>1, <4>1, <4>2 DEF Note, FinAgain, FinalReturn, Goto
    <3>2. CASE a # Loop
      BY <1>4, <3>2 DEF Note, FinAgain, FinalReturn, Goto, FinalizedBare, Rejudge
    <3> QED BY <3>1, <3>2
  <2> QED BY <2>1, <2>2, <2>3, <2>4, <2>5, <2>6, <2>7
<1>5. ASSUME NEW a \in Actor, FinSync(a) PROVE Ownership'
  <2>1. ExecutedOnce'
    BY <1>5 DEF FinSync, FinalReturn, Goto
  <2>2. HeldHasRow'
    BY <1>5 DEF FinSync, FinalReturn, Goto
  <2>3. MarkedLeftQueue'
    BY <1>5 DEF FinSync, FinalReturn, Goto
  <2>4. SubmittedOnce'
    BY <1>5 DEF FinSync, FinalReturn, Goto
  <2>5. BootsAlone'
    BY <1>5 DEF FinSync, FinalReturn, Goto
  <2>6. DownIsEmpty'
    BY <1>5 DEF FinSync, FinalReturn, Goto
  <2>7. ListedIsUntouched'
    <3>1. CASE a = Loop
      <4>1. next[Loop] = "b_next" \/ todo[Loop] = {}
        BY <1>5, <3>1 DEF FinSync
      <4>2. \A n \in todo[Loop] : /\ db'[n.review].status = n.status
                                  /\ ~Held(n.review)'
        BY <1>5, <3>1 DEF Note, FinSync, FinalReturn, Goto
      <4> QED BY <1>5, <3>1, <4>1, <4>2 DEF Note, FinSync, FinalReturn, Goto
    <3>2. CASE a # Loop
      BY <1>5, <3>2 DEF Note, FinSync, FinalReturn, Goto
    <3> QED BY <3>1, <3>2
  <2> QED BY <2>1, <2>2, <2>3, <2>4, <2>5, <2>6, <2>7
<1>6. ASSUME NEW w \in Worker, NEW r \in Review, Take(w, r) PROVE Ownership'
  BY <1>6 DEF Take, Goto
<1>7. ASSUME NEW w \in Worker, Check(w) PROVE Ownership'
  BY <1>7 DEF Check, Settle, Raised, Goto
<1>8. ASSUME NEW w \in Worker, Mark(w) PROVE Ownership'
  <2>9. rid[w] \in Review /\ MarkedRunning(db[rid[w]]).status = "running"
    BY <1>8 DEF Row, Mark, MarkedRunning
  <2>0. Advance
    BY <1>8, <2>9 DEF Mark, Advance
  <2>1. ExecutedOnce'
    BY <1>8 DEF Mark, Goto
  <2>2. HeldHasRow'
    BY <1>8, <2>0 DEF Advance, Mark, Goto
  <2>3. MarkedLeftQueue'
    <3>1. pc'[w] \in Marked => db'[rid[w]].status \notin {"absent", "queued"}
      BY <1>8, <2>9 DEF Mark, Goto
    <3>2. to[w] # "done"
      <4>1. pc[w] = "w_mark" /\ w \in Actor
        BY <1>8, ActorClasses DEF Mark
      <4>2. to[w] = "done" => pc[w] \in Finalizing
        BY <4>1
      <4> QED BY <4>1, <4>2
    <3>3. ASSUME NEW v \in Worker, v # w, pc'[v] \in Marked \/ to[v] = "done"
          PROVE  db'[rid[v]].status \notin {"absent", "queued"}
      <4>1. pc[v] = pc'[v] /\ v \in Actor
        BY <1>8, <3>3, ActorClasses DEF Mark, Goto
      <4>2. rid[v] \in Review
        BY <3>3, <4>1
      <4> QED BY <3>3, <4>1, <4>2, <2>0 DEF Advance
    <3>4. rid' = rid /\ to' = to
      BY <1>8 DEF Mark
    <3> QED BY <3>1, <3>2, <3>3, <3>4
  <2>4. SubmittedOnce'
    BY <1>8, <2>0 DEF Advance, Mark, Goto
  <2>5. BootsAlone'
    BY <1>8 DEF Mark, Goto
  <2>6. DownIsEmpty'
    BY <1>8 DEF Mark, Goto
  <2>7. ListedIsUntouched'
    <3>1. \A n \in todo[Loop] : n.review # rid[w] /\ n.review \in Review
      BY <1>8 DEF Note, Mark
    <3>2. \A n \in todo[Loop] : db'[n.review] = db[n.review]
      BY <1>8, <3>1 DEF Mark
    <3> QED BY <1>8, <3>1, <3>2 DEF Mark, Goto
  <2> QED BY <2>1, <2>2, <2>3, <2>4, <2>5, <2>6, <2>7
<1>9. ASSUME NEW w \in Worker, Report(w) PROVE Ownership'
  BY <1>9 DEF Report, ReadForUpdate, Goto
<1>10. ASSUME NEW w \in Worker, Proceed(w) PROVE Ownership'
  BY <1>10 DEF Proceed, Goto
<1>11. ASSUME NEW w \in Worker, Raise(w) PROVE Ownership'
  BY <1>11 DEF Raise, Settle, Raised, Goto
<1>12. ASSUME NEW w \in Worker, RuleRaise(w) PROVE Ownership'
  BY <1>12 DEF RuleRaise, ReadForUpdate, Raised, Goto
<1>13. ASSUME NEW w \in Worker, StageReport(w) PROVE Ownership'
  BY <1>13 DEF StageReport, ReadForUpdate, Goto
<1>14. ASSUME NEW w \in Worker, Conclude(w) PROVE Ownership'
  BY <1>14 DEF Conclude, Settle, Goto
<1>15. ASSUME NEW w \in Worker, End(w) PROVE Ownership'
  BY <1>15 DEF End, Return, Goto
<1>16. ASSUME NEW k \in Canceller, NEW r \in Review, CancelRead(k, r) PROVE Ownership'
  <2>1. ExecutedOnce'
    BY <1>16 DEF CancelRead, Goto, Serving
  <2>2. HeldHasRow'
    BY <1>16 DEF CancelRead, Goto, Serving
  <2>3. MarkedLeftQueue'
    BY <1>16 DEF CancelRead, Goto, Serving
  <2>4. SubmittedOnce'
    BY <1>16 DEF CancelRead, Goto, Serving
  <2>5. BootsAlone'
    BY <1>16 DEF CancelRead, Goto, Serving
  <2>6. DownIsEmpty'
    BY <1>16 DEF CancelRead, Goto, Serving
  <2>7. ListedIsUntouched'
    BY <1>16 DEF CancelRead, Goto, Serving
  <2> QED BY <2>1, <2>2, <2>3, <2>4, <2>5, <2>6, <2>7
<1>17. ASSUME NEW k \in Canceller, CancelPre(k) PROVE Ownership'
  BY <1>17 DEF CancelPre, Return, Goto
<1>18. ASSUME NEW k \in Canceller, CancelRequest(k) PROVE Ownership'
  <2>0. Advance
    BY <1>18 DEF Row, Advance, Rejudge, CancelRequest, CancelRequested
  <2>1. ExecutedOnce'
    BY <1>18 DEF CancelRequest, Goto
  <2>2. HeldHasRow'
    BY <1>18, <2>0 DEF Advance, CancelRequest, Goto
  <2>3. MarkedLeftQueue'
    BY <1>18, <2>0 DEF Advance, CancelRequest, Goto
  <2>4. SubmittedOnce'
    BY <1>18, <2>0 DEF Advance, CancelRequest, Goto
  <2>5. BootsAlone'
    BY <1>18 DEF CancelRequest, Goto
  <2>6. DownIsEmpty'
    BY <1>18 DEF CancelRequest, Goto
  <2>7. ListedIsUntouched'
    BY <1>18 DEF CancelRequest, Goto
  <2> QED BY <2>1, <2>2, <2>3, <2>4, <2>5, <2>6, <2>7
<1>19. ASSUME NEW k \in Canceller, CancelSync(k) PROVE Ownership'
  BY <1>19 DEF CancelSync, Return, Goto
<1>20. ASSUME NEW k \in Canceller, CancelExecutor(k) PROVE Ownership'
  BY <1>20 DEF CancelExecutor, CancelInExecutor, Settle, Return, Goto
<1>21. ASSUME NEW S \in SUBSET Review, Scan(S) PROVE Ownership'
  BY <1>21 DEF Scan, Goto
<1>22. ASSUME NEW n \in Note, Reap(n) PROVE Ownership'
  BY <1>22 DEF Reap, Settle, Goto, Note
<1>23. CASE ReapCancel
  BY <1>23 DEF ReapCancel, CancelInExecutor, Return, Goto
<1>24. CASE PassDone
  BY <1>24 DEF PassDone, Goto
<1>25. ASSUME NEW r \in Review, Create(r) PROVE Ownership'
  <2>1. ExecutedOnce'
    BY <1>25 DEF Create, Goto, Serving, NoRow, NewRow
  <2>2. HeldHasRow'
    BY <1>25 DEF Create, Goto, Serving, NoRow, NewRow
  <2>3. MarkedLeftQueue'
    BY <1>25 DEF Create, Goto, Serving, NoRow, NewRow
  <2>4. SubmittedOnce'
    BY <1>25 DEF Create, Goto, Serving, NoRow, NewRow
  <2>5. BootsAlone'
    BY <1>25 DEF Create, Goto, Serving, NoRow, NewRow
  <2>6. DownIsEmpty'
    BY <1>25 DEF Create, Goto, Serving, NoRow, NewRow
  <2>7. ListedIsUntouched'
    BY <1>25 DEF Create, Goto, Serving, NoRow, NewRow
  <2> QED BY <2>1, <2>2, <2>3, <2>4, <2>5, <2>6, <2>7
<1>26. CASE RecordConsent
  BY <1>26 DEF RecordConsent, Settle, Goto
<1>27. CASE Submit(Loop)
  <2>1. ExecutedOnce'
    BY <1>27 DEF Submit, Settle, Return, Goto, Note
  <2>2. HeldHasRow'
    BY <1>27 DEF Submit, Settle, Return, Goto, Note
  <2>3. MarkedLeftQueue'
    BY <1>27 DEF Submit, Settle, Return, Goto, Note
  <2>4. SubmittedOnce'
    BY <1>27 DEF Submit, Settle, Return, Goto, Note
  <2>5. BootsAlone'
    BY <1>27 DEF Submit, Settle, Return, Goto, Note
  <2>6. DownIsEmpty'
    BY <1>27 DEF Submit, Settle, Return, Goto, Note
  <2>7. ListedIsUntouched'
    BY <1>27 DEF Submit, Settle, Return, Goto, Note
  <2> QED BY <2>1, <2>2, <2>3, <2>4, <2>5, <2>6, <2>7
<1>28. CASE Boot
  <2>1. ExecutedOnce'
    BY <1>28 DEF Boot, Goto, Note
  <2>2. HeldHasRow'
    BY <1>28 DEF Boot, Goto, Note
  <2>3. MarkedLeftQueue'
    BY <1>28 DEF Boot, Goto, Note
  <2>4. SubmittedOnce'
    BY <1>28 DEF Boot, Goto, Note
  <2>5. BootsAlone'
    BY <1>28 DEF Boot, Goto, Note
  <2>6. DownIsEmpty'
    BY <1>28 DEF Boot, Goto, Note
  <2>7. ListedIsUntouched'
    BY <1>28 DEF Boot, Goto, Note
  <2> QED BY <2>1, <2>2, <2>3, <2>4, <2>5, <2>6, <2>7
<1>29. ASSUME NEW n \in Note, Recover(n) PROVE Ownership'
  <2>1. ExecutedOnce'
    BY <1>29 DEF Recover, Settle, Goto, Note, Requeued, ActiveStatus
  <2>2. HeldHasRow'
    BY <1>29 DEF Recover, Settle, Goto, Note, Requeued, ActiveStatus
  <2>3. MarkedLeftQueue'
    BY <1>29 DEF Recover, Settle, Goto, Note, Requeued, ActiveStatus
  <2>4. SubmittedOnce'
    <3>1. n.review \in Review /\ ~Held(n.review)
      BY <1>29 DEF Note, Recover
    <3>2. ~Held(n.review)'
      BY <1>29, <3>1 DEF Recover, Settle, Goto
    <3>3. db'[n.review].status # "absent"
      <4>1. db[n.review].status # "absent"
        BY <1>29 DEF Note, Recover, ActiveStatus
      <4>2. Requeued(db[n.review]).status = "queued"
        BY <3>1 DEF Row, Requeued
      <4> QED BY <1>29, <3>1, <4>1, <4>2 DEF Recover
    <3>4. rid'[Loop] = n.review
      BY <1>29 DEF Recover
    <3> QED BY <3>2, <3>3, <3>4
  <2>5. BootsAlone'
    BY <1>29 DEF Recover, Settle, Goto, Note, Requeued, ActiveStatus
  <2>6. DownIsEmpty'
    BY <1>29 DEF Recover, Settle, Goto, Note, Requeued, ActiveStatus
  <2>7. ListedIsUntouched'
    BY <1>29 DEF Recover, Settle, Goto, Note, Requeued, ActiveStatus
  <2> QED BY <2>1, <2>2, <2>3, <2>4, <2>5, <2>6, <2>7
<1>30. CASE Serve
  BY <1>30 DEF Serve, Goto
<1>31. CASE Shutdown
  <2>1. ExecutedOnce'
    BY <1>31 DEF Shutdown, Goto, Serving, Note
  <2>2. HeldHasRow'
    BY <1>31 DEF Shutdown, Goto, Serving, Note
  <2>3. MarkedLeftQueue'
    BY <1>31 DEF Shutdown, Goto, Serving, Note
  <2>4. SubmittedOnce'
    BY <1>31 DEF Shutdown, Goto, Serving, Note
  <2>5. BootsAlone'
    BY <1>31 DEF Shutdown, Goto, Serving, Note
  <2>6. DownIsEmpty'
    BY <1>31 DEF Shutdown, Goto, Serving, Note
  <2>7. ListedIsUntouched'
    BY <1>31 DEF Shutdown, Goto, Serving, Note
  <2> QED BY <2>1, <2>2, <2>3, <2>4, <2>5, <2>6, <2>7
<1>32. CASE Exit \/ Crash
  BY <1>32 DEF Exit, Crash, Lost, Quiet
<1>33. CASE UNCHANGED vars
  BY <1>33 DEF vars
<1> QED
  BY <1>1, <1>2, <1>3, <1>4, <1>5, <1>6, <1>7, <1>8, <1>9, <1>10, <1>11, <1>12, <1>13, <1>14, <1>15, <1>16, <1>17, <1>18, <1>19, <1>20, <1>21, <1>22, <1>23, <1>24, <1>25, <1>26, <1>27, <1>28, <1>29, <1>30, <1>31, <1>32, <1>33
  DEF Next, Subroutine, WorkerStep, CancelStep, WatchdogStep, LoopStep

-----------------------------------------------------------------------------
(* The invariant, and what follows from it.                                *)

LEMMA IInvInit == Init => IInv
<1> SUFFICES ASSUME Init PROVE IInv OBVIOUS
<1>1. TypeOK
  BY TypeInit
<1>2. Control
  BY ActorClasses, ServiceAssumption
  DEF Init, Quiet, Control, Marked, Finalizing, Actor
<1>3. CancelWins
  BY DEF Init, NoRow, CancelWins
<1>4. Ownership
  BY ServiceAssumption
  DEF Init, Quiet, NoRow, Actor, Ownership, ExecutedOnce, HeldHasRow, MarkedLeftQueue, SubmittedOnce,
      BootsAlone, DownIsEmpty, ListedIsUntouched, Held, Running, Busy, Booting, Marked
<1> QED BY <1>1, <1>2, <1>3, <1>4 DEF IInv

LEMMA IInvStep == IInv /\ [Next]_vars => IInv'
<1> SUFFICES ASSUME IInv, [Next]_vars PROVE IInv' OBVIOUS
<1>1. TypeOK' /\ Control'
  BY TypeStep, ControlStep DEF IInv
<1>2. CancelWins'
  BY RowSteps, RowStepCancelWins DEF IInv
<1>3. Ownership'
  BY OwnershipStep
<1> QED BY <1>1, <1>2, <1>3 DEF IInv

\* Type correctness: every variable of the service keeps its type.
THEOREM TypeCorrect == Spec => []TypeOK
<1>1. IInv => TypeOK
  BY DEF IInv
<1> QED BY IInvInit, IInvStep, <1>1, PTL DEF Spec

\* A cancel request, once accepted, decides the review: no worker, no watchdog
\* and no recovery of a restarted service gives it another verdict.
THEOREM CancelAlwaysWins == Spec => []CancelWins
<1>1. IInv => CancelWins
  BY DEF IInv
<1> QED BY IInvInit, IInvStep, <1>1, PTL DEF Spec

\* No review is queued twice or run by two threads, whatever is cancelled,
\* given up or recovered meanwhile.
THEOREM NeverExecutedTwice == Spec => []ExecutedOnce
<1>1. IInv => ExecutedOnce
  BY DEF IInv, Ownership
<1> QED BY IInvInit, IInvStep, <1>1, PTL DEF Spec
-----------------------------------------------------------------------------
(* The service implements ReviewLifecycle.                                 *)

\* One change of a row moves its status along an edge of the life cycle.
LEMMA StatusMove ==
  ASSUME NEW old \in Row, NEW new \in Row, RowChange(old, new),
         old.status = "cancelling" => old.cancelRequested
  PROVE  \/ new.status = old.status
         \/ old.status = "queued" /\ new.status = "running"
         \/ old.status = "running" /\ new.status = "queued"
         \/ old.status \in {"queued", "running"} /\ new.status = "cancelling"
         \/ old.status = "running" /\ new.status = "done"
         \/ old.status \in {"queued", "running"} /\ new.status \in {"failed", "timed_out"}
         \/ old.status \in {"queued", "running", "cancelling"} /\ new.status = "cancelled"
<1>1. CASE new = Reported(old)
  BY <1>1 DEF Row, Reported
<1>2. CASE CanMarkRunning(old) /\ new = MarkedRunning(old)
  BY <1>2 DEF Row, CanMarkRunning, MarkedRunning, IsActive, ActiveStatus
<1>3. ASSUME NEW s \in TerminalStatus, CanFinalize(old, s), s = "done" => old.status = "running",
             new = Finalized(old, s) \/ new = FinalizedBare(old, s)
      PROVE  \/ old.status = "running" /\ new.status = "done"
             \/ old.status \in {"queued", "running"} /\ new.status \in {"failed", "timed_out"}
             \/ old.status \in {"queued", "running", "cancelling"} /\ new.status = "cancelled"
  <2>1. new.status = s
    BY <1>3 DEF Row, Finalized, FinalizedBare
  <2> QED BY <1>3, <2>1 DEF Row, CanFinalize, IsActive, ActiveStatus, TerminalStatus
<1>4. CASE CanRequestCancel(old) /\ new = CancelRequested(old)
  BY <1>4 DEF Row, CanRequestCancel, CancelRequested, IsActive, ActiveStatus
<1>5. CASE IsActive(old) /\ ~old.cancelRequested /\ new = Requeued(old)
  BY <1>5 DEF Row, IsActive, ActiveStatus, Requeued
<1> QED BY <1>1, <1>2, <1>3, <1>4, <1>5 DEF RowChange

LEMMA LifeStep ==
  ASSUME TypeOK, CancelWins, RowStep
  PROVE  Life!Next \/ UNCHANGED [r \in Review |-> db[r].status]
<1>1. CASE UNCHANGED db
  BY <1>1
<1>2. ASSUME NEW r \in Review, NEW new \in Row,
             db' = [db EXCEPT ![r] = new], RowChange(db[r], new)
      PROVE  Life!Next \/ UNCHANGED [q \in Review |-> db[q].status]
  <2> DEFINE life == [q \in Review |-> db[q].status]
             then == [q \in Review |-> db'[q].status]
  <2>1. db[r] \in Row /\ life[r] = db[r].status
        /\ (db[r].status = "cancelling" => db[r].cancelRequested)
    BY DEF TypeOK, CancelWins
  <2>2. then = [life EXCEPT ![r] = new.status]
    BY <1>2 DEF TypeOK
  <2>3. CASE new.status = life[r]
    <3>1. then = life
      BY <2>2, <2>3
    <3> QED BY <3>1
  <2>4. CASE new.status # life[r]
    <3>1. ASSUME NEW from, life[r] \in from PROVE Life!Become(r, from, new.status)
      BY <3>1, <2>2 DEF Life!Become
    <3>3. CASE life[r] = "queued" /\ new.status = "running"
      BY <3>1, <3>3 DEF Life!Next, Life!Begin
    <3>4. CASE life[r] = "running" /\ new.status = "queued"
      BY <3>1, <3>4 DEF Life!Next, Life!Requeue
    <3>5. CASE life[r] \in {"queued", "running"} /\ new.status = "cancelling"
      BY <3>1, <3>5 DEF Life!Next, Life!AcceptCancel
    <3>6. CASE life[r] = "running" /\ new.status = "done"
      BY <3>1, <3>6 DEF Life!Next, Life!Complete
    <3>7. CASE life[r] \in {"queued", "running"} /\ new.status \in {"failed", "timed_out"}
      BY <3>1, <3>7 DEF Life!Next, Life!GiveUp
    <3>8. CASE life[r] \in {"queued", "running", "cancelling"} /\ new.status = "cancelled"
      BY <3>1, <3>8 DEF Life!Next, Life!Cancel
    <3> QED BY <1>2, <2>1, <2>4, <3>3, <3>4, <3>5, <3>6, <3>7, <3>8, StatusMove
  <2> QED BY <2>3, <2>4
<1>3. ASSUME NEW r \in Review, Create(r) PROVE Life!Next
  <2> DEFINE life == [q \in Review |-> db[q].status]
             then == [q \in Review |-> db'[q].status]
  <2>1. life[r] = "absent"
    BY <1>3 DEF Create, NoRow
  <2>2. \A q \in Review : db'[q].status = IF q = r THEN "queued" ELSE db[q].status
    BY <1>3 DEF Create, NewRow, TypeOK
  <2>3. then = [life EXCEPT ![r] = "queued"]
    BY <2>2
  <2> QED BY <2>1, <2>3 DEF Life!Next, Life!Create, Life!Become
<1> QED BY <1>1, <1>2, <1>3 DEF RowStep

\* The whole service, crashes and races included, moves every review only along
\* the edges of the life cycle: one verdict, cancelled wins, done only from running.
THEOREM ServiceImplementsLifecycle == Spec => ImplementsLifecycle
<1>1. Init => Life!Init
  BY DEF Init, NoRow, Life!Init
<1>2. IInv /\ [Next]_vars => [Life!Next]_[r \in Review |-> db[r].status]
  BY RowSteps, LifeStep DEF IInv
<1> QED BY IInvInit, IInvStep, <1>1, <1>2, PTL DEF Spec, ImplementsLifecycle, Life!Spec
-----------------------------------------------------------------------------
(* Verdicts that are shown, rows that are held, work that is not doubled.  *)

\* What one step does to the status of one review.
LEMMA StatusSteps ==
  ASSUME IInv, [Next]_vars, NEW r \in Review
  PROVE  \/ db'[r].status = db[r].status
         \/ Create(r) /\ db[r].status = "absent" /\ db'[r].status = "queued"
         \/ db[r].status = "queued" /\ db'[r].status = "running"
         \/ db[r].status = "running" /\ db'[r].status = "queued"
         \/ db[r].status \in {"queued", "running"} /\ db'[r].status = "cancelling"
         \/ IsActive(db[r]) /\ IsTerminal(db'[r])
<1> DEFINE Moves == 
         \/ db'[r].status = db[r].status
         \/ Create(r) /\ db[r].status = "absent" /\ db'[r].status = "queued"
         \/ db[r].status = "queued" /\ db'[r].status = "running"
         \/ db[r].status = "running" /\ db'[r].status = "queued"
         \/ db[r].status \in {"queued", "running"} /\ db'[r].status = "cancelling"
         \/ IsActive(db[r]) /\ IsTerminal(db'[r])
<1> SUFFICES Moves OBVIOUS
<1>1. CASE UNCHANGED db
  BY <1>1
<1>2. ASSUME NEW q \in Review, Create(q) PROVE Moves
  <2>1. CASE q = r
    BY <1>2, <2>1 DEF IInv, TypeOK, Create, NoRow, NewRow
  <2>2. CASE q # r
    BY <1>2, <2>2 DEF IInv, TypeOK, Create
  <2> QED BY <2>1, <2>2
<1>3. ASSUME NEW q \in Review, NEW new \in Row, db' = [db EXCEPT ![q] = new], RowChange(db[q], new)
      PROVE  Moves
  <2>1. CASE q # r
    BY <1>3, <2>1 DEF IInv, TypeOK
  <2>2. CASE q = r
    <3>1. db[r] \in Row /\ db'[r] = new /\ (db[r].status = "cancelling" => db[r].cancelRequested)
      BY <1>3, <2>2 DEF IInv, TypeOK, CancelWins
    <3> QED BY <1>3, <2>2, <3>1, StatusMove DEF IsActive, ActiveStatus, IsTerminal, TerminalStatus
  <2> QED BY <2>1, <2>2
<1> QED BY <1>1, <1>2, <1>3, RowSteps DEF RowStep

\* The review is over, or a cancellation has been accepted: no step makes its
\* row queued or running again.
Past(r) == db[r].status \notin {"absent", "queued", "running"}

\* A verdict is final, a row stays, and what is past stays past.
LEMMA StatusIsKept ==
  ASSUME IInv, [Next]_vars, NEW r \in Review
  PROVE  /\ IsTerminal(db[r]) => db'[r].status = db[r].status
         /\ db[r].status # "absent" => db'[r].status # "absent"
         /\ Past(r) => Past(r)'
BY StatusSteps DEF Past, IsActive, ActiveStatus, IsTerminal, TerminalStatus

\* Every review that somebody has in hand, or will take up from a list, has a row.
HandsHaveRows ==
  /\ \A a \in Actor : rid[a] # NoReview => db[rid[a]].status # "absent"
  /\ \A n \in todo[Watchdog] : db[n.review].status # "absent"

\* Where an actor lets go of a review, the row needs nobody any more; and a copy
\* that shows a verdict shows the verdict of the row.
Settled(a) ==
  /\ pc[a] \in {"fin_again", "fin_sync", "w_end", "d_cancel", "k_sync", "k_executor"} => Past(rid[a])
  /\ IsTerminal(copy[a]) =>
       /\ pc[a] \in {"upd_cache", "k_pre", "k_sync"}
       /\ db[rid[a]].status = copy[a].status

VInv == IInv /\ HandsHaveRows /\ (\A a \in Actor : Settled(a))
        /\ ShownVerdictIsStored /\ ActiveIsHeld /\ NoDuplicateWork

\* Work is not doubled: only Create makes a review active, and it looks at the key.
LEMMA NoDuplicateStep == ASSUME IInv, NoDuplicateWork, [Next]_vars PROVE NoDuplicateWork'
<1> SUFFICES ASSUME NEW q \in Review, NEW r \in Review, q # r, KeyOf[q] = KeyOf[r],
                    IsActive(db'[q]), IsActive(db'[r])
             PROVE  FALSE
  BY DEF NoDuplicateWork
<1>1. (IsActive(db[q]) \/ Create(q)) /\ (IsActive(db[r]) \/ Create(r))
  BY StatusSteps DEF IsActive, ActiveStatus, IsTerminal, TerminalStatus
<1>2. ~(IsActive(db[q]) /\ IsActive(db[r]))
  BY DEF NoDuplicateWork
<1>3. ~(Create(q) /\ IsActive(db[r])) /\ ~(Create(r) /\ IsActive(db[q]))
  BY DEF Create
<1>4. ~(Create(q) /\ Create(r))
  BY ActorClasses DEF Create, IInv, TypeOK
<1> QED BY <1>1, <1>2, <1>3, <1>4

LEMMA HandsStep == ASSUME IInv, HandsHaveRows, [Next]_vars PROVE HandsHaveRows'
<1> USE ServiceAssumption, ActorClasses DEF IInv, TypeOK, Control, HandsHaveRows, Note
<1>0. \A r \in Review : db[r].status # "absent" => db'[r].status # "absent"
  BY StatusIsKept
<1>1. ASSUME NEW a \in Actor, UpdWrite(a) PROVE HandsHaveRows'
  BY <1>1, <1>0 DEF UpdWrite, Goto
<1>2. ASSUME NEW a \in Actor, UpdCache(a) PROVE HandsHaveRows'
  BY <1>2, <1>0 DEF UpdCache, Goto
<1>3. ASSUME NEW a \in Actor, FinDb(a) PROVE HandsHaveRows'
  BY <1>3, <1>0 DEF FinDb, Goto
<1>4. ASSUME NEW a \in Actor, FinAgain(a) PROVE HandsHaveRows'
  BY <1>4, <1>0 DEF FinAgain, FinalReturn, Goto
<1>5. ASSUME NEW a \in Actor, FinSync(a) PROVE HandsHaveRows'
  BY <1>5, <1>0 DEF FinSync, FinalReturn, Goto
<1>6. ASSUME NEW w \in Worker, NEW r \in Review, Take(w, r) PROVE HandsHaveRows'
  BY <1>6, <1>0 DEF Take, Goto, Ownership, HeldHasRow, Held
<1>7. ASSUME NEW w \in Worker, Check(w) PROVE HandsHaveRows'
  BY <1>7, <1>0 DEF Check, Settle, Raised, Goto
<1>8. ASSUME NEW w \in Worker, Mark(w) PROVE HandsHaveRows'
  BY <1>8, <1>0 DEF Mark, Goto
<1>9. ASSUME NEW w \in Worker, Report(w) PROVE HandsHaveRows'
  BY <1>9, <1>0 DEF Report, ReadForUpdate, Goto
<1>10. ASSUME NEW w \in Worker, Proceed(w) PROVE HandsHaveRows'
  BY <1>10, <1>0 DEF Proceed, Goto
<1>11. ASSUME NEW w \in Worker, Raise(w) PROVE HandsHaveRows'
  BY <1>11, <1>0 DEF Raise, Settle, Raised, Goto
<1>12. ASSUME NEW w \in Worker, RuleRaise(w) PROVE HandsHaveRows'
  BY <1>12, <1>0 DEF RuleRaise, ReadForUpdate, Raised, Goto
<1>13. ASSUME NEW w \in Worker, StageReport(w) PROVE HandsHaveRows'
  BY <1>13, <1>0 DEF StageReport, ReadForUpdate, Goto
<1>14. ASSUME NEW w \in Worker, Conclude(w) PROVE HandsHaveRows'
  BY <1>14, <1>0 DEF Conclude, Settle, Goto
<1>15. ASSUME NEW w \in Worker, End(w) PROVE HandsHaveRows'
  BY <1>15, <1>0 DEF End, Return, Goto
<1>16. ASSUME NEW k \in Canceller, NEW r \in Review, CancelRead(k, r) PROVE HandsHaveRows'
  BY <1>16, <1>0 DEF CancelRead, Goto
<1>17. ASSUME NEW k \in Canceller, CancelPre(k) PROVE HandsHaveRows'
  BY <1>17, <1>0 DEF CancelPre, Return, Goto
<1>18. ASSUME NEW k \in Canceller, CancelRequest(k) PROVE HandsHaveRows'
  BY <1>18, <1>0 DEF CancelRequest, Goto
<1>19. ASSUME NEW k \in Canceller, CancelSync(k) PROVE HandsHaveRows'
  BY <1>19, <1>0 DEF CancelSync, Return, Goto
<1>20. ASSUME NEW k \in Canceller, CancelExecutor(k) PROVE HandsHaveRows'
  BY <1>20, <1>0 DEF CancelExecutor, CancelInExecutor, Settle, Return, Goto
<1>21. ASSUME NEW S \in SUBSET Review, Scan(S) PROVE HandsHaveRows'
  BY <1>21, <1>0 DEF Scan, Goto
<1>22. ASSUME NEW n \in Note, Reap(n) PROVE HandsHaveRows'
  BY <1>22, <1>0 DEF Reap, Settle, Goto, Note
<1>23. CASE ReapCancel
  BY <1>23, <1>0 DEF ReapCancel, CancelInExecutor, Return, Goto
<1>24. CASE PassDone
  BY <1>24, <1>0 DEF PassDone, Goto
<1>25. ASSUME NEW r \in Review, Create(r) PROVE HandsHaveRows'
  BY <1>25, <1>0 DEF Create, Serving, Goto, NewRow
<1>26. CASE RecordConsent
  BY <1>26, <1>0 DEF RecordConsent, Settle, Goto
<1>27. CASE Submit(Loop)
  BY <1>27, <1>0 DEF Submit, Settle, Return, Goto
<1>28. CASE Boot
  BY <1>28, <1>0 DEF Boot, Goto
<1>29. ASSUME NEW n \in Note, Recover(n) PROVE HandsHaveRows'
  BY <1>29, <1>0 DEF Recover, Settle, Goto, Note, Ownership, ListedIsUntouched, ActiveStatus
<1>30. CASE Serve
  BY <1>30, <1>0 DEF Serve, Goto
<1>31. CASE Shutdown
  BY <1>31, <1>0 DEF Shutdown, Serving, Goto
<1>32. CASE Exit \/ Crash
  BY <1>32, <1>0 DEF Exit, Crash, Lost, Quiet
<1>33. CASE UNCHANGED vars
  BY <1>33, <1>0 DEF vars
<1> QED
  BY <1>1, <1>2, <1>3, <1>4, <1>5, <1>6, <1>7, <1>8, <1>9, <1>10, <1>11, <1>12, <1>13,
     <1>14, <1>15, <1>16, <1>17, <1>18, <1>19, <1>20, <1>21, <1>22, <1>23, <1>24, <1>25,
     <1>26, <1>27, <1>28, <1>29, <1>30, <1>31, <1>32, <1>33
  DEF Next, Subroutine, WorkerStep, CancelStep, WatchdogStep, LoopStep

\* The actor whose step it is, crashes and exits aside.
Acting(a) ==
  \/ Subroutine(a)
  \/ a \in Worker /\ WorkerStep(a)
  \/ a \in Canceller /\ CancelStep(a)
  \/ a = Watchdog /\ WatchdogStep
  \/ a = Loop /\ LoopStep /\ ~Exit /\ ~Crash

LEMMA SomebodyActs == Next => (\E a \in Actor : Acting(a)) \/ Lost
BY ActorClasses DEF Next, Acting, LoopStep, Exit, Crash

\* Nobody else's program moves.
LEMMA OneActs ==
  ASSUME TypeOK, NEW a \in Actor, Acting(a), NEW b \in Actor, b # a
  PROVE  pc'[b] = pc[b] /\ rid'[b] = rid[b] /\ copy'[b] = copy[b]
<1> USE ActorClasses DEF TypeOK, Goto
<1>1. CASE Subroutine(a)
  BY <1>1 DEF Subroutine, UpdWrite, UpdCache, FinDb, FinAgain, FinSync, FinalReturn
<1>2. CASE a \in Worker /\ WorkerStep(a)
  BY <1>2 DEF WorkerStep, Take, Check, Mark, Report, ReadForUpdate, Proceed, Raise, RuleRaise,
              StageReport, Conclude, End, Settle, Return
<1>3. CASE a \in Canceller /\ CancelStep(a)
  BY <1>3 DEF CancelStep, CancelRead, CancelPre, CancelRequest, CancelSync, CancelExecutor,
              Settle, Return
<1>4. CASE a = Watchdog /\ WatchdogStep
  BY <1>4 DEF WatchdogStep, Scan, Reap, ReapCancel, PassDone, Settle, Return
<1>5. CASE a = Loop /\ LoopStep /\ ~Exit /\ ~Crash
  BY <1>5 DEF LoopStep, Create, RecordConsent, Submit, Boot, Recover, Serve, Shutdown, Settle, Return
<1> QED BY <1>1, <1>2, <1>3, <1>4, <1>5 DEF Acting

LEMMA ActorSettles ==
  ASSUME IInv, HandsHaveRows, [Next]_vars, NEW a \in Actor, Settled(a), Acting(a)
  PROVE  Settled(a)'
<1> USE ActorClasses, ServiceAssumption
    DEF IInv, TypeOK, Row, Status, ActiveStatus, TerminalStatus, IsActive, IsTerminal, Control,
        HandsHaveRows, Settled, Past, Goto, Settle, Return, Actor, Marked, Finalizing, NoRow
<1>1. CASE UpdWrite(a)
  BY <1>1 DEF UpdWrite, Reported
<1>2. CASE UpdCache(a)
  BY <1>2 DEF UpdCache
<1>3. CASE FinDb(a)
  BY <1>3 DEF FinDb, Finalized, CanFinalize, CancelWins
<1>4. CASE FinAgain(a)
  BY <1>4 DEF FinAgain, FinalReturn, FinalizedBare, Rejudge, CanFinalize
<1>5. CASE FinSync(a)
  BY <1>5 DEF FinSync, FinalReturn
<1>6. ASSUME a \in Worker, NEW r \in Review, Take(a, r) PROVE Settled(a)'
  BY <1>6 DEF Take
<1>7. ASSUME a \in Worker, Check(a) PROVE Settled(a)'
  BY <1>7 DEF Check, Raised
<1>8. ASSUME a \in Worker, Mark(a) PROVE Settled(a)'
  BY <1>8 DEF Mark, CanMarkRunning, MarkedRunning, CancelWins
<1>9. ASSUME a \in Worker, Report(a) PROVE Settled(a)'
  BY <1>9 DEF Report, ReadForUpdate, Reported
<1>10. ASSUME a \in Worker, Proceed(a) PROVE Settled(a)'
  BY <1>10 DEF Proceed
<1>11. ASSUME a \in Worker, Raise(a) PROVE Settled(a)'
  BY <1>11 DEF Raise, Raised
<1>12. ASSUME a \in Worker, RuleRaise(a) PROVE Settled(a)'
  BY <1>12 DEF RuleRaise, ReadForUpdate, Raised, Reported
<1>13. ASSUME a \in Worker, StageReport(a) PROVE Settled(a)'
  BY <1>13 DEF StageReport, ReadForUpdate, Reported
<1>14. ASSUME a \in Worker, Conclude(a) PROVE Settled(a)'
  BY <1>14 DEF Conclude
<1>15. ASSUME a \in Worker, End(a) PROVE Settled(a)'
  BY <1>15 DEF End
<1>16. ASSUME a \in Canceller, NEW r \in Review, CancelRead(a, r) PROVE Settled(a)'
  BY <1>16 DEF CancelRead
<1>17. ASSUME a \in Canceller, CancelPre(a) PROVE Settled(a)'
  BY <1>17 DEF CancelPre
<1>18. ASSUME a \in Canceller, CancelRequest(a) PROVE Settled(a)'
  BY <1>18 DEF CancelRequest, CancelRequested, CanRequestCancel, CancelWins
<1>19. ASSUME a \in Canceller, CancelSync(a) PROVE Settled(a)'
  BY <1>19 DEF CancelSync
<1>20. ASSUME a \in Canceller, CancelExecutor(a) PROVE Settled(a)'
  BY <1>20 DEF CancelExecutor, CancelInExecutor
<1>21. ASSUME a = Watchdog, NEW S \in SUBSET Review, Scan(S) PROVE Settled(a)'
  BY <1>21 DEF Scan
<1>22. ASSUME a = Watchdog, NEW n \in Note, Reap(n) PROVE Settled(a)'
  BY <1>22 DEF Reap, Note
<1>23. CASE a = Watchdog /\ ReapCancel
  BY <1>23 DEF ReapCancel, CancelInExecutor
<1>24. CASE a = Watchdog /\ PassDone
  BY <1>24 DEF PassDone
<1>25. ASSUME a = Loop, NEW r \in Review, Create(r) PROVE Settled(a)'
  BY <1>25 DEF Create, Serving, NewRow
<1>26. CASE a = Loop /\ RecordConsent
  BY <1>26 DEF RecordConsent
<1>27. CASE a = Loop /\ Submit(Loop)
  BY <1>27 DEF Submit
<1>28. CASE a = Loop /\ Boot
  BY <1>28 DEF Boot
<1>29. ASSUME a = Loop, NEW n \in Note, Recover(n) PROVE Settled(a)'
  BY <1>29 DEF Recover, Note, Requeued, Ownership, ListedIsUntouched
<1>30. CASE a = Loop /\ Serve
  BY <1>30 DEF Serve
<1>31. CASE a = Loop /\ Shutdown
  BY <1>31 DEF Shutdown, Serving
<1> QED
  BY <1>1, <1>2, <1>3, <1>4, <1>5, <1>6, <1>7, <1>8, <1>9, <1>10, <1>11, <1>12, <1>13,
     <1>14, <1>15, <1>16, <1>17, <1>18, <1>19, <1>20, <1>21, <1>22, <1>23, <1>24, <1>25,
     <1>26, <1>27, <1>28, <1>29, <1>30, <1>31
  DEF Acting, Subroutine, WorkerStep, CancelStep, WatchdogStep, LoopStep

LEMMA SettledStep ==
  ASSUME IInv, HandsHaveRows, \A a \in Actor : Settled(a), [Next]_vars
  PROVE  \A a \in Actor : Settled(a)'
<1>1. ASSUME NEW a \in Actor, Acting(a), NEW b \in Actor PROVE Settled(b)'
  <2>1. CASE b = a
    BY <1>1, <2>1, ActorSettles
  <2>2. CASE b # a
    <3>1. pc'[b] = pc[b] /\ rid'[b] = rid[b] /\ copy'[b] = copy[b]
      BY <1>1, <2>2, OneActs DEF IInv
    <3>2. CASE rid[b] \in Review
      BY <3>1, <3>2, StatusIsKept DEF Settled, Past, IsTerminal
    <3>3. CASE rid[b] \notin Review
      BY <3>1, <3>3 DEF Settled, IInv, Control, Actor, Finalizing, Marked
    <3> QED BY <3>2, <3>3
  <2> QED BY <2>1, <2>2
<1>2. CASE Lost
  BY <1>2 DEF Lost, Quiet, NoRow, Settled, IsTerminal, TerminalStatus
<1>3. CASE UNCHANGED vars
  BY <1>3 DEF vars, Settled, Past
<1> QED BY <1>1, <1>2, <1>3, SomebodyActs

\* A step leaves a cache entry alone, or puts there what is no verdict or the verdict
\* of the row.
LEMMA CacheSteps ==
  ASSUME IInv, \A a \in Actor : Settled(a), [Next]_vars, NEW r \in Review, IsTerminal(cache'[r])
  PROVE  cache'[r] = cache[r] \/ cache'[r].status = db'[r].status
<1> USE ActorClasses DEF IInv, TypeOK
<1>1. ASSUME NEW a \in Actor, UpdCache(a)
      PROVE  cache'[r] = cache[r] \/ cache'[r].status = db'[r].status
  BY <1>1 DEF UpdCache, Settled
<1>2. ASSUME NEW a \in Actor, FinSync(a)
      PROVE  cache'[r] = cache[r] \/ cache'[r].status = db'[r].status
  BY <1>2 DEF FinSync
<1>3. ASSUME NEW k \in Canceller, CancelPre(k) \/ CancelSync(k)
      PROVE  cache'[r] = cache[r] \/ cache'[r].status = db'[r].status
  BY <1>3 DEF CancelPre, CancelSync, Settled
<1>4. ASSUME NEW q \in Review, Create(q)
      PROVE  cache'[r] = cache[r] \/ cache'[r].status = db'[r].status
  BY <1>4 DEF Create
<1>5. ASSUME NEW n \in Note, Recover(n)
      PROVE  cache'[r] = cache[r] \/ cache'[r].status = db'[r].status
  BY <1>5 DEF Recover, Note
<1>6. CASE Lost
  BY <1>6 DEF Lost, NoRow, IsTerminal, TerminalStatus
<1>7. CASE UNCHANGED cache
  BY <1>7
<1>8. ASSUME NEW a \in Actor, UpdWrite(a) \/ FinDb(a) \/ FinAgain(a) PROVE UNCHANGED cache
  BY <1>8 DEF UpdWrite, FinDb, FinAgain
<1>9. ASSUME NEW w \in Worker, WorkerStep(w) PROVE UNCHANGED cache
  BY <1>9 DEF WorkerStep, Take, Check, Mark, Report, ReadForUpdate, Proceed, Raise, RuleRaise,
              StageReport, Conclude, End
<1>10. ASSUME NEW k \in Canceller, CancelStep(k), ~CancelPre(k), ~CancelSync(k) PROVE UNCHANGED cache
  BY <1>10 DEF CancelStep, CancelRead, CancelRequest, CancelExecutor
<1>11. CASE WatchdogStep
  BY <1>11, <1>7 DEF WatchdogStep, Scan, Reap, ReapCancel, PassDone
<1>12. CASE RecordConsent \/ Submit(Loop) \/ Boot \/ Serve \/ Shutdown
  BY <1>12, <1>7 DEF RecordConsent, Submit, Boot, Serve, Shutdown
<1>13. CASE UNCHANGED vars
  BY <1>13, <1>7 DEF vars
<1> QED
  BY <1>1, <1>2, <1>3, <1>4, <1>5, <1>6, <1>7, <1>8, <1>9, <1>10, <1>11, <1>12, <1>13
  DEF Next, Subroutine, LoopStep, Exit, Crash

LEMMA ShownStep ==
  ASSUME IInv, \A a \in Actor : Settled(a), ShownVerdictIsStored, [Next]_vars
  PROVE  ShownVerdictIsStored'
BY CacheSteps, StatusIsKept DEF ShownVerdictIsStored, IsTerminal

\* Whatever the executor lets go of is past, and whatever leaves the loop's hands or
\* the recovery list is past, in the executor, or in the loop's hands.
InHand(r) == \/ Held(r) \/ rid[Loop] = r
             \/ \E n \in todo[Loop] : n.review = r

LEMMA InHandSteps ==
  ASSUME IInv, HandsHaveRows, \A a \in Actor : Settled(a), Next, NEW r \in Review,
         InHand(r), ~InHand(r)', pc'[Loop] \notin {"down", "drain"}
  PROVE  Past(r)
<1> USE ActorClasses, ServiceAssumption
    DEF IInv, TypeOK, Control, InHand, Held, Running, Busy, Goto, Settle, Return, Actor, Marked, Finalizing
<1>1. ASSUME NEW a \in Actor, UpdWrite(a) PROVE Past(r)
  BY <1>1 DEF UpdWrite
<1>2. ASSUME NEW a \in Actor, UpdCache(a) PROVE Past(r)
  BY <1>2 DEF UpdCache
<1>3. ASSUME NEW a \in Actor, FinDb(a) PROVE Past(r)
  BY <1>3 DEF FinDb
<1>4. ASSUME NEW a \in Actor, FinAgain(a) PROVE Past(r)
  BY <1>4 DEF FinAgain, FinalReturn, Settled
<1>5. ASSUME NEW a \in Actor, FinSync(a) PROVE Past(r)
  BY <1>5 DEF FinSync, FinalReturn, Settled
<1>6. ASSUME NEW w \in Worker, NEW q \in Review, Take(w, q) PROVE Past(r)
  BY <1>6 DEF Take
<1>7. ASSUME NEW w \in Worker, Check(w) PROVE Past(r)
  BY <1>7 DEF Check, Raised
<1>8. ASSUME NEW w \in Worker, Mark(w) PROVE Past(r)
  BY <1>8 DEF Mark
<1>9. ASSUME NEW w \in Worker, Report(w) PROVE Past(r)
  BY <1>9 DEF Report, ReadForUpdate
<1>10. ASSUME NEW w \in Worker, Proceed(w) PROVE Past(r)
  BY <1>10 DEF Proceed
<1>11. ASSUME NEW w \in Worker, Raise(w) PROVE Past(r)
  BY <1>11 DEF Raise, Raised
<1>12. ASSUME NEW w \in Worker, RuleRaise(w) PROVE Past(r)
  BY <1>12 DEF RuleRaise, ReadForUpdate, Raised
<1>13. ASSUME NEW w \in Worker, StageReport(w) PROVE Past(r)
  BY <1>13 DEF StageReport, ReadForUpdate
<1>14. ASSUME NEW w \in Worker, Conclude(w) PROVE Past(r)
  BY <1>14 DEF Conclude
<1>15. ASSUME NEW w \in Worker, End(w) PROVE Past(r)
  BY <1>15 DEF End, Settled
<1>16. ASSUME NEW k \in Canceller, NEW q \in Review, CancelRead(k, q) PROVE Past(r)
  BY <1>16 DEF CancelRead
<1>17. ASSUME NEW k \in Canceller, CancelPre(k) PROVE Past(r)
  BY <1>17 DEF CancelPre
<1>18. ASSUME NEW k \in Canceller, CancelRequest(k) PROVE Past(r)
  BY <1>18 DEF CancelRequest
<1>19. ASSUME NEW k \in Canceller, CancelSync(k) PROVE Past(r)
  BY <1>19 DEF CancelSync
<1>20. ASSUME NEW k \in Canceller, CancelExecutor(k) PROVE Past(r)
  BY <1>20 DEF CancelExecutor, CancelInExecutor, Settled
<1>21. ASSUME NEW S \in SUBSET Review, Scan(S) PROVE Past(r)
  BY <1>21 DEF Scan
<1>22. ASSUME NEW n \in Note, Reap(n) PROVE Past(r)
  BY <1>22 DEF Reap, Note
<1>23. CASE ReapCancel
  BY <1>23 DEF ReapCancel, CancelInExecutor, Settled
<1>24. CASE PassDone
  BY <1>24 DEF PassDone
<1>25. ASSUME NEW q \in Review, Create(q) PROVE Past(r)
  BY <1>25 DEF Create, Serving, NewRow
<1>26. CASE RecordConsent
  BY <1>26 DEF RecordConsent
<1>27. CASE Submit(Loop)
  BY <1>27 DEF Submit
<1>28. CASE Boot
  BY <1>28 DEF Boot, Ownership, DownIsEmpty, ListedIsUntouched, Booting
<1>29. ASSUME NEW n \in Note, Recover(n) PROVE Past(r)
  BY <1>29 DEF Recover, Note
<1>30. CASE Serve
  BY <1>30 DEF Serve
<1>31. CASE Shutdown
  BY <1>31 DEF Shutdown, Serving
<1>32. CASE Exit \/ Crash
  BY <1>32 DEF Exit, Crash, Lost, Quiet
<1> QED
  BY <1>1, <1>2, <1>3, <1>4, <1>5, <1>6, <1>7, <1>8, <1>9, <1>10, <1>11, <1>12, <1>13,
     <1>14, <1>15, <1>16, <1>17, <1>18, <1>19, <1>20, <1>21, <1>22, <1>23, <1>24, <1>25,
     <1>26, <1>27, <1>28, <1>29, <1>30, <1>31, <1>32
  DEF Next, Subroutine, WorkerStep, CancelStep, WatchdogStep, LoopStep

LEMMA HeldStep ==
  ASSUME IInv, HandsHaveRows, \A a \in Actor : Settled(a), ActiveIsHeld, [Next]_vars
  PROVE  ActiveIsHeld'
<1> SUFFICES ASSUME NEW r \in Review, pc'[Loop] \notin {"down", "drain"}, ~InHand(r)'
             PROVE  db'[r].status \notin {"queued", "running"}
  BY DEF ActiveIsHeld, InHand
<1>1. CASE UNCHANGED vars
  BY <1>1 DEF vars, ActiveIsHeld, InHand, Held, Running, Busy
<1>2. CASE Next /\ InHand(r)
  BY <1>2, InHandSteps, StatusIsKept DEF Past
<1>3. CASE Next /\ ~InHand(r) /\ pc[Loop] \notin {"down", "drain"}
  <2>1. db[r].status \notin {"queued", "running"} /\ ~Create(r)
    BY <1>3, ActorClasses DEF ActiveIsHeld, InHand, Create, IInv, TypeOK
  <2> QED BY <2>1, StatusSteps DEF IsTerminal, TerminalStatus
<1>4. CASE Next /\ pc[Loop] \in {"down", "drain"}
  <2>1. Boot
    <3>1. PICK a \in Actor : Acting(a)
      BY <1>4, SomebodyActs, ActorClasses DEF Lost, Quiet
    <3>2. a = Loop
      BY <1>4, <3>1, OneActs, ActorClasses DEF IInv
    <3>3. ~Subroutine(Loop)
      BY <1>4, ServiceAssumption
      DEF IInv, Control, Finalizing, Subroutine, UpdWrite, UpdCache, FinDb, FinAgain, FinSync
    <3> QED BY <1>4, <3>1, <3>2, <3>3, ServiceAssumption, ActorClasses
      DEF IInv, TypeOK, Acting, LoopStep, Create, Serving, RecordConsent, Submit, Recover, Serve,
          Shutdown
  <2>2. db[r].status \notin ActiveStatus
    <3> SUFFICES ASSUME db[r].status \in ActiveStatus PROVE FALSE
      OBVIOUS
    <3>1. [review |-> r, status |-> db[r].status] \in Note
      BY DEF Note
    <3>2. [review |-> r, status |-> db[r].status] \in todo'[Loop]
      BY <2>1, <3>1 DEF Boot, IInv, TypeOK
    <3> QED BY <3>2 DEF InHand
  <2> QED BY <2>1, <2>2 DEF Boot, ActiveStatus
<1> QED BY <1>1, <1>2, <1>3, <1>4

LEMMA VInvInit == Init => VInv
<1> SUFFICES ASSUME Init PROVE VInv
  OBVIOUS
<1>1. IInv
  BY IInvInit
<1>2. HandsHaveRows /\ ActiveIsHeld
  BY ActorClasses DEF Init, Quiet, NoRow, HandsHaveRows, ActiveIsHeld
<1>3. \A a \in Actor : Settled(a)
  BY DEF Init, Quiet, NoRow, Settled, IsTerminal, TerminalStatus
<1>4. ShownVerdictIsStored /\ NoDuplicateWork
  BY DEF Init, NoRow, ShownVerdictIsStored, NoDuplicateWork, IsTerminal, TerminalStatus,
         IsActive, ActiveStatus
<1> QED BY <1>1, <1>2, <1>3, <1>4 DEF VInv

LEMMA VInvStep == VInv /\ [Next]_vars => VInv'
<1> SUFFICES ASSUME VInv, [Next]_vars PROVE VInv'
  OBVIOUS
<1> USE DEF VInv
<1>1. IInv' /\ NoDuplicateWork'
  BY IInvStep, NoDuplicateStep
<1>2. HandsHaveRows' /\ (\A a \in Actor : Settled(a))'
  BY HandsStep, SettledStep
<1>3. ShownVerdictIsStored' /\ ActiveIsHeld'
  BY ShownStep, HeldStep
<1> QED BY <1>1, <1>2, <1>3

LEMMA VInvHolds == Spec => []VInv
BY VInvInit, VInvStep, PTL DEF Spec

\* The cache of a request never shows a verdict the database does not have: late
\* writes of workers and request threads only repeat what was stored.
THEOREM ShownVerdictsAreStored == Spec => []ShownVerdictIsStored
<1>1. VInv => ShownVerdictIsStored
  BY DEF VInv
<1> QED BY VInvHolds, <1>1, PTL

\* While the service runs no queued or running review is orphaned: the executor, the
\* event loop or the recovery list holds it, through refusals, cancels and restarts.
THEOREM ActiveReviewsAreHeld == Spec => []ActiveIsHeld
<1>1. VInv => ActiveIsHeld
  BY DEF VInv
<1> QED BY VInvHolds, <1>1, PTL

\* Two unfinished reviews never carry the same idempotency key.
THEOREM WorkIsNotDoubled == Spec => []NoDuplicateWork
<1>1. VInv => NoDuplicateWork
  BY DEF VInv
<1> QED BY VInvHolds, <1>1, PTL

=============================================================================
