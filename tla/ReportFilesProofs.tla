-------------------------- MODULE ReportFilesProofs --------------------------
(***************************************************************************)
(* Proofs about ReportFiles, for any set of requests, any number of        *)
(* attempts, purges and crashes.                                           *)
(***************************************************************************)
EXTENDS ReportFiles, TLAPS

\* Before a built file takes its place: the request has the lock and a building.
Building == {"building", "saving", "verifying", "replacing"}

\* PDFs are made under the lock, summaries without one.
WayOfKind == \A r \in Request :
  /\ file = "summary" => pc[r] \notin Inside \union {"waiting"}
  /\ file \in Built => pc[r] # "writing"

\* What is about to take the place of the old file has been found whole.
VerifiedFirst == \A r \in Request : pc[r] = "replacing" => temp[r] = "whole"

\* A report is only built while there is none in order.
NothingToReuse == \A r \in Request :
  file = "report" /\ pc[r] \in Building => disk # "whole"

\* From its place in the lock's block on, a PDF is whole unless it was removed.
BuiltIsWhole == \A r \in Request :
  file \in Built /\ pc[r] \in {"served", "serving"} => disk \in {"whole", "none"}

\* A summary that is written is whole, unless another request spoils it.
SummarySpoiltByOthers == \A r \in Request :
  file = "summary" /\ pc[r] = "serving" =>
    disk = "whole" \/ \E q \in Request \ {r} : pc[q] \in {"writing", "error", "dead"}

IInv == /\ TempsAccounted /\ WayOfKind /\ VerifiedFirst /\ NothingToReuse
        /\ BuiltIsWhole /\ SummarySpoiltByOthers
-----------------------------------------------------------------------------
LEMMA InitHolds == Init => IInv
BY ReportAssumption
   DEF Init, IInv, TempsAccounted, TypeOK, WayOfKind, VerifiedFirst, NothingToReuse, BuiltIsWhole,
       SummarySpoiltByOthers, Pc, Inside, Ended, Content, File, Built, Building

\* Types, lock and temporary files.
LEMMA AccountsKept == ASSUME TempsAccounted, [Next]_vars PROVE TempsAccounted'
<1> USE ReportAssumption DEF TempsAccounted, TypeOK, Pc, Inside, Ended, Content, File
<1>1. ASSUME NEW r \in Request, Ask(r) PROVE TempsAccounted'
  BY <1>1 DEF Ask, Step, Go
<1>2. ASSUME NEW r \in Request, BeginSummary(r) PROVE TempsAccounted'
  BY <1>2 DEF BeginSummary, Step, Go
<1>3. ASSUME NEW r \in Request, SummaryFails(r) PROVE TempsAccounted'
  BY <1>3 DEF SummaryFails, Step, Go
<1>4. ASSUME NEW r \in Request, Enter(r) PROVE TempsAccounted'
  BY <1>4 DEF Enter, Cached, Step, Go
<1>5. ASSUME NEW r \in Request, Begin(r) PROVE TempsAccounted'
  BY <1>5 DEF Begin, Step, Go
<1>6. ASSUME NEW r \in Request, BeginFails(r) PROVE TempsAccounted'
  BY <1>6 DEF BeginFails, Step, Go
<1>7. ASSUME NEW r \in Request, Save(r) PROVE TempsAccounted'
  BY <1>7 DEF Save, Step, Go
<1>8. ASSUME NEW r \in Request, Verify(r) PROVE TempsAccounted'
  BY <1>8 DEF Verify, Step, Go
<1>9. ASSUME NEW r \in Request, Replace(r) PROVE TempsAccounted'
  BY <1>9 DEF Replace, Step, Go
<1>10. ASSUME NEW r \in Request, ReplaceLater(r) PROVE TempsAccounted'
  BY <1>10 DEF ReplaceLater, Step, Go
<1>11. ASSUME NEW r \in Request, Fail(r) PROVE TempsAccounted'
  BY <1>11 DEF Fail, Refused, Step, Go
<1>12. ASSUME NEW r \in Request, Leave(r) PROVE TempsAccounted'
  BY <1>12 DEF Leave, Step, Go
<1>13. ASSUME NEW r \in Request, EndSummary(r) PROVE TempsAccounted'
  BY <1>13 DEF EndSummary, Step, Go
<1>14. ASSUME NEW r \in Request, Open(r) PROVE TempsAccounted'
  BY <1>14 DEF Open, Step, Go
<1>15. ASSUME NEW r \in Request, Close(r) PROVE TempsAccounted'
  BY <1>15 DEF Close, Step, Go
<1>16. CASE Purge
  BY <1>16 DEF Purge
<1>17. CASE Crash
  BY <1>17 DEF Crash
<1>18. CASE UNCHANGED vars
  BY <1>18 DEF vars
<1> QED
  BY <1>1, <1>2, <1>3, <1>4, <1>5, <1>6, <1>7, <1>8, <1>9, <1>10, <1>11, <1>12, <1>13, <1>14, <1>15, <1>16, <1>17, <1>18 DEF Next, Work

\* How the path's content changes: by the three steps that are meant to.
DiskStep ==
  \/ UNCHANGED disk
  \/ \E r \in Request : Replace(r) /\ disk' = "whole"
  \/ Purge /\ disk' = "none"
  \/ file = "summary" /\ \E r \in Request : BeginSummary(r) \/ (EndSummary(r) /\ disk' = "whole")

LEMMA DiskSteps == ASSUME WayOfKind, VerifiedFirst, file \in File, [Next]_vars PROVE DiskStep
<1>1. ASSUME NEW r \in Request, Replace(r) PROVE DiskStep
  BY <1>1 DEF VerifiedFirst, Replace, Step, DiskStep
<1>2. ASSUME NEW r \in Request, BeginSummary(r) PROVE DiskStep
  BY <1>2 DEF BeginSummary, DiskStep
<1>3. ASSUME NEW r \in Request, EndSummary(r) PROVE DiskStep
  BY <1>3 DEF WayOfKind, File, EndSummary, Step, DiskStep
<1>4. CASE Purge
  BY <1>4 DEF Purge, DiskStep
<1>5. ASSUME NEW r \in Request, Work(r), ~Replace(r), ~EndSummary(r) PROVE DiskStep
  BY <1>5 DEF Work, Enter, Begin, BeginFails, Save, Verify, ReplaceLater, Fail, Leave, Open, Close, DiskStep
<1>6. ASSUME NEW r \in Request, Ask(r) \/ SummaryFails(r) PROVE DiskStep
  BY <1>6 DEF Ask, SummaryFails, DiskStep
<1>7. CASE Crash \/ UNCHANGED vars
  BY <1>7 DEF Crash, vars, DiskStep
<1> QED BY <1>1, <1>2, <1>3, <1>4, <1>5, <1>6, <1>7 DEF Next

LEMMA WayKept == ASSUME TempsAccounted, WayOfKind, [Next]_vars PROVE WayOfKind'
<1> USE DEF TempsAccounted, TypeOK, WayOfKind, Pc, Inside, Ended, File, Built
<1>1. ASSUME NEW r \in Request, Ask(r) \/ BeginSummary(r) \/ SummaryFails(r) PROVE WayOfKind'
  BY <1>1 DEF Ask, BeginSummary, SummaryFails, Step, Go
<1>2. ASSUME NEW r \in Request, Enter(r) \/ Leave(r) PROVE WayOfKind'
  BY <1>2 DEF Enter, Leave, Cached, Step, Go
<1>3. ASSUME NEW r \in Request, Begin(r) \/ BeginFails(r) \/ Save(r) \/ Verify(r) PROVE WayOfKind'
  BY <1>3 DEF Begin, BeginFails, Save, Verify, Step, Go
<1>4. ASSUME NEW r \in Request, Replace(r) \/ ReplaceLater(r) \/ Fail(r) PROVE WayOfKind'
  BY <1>4 DEF Replace, ReplaceLater, Fail, Refused, Step, Go
<1>5. ASSUME NEW r \in Request, EndSummary(r) \/ Open(r) \/ Close(r) PROVE WayOfKind'
  BY <1>5 DEF EndSummary, Open, Close, Step, Go
<1>6. CASE Purge \/ Crash \/ UNCHANGED vars
  BY <1>6 DEF Purge, Crash, vars
<1> QED BY <1>1, <1>2, <1>3, <1>4, <1>5, <1>6 DEF Next, Work

\* Only the check lets a file through, and nothing touches it afterwards.
LEMMA VerifiedKept == ASSUME TempsAccounted, VerifiedFirst, [Next]_vars PROVE VerifiedFirst'
<1> USE DEF TempsAccounted, TypeOK, VerifiedFirst, Pc, Inside, Ended
<1>1. ASSUME NEW r \in Request, Verify(r) PROVE VerifiedFirst'
  BY <1>1 DEF Verify, Step, Go
<1>2. ASSUME NEW r \in Request, Begin(r) \/ Save(r) \/ Replace(r) \/ Fail(r) PROVE VerifiedFirst'
  BY <1>2 DEF Begin, Save, Replace, Fail, Refused, Step, Go
<1>3. ASSUME NEW r \in Request, Enter(r) \/ BeginFails(r) \/ ReplaceLater(r) \/ Leave(r)
      PROVE VerifiedFirst'
  BY <1>3 DEF Enter, BeginFails, ReplaceLater, Leave, Cached, Step, Go
<1>4. ASSUME NEW r \in Request, Ask(r) \/ BeginSummary(r) \/ EndSummary(r) \/ SummaryFails(r)
                                \/ Open(r) \/ Close(r)
      PROVE VerifiedFirst'
  BY <1>4 DEF Ask, BeginSummary, EndSummary, SummaryFails, Open, Close, Step, Go
<1>5. CASE Purge \/ Crash \/ UNCHANGED vars
  BY <1>5 DEF Purge, Crash, vars
<1> QED BY <1>1, <1>2, <1>3, <1>4, <1>5 DEF Next, Work

\* Building begins without a report in order, and ends when there is one: no other
\* request is in the lock's block then.
LEMMA NothingToReuseKept ==
  ASSUME TempsAccounted, WayOfKind, VerifiedFirst, NothingToReuse, [Next]_vars PROVE NothingToReuse'
<1> USE DEF TempsAccounted, TypeOK, NothingToReuse, Building, Pc, Inside, Ended, File, Built
<1>0. DiskStep
  BY DiskSteps
<1>1. ASSUME NEW r \in Request, Enter(r) PROVE NothingToReuse'
  BY <1>1 DEF Enter, Cached, Step, Go
<1>2. ASSUME NEW r \in Request, Replace(r) PROVE NothingToReuse'
  BY <1>2 DEF Replace, Step, Go
<1>3. ASSUME NEW r \in Request, Begin(r) \/ BeginFails(r) \/ Save(r) \/ Verify(r)
                                \/ ReplaceLater(r) \/ Fail(r) \/ Leave(r)
      PROVE NothingToReuse'
  BY <1>3 DEF Begin, BeginFails, Save, Verify, ReplaceLater, Fail, Leave, Refused, Step, Go
<1>4. ASSUME NEW r \in Request, Ask(r) \/ BeginSummary(r) \/ EndSummary(r) \/ SummaryFails(r)
                                \/ Open(r) \/ Close(r)
      PROVE NothingToReuse'
  BY <1>0, <1>4 DEF Ask, BeginSummary, EndSummary, SummaryFails, Open, Close, Step, Go, WayOfKind
<1>5. CASE Purge \/ Crash \/ UNCHANGED vars
  BY <1>5 DEF Purge, Crash, vars
<1> QED BY <1>1, <1>2, <1>3, <1>4, <1>5 DEF Next, Work

\* A PDF is only served after it was found or made whole, and no step spoils it.
LEMMA BuiltIsWholeKept ==
  ASSUME TempsAccounted, WayOfKind, VerifiedFirst, BuiltIsWhole, [Next]_vars PROVE BuiltIsWhole'
<1> USE DEF TempsAccounted, TypeOK, BuiltIsWhole, Pc, Inside, Ended, File, Built
<1>0. DiskStep
  BY DiskSteps
<1>1. file \in Built /\ disk \in {"whole", "none"} => disk' \in {"whole", "none"}
  BY <1>0 DEF DiskStep
<1>2. ASSUME NEW r \in Request, file \in Built, pc[r] \notin {"served", "serving"},
             pc'[r] \in {"served", "serving"}
      PROVE  disk' \in {"whole", "none"}
  <2>1. ASSUME Enter(r) PROVE disk' \in {"whole", "none"}
    BY <1>2, <2>1 DEF Enter, Cached, Step, Go
  <2>2. ASSUME Replace(r) PROVE disk' \in {"whole", "none"}
    BY <2>2 DEF VerifiedFirst, Replace, Step
  <2>3. ASSUME NEW q \in Request, Work(q), ~(Enter(q) /\ q = r), ~(Replace(q) /\ q = r) PROVE FALSE
    BY <1>2, <2>3 DEF Work, Enter, Begin, BeginFails, Save, Verify, Replace, ReplaceLater, Fail, Refused,
       Leave, EndSummary, Open, Close, WayOfKind, Step, Go
  <2>4. ASSUME NEW q \in Request, Ask(q) \/ BeginSummary(q) \/ SummaryFails(q) PROVE FALSE
    BY <1>2, <2>4 DEF Ask, BeginSummary, SummaryFails, Step, Go
  <2>5. ~(Purge \/ Crash \/ UNCHANGED vars)
    BY <1>2 DEF Purge, Crash, vars
  <2> QED BY <2>1, <2>2, <2>3, <2>4, <2>5 DEF Next
<1>3. UNCHANGED file
  BY DEF Next, Work, Ask, BeginSummary, SummaryFails, Enter, Begin, BeginFails, Save, Verify, Replace,
     ReplaceLater, Fail, Leave, EndSummary, Open, Close, Purge, Crash, vars
<1> QED BY <1>1, <1>2, <1>3

\* A request that has written the summary may lose it only to one that is writing,
\* and that one does not get away from "writing" without a trace.
LEMMA SummaryKept ==
  ASSUME TempsAccounted, WayOfKind, VerifiedFirst, SummarySpoiltByOthers, [Next]_vars
  PROVE  SummarySpoiltByOthers'
<1> USE DEF TempsAccounted, TypeOK, WayOfKind, SummarySpoiltByOthers, Pc, Inside, Ended, File, Built
<1>1. ASSUME NEW r \in Request, BeginSummary(r) \/ EndSummary(r) \/ SummaryFails(r)
      PROVE SummarySpoiltByOthers'
  BY <1>1 DEF BeginSummary, EndSummary, SummaryFails, Step, Go
<1>2. ASSUME NEW r \in Request, Open(r) \/ Close(r) PROVE SummarySpoiltByOthers'
  BY <1>2 DEF Open, Close, Step, Go
<1>3. ASSUME NEW r \in Request, Ask(r) \/ (Work(r) /\ ~EndSummary(r) /\ ~Open(r) /\ ~Close(r))
      PROVE file # "summary" /\ UNCHANGED file
  BY <1>3 DEF Ask, Work, Enter, Begin, BeginFails, Save, Verify, Replace, ReplaceLater, Fail, Refused,
     Leave, Step
<1>4. CASE Purge \/ Crash \/ UNCHANGED vars
  BY <1>4 DEF Purge, Crash, vars
<1> QED BY <1>1, <1>2, <1>3, <1>4 DEF Next, Work

-----------------------------------------------------------------------------
LEMMA InvariantHolds == Spec => []IInv
<1>1. IInv /\ [Next]_vars => IInv'
  BY AccountsKept, WayKept, VerifiedKept, NothingToReuseKept, BuiltIsWholeKept, SummaryKept
  DEF IInv, TempsAccounted, TypeOK
<1> QED BY InitHolds, <1>1, PTL DEF Spec

\* Whatever requests, clean-ups and crashes overlap, the lock is held by exactly
\* the request in its block, and temporary files belong to requests at work or
\* were left by a crash.
THEOREM TempsAreAccounted == Spec => []TempsAccounted
<1>1. IInv => TempsAccounted
  BY DEF IInv
<1> QED BY InvariantHolds, <1>1, PTL

\* Downloads begin with whole files, a report is not built over one in order, and
\* a PDF in order stays until the clean-up takes it.
THEOREM FilesAreWhole == Spec => FilesStayWhole
<1>1. ASSUME IInv, [Next]_vars PROVE [BeginsWhole]_vars
  <2> SUFFICES ASSUME NEW r \in Request, pc[r] = "serving", pc'[r] = "reading"
               PROVE  \/ disk = "whole"
                      \/ file = "summary" /\ \E q \in Request \ {r} :
                            pc[q] \in {"writing", "error", "dead"}
    BY DEF BeginsWhole
  <2>1. disk # "none"
    BY <1>1 DEF IInv, TempsAccounted, TypeOK, Next, Work, Ask, Enter, Begin, BeginFails, Save, Verify,
       Replace, ReplaceLater, Fail, Leave, BeginSummary, EndSummary, SummaryFails, Open, Close,
       Purge, Crash, vars, Step, Go, Cached
  <2> QED BY <1>1, <2>1 DEF IInv, TempsAccounted, TypeOK, BuiltIsWhole, SummarySpoiltByOthers, File
<1>2. ASSUME IInv, [Next]_vars PROVE [BuildsWhatLacks]_vars
  BY <1>2 DEF IInv, NothingToReuse, BuildsWhatLacks, Replace, Step, Building
<1>3. ASSUME IInv, [Next]_vars PROVE [KeepsWhole]_vars
  <2>1. DiskStep
    BY <1>3, DiskSteps DEF IInv, TempsAccounted, TypeOK
  <2> QED BY <1>3, <2>1 DEF IInv, TempsAccounted, TypeOK, DiskStep, KeepsWhole, Purge, Built
<1> QED
  BY InvariantHolds, <1>1, <1>2, <1>3, PTL
  DEF Spec, FilesStayWhole, WholeFilesServed, ReportBuiltOnce, ValidFilesStay
=============================================================================
