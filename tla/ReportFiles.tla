---------------------------- MODULE ReportFiles ----------------------------
(***************************************************************************)
(* The files made for download: the annotated PDF and the report of one    *)
(* review, and the summary of one batch (services/report, api/routes.py).  *)
(*                                                                         *)
(* Requests run in threads of their own.  The two PDFs are built under a   *)
(* lock per path, in a temporary file that is checked and then takes the   *)
(* place of the old one; a report that is there and in order is used       *)
(* again.  The summary is written in place and without a lock.  The file   *)
(* is opened for the answer after the lock is given back.  On Windows a    *)
(* file that somebody reads can be neither replaced nor removed.           *)
(*                                                                         *)
(* Paths have nothing in common, so a behaviour is about one of them.      *)
(***************************************************************************)
EXTENDS Naturals, FiniteSets

CONSTANTS Request, NoOne,
          Attempts,            \* of a replacement; 40 in the code
          MaxPurges, MaxCrashes

ASSUME ReportAssumption ==
  /\ NoOne \notin Request
  /\ Attempts \in Nat \ {0} /\ MaxPurges \in Nat /\ MaxCrashes \in Nat

VARIABLES file,                \* what the path is for
          pc,                  \* where a request is
          disk,                \* what is at the path
          temp,                \* the temporary file of each request
          lock,                \* _LOCKS: who holds the lock of the path
          tries,               \* replacements a request has tried
          windows,             \* the system it runs on
          purges, crashes      \* counted for the bounds

vars == <<file, pc, disk, temp, lock, tries, windows, purges, crashes>>

Built == {"annotated", "report"}
File  == Built \union {"summary"}

\* broken: a file that is there and cannot be used; part: one being written.
Content == {"none", "part", "broken", "whole"}

Inside  == {"building", "saving", "verifying", "replacing", "served", "raised"}
Ended   == {"done", "error", "dead"}
Pc      == {"idle", "waiting", "writing", "serving", "reading"} \union Inside \union Ended

Init ==
  /\ pc = [r \in Request |-> "idle"]
  /\ file \in File
  /\ disk \in {"none", "broken", "whole"}
  /\ temp = [r \in Request |-> "none"]
  /\ lock = NoOne
  /\ tries = [r \in Request |-> 0]
  /\ windows \in BOOLEAN
  /\ purges = 0 /\ crashes = 0

Go(r, to) == pc' = [pc EXCEPT ![r] = to]
Step(r, from, to) == pc[r] = from /\ Go(r, to)

\* Somebody has the file open and the system minds.
Busy == windows /\ \E r \in Request : pc[r] = "reading"

-----------------------------------------------------------------------------
(* The two PDFs.                                                           *)
Ask(r) ==
  /\ file \in Built
  /\ Step(r, "idle", "waiting")
  /\ UNCHANGED <<file, disk, temp, lock, tries, windows, purges, crashes>>

\* Only the report is used again, and only when it can be opened and read.
Cached == file = "report" /\ disk = "whole"

\* Faulty variant: each request has a lock of its own.
EnterAlone(r) ==
  /\ Step(r, "waiting", IF Cached THEN "served" ELSE "building")
  /\ lock' = r
  /\ UNCHANGED <<file, disk, temp, tries, windows, purges, crashes>>

Enter(r) ==
  /\ Step(r, "waiting", IF Cached THEN "served" ELSE "building")
  /\ lock = NoOne
  /\ lock' = r
  /\ UNCHANGED <<file, disk, temp, tries, windows, purges, crashes>>

\* Faulty variant: the PDF is written where it is to be read.
BeginInPlace(r) ==
  /\ Step(r, "building", "saving")
  /\ temp' = [temp EXCEPT ![r] = "part"]
  /\ disk' = "part"
  /\ UNCHANGED <<file, lock, tries, windows, purges, crashes>>

\* mkstemp, once the font and the source are there.
Begin(r) ==
  /\ Step(r, "building", "saving")
  /\ temp' = [temp EXCEPT ![r] = "part"]
  /\ UNCHANGED <<file, disk, lock, tries, windows, purges, crashes>>

\* No font, no source, or no room for a temporary file.
BeginFails(r) ==
  /\ Step(r, "building", "raised")
  /\ UNCHANGED <<file, disk, temp, lock, tries, windows, purges, crashes>>

\* The result may be unusable although nothing was raised.
Save(r) ==
  /\ Step(r, "saving", "verifying")
  /\ \E made \in {"whole", "broken"} : temp' = [temp EXCEPT ![r] = made]
  /\ UNCHANGED <<file, disk, lock, tries, windows, purges, crashes>>

\* Faulty variant: whatever was saved is good.
VerifyNothing(r) ==
  /\ Step(r, "verifying", "replacing")
  /\ UNCHANGED <<file, disk, temp, lock, tries, windows, purges, crashes>>

Verify(r) ==
  /\ temp[r] = "whole"
  /\ Step(r, "verifying", "replacing")
  /\ UNCHANGED <<file, disk, temp, lock, tries, windows, purges, crashes>>

\* os.replace; it is tried again while the file is in use.
Replace(r) ==
  /\ ~Busy
  /\ Step(r, "replacing", "served")
  /\ disk' = temp[r]
  /\ temp' = [temp EXCEPT ![r] = "none"]
  /\ UNCHANGED <<file, lock, tries, windows, purges, crashes>>

ReplaceLater(r) ==
  /\ pc[r] = "replacing" /\ Busy /\ tries[r] + 1 < Attempts
  /\ tries' = [tries EXCEPT ![r] = @ + 1]
  /\ UNCHANGED <<pc, file, disk, temp, lock, windows, purges, crashes>>

\* Saving raises, the check raises, or the last attempt does.
Refused(r) ==
  \/ pc[r] = "saving"
  \/ pc[r] = "verifying" /\ temp[r] # "whole"
  \/ pc[r] = "replacing" /\ Busy /\ tries[r] + 1 = Attempts

\* Faulty variant: a failure leaves its temporary file behind.
FailLittering(r) ==
  /\ Refused(r)
  /\ Go(r, "raised")
  /\ UNCHANGED <<file, disk, temp, lock, tries, windows, purges, crashes>>

Fail(r) ==
  /\ Refused(r)
  /\ Go(r, "raised")
  /\ temp' = [temp EXCEPT ![r] = "none"]
  /\ UNCHANGED <<file, disk, lock, tries, windows, purges, crashes>>

\* Faulty variant: an error leaves the lock taken.
LeaveHolding(r) ==
  /\ pc[r] \in {"served", "raised"}
  /\ Go(r, IF pc[r] = "served" THEN "serving" ELSE "error")
  /\ lock' = IF pc[r] = "served" THEN NoOne ELSE lock
  /\ UNCHANGED <<file, disk, temp, tries, windows, purges, crashes>>

\* The end of "with path_lock".
Leave(r) ==
  /\ pc[r] \in {"served", "raised"}
  /\ Go(r, IF pc[r] = "served" THEN "serving" ELSE "error")
  /\ lock' = NoOne
  /\ UNCHANGED <<file, disk, temp, tries, windows, purges, crashes>>

-----------------------------------------------------------------------------
(* The summary: workbook.save truncates the file and fills it.             *)
BeginSummary(r) ==
  /\ file = "summary" /\ ~Busy
  /\ Step(r, "idle", "writing")
  /\ disk' = "part"
  /\ UNCHANGED <<file, temp, lock, tries, windows, purges, crashes>>

EndSummary(r) ==
  /\ Step(r, "writing", "serving")
  /\ disk' = "whole"
  /\ UNCHANGED <<file, temp, lock, tries, windows, purges, crashes>>

\* The file is open elsewhere, or the disk is full.
SummaryFails(r) ==
  /\ \/ Step(r, "writing", "error")
     \/ file = "summary" /\ Busy /\ Step(r, "idle", "error")
  /\ UNCHANGED <<file, disk, temp, lock, tries, windows, purges, crashes>>

-----------------------------------------------------------------------------
(* The answer, the clean-up of old documents, and the end of the process.  *)
\* FileResponse opens the path; it may be gone again.
Open(r) ==
  /\ Step(r, "serving", IF disk = "none" THEN "error" ELSE "reading")
  /\ UNCHANGED <<file, disk, temp, lock, tries, windows, purges, crashes>>

Close(r) ==
  /\ Step(r, "reading", "done")
  /\ UNCHANGED <<file, disk, temp, lock, tries, windows, purges, crashes>>

\* The clean-up knows the review's files and nothing of locks, nor of batches.
Purge ==
  /\ file \in Built /\ disk # "none" /\ ~Busy /\ purges < MaxPurges
  /\ disk' = "none"
  /\ purges' = purges + 1
  /\ UNCHANGED <<pc, file, temp, lock, tries, windows, crashes>>

Crash ==
  /\ crashes < MaxCrashes
  /\ crashes' = crashes + 1
  /\ pc' = [r \in Request |-> IF pc[r] \in {"idle"} \union Ended THEN pc[r] ELSE "dead"]
  /\ lock' = NoOne
  /\ UNCHANGED <<file, disk, temp, tries, windows, purges>>

Work(r) ==
  \/ Enter(r) \/ Begin(r) \/ BeginFails(r) \/ Save(r) \/ Verify(r)
  \/ Replace(r) \/ ReplaceLater(r) \/ Fail(r) \/ Leave(r)
  \/ EndSummary(r) \/ Open(r) \/ Close(r)

Next ==
  \/ \E r \in Request : Ask(r) \/ BeginSummary(r) \/ SummaryFails(r) \/ Work(r)
  \/ Purge \/ Crash

\* Threads run on; a download is read to its end or given up.
Spec == Init /\ [][Next]_vars /\ \A r \in Request : WF_vars(Work(r))

-----------------------------------------------------------------------------
\* The types; a lock is held by exactly the request inside its path's block.
TypeOK ==
  /\ pc \in [Request -> Pc]
  /\ file \in File
  /\ disk \in Content
  /\ temp \in [Request -> Content]
  /\ lock \in Request \union {NoOne}
  /\ tries \in [Request -> 0 .. Attempts - 1]
  /\ windows \in BOOLEAN
  /\ purges \in 0 .. MaxPurges /\ crashes \in 0 .. MaxCrashes
  /\ \A r \in Request : pc[r] \in Inside <=> lock = r

\* The temporary files on the disk are those of requests at work on them, on
\* whatever way those before them ended; only a crash leaves one behind for ever.
\* The lock, which TypeOK speaks of, is given back on the same ways.
TempsAccounted ==
  TypeOK /\ \A r \in Request : temp[r] # "none" => pc[r] \in {"saving", "verifying", "replacing", "dead"}

\* A download begins with a whole file, whoever builds, replaces or removes it
\* meanwhile.  A summary can be torn, but only by another request for it that is
\* writing at the same time, or that failed or died while it wrote.
BeginsWhole ==
  \A r \in Request : pc[r] = "serving" /\ pc'[r] = "reading" =>
    \/ disk = "whole"
    \/ file = "summary" /\ \E q \in Request \ {r} : pc[q] \in {"writing", "error", "dead"}
WholeFilesServed == [][BeginsWhole]_vars

\* A report in order is never built again: of requests at the same time one
\* builds it and the others use what it built.
BuildsWhatLacks == \A r \in Request : Replace(r) /\ file = "report" => disk # "whole"
ReportBuiltOnce == [][BuildsWhatLacks]_vars

\* A PDF in order stays at its path until the clean-up takes it, however many
\* attempts to build it again fail, and through crashes.
KeepsWhole ==
  disk = "whole" /\ file \in Built => disk' = "whole" \/ (disk' = "none" /\ purges' # purges)
ValidFilesStay == [][KeepsWhole]_vars

\* Building, using, replacing and removing a file at the same time does it no harm:
\* what is served is whole, what is whole stays, and is not built again.
FilesStayWhole == WholeFilesServed /\ ReportBuiltOnce /\ ValidFilesStay

\* Every request is answered, or dies with the process: none waits for a lock
\* for ever, nor for a reader to let go.
EveryDownloadEnds ==
  \A r \in Request : pc[r] \notin {"idle"} \union Ended ~> pc[r] \in Ended
=============================================================================
