--------------------------- MODULE ReviewLifecycle ---------------------------
(***************************************************************************)
(* What the service promises about the status of every review, whoever     *)
(* acts on it: a verdict falls once; a review whose cancellation was       *)
(* accepted can only end as cancelled; only a review that was running is   *)
(* reported done; a restart may put unfinished work back in the queue.     *)
(* ReviewService implements this specification.                            *)
(***************************************************************************)
CONSTANT Review

VARIABLE life      \* life[r]: the durable status of review r

Verdict == {"done", "failed", "cancelled", "timed_out"}

Init == life = [r \in Review |-> "absent"]

Become(r, from, s) ==
  /\ life[r] \in from
  /\ life' = [life EXCEPT ![r] = s]

Create(r)        == Become(r, {"absent"}, "queued")
Begin(r)         == Become(r, {"queued"}, "running")
Requeue(r)       == Become(r, {"running"}, "queued")
AcceptCancel(r)  == Become(r, {"queued", "running"}, "cancelling")
Complete(r)      == Become(r, {"running"}, "done")
GiveUp(r)        == \E s \in {"failed", "timed_out"} : Become(r, {"queued", "running"}, s)
Cancel(r)        == Become(r, {"queued", "running", "cancelling"}, "cancelled")

Next == \E r \in Review :
  \/ Create(r) \/ Begin(r) \/ Requeue(r) \/ AcceptCancel(r)
  \/ Complete(r) \/ GiveUp(r) \/ Cancel(r)

Spec == Init /\ [][Next]_life

=============================================================================
