------------------------------ MODULE TaskPool ------------------------------
(***************************************************************************)
(* What the bounded executor promises: at most Slots tasks are accepted    *)
(* and not over, at most Workers of them run, and a task is run once or    *)
(* withdrawn before it starts.  BoundedExecutor implements it.             *)
(***************************************************************************)
EXTENDS FiniteSets, Naturals

CONSTANTS Task, Workers, Slots

VARIABLE state      \* state[t]: "new", "queued", "running" or "over"

In(s) == {t \in Task : state[t] = s}

Init == state = [t \in Task |-> "new"]

Move(t, from, s) ==
  /\ state[t] = from
  /\ state' = [state EXCEPT ![t] = s]

Submit(t)   == Cardinality(In("queued") \union In("running")) < Slots /\ Move(t, "new", "queued")
Start(t)    == Cardinality(In("running")) < Workers /\ Move(t, "queued", "running")
Withdraw(t) == Move(t, "queued", "over")
Finish(t)   == Move(t, "running", "over")

Next == \E t \in Task : Submit(t) \/ Start(t) \/ Withdraw(t) \/ Finish(t)

Spec == Init /\ [][Next]_state

=============================================================================
