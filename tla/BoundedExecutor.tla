--------------------------- MODULE BoundedExecutor ---------------------------
(***************************************************************************)
(* services/bounded_executor.py, thread by thread: a semaphore of slots in *)
(* front of a ThreadPoolExecutor, a registry of futures and cancel events, *)
(* and a done-callback that empties the registry and gives the slot back.  *)
(*                                                                         *)
(* The event loop submits (routes.py creates reviews on it) and shuts      *)
(* down; request threads and the watchdog cancel; the pool's threads run   *)
(* tasks.  A step is one locked section or one call of a Future, whose     *)
(* state changes are atomic.  A task id is submitted once to an executor:  *)
(* review ids are fresh, and a restart builds a new executor.  The task's  *)
(* function is a single step that may take any time; what it does is       *)
(* ReviewService.  A refused submit (TaskQueueFull) and a cancel that      *)
(* finds nothing change no state and are no steps.                         *)
(***************************************************************************)
EXTENDS FiniteSets, Naturals

CONSTANTS Task, Worker, Caller, Loop, NoTask, QueueCapacity

Actor == Worker \union Caller \union {Loop}
Slots == Cardinality(Worker) + QueueCapacity

ASSUME ExecutorAssumption ==
  /\ IsFiniteSet(Task) /\ IsFiniteSet(Worker)
  /\ QueueCapacity \in Nat
  /\ NoTask \notin Task
  /\ Worker \intersect Caller = {}
  /\ Loop \notin Worker \union Caller

VARIABLES permits,     \* _slots
          future,      \* the state of each task's Future
          queue,       \* the work items in the pool's queue
          registered,  \* the keys of _futures and _cancel_events
          event,       \* the tasks whose cancel event is set
          callback,    \* the futures that carry the cleanup callback
          stopping,    \* shutdown has been called
          unsignalled, \* the events it has yet to set
          pc, task     \* each thread's next step, and the task it is at

vars == <<permits, future, queue, registered, event, callback, stopping, unsignalled, pc, task>>

Label == {"idle", "enqueue", "register", "attach", "forget", "release",
          "run", "set", "cancel", "signal", "drain", "closed"}

TypeOK ==
  /\ permits \in 0..Slots
  /\ future \in [Task -> {"none", "pending", "running", "done", "cancelled"}]
  /\ queue \in SUBSET Task /\ registered \in SUBSET Task
  /\ event \in SUBSET Task /\ callback \in SUBSET Task
  /\ stopping \in BOOLEAN /\ unsignalled \in SUBSET Task
  /\ pc \in [Actor -> Label]
  /\ task \in [Actor -> Task \union {NoTask}]

Init ==
  /\ permits = Slots
  /\ future = [t \in Task |-> "none"]
  /\ queue = {} /\ registered = {} /\ event = {} /\ callback = {}
  /\ stopping = FALSE /\ unsignalled = {}
  /\ pc = [a \in Actor |-> "idle"]
  /\ task = [a \in Actor |-> NoTask]

Goto(a, l, t) ==
  /\ pc' = [pc EXCEPT ![a] = l]
  /\ task' = [task EXCEPT ![a] = t]

\* The future reaches its end on thread a: the callbacks it carries run there.
Settle(a, t, s, l) ==
  /\ future' = [future EXCEPT ![t] = s]
  /\ IF t \in callback THEN Goto(a, "forget", t) ELSE Goto(a, l, NoTask)
-----------------------------------------------------------------------------
(* cleanup, on whichever thread runs it: forget the task under the lock,   *)
(* then release its slot.                                                  *)

Forget(a) ==
  /\ pc[a] = "forget"
  /\ registered' = registered \ {task[a]}
  /\ Goto(a, "release", task[a])
  /\ UNCHANGED <<permits, future, queue, event, callback, stopping, unsignalled>>

Release(a) ==
  /\ pc[a] = "release"
  /\ permits' = permits + 1
  /\ Goto(a, IF a = Loop /\ stopping THEN "drain" ELSE "idle", NoTask)
  /\ UNCHANGED <<future, queue, registered, event, callback, stopping, unsignalled>>
-----------------------------------------------------------------------------
(* submit, on the event loop.                                              *)

\* Faulty variant: what acquire(blocking=False) returns is ignored.
AcquireUnheeded(t) ==
  /\ pc[Loop] = "idle" /\ ~stopping
  /\ future[t] = "none"
  /\ permits' = IF permits > 0 THEN permits - 1 ELSE 0
  /\ Goto(Loop, "enqueue", t)
  /\ UNCHANGED <<future, queue, registered, event, callback, stopping, unsignalled>>

Acquire(t) ==
  /\ pc[Loop] = "idle" /\ ~stopping
  /\ future[t] = "none" /\ permits > 0
  /\ permits' = permits - 1
  /\ Goto(Loop, "enqueue", t)
  /\ UNCHANGED <<future, queue, registered, event, callback, stopping, unsignalled>>

\* From here on a pool thread may take the task, run it and end it.
Enqueue ==
  /\ pc[Loop] = "enqueue"
  /\ future' = [future EXCEPT ![task[Loop]] = "pending"]
  /\ queue' = queue \union {task[Loop]}
  /\ Goto(Loop, "register", task[Loop])
  /\ UNCHANGED <<permits, registered, event, callback, stopping, unsignalled>>

\* Faulty variant: a submit that fails keeps its slot.
EnqueueFailsKeeping ==
  /\ pc[Loop] = "enqueue"
  /\ Goto(Loop, "idle", NoTask)
  /\ UNCHANGED <<permits, future, queue, registered, event, callback, stopping, unsignalled>>

\* The pool raises instead: the slot is given back.
EnqueueFails ==
  /\ pc[Loop] = "enqueue"
  /\ permits' = permits + 1
  /\ Goto(Loop, "idle", NoTask)
  /\ UNCHANGED <<future, queue, registered, event, callback, stopping, unsignalled>>

Register ==
  /\ pc[Loop] = "register"
  /\ registered' = registered \union {task[Loop]}
  /\ Goto(Loop, "attach", task[Loop])
  /\ UNCHANGED <<permits, future, queue, event, callback, stopping, unsignalled>>

\* Faulty variant: the callback of a future that is over is never called.
AttachTooLate ==
  /\ pc[Loop] = "attach"
  /\ callback' = callback \union {task[Loop]}
  /\ Goto(Loop, "idle", NoTask)
  /\ UNCHANGED <<permits, future, queue, registered, event, stopping, unsignalled>>

\* add_done_callback: a future that is over calls cleanup at once, on this thread.
Attach ==
  /\ pc[Loop] = "attach"
  /\ \/ /\ future[task[Loop]] \in {"done", "cancelled"}
        /\ Goto(Loop, "forget", task[Loop])
        /\ UNCHANGED callback
     \/ /\ future[task[Loop]] \in {"pending", "running"}
        /\ callback' = callback \union {task[Loop]}
        /\ Goto(Loop, "idle", NoTask)
  /\ UNCHANGED <<permits, future, queue, registered, event, stopping, unsignalled>>
-----------------------------------------------------------------------------
(* The pool's threads.                                                     *)

\* A work item whose future was cancelled is dropped.
Pick(w, t) ==
  /\ pc[w] = "idle" /\ t \in queue
  /\ queue' = queue \ {t}
  /\ \/ /\ future[t] = "pending"
        /\ future' = [future EXCEPT ![t] = "running"]
        /\ Goto(w, "run", t)
     \/ /\ future[t] = "cancelled"
        /\ UNCHANGED <<future, pc, task>>
  /\ UNCHANGED <<permits, registered, event, callback, stopping, unsignalled>>

\* Faulty variant: the thread cleans up itself, whoever carries the callback.
FinishAlwaysCleans(w) ==
  /\ pc[w] = "run"
  /\ future' = [future EXCEPT ![task[w]] = "done"]
  /\ Goto(w, "forget", task[w])
  /\ UNCHANGED <<permits, queue, registered, event, callback, stopping, unsignalled>>

\* The function returns or raises; the task's scope ends with it.
Finish(w) ==
  /\ pc[w] = "run"
  /\ Settle(w, task[w], "done", "idle")
  /\ UNCHANGED <<permits, queue, registered, event, callback, stopping, unsignalled>>
-----------------------------------------------------------------------------
(* cancel, on a request thread or the watchdog.                            *)

\* Event and future are read under the lock and used outside it.
Look(c, t) ==
  /\ pc[c] = "idle" /\ t \in registered
  /\ Goto(c, "set", t)
  /\ UNCHANGED <<permits, future, queue, registered, event, callback, stopping, unsignalled>>

SetEvent(c) ==
  /\ pc[c] = "set"
  /\ event' = event \union {task[c]}
  /\ Goto(c, "cancel", task[c])
  /\ UNCHANGED <<permits, future, queue, registered, callback, stopping, unsignalled>>

\* Faulty variant: the event is set, the future is left in the queue.
CancelEventOnly(c) ==
  /\ pc[c] = "cancel"
  /\ Goto(c, "idle", NoTask)
  /\ UNCHANGED <<permits, future, queue, registered, event, callback, stopping, unsignalled>>

\* Future.cancel: only a future that no thread has started is cancelled.
CancelFuture(c) ==
  /\ pc[c] = "cancel"
  /\ \/ future[task[c]] = "pending" /\ Settle(c, task[c], "cancelled", "idle")
     \/ future[task[c]] # "pending" /\ Goto(c, "idle", NoTask) /\ UNCHANGED future
  /\ UNCHANGED <<permits, queue, registered, event, callback, stopping, unsignalled>>
-----------------------------------------------------------------------------
(* shutdown, on the event loop: set every event, then let the pool cancel  *)
(* what is still in its queue.  Nothing is submitted afterwards.           *)

\* Faulty variant: only the queue is emptied.
ShutdownSilently ==
  /\ pc[Loop] = "idle" /\ ~stopping
  /\ stopping' = TRUE
  /\ unsignalled' = {}
  /\ Goto(Loop, "signal", NoTask)
  /\ UNCHANGED <<permits, future, queue, registered, event, callback>>

Shutdown ==
  /\ pc[Loop] = "idle" /\ ~stopping
  /\ stopping' = TRUE
  /\ unsignalled' = registered
  /\ Goto(Loop, "signal", NoTask)
  /\ UNCHANGED <<permits, future, queue, registered, event, callback>>

Signal(t) ==
  /\ pc[Loop] = "signal" /\ t \in unsignalled
  /\ event' = event \union {t}
  /\ unsignalled' = unsignalled \ {t}
  /\ UNCHANGED <<permits, future, queue, registered, callback, stopping, pc, task>>

Signalled ==
  /\ pc[Loop] = "signal" /\ unsignalled = {}
  /\ Goto(Loop, "drain", NoTask)
  /\ UNCHANGED <<permits, future, queue, registered, event, callback, stopping, unsignalled>>

Drain(t) ==
  /\ pc[Loop] = "drain" /\ t \in queue
  /\ queue' = queue \ {t}
  /\ \/ future[t] = "pending" /\ Settle(Loop, t, "cancelled", "drain")
     \/ future[t] # "pending" /\ UNCHANGED <<future, pc, task>>
  /\ UNCHANGED <<permits, registered, event, callback, stopping, unsignalled>>

Drained ==
  /\ pc[Loop] = "drain" /\ queue = {}
  /\ Goto(Loop, "closed", NoTask)
  /\ UNCHANGED <<permits, future, queue, registered, event, callback, stopping, unsignalled>>
-----------------------------------------------------------------------------
Cleanup(a) == Forget(a) \/ Release(a)
Submitting == Enqueue \/ EnqueueFails \/ Register \/ Attach
Working(w) == (\E t \in Task : Pick(w, t)) \/ Finish(w)
Cancelling(c) == SetEvent(c) \/ CancelFuture(c)
Stopping   == (\E t \in Task : Signal(t) \/ Drain(t)) \/ Signalled \/ Drained

Next ==
  \/ \E a \in Actor : Cleanup(a)
  \/ \E t \in Task : Acquire(t)
  \/ Submitting
  \/ \E w \in Worker : Working(w)
  \/ \E c \in Caller : (\E t \in Task : Look(c, t)) \/ Cancelling(c)
  \/ Shutdown \/ Stopping

Spec == Init /\ [][Next]_vars

\* Threads run, and a task's function ends (every checkpoint looks at its
\* deadline and its event).  Nobody has to submit, cancel or shut down.
Fairness ==
  /\ \A a \in Actor : WF_vars(Cleanup(a))
  /\ \A w \in Worker : WF_vars(Working(w))
  /\ \A c \in Caller : WF_vars(Cancelling(c))
  /\ WF_vars(Submitting \/ Stopping)

FairSpec == Spec /\ Fairness
-----------------------------------------------------------------------------
\* The task has a slot that cleanup, or the failed submit, will give back.
HoldsSlot(t) ==
  \/ future[t] \in {"pending", "running"}
  \/ pc[Loop] \in {"enqueue", "register", "attach"} /\ task[Loop] = t
  \/ \E a \in Actor : pc[a] \in {"forget", "release"} /\ task[a] = t

\* The semaphore counts exactly the tasks that hold a slot, whichever thread ends
\* a task and however its end races submit, cancel and shutdown: no slot is lost
\* and none is released twice.  The types are part of it.
SlotsAccounted == TypeOK /\ permits + Cardinality({t \in Task : HoldsSlot(t)}) = Slots

\* active_count and has_task read the registry: a task that is over leaves no
\* entry behind, even when it ends before submit has registered it.
RegistryClean == \A t \in registered : HoldsSlot(t)

\* A task that was told to stop while it waits is being withdrawn by the one who
\* told it; it never stays in the queue with its event set.
ToldIsWithdrawn == \A t \in event :
  future[t] = "pending" =>
    \/ \E c \in Caller : pc[c] = "cancel" /\ task[c] = t
    \/ stopping /\ pc[Loop] # "closed" /\ t \in queue

\* After shutdown nothing waits, and everything that still runs has been told to
\* stop.
ShutdownTellsAll == pc[Loop] = "closed" =>
  \A t \in Task : /\ future[t] # "pending"
                  /\ future[t] = "running" => t \in event

\* Whoever is to stop gets to know it: what waits is withdrawn, what runs has its
\* event set, through cancel and shutdown at the same time.
StopIsTold == ToldIsWithdrawn /\ ShutdownTellsAll

\* The executor as TaskPool describes it.
StateOf(t) == CASE future[t] = "none"    -> "new"
                [] future[t] = "pending" -> "queued"
                [] future[t] = "running" -> "running"
                [] OTHER                 -> "over"

Pool == INSTANCE TaskPool WITH
  Workers <- Cardinality(Worker), state <- [t \in Task |-> StateOf(t)]
ImplementsPool == Pool!Spec

\* Whatever was submitted, cancelled or refused by the pool, there is again and
\* again a moment when every slot is free and the registry is empty.
SlotsComeBack == []<>(permits = Slots /\ registered = {})

=============================================================================
