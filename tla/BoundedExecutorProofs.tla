------------------------ MODULE BoundedExecutorProofs ------------------------
(***************************************************************************)
(* Proofs about BoundedExecutor, for any finite sets of tasks and pool     *)
(* threads, any request threads and any queue capacity.                    *)
(***************************************************************************)
EXTENDS BoundedExecutor, FiniteSetTheorems, TLAPS

Active(t)   == future[t] \in {"pending", "running"}
Over(t)     == future[t] \in {"done", "cancelled"}
Submits(t)  == pc[Loop] \in {"enqueue", "register", "attach"} /\ task[Loop] = t
Cleans(a)   == pc[a] \in {"forget", "release"}

\* Each thread is at a step of its own program, with a task where it needs one.
Control ==
  /\ \A w \in Worker : pc[w] \in {"idle", "run", "forget", "release"}
  /\ \A c \in Caller : pc[c] \in {"idle", "set", "cancel", "forget", "release"}
  /\ pc[Loop] \in {"idle", "enqueue", "register", "attach", "forget", "release",
                   "signal", "drain", "closed"}
  /\ \A a \in Actor : pc[a] \notin {"idle", "signal", "drain", "closed"} => task[a] \in Task

\* What a thread, or a record kept of a task, says of its future.
FuturesKnown ==
  /\ pc[Loop] = "enqueue" => future[task[Loop]] = "none"
  /\ pc[Loop] \in {"register", "attach"} => future[task[Loop]] # "none"
  /\ \A w \in Worker : pc[w] = "run" => future[task[w]] = "running"
  /\ \A c \in Caller : pc[c] \in {"set", "cancel"} => future[task[c]] # "none"
  /\ \A a \in Actor : Cleans(a) => Over(task[a])
  /\ \A t \in registered \union event \union unsignalled \union callback : future[t] # "none"
  /\ \A t \in Task : future[t] = "pending" => t \in queue

\* A task that runs is on exactly one thread.
RunsOnOneThread ==
  /\ \A t \in Task : future[t] = "running" => \E w \in Worker : pc[w] = "run" /\ task[w] = t
  /\ \A v, w \in Worker : pc[v] = "run" /\ pc[w] = "run" /\ task[v] = task[w] => v = w

\* A task is cleaned up by one thread, which takes over from its submission.
CleanedOnce ==
  /\ \A a, b \in Actor : Cleans(a) /\ Cleans(b) /\ task[a] = task[b] => a = b
  /\ \A a \in Actor : Cleans(a) => ~Submits(task[a])
  /\ \A t \in callback : ~Submits(t)
  /\ \A t \in Task : Active(t) => t \in callback \/ Submits(t)

\* The registry holds what carries the callback, and not what is being released.
RegistryFollows ==
  /\ pc[Loop] = "attach" => task[Loop] \in registered
  /\ \A t \in callback : Active(t) => t \in registered
  /\ \A a \in Actor : pc[a] = "release" => task[a] \notin registered
  /\ RegistryClean

\* A shutdown that has begun reaches every task, and nothing is submitted after it.
ShutdownReaches ==
  /\ pc[Loop] \in {"signal", "drain", "closed"} => stopping
  /\ stopping => pc[Loop] \in {"signal", "drain", "closed", "forget", "release"}
  /\ pc[Loop] # "signal" => unsignalled = {}
  /\ stopping => \A t \in Task : Active(t) => t \in event \union unsignalled
  /\ pc[Loop] = "closed" => queue = {}
  /\ ToldIsWithdrawn

IInv == /\ SlotsAccounted /\ Control /\ FuturesKnown /\ RunsOnOneThread
        /\ CleanedOnce /\ RegistryFollows /\ ShutdownReaches
-----------------------------------------------------------------------------
(* Slots are counted through the set of tasks that hold one.               *)

Holders == {t \in Task : HoldsSlot(t)}

LEMMA HoldersCounted == IsFiniteSet(Holders) /\ Cardinality(Holders) \in Nat
BY ExecutorAssumption, FS_Subset, FS_CardinalityType DEF Holders

LEMMA SlotsNatural == Slots \in Nat
BY ExecutorAssumption, FS_CardinalityType DEF Slots

\* A slot that is to be given back is not among those that are free.
LEMMA HolderHasSlot ==
  ASSUME SlotsAccounted, NEW t \in Task, HoldsSlot(t)
  PROVE  permits \in 0..(Slots - 1)
<1>1. Holders # {}
  BY DEF Holders
<1>2. Cardinality(Holders) # 0
  BY <1>1, HoldersCounted, FS_EmptySet
<1>3. permits + Cardinality(Holders) = Slots /\ permits \in 0..Slots
  BY DEF SlotsAccounted, Holders, TypeOK
<1> QED BY <1>2, <1>3, HoldersCounted, SlotsNatural

LEMMA InitHolds == Init => IInv
<1> SUFFICES ASSUME Init PROVE IInv
  OBVIOUS
<1>1. Holders = {}
  BY DEF Init, Holders, HoldsSlot, Actor
<1>2. permits + Cardinality(Holders) = Slots
  BY <1>1, SlotsNatural, FS_EmptySet DEF Init
<1>3. TypeOK
  <2>1. permits \in 0..Slots
    BY SlotsNatural DEF Init
  <2> QED BY <2>1, Zenon DEF Init, TypeOK, Label
<1>4. SlotsAccounted
  BY <1>2, <1>3 DEF SlotsAccounted, Holders
<1> QED
  BY <1>4, ExecutorAssumption
  DEF Init, IInv, Control, FuturesKnown, RunsOnOneThread, CleanedOnce, RegistryFollows, RegistryClean,
      ShutdownReaches, ToldIsWithdrawn, Actor, Active, Over, Submits, Cleans

LEMMA TypesKept == ASSUME SlotsAccounted, Control, FuturesKnown, [Next]_vars PROVE TypeOK'
<1> USE ExecutorAssumption, SlotsNatural
    DEF SlotsAccounted, TypeOK, Control, Actor, Label, Goto, Settle
<1>1. ASSUME NEW a \in Actor, Forget(a) PROVE TypeOK'
  BY <1>1 DEF Forget
<1>2. ASSUME NEW a \in Actor, Release(a) PROVE TypeOK'
  <2>1. permits \in 0..(Slots - 1)
    BY <1>2, HolderHasSlot DEF Release, HoldsSlot
  <2> QED BY <1>2, <2>1 DEF Release
<1>3. ASSUME NEW t \in Task, Acquire(t) PROVE TypeOK'
  BY <1>3 DEF Acquire
<1>4. CASE Enqueue \/ Register \/ Attach
  BY <1>4 DEF Enqueue, Register, Attach
<1>5. CASE EnqueueFails
  <2>1. permits \in 0..(Slots - 1)
    BY <1>5, HolderHasSlot DEF EnqueueFails, HoldsSlot
  <2> QED BY <1>5, <2>1 DEF EnqueueFails
<1>6. ASSUME NEW w \in Worker, NEW t \in Task, Pick(w, t) PROVE TypeOK'
  BY <1>6 DEF Pick
<1>7. ASSUME NEW w \in Worker, Finish(w) PROVE TypeOK'
  BY <1>7 DEF Finish
<1>8. ASSUME NEW c \in Caller, NEW t \in Task, Look(c, t) PROVE TypeOK'
  BY <1>8 DEF Look
<1>9. ASSUME NEW c \in Caller, SetEvent(c) \/ CancelFuture(c) PROVE TypeOK'
  BY <1>9 DEF SetEvent, CancelFuture
<1>10. ASSUME NEW t \in Task, Signal(t) \/ Drain(t) PROVE TypeOK'
  BY <1>10 DEF Signal, Drain
<1>11. CASE Shutdown \/ Signalled \/ Drained \/ UNCHANGED vars
  BY <1>11 DEF Shutdown, Signalled, Drained, vars
<1> QED
  BY <1>1, <1>2, <1>3, <1>4, <1>5, <1>6, <1>7, <1>8, <1>9, <1>10, <1>11
  DEF Next, Cleanup, Submitting, Working, Cancelling, Stopping

\* How the set of holders changes: by the slots that a step takes or gives back.
HolderStep ==
  \/ permits' = permits /\ Holders' = Holders
  \/ permits' = permits - 1 /\ \E t \in Task \ Holders : Holders' = Holders \union {t}
  \/ permits' = permits + 1 /\ \E t \in Holders : Holders' = Holders \ {t}

LEMMA HolderSteps == ASSUME IInv, [Next]_vars PROVE HolderStep
<1> USE ExecutorAssumption
    DEF IInv, SlotsAccounted, TypeOK, Control, FuturesKnown, CleanedOnce, Actor, Goto, Settle, Active, Over,
        Submits, Cleans, Holders, HoldsSlot, HolderStep
<1>1. ASSUME NEW a \in Actor, Forget(a) PROVE HolderStep
  BY <1>1 DEF Forget
<1>2. ASSUME NEW a \in Actor, Release(a) PROVE HolderStep
  BY <1>2 DEF Release
<1>3. ASSUME NEW t \in Task, Acquire(t) PROVE HolderStep
  BY <1>3 DEF Acquire
<1>4. CASE Enqueue \/ Register
  BY <1>4 DEF Enqueue, Register
<1>5. CASE EnqueueFails
  BY <1>5 DEF EnqueueFails
<1>6. CASE Attach
  BY <1>6 DEF Attach
<1>7. ASSUME NEW w \in Worker, NEW t \in Task, Pick(w, t) PROVE HolderStep
  BY <1>7 DEF Pick
<1>8. ASSUME NEW w \in Worker, Finish(w) PROVE HolderStep
  BY <1>8 DEF Finish
<1>9. ASSUME NEW c \in Caller, NEW t \in Task, Look(c, t) PROVE HolderStep
  BY <1>9 DEF Look
<1>10. ASSUME NEW c \in Caller, SetEvent(c) \/ CancelFuture(c) PROVE HolderStep
  BY <1>10 DEF SetEvent, CancelFuture
<1>11. ASSUME NEW t \in Task, Signal(t) \/ Drain(t) PROVE HolderStep
  BY <1>11 DEF Signal, Drain
<1>12. CASE Shutdown \/ Signalled \/ Drained \/ UNCHANGED vars
  BY <1>12 DEF Shutdown, Signalled, Drained, vars
<1> QED
  BY <1>1, <1>2, <1>3, <1>4, <1>5, <1>6, <1>7, <1>8, <1>9, <1>10, <1>11, <1>12
  DEF Next, Cleanup, Submitting, Working, Cancelling, Stopping

LEMMA AccountsKept == ASSUME IInv, [Next]_vars PROVE SlotsAccounted'
<1>1. TypeOK'
  BY TypesKept DEF IInv
<1>2. permits' + Cardinality(Holders') = Slots
  <2>1. permits + Cardinality(Holders) = Slots /\ permits \in Nat
    BY SlotsNatural DEF IInv, SlotsAccounted, TypeOK, Holders
  <2>2. IsFiniteSet(Holders) /\ Cardinality(Holders) \in Nat
    BY HoldersCounted
  <2>3. ASSUME NEW t, t \notin Holders PROVE Cardinality(Holders \union {t}) = Cardinality(Holders) + 1
    BY <2>2, <2>3, FS_AddElement
  <2>4. ASSUME NEW t, t \in Holders PROVE Cardinality(Holders \ {t}) = Cardinality(Holders) - 1
    BY <2>2, <2>4, FS_RemoveElement
  <2> QED
    BY <2>1, <2>2, <2>3, <2>4, HolderSteps, SlotsNatural DEF HolderStep
<1> QED BY <1>1, <1>2 DEF SlotsAccounted, Holders

-----------------------------------------------------------------------------
(* The other parts of the invariant, each kept by every step.             *)

\* Every thread stays in its program.
LEMMA ControlKept == ASSUME IInv, [Next]_vars PROVE Control'
<1> USE ExecutorAssumption
    DEF IInv, SlotsAccounted, TypeOK, Actor, Control, Goto, Settle, FuturesKnown
<1>1. ASSUME NEW a \in Actor, Forget(a) \/ Release(a) PROVE Control'
  BY <1>1 DEF Forget, Release
<1>2. ASSUME NEW t \in Task, Acquire(t) PROVE Control'
  BY <1>2 DEF Acquire
<1>3. CASE Enqueue \/ EnqueueFails
  BY <1>3 DEF Enqueue, EnqueueFails
<1>4. CASE Register \/ Attach
  BY <1>4 DEF Register, Attach
<1>5. ASSUME NEW w \in Worker, NEW t \in Task, Pick(w, t) PROVE Control'
  BY <1>5 DEF Pick
<1>6. ASSUME NEW w \in Worker, Finish(w) PROVE Control'
  BY <1>6 DEF Finish
<1>7. ASSUME NEW c \in Caller, NEW t \in Task, Look(c, t) PROVE Control'
  BY <1>7 DEF Look
<1>8. ASSUME NEW c \in Caller, SetEvent(c) \/ CancelFuture(c) PROVE Control'
  BY <1>8 DEF SetEvent, CancelFuture
<1>9. ASSUME NEW t \in Task, Signal(t) \/ Drain(t) PROVE Control'
  BY <1>9 DEF Signal, Drain
<1>10. CASE Shutdown \/ Signalled \/ Drained \/ UNCHANGED vars
  BY <1>10 DEF Shutdown, Signalled, Drained, vars
<1> QED
  BY <1>1, <1>2, <1>3, <1>4, <1>5, <1>6, <1>7, <1>8, <1>9, <1>10
  DEF Next, Cleanup, Submitting, Working, Cancelling, Stopping

\* A future that is over stays over, and one that is new is in nobody's hands.
LEMMA FuturesKept == ASSUME IInv, [Next]_vars PROVE FuturesKnown'
<1> USE ExecutorAssumption
    DEF IInv, SlotsAccounted, TypeOK, Actor, Control, Goto, Settle,
        FuturesKnown, RunsOnOneThread, Over, Cleans
<1>1. ASSUME NEW a \in Actor, Forget(a) \/ Release(a) PROVE FuturesKnown'
  BY <1>1 DEF Forget, Release
<1>2. ASSUME NEW t \in Task, Acquire(t) PROVE FuturesKnown'
  BY <1>2 DEF Acquire
<1>3. CASE Enqueue \/ EnqueueFails
  BY <1>3 DEF Enqueue, EnqueueFails
<1>4. CASE Register \/ Attach
  BY <1>4 DEF Register, Attach
<1>5. ASSUME NEW w \in Worker, NEW t \in Task, Pick(w, t) PROVE FuturesKnown'
  BY <1>5 DEF Pick
<1>6. ASSUME NEW w \in Worker, Finish(w) PROVE FuturesKnown'
  BY <1>6 DEF Finish
<1>7. ASSUME NEW c \in Caller, NEW t \in Task, Look(c, t) PROVE FuturesKnown'
  BY <1>7 DEF Look
<1>8. ASSUME NEW c \in Caller, SetEvent(c) \/ CancelFuture(c) PROVE FuturesKnown'
  BY <1>8 DEF SetEvent, CancelFuture
<1>9. ASSUME NEW t \in Task, Signal(t) \/ Drain(t) PROVE FuturesKnown'
  BY <1>9 DEF Signal, Drain
<1>10. CASE Shutdown \/ Signalled \/ Drained \/ UNCHANGED vars
  BY <1>10 DEF Shutdown, Signalled, Drained, vars
<1> QED
  BY <1>1, <1>2, <1>3, <1>4, <1>5, <1>6, <1>7, <1>8, <1>9, <1>10
  DEF Next, Cleanup, Submitting, Working, Cancelling, Stopping

\* A task is started from the queue, by the thread that takes it out of it.
LEMMA RunsKept == ASSUME IInv, [Next]_vars PROVE RunsOnOneThread'
<1> USE ExecutorAssumption
    DEF IInv, SlotsAccounted, TypeOK, Actor, Control, Goto, Settle,
        FuturesKnown, RunsOnOneThread, Over, Cleans
<1>1. ASSUME NEW a \in Actor, Forget(a) \/ Release(a) PROVE RunsOnOneThread'
  BY <1>1 DEF Forget, Release
<1>2. ASSUME NEW t \in Task, Acquire(t) PROVE RunsOnOneThread'
  BY <1>2 DEF Acquire
<1>3. CASE Enqueue \/ EnqueueFails
  BY <1>3 DEF Enqueue, EnqueueFails
<1>4. CASE Register \/ Attach
  BY <1>4 DEF Register, Attach
<1>5. ASSUME NEW w \in Worker, NEW t \in Task, Pick(w, t) PROVE RunsOnOneThread'
  BY <1>5 DEF Pick
<1>6. ASSUME NEW w \in Worker, Finish(w) PROVE RunsOnOneThread'
  BY <1>6 DEF Finish
<1>7. ASSUME NEW c \in Caller, NEW t \in Task, Look(c, t) PROVE RunsOnOneThread'
  BY <1>7 DEF Look
<1>8. ASSUME NEW c \in Caller, SetEvent(c) \/ CancelFuture(c) PROVE RunsOnOneThread'
  BY <1>8 DEF SetEvent, CancelFuture
<1>9. ASSUME NEW t \in Task, Signal(t) \/ Drain(t) PROVE RunsOnOneThread'
  BY <1>9 DEF Signal, Drain
<1>10. CASE Shutdown \/ Signalled \/ Drained \/ UNCHANGED vars
  BY <1>10 DEF Shutdown, Signalled, Drained, vars
<1> QED
  BY <1>1, <1>2, <1>3, <1>4, <1>5, <1>6, <1>7, <1>8, <1>9, <1>10
  DEF Next, Cleanup, Submitting, Working, Cancelling, Stopping

\* Whoever ends a task that carries the callback cleans up; submit does when the
\* task was over before.
LEMMA CleanedKept == ASSUME IInv, [Next]_vars PROVE CleanedOnce'
<1> USE ExecutorAssumption
    DEF IInv, SlotsAccounted, TypeOK, Actor, Control, Goto, Settle,
        FuturesKnown, RunsOnOneThread, CleanedOnce, Active, Over, Submits, Cleans
<1>1. ASSUME NEW a \in Actor, Forget(a) \/ Release(a) PROVE CleanedOnce'
  BY <1>1 DEF Forget, Release
<1>2. ASSUME NEW t \in Task, Acquire(t) PROVE CleanedOnce'
  BY <1>2 DEF Acquire
<1>3. CASE Enqueue \/ EnqueueFails
  BY <1>3 DEF Enqueue, EnqueueFails
<1>4. CASE Register \/ Attach
  BY <1>4 DEF Register, Attach
<1>5. ASSUME NEW w \in Worker, NEW t \in Task, Pick(w, t) PROVE CleanedOnce'
  BY <1>5 DEF Pick
<1>6. ASSUME NEW w \in Worker, Finish(w) PROVE CleanedOnce'
  BY <1>6 DEF Finish
<1>7. ASSUME NEW c \in Caller, NEW t \in Task, Look(c, t) PROVE CleanedOnce'
  BY <1>7 DEF Look
<1>8. ASSUME NEW c \in Caller, SetEvent(c) \/ CancelFuture(c) PROVE CleanedOnce'
  BY <1>8 DEF SetEvent, CancelFuture
<1>9. ASSUME NEW t \in Task, Signal(t) \/ Drain(t) PROVE CleanedOnce'
  BY <1>9 DEF Signal, Drain
<1>10. CASE Shutdown \/ Signalled \/ Drained \/ UNCHANGED vars
  BY <1>10 DEF Shutdown, Signalled, Drained, vars
<1> QED
  BY <1>1, <1>2, <1>3, <1>4, <1>5, <1>6, <1>7, <1>8, <1>9, <1>10
  DEF Next, Cleanup, Submitting, Working, Cancelling, Stopping

\* What is in the registry has a slot: cleanup forgets a task before it releases.
LEMMA RegistryKept == ASSUME IInv, [Next]_vars PROVE RegistryFollows'
<1> USE ExecutorAssumption
    DEF IInv, SlotsAccounted, TypeOK, Actor, Control, Goto, Settle,
        FuturesKnown, RunsOnOneThread, CleanedOnce, RegistryFollows, RegistryClean, HoldsSlot,
        Active, Over, Submits, Cleans
<1>1. ASSUME NEW a \in Actor, Forget(a) \/ Release(a) PROVE RegistryFollows'
  BY <1>1 DEF Forget, Release
<1>2. ASSUME NEW t \in Task, Acquire(t) PROVE RegistryFollows'
  BY <1>2 DEF Acquire
<1>3. CASE Enqueue \/ EnqueueFails
  BY <1>3 DEF Enqueue, EnqueueFails
<1>4. CASE Register \/ Attach
  BY <1>4 DEF Register, Attach
<1>5. ASSUME NEW w \in Worker, NEW t \in Task, Pick(w, t) PROVE RegistryFollows'
  BY <1>5 DEF Pick
<1>6. ASSUME NEW w \in Worker, Finish(w) PROVE RegistryFollows'
  BY <1>6 DEF Finish
<1>7. ASSUME NEW c \in Caller, NEW t \in Task, Look(c, t) PROVE RegistryFollows'
  BY <1>7 DEF Look
<1>8. ASSUME NEW c \in Caller, SetEvent(c) \/ CancelFuture(c) PROVE RegistryFollows'
  BY <1>8 DEF SetEvent, CancelFuture
<1>9. ASSUME NEW t \in Task, Signal(t) \/ Drain(t) PROVE RegistryFollows'
  BY <1>9 DEF Signal, Drain
<1>10. CASE Shutdown \/ Signalled \/ Drained \/ UNCHANGED vars
  BY <1>10 DEF Shutdown, Signalled, Drained, vars
<1> QED
  BY <1>1, <1>2, <1>3, <1>4, <1>5, <1>6, <1>7, <1>8, <1>9, <1>10
  DEF Next, Cleanup, Submitting, Working, Cancelling, Stopping

\* Every task that is active when the shutdown begins is told, or about to be.
LEMMA ShutdownKept == ASSUME IInv, [Next]_vars PROVE ShutdownReaches'
<1> USE ExecutorAssumption
    DEF IInv, SlotsAccounted, TypeOK, Actor, Control, Goto, Settle,
        FuturesKnown, RunsOnOneThread, CleanedOnce, RegistryFollows, RegistryClean, ShutdownReaches,
        ToldIsWithdrawn, HoldsSlot, Active, Over, Submits, Cleans
<1>1. ASSUME NEW a \in Actor, Forget(a) \/ Release(a) PROVE ShutdownReaches'
  BY <1>1 DEF Forget, Release
<1>2. ASSUME NEW t \in Task, Acquire(t) PROVE ShutdownReaches'
  BY <1>2 DEF Acquire
<1>3. CASE Enqueue \/ EnqueueFails
  BY <1>3 DEF Enqueue, EnqueueFails
<1>4. CASE Register \/ Attach
  BY <1>4 DEF Register, Attach
<1>5. ASSUME NEW w \in Worker, NEW t \in Task, Pick(w, t) PROVE ShutdownReaches'
  BY <1>5 DEF Pick
<1>6. ASSUME NEW w \in Worker, Finish(w) PROVE ShutdownReaches'
  BY <1>6 DEF Finish
<1>7. ASSUME NEW c \in Caller, NEW t \in Task, Look(c, t) PROVE ShutdownReaches'
  BY <1>7 DEF Look
<1>8. ASSUME NEW c \in Caller, SetEvent(c) \/ CancelFuture(c) PROVE ShutdownReaches'
  BY <1>8 DEF SetEvent, CancelFuture
<1>9. ASSUME NEW t \in Task, Signal(t) \/ Drain(t) PROVE ShutdownReaches'
  BY <1>9 DEF Signal, Drain
<1>10. CASE Shutdown \/ Signalled \/ Drained \/ UNCHANGED vars
  BY <1>10 DEF Shutdown, Signalled, Drained, vars
<1> QED
  BY <1>1, <1>2, <1>3, <1>4, <1>5, <1>6, <1>7, <1>8, <1>9, <1>10
  DEF Next, Cleanup, Submitting, Working, Cancelling, Stopping

LEMMA InvariantHolds == Spec => []IInv
<1>1. IInv /\ [Next]_vars => IInv'
  BY AccountsKept, ControlKept, FuturesKept, RunsKept, CleanedKept, RegistryKept, ShutdownKept
  DEF IInv
<1> QED BY InitHolds, <1>1, PTL DEF Spec

\* The semaphore and the tasks in hand add up to the number of slots, whichever
\* thread ends a task and however that races submit, cancel and shutdown.
THEOREM SlotsAreAccounted == Spec => []SlotsAccounted
<1>1. IInv => SlotsAccounted
  BY DEF IInv
<1> QED BY InvariantHolds, <1>1, PTL

\* The registry names only tasks that are not over yet, or are being cleaned up.
THEOREM RegistryIsClean == Spec => []RegistryClean
<1>1. IInv => RegistryClean
  BY DEF IInv, RegistryFollows
<1> QED BY InvariantHolds, <1>1, PTL

\* A task that is told to stop while it waits is withdrawn, and after a shutdown
\* nothing waits and whatever still runs has its event set.
THEOREM EveryStopIsTold == Spec => []StopIsTold
<1>1. ASSUME IInv PROVE StopIsTold
  <2>1. ASSUME pc[Loop] = "closed", NEW t \in Task
        PROVE  future[t] # "pending" /\ (future[t] = "running" => t \in event)
    BY <1>1, <2>1 DEF IInv, FuturesKnown, ShutdownReaches, Active
  <2> QED BY <1>1, <2>1 DEF IInv, ShutdownReaches, StopIsTold, ShutdownTellsAll
<1> QED BY InvariantHolds, <1>1, PTL
-----------------------------------------------------------------------------
(* The executor implements TaskPool.                                       *)

\* A pool thread that is not running a task leaves at most the others to run one.
LEMMA RunningFitsWorkers ==
  ASSUME IInv, NEW w \in Worker, pc[w] # "run"
  PROVE  Cardinality({t \in Task : future[t] = "running"}) < Cardinality(Worker)
<1> DEFINE Running == {t \in Task : future[t] = "running"}
           runner  == [t \in Running |-> CHOOSE v \in Worker : pc[v] = "run" /\ task[v] = t]
<1>1. ASSUME NEW t \in Running
      PROVE  runner[t] \in Worker \ {w} /\ task[runner[t]] = t
  BY <1>1 DEF IInv, RunsOnOneThread
<1>2. runner \in Injection(Running, Worker \ {w})
  <2>1. runner \in [Running -> Worker \ {w}]
    BY <1>1
  <2>2. \A s, t \in Running : runner[s] = runner[t] => s = t
    BY <1>1
  <2> HIDE DEF runner
  <2> QED BY <2>1, <2>2 DEF Injection, IsInjective
<1>3. IsFiniteSet(Worker \ {w}) /\ Cardinality(Worker \ {w}) = Cardinality(Worker) - 1
  BY ExecutorAssumption, FS_RemoveElement
<1>4. Cardinality(Running) <= Cardinality(Worker \ {w}) /\ Cardinality(Running) \in Nat
  BY <1>2, <1>3, FS_Injection, FS_CardinalityType
<1>5. Cardinality(Worker) \in Nat
  BY ExecutorAssumption, FS_CardinalityType
<1> QED BY <1>3, <1>4, <1>5

\* The slot of the task that is being submitted is not yet one of an active task.
LEMMA ActiveFitsSlots ==
  ASSUME IInv, pc[Loop] = "enqueue"
  PROVE  Cardinality({t \in Task : Active(t)}) < Slots
<1> DEFINE Busy == {t \in Task : Active(t)}
<1>1. task[Loop] \in Holders \ Busy
  BY DEF IInv, Control, FuturesKnown, Actor, Holders, HoldsSlot, Active
<1>2. Busy \in SUBSET Holders
  BY DEF Holders, HoldsSlot, Active
<1>3. Cardinality(Busy) <= Cardinality(Holders) /\ Cardinality(Busy) # Cardinality(Holders)
  BY <1>1, <1>2, HoldersCounted, FS_Subset
<1>4. Cardinality(Busy) \in Nat
  BY <1>2, HoldersCounted, FS_Subset, FS_CardinalityType
<1>5. permits + Cardinality(Holders) = Slots /\ permits \in Nat
  BY SlotsNatural DEF IInv, SlotsAccounted, TypeOK, Holders
<1> QED BY <1>3, <1>4, <1>5, HoldersCounted, SlotsNatural

\* The only ways in which a future changes.
FutureStep ==
  \/ UNCHANGED future
  \/ \E t \in Task :
       \/ pc[Loop] = "enqueue" /\ future[t] = "none" /\ future' = [future EXCEPT ![t] = "pending"]
       \/ /\ \E w \in Worker : pc[w] # "run"
          /\ future[t] = "pending" /\ future' = [future EXCEPT ![t] = "running"]
       \/ future[t] = "pending" /\ future' = [future EXCEPT ![t] = "cancelled"]
       \/ future[t] = "running" /\ future' = [future EXCEPT ![t] = "done"]

LEMMA FutureSteps == ASSUME IInv, [Next]_vars PROVE FutureStep
<1> USE DEF IInv, Control, FuturesKnown, Actor, Goto, Settle, FutureStep
<1>1. CASE Enqueue
  BY <1>1 DEF Enqueue
<1>2. ASSUME NEW w \in Worker, NEW t \in Task, Pick(w, t) PROVE FutureStep
  BY <1>2 DEF Pick
<1>3. ASSUME NEW w \in Worker, Finish(w) PROVE FutureStep
  BY <1>3 DEF Finish
<1>4. ASSUME NEW c \in Caller, CancelFuture(c) PROVE FutureStep
  BY <1>4 DEF CancelFuture
<1>5. ASSUME NEW t \in Task, Drain(t) PROVE FutureStep
  BY <1>5 DEF Drain
<1> QED
  BY <1>1, <1>2, <1>3, <1>4, <1>5
  DEF Next, Cleanup, Forget, Release, Acquire, Submitting, EnqueueFails, Register, Attach, Working, Look,
      Cancelling, SetEvent, Shutdown, Stopping, Signal, Signalled, Drained, vars

\* The instance's copy of the cardinality is the cardinality.
LEMMA PoolCardinality == ASSUME NEW S PROVE Pool!Cardinality(S) = Cardinality(S)
BY DEF Pool!Cardinality, Cardinality

\* What waits or runs never exceeds the slots, and what runs never the threads;
\* a task is run once or withdrawn before it starts.
THEOREM ExecutorImplementsPool == Spec => ImplementsPool
<1> DEFINE state == [t \in Task |-> StateOf(t)]
<1>1. Init => Pool!Init
  BY DEF Init, Pool!Init, StateOf
<1>2. ASSUME IInv, [Next]_vars PROVE [Pool!Next]_state
  <2>1. Pool!In("queued") \union Pool!In("running") = {t \in Task : Active(t)}
    BY DEF Pool!In, StateOf, Active
  <2>2. Pool!In("running") = {t \in Task : future[t] = "running"}
    BY DEF Pool!In, StateOf
  <2>3. ASSUME NEW t \in Task, NEW s \in {"none", "pending", "running", "done", "cancelled"},
               future' = [future EXCEPT ![t] = s]
        PROVE  /\ state[t] = StateOf(t)
               /\ state' = [state EXCEPT ![t] = StateOf(t)']
               /\ StateOf(t)' = CASE s = "none"    -> "new"
                                  [] s = "pending" -> "queued"
                                  [] s = "running" -> "running"
                                  [] OTHER         -> "over"
    BY <1>2, <2>3 DEF IInv, SlotsAccounted, TypeOK, StateOf
  <2>4. CASE UNCHANGED future
    BY <2>4 DEF StateOf
  <2>5. ASSUME NEW t \in Task, pc[Loop] = "enqueue", future[t] = "none",
               future' = [future EXCEPT ![t] = "pending"]
        PROVE  Pool!Submit(t)
    <3>1. Cardinality(Pool!In("queued") \union Pool!In("running")) < Slots
      BY <1>2, <2>1, <2>5, ActiveFitsSlots
    <3>2. Pool!Move(t, "new", "queued")
      BY <2>3, <2>5 DEF Pool!Move, StateOf
    <3> QED BY <3>1, <3>2, PoolCardinality DEF Pool!Submit
  <2>6. ASSUME NEW t \in Task, NEW w \in Worker, pc[w] # "run", future[t] = "pending",
               future' = [future EXCEPT ![t] = "running"]
        PROVE  Pool!Start(t)
    <3>1. Cardinality(Pool!In("running")) < Cardinality(Worker)
      BY <1>2, <2>2, <2>6, RunningFitsWorkers
    <3>2. Pool!Move(t, "queued", "running")
      BY <2>3, <2>6 DEF Pool!Move, StateOf
    <3> QED BY <3>1, <3>2, PoolCardinality DEF Pool!Start
  <2>7. ASSUME NEW t \in Task, future[t] = "pending", future' = [future EXCEPT ![t] = "cancelled"]
        PROVE  Pool!Withdraw(t)
    BY <2>3, <2>7 DEF Pool!Withdraw, Pool!Move, StateOf
  <2>8. ASSUME NEW t \in Task, future[t] = "running", future' = [future EXCEPT ![t] = "done"]
        PROVE  Pool!Finish(t)
    BY <2>3, <2>8 DEF Pool!Finish, Pool!Move, StateOf
  <2> QED BY <1>2, <2>4, <2>5, <2>6, <2>7, <2>8, FutureSteps DEF FutureStep, Pool!Next
<1> QED BY InvariantHolds, <1>1, <1>2, PTL DEF Spec, ImplementsPool, Pool!Spec
=============================================================================
