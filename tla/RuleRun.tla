------------------------------- MODULE RuleRun -------------------------------
(***************************************************************************)
(* What happens between "parsed" and a conclusion: RuleEngine.run over the *)
(* enabled rules of a review, the JSON client that AI rules call, with its *)
(* retries, its call budget and the semaphore all reviews share, and       *)
(* summarize_review, which turns statuses and issues into a conclusion.    *)
(*                                                                         *)
(* Each review runs on its own worker thread.  It may be told to stop, and *)
(* its rule or task deadline may pass, between any two steps; a checkpoint *)
(* that finds one of these raises.  Where the client catches Exception it  *)
(* catches that too.  Rules are numbered in the order they run; an AI rule *)
(* sends its document in Chunks[r] parts.  What ReviewService does with    *)
(* the outcome is not repeated here.                                       *)
(***************************************************************************)
EXTENDS Naturals, FiniteSets

CONSTANTS Task,             \* reviews that run at the same time
          Rules,            \* number of rules
          AiRules,          \* the rules with rule_requires_ai
          Chunks,           \* Chunks[r]: parts of the document an AI rule sends
          Submissions,      \* what a review may be submitted with
          EgressSwitch,     \* values of AI_EGRESS_ENABLED to consider
          Attempts,         \* LLM_MAX_RETRIES + 1
          MaxCalls,         \* LLM_MAX_CALLS_PER_TASK
          MaxConcurrency    \* LLM_MAX_CONCURRENCY

\* use_ai, the persisted consent, and how many of the rules are enabled.
Submission == [use : BOOLEAN, consent : BOOLEAN, size : 0..Rules]

ASSUME RuleRunAssumption ==
  /\ IsFiniteSet(Task)
  /\ Rules \in Nat /\ AiRules \subseteq 1..Rules
  /\ Chunks \in [AiRules -> Nat]
  /\ Submissions \subseteq Submission
  /\ EgressSwitch \subseteq BOOLEAN
  /\ Attempts \in Nat \ {0} /\ MaxCalls \in Nat \ {0} /\ MaxConcurrency \in Nat \ {0}

VARIABLES allowed,          \* AI_EGRESS_ENABLED of this process
          submitted,        \* submitted[t]
          event,            \* the cancel event
          told,             \* the requests that had been sent when it was set
          late,             \* a deadline that has passed: "no", "rule" or "task"
          pc, rule,         \* next step, and the rule it is at
          status,           \* rule_status_json: the status of each rule
          found,            \* kinds of issues found so far
          call,             \* the checker's and the client's place in an AI rule
          calls,            \* RuntimeState.llm_calls
          sent,             \* requests the provider has been sent
          answered,         \* the parts whose answer was read
          permits,          \* the provider semaphore
          outcome           \* how the run ended

input  == <<allowed, submitted>>
signal == <<event, told>>
engine == <<pc, rule, status, found, late, outcome>>
client == <<call, calls, sent, answered, permits>>
vars   == <<input, signal, engine, client>>

Label == {"begin", "plain", "gate", "attempt", "post", "wait", "reserve", "announce",
          "send", "answer", "backoff", "exit", "conclude", "over"}
Stopped    == {"cancelled", "timed_out"}
Conclusion == {"pass", "needs_revision", "incomplete"}
RuleStatus == {"pending", "running", "done", "degraded", "skipped", "failed"} \union Stopped

NoCall == [chunk |-> 1, attempt |-> 1, repair |-> FALSE, degraded |-> FALSE]

TypeOK ==
  /\ allowed \in BOOLEAN /\ submitted \in [Task -> Submission]
  /\ event \in [Task -> BOOLEAN] /\ told \in [Task -> Nat]
  /\ late \in [Task -> {"no", "rule", "task"}]
  /\ pc \in [Task -> Label] /\ rule \in [Task -> 1..(Rules + 1)]
  /\ status \in [Task -> [1..Rules -> RuleStatus]]
  /\ found \in [Task -> SUBSET {"error", "manual"}]
  /\ call \in [Task -> [chunk : Nat, attempt : 1..Attempts, repair : BOOLEAN, degraded : BOOLEAN]]
  /\ calls \in [Task -> Nat] /\ sent \in [Task -> Nat]
  /\ answered \in [Task -> SUBSET (AiRules \X Nat)]
  /\ permits \in 0..MaxConcurrency
  /\ outcome \in [Task -> {"none"} \union Stopped \union Conclusion]

Init ==
  /\ allowed \in EgressSwitch /\ submitted \in [Task -> Submissions]
  /\ event = [t \in Task |-> FALSE] /\ told = [t \in Task |-> 0]
  /\ late = [t \in Task |-> "no"]
  /\ pc = [t \in Task |-> "begin"] /\ rule = [t \in Task |-> 1]
  /\ status = [t \in Task |-> [r \in 1..Rules |-> "pending"]]
  /\ found = [t \in Task |-> {}]
  /\ call = [t \in Task |-> NoCall]
  /\ calls = [t \in Task |-> 0] /\ sent = [t \in Task |-> 0]
  /\ answered = [t \in Task |-> {}]
  /\ permits = MaxConcurrency
  /\ outcome = [t \in Task |-> "none"]

\* Faulty variant: the recorded consent is not looked up when the rules start.
ActiveOnRequest(t) == submitted[t].use /\ allowed

\* R08: AI rules run, and the task may send, only if all three agree.
AiActive(t) == submitted[t].use /\ allowed /\ submitted[t].consent

\* Faulty variant: checkpoint looks at the deadline only.
ClearOfDeadline(t) == late[t] = "no"

\* A checkpoint passes.
Clear(t) == ~event[t] /\ late[t] = "no"

RunsRule(t) == rule[t] <= submitted[t].size
-----------------------------------------------------------------------------
(* The ways a step of engine.run may leave the engine.                     *)

\* The rule goes on.
Goto(t, l) ==
  /\ pc' = [pc EXCEPT ![t] = l]
  /\ UNCHANGED <<rule, status, found, late, outcome>>

\* Faulty variant: a rule that failed is tried again, without a limit.
CloseRuleRetrying(t, s, issues) ==
  /\ status' = [status EXCEPT ![t][rule[t]] = s]
  /\ found' = [found EXCEPT ![t] = @ \union issues]
  /\ rule' = [rule EXCEPT ![t] = IF s = "failed" THEN @ ELSE @ + 1]
  /\ late' = [late EXCEPT ![t] = IF @ = "rule" THEN "no" ELSE @]
  /\ pc' = [pc EXCEPT ![t] = "begin"]
  /\ UNCHANGED outcome

\* The rule is over: on_rule_result records s, rule_scope restores the deadline.
CloseRule(t, s, issues) ==
  /\ status' = [status EXCEPT ![t][rule[t]] = s]
  /\ found' = [found EXCEPT ![t] = @ \union issues]
  /\ rule' = [rule EXCEPT ![t] = @ + 1]
  /\ late' = [late EXCEPT ![t] = IF @ = "rule" THEN "no" ELSE @]
  /\ pc' = [pc EXCEPT ![t] = "begin"]
  /\ UNCHANGED outcome

\* should_skip: an AI rule of a task that may not use AI.
SkipRule(t) == CloseRule(t, "skipped", {})

\* Any other exception of a checker or callback: the rule failed, which is an error.
RuleFails(t) == CloseRule(t, "failed", {"error"})

\* A checkpoint raises through engine.run: TaskCancelled, or TaskDeadlineExceeded.
StopRun(t) ==
  LET why == IF event[t] THEN "cancelled" ELSE "timed_out" IN
  /\ ~Clear(t)
  /\ status' = IF RunsRule(t) THEN [status EXCEPT ![t][rule[t]] = why] ELSE status
  /\ outcome' = [outcome EXCEPT ![t] = why]
  /\ pc' = [pc EXCEPT ![t] = "over"]
  /\ UNCHANGED <<rule, found, late>>
-----------------------------------------------------------------------------
(* The engine's loop.                                                      *)

\* checkpoint, on_rule_start, should_skip, get_checker, rule_scope.
Begin(t) ==
  /\ pc[t] = "begin" /\ RunsRule(t)
  /\ \/ StopRun(t) /\ UNCHANGED call
     \/ Clear(t) /\ RuleFails(t) /\ UNCHANGED call
     \/ /\ Clear(t) /\ rule[t] \in AiRules /\ ~AiActive(t)
        /\ SkipRule(t) /\ UNCHANGED call
     \/ /\ Clear(t) /\ (rule[t] \in AiRules => AiActive(t))
        /\ status' = [status EXCEPT ![t][rule[t]] = "running"]
        /\ pc' = [pc EXCEPT ![t] = IF rule[t] \in AiRules THEN "gate" ELSE "plain"]
        /\ call' = [call EXCEPT ![t] = NoCall]
        /\ UNCHANGED <<rule, found, late, outcome>>
  /\ UNCHANGED <<input, signal, calls, sent, answered, permits>>

\* A checker that needs no AI: it returns issues, or raises.
Plain(t) ==
  /\ pc[t] = "plain"
  /\ \/ /\ \E issues \in SUBSET {"error", "manual"} :
             found' = [found EXCEPT ![t] = @ \union issues]
        /\ pc' = [pc EXCEPT ![t] = "exit"]
        /\ UNCHANGED <<rule, status, late, outcome>>
     \/ RuleFails(t)
  /\ UNCHANGED <<input, signal, client>>

\* Faulty variant: a rule whose AI check was not executed counts as done.
ExitUndegraded(t) ==
  /\ pc[t] = "exit"
  /\ \/ StopRun(t)
     \/ Clear(t) /\ CloseRule(t, "done", {})
  /\ UNCHANGED <<input, signal, client>>

\* rule_scope's second checkpoint, then done or degraded.
Exit(t) ==
  /\ pc[t] = "exit"
  /\ \/ StopRun(t)
     \/ Clear(t) /\ CloseRule(t, IF call[t].degraded THEN "degraded" ELSE "done", {})
  /\ UNCHANGED <<input, signal, client>>

\* The checkpoint behind engine.run.
Leave(t) ==
  /\ pc[t] = "begin" /\ ~RunsRule(t)
  /\ StopRun(t) \/ (Clear(t) /\ Goto(t, "conclude"))
  /\ UNCHANGED <<input, signal, client>>

\* conclude_review and the counts summarize_review hands it.
Incomplete(t, issues) ==
  \/ submitted[t].size = 0
  \/ \E r \in 1..submitted[t].size : status[t][r] \in {"failed", "degraded", "skipped"}
  \/ "manual" \in issues

\* Doubtful pages and parser warnings join the issues; then the decision table.
Conclude(t) ==
  /\ pc[t] = "conclude"
  /\ \E pages \in SUBSET {"manual"} :
       /\ found' = [found EXCEPT ![t] = @ \union pages]
       /\ outcome' = [outcome EXCEPT ![t] =
            IF Incomplete(t, found'[t]) THEN "incomplete"
            ELSE IF "error" \in found'[t] THEN "needs_revision" ELSE "pass"]
  /\ pc' = [pc EXCEPT ![t] = "over"]
  /\ UNCHANGED <<input, signal, client, rule, status, late>>
-----------------------------------------------------------------------------
(* The JSON client, called once per part of the document.                  *)

\* The AI check was not executed: the checker returns what it has and says so.
Degrade(t) ==
  /\ call' = [call EXCEPT ![t].degraded = TRUE]
  /\ Goto(t, "exit")

\* Faulty variant: one attempt too many.
AttemptFailsLate(t) ==
  \/ call[t].attempt <= Attempts /\ Goto(t, "backoff") /\ UNCHANGED call
  \/ call[t].attempt > Attempts /\ Degrade(t)

\* except Exception: another attempt, or LLMUnavailableError after the last.
AttemptFails(t) ==
  \/ call[t].attempt < Attempts /\ Goto(t, "backoff") /\ UNCHANGED call
  \/ call[t].attempt = Attempts /\ Degrade(t)

\* The finally clause of _post_chat.
ReleaseSlot == permits' = permits + 1

\* call_json: the switch, the task's authorisation and the length of the prompt.
Gate(t) ==
  /\ pc[t] = "gate"
  /\ \/ call[t].chunk > Chunks[rule[t]] /\ Goto(t, "exit") /\ UNCHANGED call
     \/ call[t].chunk <= Chunks[rule[t]] /\ Degrade(t)
     \/ /\ call[t].chunk <= Chunks[rule[t]] /\ AiActive(t)
        /\ call' = [call EXCEPT ![t].attempt = 1, ![t].repair = FALSE]
        /\ Goto(t, "attempt")
  /\ UNCHANGED <<input, signal, calls, sent, answered, permits>>

\* The head of the retry loop; its heartbeat is outside the try.
Attempt(t) ==
  /\ pc[t] = "attempt"
  /\ StopRun(t) \/ (Clear(t) /\ (Goto(t, "post") \/ RuleFails(t)))
  /\ UNCHANGED <<input, signal, client>>

\* _post_chat: no key is final; remaining_seconds is a checkpoint inside the try.
Post(t) ==
  /\ pc[t] = "post"
  /\ \/ Degrade(t)
     \/ ~Clear(t) /\ AttemptFails(t)
     \/ Clear(t) /\ Goto(t, "wait") /\ UNCHANGED call
  /\ UNCHANGED <<input, signal, calls, sent, answered, permits>>

\* _acquire_provider_slot: a checkpoint before each try; the wait is bounded.
Wait(t) ==
  /\ pc[t] = "wait"
  /\ \/ ~Clear(t) /\ AttemptFails(t) /\ UNCHANGED permits
     \/ permits = 0 /\ Degrade(t) /\ UNCHANGED permits
     \/ /\ Clear(t) /\ permits > 0
        /\ permits' = permits - 1
        /\ Goto(t, "reserve") /\ UNCHANGED call
  /\ UNCHANGED <<input, signal, calls, sent, answered>>

\* Faulty variant: asking for a repair is free.
ReserveFreeRepair(t) ==
  /\ pc[t] = "reserve"
  /\ \/ ~Clear(t) /\ ReleaseSlot /\ AttemptFails(t) /\ UNCHANGED calls
     \/ /\ Clear(t) /\ calls[t] >= MaxCalls /\ ~call[t].repair
        /\ ReleaseSlot /\ Degrade(t) /\ UNCHANGED calls
     \/ /\ Clear(t) /\ (calls[t] < MaxCalls \/ call[t].repair)
        /\ calls' = [calls EXCEPT ![t] = @ + 1]
        /\ Goto(t, "announce") /\ UNCHANGED <<call, permits>>
  /\ UNCHANGED <<input, signal, sent, answered>>

\* Faulty variant: an exhausted budget leaves without giving the slot back.
ReserveLeaks(t) ==
  /\ pc[t] = "reserve"
  /\ \/ ~Clear(t) /\ ReleaseSlot /\ AttemptFails(t) /\ UNCHANGED calls
     \/ Clear(t) /\ calls[t] >= MaxCalls /\ Degrade(t) /\ UNCHANGED <<calls, permits>>
     \/ /\ Clear(t) /\ calls[t] < MaxCalls
        /\ calls' = [calls EXCEPT ![t] = @ + 1]
        /\ Goto(t, "announce") /\ UNCHANGED <<call, permits>>
  /\ UNCHANGED <<input, signal, sent, answered>>

\* consume_llm_call.
Reserve(t) ==
  /\ pc[t] = "reserve"
  /\ \/ ~Clear(t) /\ ReleaseSlot /\ AttemptFails(t) /\ UNCHANGED calls
     \/ Clear(t) /\ calls[t] >= MaxCalls /\ ReleaseSlot /\ Degrade(t) /\ UNCHANGED calls
     \/ /\ Clear(t) /\ calls[t] < MaxCalls
        /\ calls' = [calls EXCEPT ![t] = @ + 1]
        /\ Goto(t, "announce") /\ UNCHANGED <<call, permits>>
  /\ UNCHANGED <<input, signal, sent, answered>>

\* heartbeat("llm_request_started"), whose callback may fail like its checkpoint.
Announce(t) ==
  /\ pc[t] = "announce"
  /\ \/ ReleaseSlot /\ AttemptFails(t)
     \/ Clear(t) /\ Goto(t, "send") /\ UNCHANGED <<call, permits>>
  /\ UNCHANGED <<input, signal, calls, sent, answered>>

Send(t) ==
  /\ pc[t] = "send"
  /\ sent' = [sent EXCEPT ![t] = @ + 1]
  /\ Goto(t, "answer")
  /\ UNCHANGED <<input, signal, call, calls, answered, permits>>

\* The provider raises or times out, the heartbeat raises, or the answer is empty:
\* the attempt failed.
NoAnswer(t) ==
  /\ pc[t] = "answer"
  /\ ReleaseSlot /\ AttemptFails(t)
  /\ UNCHANGED <<input, signal, calls, sent, answered>>

\* An answer: unusable for good, not JSON (one repair is asked for), or read.
Answer(t) ==
  /\ pc[t] = "answer" /\ Clear(t)
  /\ ReleaseSlot
  /\ \/ Degrade(t) /\ UNCHANGED answered
     \/ /\ ~call[t].repair
        /\ call' = [call EXCEPT ![t].repair = TRUE, ![t].attempt = 1]
        /\ Goto(t, "attempt") /\ UNCHANGED answered
     \/ /\ \E issues \in SUBSET {"error"} : found' = [found EXCEPT ![t] = @ \union issues]
        /\ answered' = [answered EXCEPT ![t] = @ \union {<<rule[t], call[t].chunk>>}]
        /\ call' = [call EXCEPT ![t].chunk = @ + 1]
        /\ pc' = [pc EXCEPT ![t] = "gate"]
        /\ UNCHANGED <<rule, status, late, outcome>>
  /\ UNCHANGED <<input, signal, calls, sent>>

\* A checkpoint while it waits.
Backoff(t) ==
  /\ pc[t] = "backoff"
  /\ \/ StopRun(t) /\ UNCHANGED call
     \/ /\ Clear(t)
        /\ call' = [call EXCEPT ![t].attempt = @ + 1]
        /\ Goto(t, "attempt")
  /\ UNCHANGED <<input, signal, calls, sent, answered, permits>>
-----------------------------------------------------------------------------
(* From outside: the user cancels, a deadline passes.                      *)

Cancel(t) ==
  /\ pc[t] # "over" /\ ~event[t]
  /\ event' = [event EXCEPT ![t] = TRUE]
  /\ told' = [told EXCEPT ![t] = sent[t]]
  /\ UNCHANGED <<input, engine, client>>

\* A rule's deadline is never later than its task's, and exists inside its scope.
Expire(t) ==
  /\ pc[t] # "over"
  /\ \/ late[t] = "no" /\ pc[t] \notin {"begin", "conclude"}
        /\ late' = [late EXCEPT ![t] = "rule"]
     \/ late[t] # "task" /\ late' = [late EXCEPT ![t] = "task"]
  /\ UNCHANGED <<input, signal, pc, rule, status, found, outcome, client>>
-----------------------------------------------------------------------------
Step(t) ==
  \/ Begin(t) \/ Plain(t) \/ Exit(t) \/ Leave(t) \/ Conclude(t)
  \/ Gate(t) \/ Attempt(t) \/ Post(t) \/ Wait(t) \/ Reserve(t) \/ Announce(t)
  \/ Send(t) \/ NoAnswer(t) \/ Answer(t) \/ Backoff(t)

Next == \E t \in Task : Step(t) \/ Cancel(t) \/ Expire(t)

Spec == Init /\ [][Next]_vars

\* The thread runs; every wait it enters is bounded (checkers end, the provider
\* answers or times out, waiting for a slot has a deadline).
FairSpec == Spec /\ \A t \in Task : WF_vars(Step(t))
-----------------------------------------------------------------------------
\* conclude_review: a review that is passed, or sent back for revision, was really
\* checked: it has rules, all of them ran to the end, every AI rule read an answer
\* for each part of the document, and nothing is left for a person to look at.
ConcludedMeansChecked == \A t \in Task :
  outcome[t] \in {"pass", "needs_revision"} =>
    /\ submitted[t].size > 0 /\ "manual" \notin found[t]
    /\ \A r \in 1..submitted[t].size :
         /\ status[t][r] = "done"
         /\ r \in AiRules => \A c \in 1..Chunks[r] : <<r, c>> \in answered[t]

\* call_json is the only way out: nothing is sent for a task without a recorded
\* consent, without use_ai or with the deployment switch off.
EgressNeedsConsent == \A t \in Task :
  sent[t] > 0 => allowed /\ submitted[t].use /\ submitted[t].consent

\* LLM_MAX_CALLS_PER_TASK bounds the requests of a task over all its rules,
\* parts, retries and repairs.  The types are part of it.
BudgetKept == TypeOK /\ \A t \in Task : sent[t] <= MaxCalls

\* LLM_MAX_CONCURRENCY over all tasks, whichever way an attempt ends: every slot
\* is free or held by one attempt that will release it.
SlotsAccounted ==
  permits + Cardinality({t \in Task : pc[t] \in {"reserve", "announce", "send", "answer"}})
    = MaxConcurrency

\* The client swallows TaskCancelled inside an attempt, yet a cancellation is not
\* lost: at most the request that was about to leave is still sent.
CancelStopsRequests == \A t \in Task : event[t] => sent[t] <= told[t] + 1

\* Every run ends, whatever the provider, the other reviews and the clock do.
RunEnds == \A t \in Task : <>(pc[t] = "over")

=============================================================================
