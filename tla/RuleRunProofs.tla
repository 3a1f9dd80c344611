---------------------------- MODULE RuleRunProofs ----------------------------
(***************************************************************************)
(* Proofs about RuleRun, for any finite set of reviews, any rules, parts,  *)
(* attempts, call budget and number of provider slots.  A step is a step   *)
(* of one review, so most of the invariant is stated review by review.     *)
(***************************************************************************)
EXTENDS RuleRun, FiniteSetTheorems, TLAPS

\* Inside the JSON client, from the gate to the read answer.
Client  == {"gate", "attempt", "post", "wait", "reserve", "announce", "send", "answer", "backoff"}
Holding == {"reserve", "announce", "send", "answer"}
Closed  == {"done", "degraded", "skipped", "failed"}

\* A rule is open while its checker works, and the client works for AI rules only.
Control(t) ==
  /\ rule[t] <= submitted[t].size + 1
  /\ pc[t] \in Client \union {"plain", "exit"} => RunsRule(t)
  /\ pc[t] = "conclude" => ~RunsRule(t)
  /\ pc[t] \in Client => rule[t] \in AiRules
  /\ pc[t] = "plain" => rule[t] \notin AiRules
  /\ pc[t] = "backoff" => call[t].attempt < Attempts
  /\ outcome[t] # "none" => pc[t] = "over"

\* The authorisation was looked at before the client was entered.
Authorised(t) == pc[t] \in Client \/ sent[t] > 0 => AiActive(t)

\* A request is counted before it is sent.
CountedFirst(t) ==
  /\ calls[t] <= MaxCalls
  /\ sent[t] <= calls[t]
  /\ pc[t] \in {"announce", "send"} => sent[t] < calls[t]

\* Only a request whose last checkpoint came before the cancellation is still sent.
LastRequest(t) == event[t] =>
  /\ sent[t] <= told[t] + 1
  /\ pc[t] = "send" => sent[t] <= told[t]

\* The parts up to n of rule r were read.
Read(t, r, n) == \A c \in 1..n : <<r, c>> \in answered[t]

\* What the rules that are over, and the one at work, have to show.
WorkShown(t) ==
  /\ \A r \in 1..(rule[t] - 1) : status[t][r] \in Closed
  /\ \A r \in AiRules : status[t][r] = "done" => Read(t, r, Chunks[r])
  /\ pc[t] \in Client => ~call[t].degraded /\ Read(t, rule[t], call[t].chunk - 1)
  /\ pc[t] = "exit" /\ rule[t] \in AiRules =>
       call[t].degraded \/ Read(t, rule[t], Chunks[rule[t]])

\* ConcludedMeansChecked, of one review.
Checked(t) == outcome[t] \in {"pass", "needs_revision"} =>
  /\ submitted[t].size > 0 /\ "manual" \notin found[t]
  /\ \A r \in 1..submitted[t].size :
       status[t][r] = "done" /\ (r \in AiRules => Read(t, r, Chunks[r]))

TaskInv(t) == /\ Control(t) /\ Authorised(t) /\ CountedFirst(t) /\ LastRequest(t)
              /\ WorkShown(t) /\ Checked(t)

IInv == TypeOK /\ SlotsAccounted /\ \A t \in Task : TaskInv(t)
-----------------------------------------------------------------------------
(* Types, helper by helper.                                                *)

EngineTyped ==
  /\ pc \in [Task -> Label] /\ rule \in [Task -> 1..(Rules + 1)]
  /\ status \in [Task -> [1..Rules -> RuleStatus]]
  /\ found \in [Task -> SUBSET {"error", "manual"}]
  /\ late \in [Task -> {"no", "rule", "task"}]
  /\ outcome \in [Task -> {"none"} \union Stopped \union Conclusion]

CallTyped ==
  call \in [Task -> [chunk : Nat, attempt : 1..Attempts, repair : BOOLEAN, degraded : BOOLEAN]]

LEMMA GotoTyped ==
  ASSUME EngineTyped, NEW t \in Task, NEW l \in Label, Goto(t, l)
  PROVE  EngineTyped'
BY DEF EngineTyped, Goto

LEMMA CloseRuleTyped ==
  ASSUME EngineTyped, NEW t \in Task, rule[t] \in 1..Rules, NEW s \in RuleStatus,
         NEW issues \in SUBSET {"error", "manual"}, CloseRule(t, s, issues)
  PROVE  EngineTyped'
<1>1. rule' \in [Task -> 1..(Rules + 1)]
  BY RuleRunAssumption DEF EngineTyped, CloseRule
<1>2. status' \in [Task -> [1..Rules -> RuleStatus]]
  BY DEF EngineTyped, CloseRule
<1> QED BY <1>1, <1>2 DEF EngineTyped, CloseRule, Label

LEMMA StopRunTyped ==
  ASSUME EngineTyped, NEW t \in Task, RunsRule(t) => rule[t] \in 1..Rules, StopRun(t)
  PROVE  EngineTyped'
BY DEF EngineTyped, StopRun, Label, Stopped, RuleStatus

LEMMA AttemptFailsTyped ==
  ASSUME EngineTyped, CallTyped, NEW t \in Task, Degrade(t) \/ AttemptFails(t)
  PROVE  EngineTyped' /\ CallTyped'
BY GotoTyped DEF CallTyped, Degrade, AttemptFails, Label

\* The rule at work exists.
LEMMA RuleExists ==
  ASSUME TypeOK, NEW t \in Task
  PROVE  /\ submitted[t].size \in 0..Rules /\ rule[t] \in Nat
         /\ RunsRule(t) => rule[t] \in 1..Rules
BY RuleRunAssumption DEF TypeOK, Submission, RunsRule

\* Slots are counted through the reviews that hold one.
Holders == {t \in Task : pc[t] \in Holding}

LEMMA HoldersCounted == IsFiniteSet(Holders) /\ Cardinality(Holders) \in Nat
BY RuleRunAssumption, FS_Subset, FS_CardinalityType DEF Holders

LEMMA HolderHasSlot ==
  ASSUME TypeOK, SlotsAccounted, NEW t \in Holders
  PROVE  permits + 1 \in 0..MaxConcurrency
<1>1. Cardinality(Holders) # 0
  BY HoldersCounted, FS_EmptySet
<1>2. permits + Cardinality(Holders) = MaxConcurrency /\ permits \in 0..MaxConcurrency
  BY DEF SlotsAccounted, Holders, Holding, TypeOK
<1> QED BY <1>1, <1>2, HoldersCounted, RuleRunAssumption

LEMMA TypesKept ==
  ASSUME TypeOK, SlotsAccounted, \A t \in Task : Control(t), [Next]_vars
  PROVE  TypeOK'
<1> DEFINE Rest == /\ calls \in [Task -> Nat] /\ sent \in [Task -> Nat]
                   /\ answered \in [Task -> SUBSET (AiRules \X Nat)]
                   /\ event \in [Task -> BOOLEAN] /\ told \in [Task -> Nat]
                   /\ allowed \in BOOLEAN /\ submitted \in [Task -> Submission]
                   /\ permits \in 0..MaxConcurrency
<1>0. EngineTyped /\ CallTyped /\ Rest /\ permits \in Nat
  BY RuleRunAssumption DEF TypeOK, EngineTyped, CallTyped
<1> SUFFICES EngineTyped' /\ CallTyped' /\ Rest'
  BY DEF TypeOK, EngineTyped, CallTyped
<1>1. ASSUME NEW t \in Task, Step(t) PROVE EngineTyped' /\ CallTyped' /\ Rest'
  <2>0. /\ pc[t] \in Client \union {"plain", "exit"} \/ RunsRule(t) => rule[t] \in 1..Rules
        /\ pc[t] \in Client => rule[t] \in AiRules
        /\ pc[t] = "backoff" => call[t].attempt + 1 \in 1..Attempts
        /\ pc[t] \in Holding => permits + 1 \in 0..MaxConcurrency
        /\ RunsRule(t) => rule[t] \in 1..Rules
    BY <1>0, RuleExists, HolderHasSlot, RuleRunAssumption DEF Control, Holders, CallTyped
  <2> USE <1>0, <2>0, GotoTyped, CloseRuleTyped, StopRunTyped, AttemptFailsTyped
      DEF Label, RuleStatus, input, signal, engine, client
  <2>1. CASE Begin(t)
    <3>1. CASE StopRun(t) /\ UNCHANGED call
      BY <2>1, <3>1 DEF Begin, CallTyped
    <3>2. CASE (RuleFails(t) \/ SkipRule(t)) /\ UNCHANGED call
      BY <2>1, <3>2 DEF Begin, RuleFails, SkipRule, CallTyped
    <3>3. CASE /\ status' = [status EXCEPT ![t][rule[t]] = "running"]
               /\ pc' = [pc EXCEPT ![t] = IF rule[t] \in AiRules THEN "gate" ELSE "plain"]
               /\ call' = [call EXCEPT ![t] = NoCall]
               /\ UNCHANGED <<rule, found, late, outcome>>
      <4>1. NoCall \in [chunk : Nat, attempt : 1..Attempts, repair : BOOLEAN, degraded : BOOLEAN]
        BY RuleRunAssumption DEF NoCall
      <4>2. CallTyped'
        BY <3>3, <4>1 DEF CallTyped
      <4>3. EngineTyped'
        BY <2>1, <3>3 DEF Begin, EngineTyped
      <4> QED BY <2>1, <4>2, <4>3 DEF Begin
    <3> QED BY <2>1, <3>1, <3>2, <3>3 DEF Begin
  <2>2. CASE Plain(t)
    <3>1. CASE RuleFails(t)
      BY <2>2, <3>1 DEF Plain, RuleFails, CallTyped, client
    <3>2. ASSUME NEW issues \in SUBSET {"error", "manual"}, pc' = [pc EXCEPT ![t] = "exit"],
                 found' = [found EXCEPT ![t] = @ \union issues],
                 UNCHANGED <<rule, status, late, outcome>>
          PROVE  EngineTyped'
      BY <3>2 DEF EngineTyped
    <3> QED BY <2>2, <3>1, <3>2 DEF Plain, CallTyped
  <2>3. CASE Exit(t) \/ Leave(t)
    BY <2>3 DEF Exit, Leave, CallTyped
  <2>4. CASE Conclude(t)
    <3>1. CallTyped' /\ Rest'
      BY <2>4 DEF Conclude, CallTyped
    <3>2. found' \in [Task -> SUBSET {"error", "manual"}]
      <4>1. PICK pages \in SUBSET {"manual"} : found' = [found EXCEPT ![t] = @ \union pages]
        BY <2>4 DEF Conclude
      <4> HIDE <2>0
      <4> QED BY <4>1 DEF EngineTyped
    <3>3. outcome' \in [Task -> {"none"} \union Stopped \union Conclusion]
      BY <2>4 DEF Conclude, EngineTyped, Conclusion
    <3> QED BY <2>4, <3>1, <3>2, <3>3 DEF Conclude, EngineTyped
  <2>5. CASE Gate(t)
    <3>1. CASE (Goto(t, "exit") /\ UNCHANGED call) \/ Degrade(t)
      BY <2>5, <3>1 DEF Gate, CallTyped
    <3>2. CASE /\ call' = [call EXCEPT ![t].attempt = 1, ![t].repair = FALSE]
               /\ Goto(t, "attempt")
      <4>1. CallTyped'
        <5> DEFINE first == [call EXCEPT ![t].attempt = 1]
        <5>1. first \in [Task -> [chunk : Nat, attempt : 1..Attempts, repair : BOOLEAN, degraded : BOOLEAN]]
          BY RuleRunAssumption DEF CallTyped
        <5>2. call' = [first EXCEPT ![t].repair = FALSE]
          BY <3>2
        <5> HIDE DEF first
        <5> QED BY <5>1, <5>2 DEF CallTyped
      <4> QED BY <2>5, <3>2, <4>1 DEF Gate
    <3> QED BY <2>5, <3>1, <3>2 DEF Gate
  <2>6. CASE Attempt(t)
    BY <2>6 DEF Attempt, RuleFails, CallTyped, Client
  <2>7. CASE Post(t)
    BY <2>7 DEF Post, CallTyped
  <2>8. CASE Wait(t)
    <3>1. EngineTyped' /\ CallTyped'
      BY <2>8 DEF Wait, CallTyped
    <3>2. permits' \in 0..MaxConcurrency
      BY <2>8, RuleRunAssumption DEF Wait
    <3> QED BY <2>8, <3>1, <3>2 DEF Wait
  <2>9. CASE Reserve(t)
    BY <2>9 DEF Reserve, ReleaseSlot, CallTyped, Holding
  <2>10. CASE Announce(t) \/ NoAnswer(t)
    BY <2>10 DEF Announce, NoAnswer, ReleaseSlot, CallTyped, Holding
  <2>11. CASE Send(t)
    BY <2>11 DEF Send, CallTyped
  <2>12. CASE Answer(t)
    <3>1. permits' \in 0..MaxConcurrency /\ rule[t] \in AiRules
      BY <2>12 DEF Answer, ReleaseSlot, Client, Holding
    <3>2. CASE Degrade(t) /\ UNCHANGED answered
      BY <2>12, <3>1, <3>2 DEF Answer
    <3>3. CASE /\ call' = [call EXCEPT ![t].repair = TRUE, ![t].attempt = 1]
               /\ Goto(t, "attempt") /\ UNCHANGED answered
      <4>1. CallTyped'
        <5> DEFINE asked == [call EXCEPT ![t].repair = TRUE]
        <5>1. asked \in [Task -> [chunk : Nat, attempt : 1..Attempts, repair : BOOLEAN, degraded : BOOLEAN]]
          BY DEF CallTyped
        <5>2. call' = [asked EXCEPT ![t].attempt = 1]
          BY <3>3
        <5> HIDE DEF asked
        <5>3. 1 \in 1..Attempts
          BY RuleRunAssumption
        <5> QED BY <5>1, <5>2, <5>3 DEF CallTyped
      <4> QED BY <2>12, <3>1, <3>3, <4>1 DEF Answer
    <3>4. CASE /\ \E issues \in SUBSET {"error"} : found' = [found EXCEPT ![t] = @ \union issues]
               /\ answered' = [answered EXCEPT ![t] = @ \union {<<rule[t], call[t].chunk>>}]
               /\ call' = [call EXCEPT ![t].chunk = @ + 1]
               /\ pc' = [pc EXCEPT ![t] = "gate"]
               /\ UNCHANGED <<rule, status, late, outcome>>
      <4>1. CallTyped'
        BY <3>4 DEF CallTyped
      <4>2. EngineTyped'
        BY <3>4 DEF EngineTyped
      <4>3. answered' \in [Task -> SUBSET (AiRules \X Nat)]
        BY <3>1, <3>4 DEF CallTyped
      <4> QED BY <2>12, <3>1, <4>1, <4>2, <4>3 DEF Answer
    <3> QED BY <2>12, <3>2, <3>3, <3>4 DEF Answer
  <2>13. CASE Backoff(t)
    BY <2>13 DEF Backoff, CallTyped
  <2> QED
    BY <1>1, <2>1, <2>2, <2>3, <2>4, <2>5, <2>6, <2>7, <2>8, <2>9, <2>10, <2>11, <2>12, <2>13
    DEF Step
<1>2. ASSUME NEW t \in Task, Cancel(t) \/ Expire(t) PROVE EngineTyped' /\ CallTyped' /\ Rest'
  BY <1>0, <1>2 DEF Cancel, Expire, EngineTyped, CallTyped, input, signal, engine, client
<1>3. CASE UNCHANGED vars
  BY <1>0, <1>3 DEF vars, EngineTyped, CallTyped, input, signal, engine, client
<1> QED BY <1>1, <1>2, <1>3 DEF Next
-----------------------------------------------------------------------------
(* A step of one review leaves the others alone.                           *)

SameFor(t) ==
  /\ submitted'[t] = submitted[t] /\ allowed' = allowed
  /\ event'[t] = event[t] /\ told'[t] = told[t]
  /\ pc'[t] = pc[t] /\ rule'[t] = rule[t] /\ status'[t] = status[t] /\ found'[t] = found[t]
  /\ outcome'[t] = outcome[t] /\ call'[t] = call[t] /\ calls'[t] = calls[t]
  /\ sent'[t] = sent[t] /\ answered'[t] = answered[t]

LEMMA OthersStay ==
  ASSUME TypeOK, NEW t \in Task, Step(t) \/ Cancel(t) \/ Expire(t), NEW q \in Task, q # t
  PROVE  SameFor(q)
<1> USE DEF TypeOK, SameFor, input, signal, engine, client, Goto, CloseRule, SkipRule, RuleFails, StopRun,
        Degrade, AttemptFails, ReleaseSlot
<1>1. CASE Begin(t)
  BY <1>1 DEF Begin
<1>2. CASE Plain(t) \/ Exit(t) \/ Leave(t) \/ Conclude(t)
  BY <1>2 DEF Plain, Exit, Leave, Conclude
<1>3. CASE Gate(t) \/ Attempt(t) \/ Post(t) \/ Wait(t)
  BY <1>3 DEF Gate, Attempt, Post, Wait
<1>4. CASE Reserve(t) \/ Announce(t) \/ Send(t) \/ NoAnswer(t)
  BY <1>4 DEF Reserve, Announce, Send, NoAnswer
<1>5. CASE Answer(t) \/ Backoff(t)
  BY <1>5 DEF Answer, Backoff
<1>6. CASE Cancel(t) \/ Expire(t)
  BY <1>6 DEF Cancel, Expire
<1> QED BY <1>1, <1>2, <1>3, <1>4, <1>5, <1>6 DEF Step

LEMMA SameKeepsInvariant == ASSUME NEW t \in Task, TaskInv(t), SameFor(t) PROVE TaskInv(t)'
BY DEF TaskInv, SameFor, Control, Authorised, CountedFirst, LastRequest, WorkShown, Checked, Read, RunsRule, AiActive
-----------------------------------------------------------------------------
(* What the helpers do to their own review.                                *)

LEMMA GotoAt ==
  ASSUME TypeOK, NEW t \in Task, NEW l, Goto(t, l)
  PROVE  /\ pc'[t] = l
         /\ rule'[t] = rule[t] /\ status'[t] = status[t] /\ found'[t] = found[t]
         /\ outcome'[t] = outcome[t]
BY DEF TypeOK, Goto

LEMMA CloseRuleAt ==
  ASSUME TypeOK, NEW t \in Task, NEW s, NEW issues, CloseRule(t, s, issues)
  PROVE  /\ pc'[t] = "begin" /\ rule'[t] = rule[t] + 1
         /\ found'[t] = found[t] \union issues /\ outcome'[t] = outcome[t]
         /\ \A r \in 1..Rules : status'[t][r] = IF r = rule[t] THEN s ELSE status[t][r]
BY DEF TypeOK, CloseRule

LEMMA StopRunAt ==
  ASSUME TypeOK, NEW t \in Task, StopRun(t)
  PROVE  /\ pc'[t] = "over" /\ outcome'[t] \in Stopped
         /\ rule'[t] = rule[t] /\ found'[t] = found[t]
         /\ \A r \in 1..Rules : status'[t][r] \in Stopped \/ (r # rule[t] /\ status'[t][r] = status[t][r])
                                \/ (~RunsRule(t) /\ status'[t][r] = status[t][r])
<1>1. pc'[t] = "over" /\ outcome'[t] \in Stopped /\ rule'[t] = rule[t] /\ found'[t] = found[t]
  BY DEF TypeOK, StopRun, Stopped
<1>2. ASSUME NEW r \in 1..Rules
      PROVE  status'[t][r] \in Stopped \/ (r # rule[t] /\ status'[t][r] = status[t][r])
             \/ (~RunsRule(t) /\ status'[t][r] = status[t][r])
  BY <1>2 DEF TypeOK, StopRun, Stopped
<1> QED BY <1>1, <1>2

LEMMA DegradeAt ==
  ASSUME TypeOK, NEW t \in Task, Degrade(t)
  PROVE  /\ pc'[t] = "exit" /\ call'[t].degraded
         /\ rule'[t] = rule[t] /\ status'[t] = status[t] /\ found'[t] = found[t]
         /\ outcome'[t] = outcome[t]
BY DEF TypeOK, Degrade, Goto

LEMMA AttemptFailsAt ==
  ASSUME TypeOK, NEW t \in Task, AttemptFails(t)
  PROVE  /\ \/ pc'[t] = "backoff" /\ call'[t] = call[t] /\ call[t].attempt < Attempts
            \/ pc'[t] = "exit" /\ call'[t].degraded
         /\ rule'[t] = rule[t] /\ status'[t] = status[t] /\ found'[t] = found[t]
         /\ outcome'[t] = outcome[t]
BY DegradeAt, GotoAt DEF AttemptFails

-----------------------------------------------------------------------------
(* What a step leaves of its own review.                                   *)

\* The review stays in the program of its rules.
LEMMA ControlKept ==
  ASSUME TypeOK, NEW t \in Task, Control(t),
         Step(t) \/ Cancel(t) \/ Expire(t)
  PROVE  Control(t)'
<1> USE GotoAt, CloseRuleAt, StopRunAt, DegradeAt, AttemptFailsAt
    DEF input, signal, engine, client, SkipRule, RuleFails, Clear,
        RunsRule, NoCall, Control, Client
<1>0. /\ rule[t] \in Nat /\ submitted[t].size \in 0..Rules /\ Rules \in Nat
      /\ call \in [Task -> [chunk : Nat, attempt : 1..Attempts, repair : BOOLEAN, degraded : BOOLEAN]]
      /\ pc \in [Task -> Label] /\ calls \in [Task -> Nat] /\ sent \in [Task -> Nat]
      /\ told \in [Task -> Nat] /\ event \in [Task -> BOOLEAN] /\ MaxCalls \in Nat
  BY RuleExists, RuleRunAssumption DEF TypeOK
<1>1. CASE Begin(t)
  BY <1>0, <1>1 DEF Begin
<1>2. CASE Plain(t)
  BY <1>0, <1>2 DEF Plain
<1>3. CASE Exit(t)
  BY <1>0, <1>3 DEF Exit
<1>4. CASE Leave(t) \/ Conclude(t)
  BY <1>0, <1>4 DEF Leave, Conclude
<1>5. CASE Gate(t)
  BY <1>0, <1>5 DEF Gate
<1>6. CASE Attempt(t)
  BY <1>0, <1>6 DEF Attempt
<1>7. CASE Post(t) \/ Wait(t)
  BY <1>0, <1>7 DEF Post, Wait
<1>8. CASE Reserve(t) \/ Announce(t)
  BY <1>0, <1>8 DEF Reserve, Announce
<1>9. CASE Send(t) \/ NoAnswer(t)
  BY <1>0, <1>9 DEF Send, NoAnswer
<1>10. CASE Answer(t)
  BY <1>0, <1>10 DEF Answer
<1>11. CASE Backoff(t)
  BY <1>0, <1>11 DEF Backoff
<1>12. CASE Cancel(t) \/ Expire(t)
  BY <1>0, <1>12 DEF Cancel, Expire
<1> QED BY <1>1, <1>2, <1>3, <1>4, <1>5, <1>6, <1>7, <1>8, <1>9, <1>10, <1>11, <1>12 DEF Step

\* Nothing changes what the authorisation is made of, and only the gate lets in.
LEMMA AuthorisedKept ==
  ASSUME TypeOK, NEW t \in Task, Control(t), Authorised(t),
         Step(t) \/ Cancel(t) \/ Expire(t)
  PROVE  Authorised(t)'
<1> USE GotoAt, CloseRuleAt, StopRunAt, DegradeAt, AttemptFailsAt
    DEF input, signal, engine, client, SkipRule, RuleFails, Clear,
        Control, Authorised, Client, AiActive
<1>0. /\ rule[t] \in Nat /\ submitted[t].size \in 0..Rules /\ Rules \in Nat
      /\ call \in [Task -> [chunk : Nat, attempt : 1..Attempts, repair : BOOLEAN, degraded : BOOLEAN]]
      /\ pc \in [Task -> Label] /\ calls \in [Task -> Nat] /\ sent \in [Task -> Nat]
      /\ told \in [Task -> Nat] /\ event \in [Task -> BOOLEAN] /\ MaxCalls \in Nat
  BY RuleExists, RuleRunAssumption DEF TypeOK
<1>1. CASE Begin(t)
  BY <1>0, <1>1 DEF Begin
<1>2. CASE Plain(t)
  BY <1>0, <1>2 DEF Plain
<1>3. CASE Exit(t)
  BY <1>0, <1>3 DEF Exit
<1>4. CASE Leave(t) \/ Conclude(t)
  BY <1>0, <1>4 DEF Leave, Conclude
<1>5. CASE Gate(t)
  BY <1>0, <1>5 DEF Gate
<1>6. CASE Attempt(t)
  BY <1>0, <1>6 DEF Attempt
<1>7. CASE Post(t) \/ Wait(t)
  BY <1>0, <1>7 DEF Post, Wait
<1>8. CASE Reserve(t) \/ Announce(t)
  BY <1>0, <1>8 DEF Reserve, Announce
<1>9. CASE Send(t) \/ NoAnswer(t)
  BY <1>0, <1>9 DEF Send, NoAnswer
<1>10. CASE Answer(t)
  BY <1>0, <1>10 DEF Answer
<1>11. CASE Backoff(t)
  BY <1>0, <1>11 DEF Backoff
<1>12. CASE Cancel(t) \/ Expire(t)
  BY <1>0, <1>12 DEF Cancel, Expire
<1> QED BY <1>1, <1>2, <1>3, <1>4, <1>5, <1>6, <1>7, <1>8, <1>9, <1>10, <1>11, <1>12 DEF Step

\* Only a counted request is sent.
LEMMA CountKept ==
  ASSUME TypeOK, NEW t \in Task, CountedFirst(t),
         Step(t) \/ Cancel(t) \/ Expire(t)
  PROVE  CountedFirst(t)'
<1> USE GotoAt, CloseRuleAt, StopRunAt, DegradeAt, AttemptFailsAt
    DEF input, signal, engine, client, SkipRule, RuleFails, Clear,
        CountedFirst
<1>0. /\ rule[t] \in Nat /\ submitted[t].size \in 0..Rules /\ Rules \in Nat
      /\ call \in [Task -> [chunk : Nat, attempt : 1..Attempts, repair : BOOLEAN, degraded : BOOLEAN]]
      /\ pc \in [Task -> Label] /\ calls \in [Task -> Nat] /\ sent \in [Task -> Nat]
      /\ told \in [Task -> Nat] /\ event \in [Task -> BOOLEAN] /\ MaxCalls \in Nat
  BY RuleExists, RuleRunAssumption DEF TypeOK
<1>1. CASE Begin(t)
  BY <1>0, <1>1 DEF Begin
<1>2. CASE Plain(t)
  BY <1>0, <1>2 DEF Plain
<1>3. CASE Exit(t)
  BY <1>0, <1>3 DEF Exit
<1>4. CASE Leave(t) \/ Conclude(t)
  BY <1>0, <1>4 DEF Leave, Conclude
<1>5. CASE Gate(t)
  BY <1>0, <1>5 DEF Gate
<1>6. CASE Attempt(t)
  BY <1>0, <1>6 DEF Attempt
<1>7. CASE Post(t) \/ Wait(t)
  BY <1>0, <1>7 DEF Post, Wait
<1>8. CASE Reserve(t) \/ Announce(t)
  <2>1. CASE UNCHANGED calls
    BY <1>0, <1>8, <2>1 DEF Reserve, Announce
  <2>2. CASE calls[t] < MaxCalls /\ calls' = [calls EXCEPT ![t] = @ + 1] /\ Goto(t, "announce") /\ UNCHANGED sent
    BY <1>0, <2>2
  <2> QED BY <1>8, <2>1, <2>2 DEF Reserve, Announce
<1>9. CASE Send(t) \/ NoAnswer(t)
  BY <1>0, <1>9 DEF Send, NoAnswer
<1>10. CASE Answer(t)
  BY <1>0, <1>10 DEF Answer
<1>11. CASE Backoff(t)
  BY <1>0, <1>11 DEF Backoff
<1>12. CASE Cancel(t) \/ Expire(t)
  BY <1>0, <1>12 DEF Cancel, Expire
<1> QED BY <1>1, <1>2, <1>3, <1>4, <1>5, <1>6, <1>7, <1>8, <1>9, <1>10, <1>11, <1>12 DEF Step

\* After a cancellation no checkpoint passes.
LEMMA LastRequestKept ==
  ASSUME TypeOK, NEW t \in Task, LastRequest(t),
         Step(t) \/ Cancel(t) \/ Expire(t)
  PROVE  LastRequest(t)'
<1> USE GotoAt, CloseRuleAt, StopRunAt, DegradeAt, AttemptFailsAt
    DEF input, signal, engine, client, SkipRule, RuleFails, Clear,
        LastRequest
<1>0. /\ rule[t] \in Nat /\ submitted[t].size \in 0..Rules /\ Rules \in Nat
      /\ call \in [Task -> [chunk : Nat, attempt : 1..Attempts, repair : BOOLEAN, degraded : BOOLEAN]]
      /\ pc \in [Task -> Label] /\ calls \in [Task -> Nat] /\ sent \in [Task -> Nat]
      /\ told \in [Task -> Nat] /\ event \in [Task -> BOOLEAN] /\ MaxCalls \in Nat
  BY RuleExists, RuleRunAssumption DEF TypeOK
<1>1. CASE Begin(t)
  BY <1>0, <1>1 DEF Begin
<1>2. CASE Plain(t)
  BY <1>0, <1>2 DEF Plain
<1>3. CASE Exit(t)
  BY <1>0, <1>3 DEF Exit
<1>4. CASE Leave(t) \/ Conclude(t)
  BY <1>0, <1>4 DEF Leave, Conclude
<1>5. CASE Gate(t)
  BY <1>0, <1>5 DEF Gate
<1>6. CASE Attempt(t)
  BY <1>0, <1>6 DEF Attempt
<1>7. CASE Post(t) \/ Wait(t)
  BY <1>0, <1>7 DEF Post, Wait
<1>8. CASE Reserve(t) \/ Announce(t)
  BY <1>0, <1>8 DEF Reserve, Announce
<1>9. CASE Send(t) \/ NoAnswer(t)
  BY <1>0, <1>9 DEF Send, NoAnswer
<1>10. CASE Answer(t)
  BY <1>0, <1>10 DEF Answer
<1>11. CASE Backoff(t)
  BY <1>0, <1>11 DEF Backoff
<1>12. CASE Cancel(t) \/ Expire(t)
  BY <1>0, <1>12 DEF Cancel, Expire
<1> QED BY <1>1, <1>2, <1>3, <1>4, <1>5, <1>6, <1>7, <1>8, <1>9, <1>10, <1>11, <1>12 DEF Step

\* A rule that is over shows its work, if its AI check did.
LEMMA CloseShows ==
  ASSUME TypeOK, NEW t \in Task, WorkShown(t), RunsRule(t), UNCHANGED answered,
         NEW s \in Closed, NEW issues, CloseRule(t, s, issues),
         s = "done" /\ rule[t] \in AiRules => Read(t, rule[t], Chunks[rule[t]])
  PROVE  WorkShown(t)'
<1>1. rule[t] \in 1..Rules /\ Rules \in Nat /\ AiRules \subseteq 1..Rules
  BY RuleExists, RuleRunAssumption
<1>2. /\ pc'[t] = "begin" /\ rule'[t] = rule[t] + 1
      /\ \A r \in 1..Rules : status'[t][r] = IF r = rule[t] THEN s ELSE status[t][r]
  BY CloseRuleAt
<1>3. ASSUME NEW r \in 1..(rule'[t] - 1) PROVE status'[t][r] \in Closed
  BY <1>1, <1>2, <1>3 DEF WorkShown
<1>4. ASSUME NEW r \in AiRules, status'[t][r] = "done" PROVE Read(t, r, Chunks[r])
  BY <1>1, <1>2, <1>4 DEF WorkShown
<1> QED BY <1>2, <1>3, <1>4 DEF WorkShown, Read, Client

LEMMA StopShows ==
  ASSUME TypeOK, NEW t \in Task, WorkShown(t), rule[t] <= submitted[t].size + 1, UNCHANGED answered, StopRun(t)
  PROVE  WorkShown(t)'
<1>1. rule[t] \in Nat /\ Rules \in Nat /\ AiRules \subseteq 1..Rules /\ submitted[t].size \in 0..Rules
  BY RuleExists, RuleRunAssumption
<1>2. ASSUME NEW r \in 1..(rule[t] - 1) PROVE status'[t][r] \in Closed
  <2>1. r \in 1..Rules /\ r # rule[t]
    BY <1>1, <1>2
  <2>2. status'[t][r] = status[t][r]
    BY <2>1 DEF StopRun, TypeOK
  <2> QED BY <2>2 DEF WorkShown
<1>3. ASSUME NEW r \in AiRules, status'[t][r] = "done" PROVE Read(t, r, Chunks[r])
  BY <1>1, <1>3, StopRunAt DEF WorkShown, Stopped
<1>4. pc'[t] = "over" /\ rule'[t] = rule[t]
  BY StopRunAt
<1> QED BY <1>2, <1>3, <1>4 DEF WorkShown, Read, Client

\* A rule is done only when the parts of its document were read.
LEMMA WorkKept ==
  ASSUME TypeOK, NEW t \in Task, Control(t), WorkShown(t), Step(t) \/ Cancel(t) \/ Expire(t)
  PROVE  WorkShown(t)'
<1> USE DEF input, signal, engine, client
<1>0. /\ rule[t] \in Nat /\ Rules \in Nat /\ RunsRule(t) => rule[t] \in 1..Rules
      /\ rule[t] \in AiRules => Chunks[rule[t]] \in Nat
      /\ call \in [Task -> [chunk : Nat, attempt : 1..Attempts, repair : BOOLEAN, degraded : BOOLEAN]]
      /\ pc \in [Task -> Label]
      /\ pc[t] \in Client \union {"plain", "exit"} => RunsRule(t)
      /\ pc[t] \in Client => rule[t] \in AiRules
      /\ pc[t] = "plain" => rule[t] \notin AiRules
      /\ rule[t] <= submitted[t].size + 1
  BY RuleExists, RuleRunAssumption DEF TypeOK, Control
<1>1. ASSUME StopRun(t), UNCHANGED answered PROVE WorkShown(t)'
  BY <1>0, <1>1, StopShows
<1>2. ASSUME RuleFails(t) \/ SkipRule(t), RunsRule(t), UNCHANGED answered PROVE WorkShown(t)'
  BY <1>2, CloseShows DEF RuleFails, SkipRule, Closed
<1>3. ASSUME UNCHANGED <<answered, status, rule>>, pc'[t] \notin Client \union {"exit"}
      PROVE WorkShown(t)'
  BY <1>3 DEF WorkShown, Read
<1>4. ASSUME Degrade(t) \/ AttemptFails(t), pc[t] \in Client, UNCHANGED answered PROVE WorkShown(t)'
  BY <1>4, DegradeAt, AttemptFailsAt DEF WorkShown, Read, Client
<1>5. ASSUME NEW l \in Client, Goto(t, l), pc[t] \in Client, UNCHANGED answered,
             call'[t].chunk = call[t].chunk, call'[t].degraded = call[t].degraded
      PROVE  WorkShown(t)'
  BY <1>5, GotoAt DEF WorkShown, Read, Client
<1>6. CASE Begin(t)
  <2>1. ASSUME status' = [status EXCEPT ![t][rule[t]] = "running"], RunsRule(t),
               pc' = [pc EXCEPT ![t] = IF rule[t] \in AiRules THEN "gate" ELSE "plain"],
               call' = [call EXCEPT ![t] = NoCall], UNCHANGED <<rule, answered>>
        PROVE  WorkShown(t)'
    <3>1. \A r \in 1..Rules : status'[t][r] = IF r = rule[t] THEN "running" ELSE status[t][r]
      BY <2>1 DEF TypeOK
    <3>2. pc'[t] \in {"gate", "plain"} /\ call'[t] = NoCall
      BY <1>0, <2>1
    <3>3. ASSUME NEW r \in 1..(rule[t] - 1) PROVE status'[t][r] \in Closed
      BY <1>0, <2>1, <3>1, <3>3 DEF WorkShown
    <3>4. ASSUME NEW r \in AiRules, status'[t][r] = "done" PROVE Read(t, r, Chunks[r])
      BY <3>1, <3>4, RuleRunAssumption DEF WorkShown
    <3> QED BY <2>1, <3>2, <3>3, <3>4 DEF WorkShown, Read, NoCall, Client
  <2> QED BY <1>1, <1>2, <1>6, <2>1 DEF Begin
<1>7. CASE Plain(t)
  <2>1. ASSUME pc' = [pc EXCEPT ![t] = "exit"], UNCHANGED <<rule, status, answered>> PROVE WorkShown(t)'
    BY <1>0, <1>7, <2>1 DEF Plain, WorkShown, Read, Client
  <2> QED BY <1>0, <1>2, <1>7, <2>1 DEF Plain
<1>8. CASE Exit(t)
  <2>1. ASSUME CloseRule(t, IF call[t].degraded THEN "degraded" ELSE "done", {}) PROVE WorkShown(t)'
    BY <1>0, <1>8, <2>1, CloseShows DEF Exit, WorkShown, Closed
  <2> QED BY <1>1, <1>8, <2>1 DEF Exit
<1>9. CASE Leave(t) \/ Conclude(t)
  <2>1. ASSUME Goto(t, "conclude"), UNCHANGED answered PROVE WorkShown(t)'
    BY <1>0, <1>3, <2>1 DEF Goto, Client
  <2>2. CASE Conclude(t)
    BY <1>0, <1>3, <2>2 DEF Conclude, Client
  <2> QED BY <1>1, <1>9, <2>1, <2>2 DEF Leave
<1>10. CASE Gate(t)
  <2>1. CASE call[t].chunk > Chunks[rule[t]] /\ Goto(t, "exit") /\ UNCHANGED call
    BY <1>0, <1>10, <2>1, GotoAt DEF Gate, WorkShown, Read, Client
  <2>2. CASE call' = [call EXCEPT ![t].attempt = 1, ![t].repair = FALSE] /\ Goto(t, "attempt")
    BY <1>0, <1>5, <1>10, <2>2 DEF Gate, Client
  <2> QED BY <1>4, <1>10, <2>1, <2>2 DEF Gate, Client
<1>11. CASE Attempt(t)
  BY <1>0, <1>1, <1>2, <1>5, <1>11 DEF Attempt, Client
<1>12. CASE Post(t) \/ Wait(t) \/ Reserve(t) \/ Announce(t)
  BY <1>4, <1>5, <1>12 DEF Post, Wait, Reserve, Announce, Client
<1>13. CASE Send(t) \/ NoAnswer(t)
  BY <1>4, <1>5, <1>13 DEF Send, NoAnswer, Client
<1>14. CASE Answer(t)
  <2>1. CASE call' = [call EXCEPT ![t].repair = TRUE, ![t].attempt = 1]
             /\ Goto(t, "attempt") /\ UNCHANGED answered
    BY <1>0, <1>5, <1>14, <2>1 DEF Answer, Client
  <2>2. CASE /\ answered' = [answered EXCEPT ![t] = @ \union {<<rule[t], call[t].chunk>>}]
             /\ call' = [call EXCEPT ![t].chunk = @ + 1]
             /\ pc' = [pc EXCEPT ![t] = "gate"]
             /\ UNCHANGED <<rule, status>>
    <3>1. answered'[t] = answered[t] \union {<<rule[t], call[t].chunk>>}
      BY <2>2 DEF TypeOK
    <3>2. pc'[t] = "gate" /\ call'[t].chunk = call[t].chunk + 1 /\ call'[t].degraded = call[t].degraded
      BY <1>0, <2>2
    <3>3. \A c \in 1..(call'[t].chunk - 1) : c \in 1..(call[t].chunk - 1) \/ c = call[t].chunk
      BY <1>0, <3>2
    <3>4. ~call[t].degraded /\ Read(t, rule[t], call[t].chunk - 1)
      BY <1>14 DEF Answer, WorkShown, Client
    <3> QED BY <1>0, <2>2, <3>1, <3>2, <3>3, <3>4 DEF WorkShown, Read, Client
  <2> QED BY <1>4, <1>14, <2>1, <2>2 DEF Answer, Client
<1>15. CASE Backoff(t)
  <2>1. ASSUME call' = [call EXCEPT ![t].attempt = @ + 1], Goto(t, "attempt"), UNCHANGED answered
        PROVE  WorkShown(t)'
    BY <1>0, <1>5, <1>15, <2>1 DEF Backoff, Client
  <2> QED BY <1>1, <1>15, <2>1 DEF Backoff
<1>16. CASE Cancel(t) \/ Expire(t)
  BY <1>16 DEF Cancel, Expire, WorkShown, Read
<1> QED
  BY <1>6, <1>7, <1>8, <1>9, <1>10, <1>11, <1>12, <1>13, <1>14, <1>15, <1>16 DEF Step

\* A verdict is given when every rule is over, and a review that is over rests.
LEMMA CheckedKept ==
  ASSUME TypeOK, NEW t \in Task, Control(t), WorkShown(t), Step(t) \/ Cancel(t) \/ Expire(t)
  PROVE  Checked(t)'
<1> USE DEF input, signal, engine, client
<1>1. pc[t] # "over"
  BY DEF Step, Begin, Plain, Exit, Leave, Conclude, Gate, Attempt, Post, Wait, Reserve, Announce, Send,
     NoAnswer, Answer, Backoff, Cancel, Expire
<1>2. outcome[t] = "none"
  BY <1>1 DEF Control
<1>3. CASE Conclude(t)
  <2> SUFFICES ASSUME outcome'[t] \in {"pass", "needs_revision"}
               PROVE  /\ submitted[t].size > 0 /\ "manual" \notin found'[t]
                      /\ \A r \in 1..submitted[t].size :
                           status[t][r] = "done" /\ (r \in AiRules => Read(t, r, Chunks[r]))
    BY <1>3 DEF Conclude, Checked, Read
  <2>1. ~Incomplete(t, found'[t])
    BY <1>3 DEF Conclude, TypeOK
  <2>2. rule[t] = submitted[t].size + 1 /\ submitted[t].size \in 0..Rules
    BY <1>3, RuleExists, RuleRunAssumption DEF Conclude, Control, RunsRule
  <2>3. ASSUME NEW r \in 1..submitted[t].size PROVE status[t][r] = "done"
    BY <2>1, <2>2, <2>3 DEF Incomplete, WorkShown, Closed
  <2>4. submitted[t].size > 0 /\ "manual" \notin found'[t]
    BY <2>1, <2>2, RuleRunAssumption DEF Incomplete
  <2> QED BY <2>3, <2>4 DEF WorkShown
<1>4. ASSUME ~Conclude(t) PROVE outcome'[t] \in {"none"} \union Stopped
  <2>1. ASSUME ~StopRun(t) PROVE UNCHANGED outcome
    BY <1>4, <2>1 DEF Step, Begin, Plain, Exit, Leave, Gate, Attempt, Post, Wait, Reserve, Announce, Send,
       NoAnswer, Answer, Backoff, Cancel, Expire, Goto, CloseRule, SkipRule, RuleFails, Degrade, AttemptFails
  <2> QED BY <1>2, <2>1, StopRunAt
<1> QED BY <1>3, <1>4 DEF Checked, Stopped
-----------------------------------------------------------------------------
LEMMA InitHolds == Init => IInv
<1> SUFFICES ASSUME Init PROVE IInv
  OBVIOUS
<1>1. TypeOK
  <2>1. \A t \in Task : submitted[t] \in Submission
    BY RuleRunAssumption DEF Init
  <2>2. NoCall \in [chunk : Nat, attempt : 1..Attempts, repair : BOOLEAN, degraded : BOOLEAN]
    BY RuleRunAssumption DEF NoCall
  <2>3. 1 \in 1..(Rules + 1) /\ MaxConcurrency \in 0..MaxConcurrency /\ allowed \in BOOLEAN
        /\ submitted \in [Task -> Submission]
    BY RuleRunAssumption DEF Init
  <2> QED BY <2>2, <2>3 DEF Init, TypeOK, Label, RuleStatus
<1>2. SlotsAccounted
  <2>1. Holders = {}
    BY DEF Init, Holders, Holding
  <2>2. permits + Cardinality(Holders) = MaxConcurrency
    BY <2>1, FS_EmptySet, RuleRunAssumption DEF Init
  <2> QED BY <2>2 DEF SlotsAccounted, Holders, Holding
<1>3. ASSUME NEW t \in Task PROVE TaskInv(t)
  BY <1>1, RuleExists, RuleRunAssumption
  DEF Init, TaskInv, Control, Authorised, CountedFirst, LastRequest, WorkShown, Checked, Client, RuleStatus
<1> QED BY <1>1, <1>2, <1>3 DEF IInv

\* How the set of holders changes: by the slot that a step takes or gives back.
LEMMA AccountsKept == ASSUME TypeOK, SlotsAccounted, [Next]_vars PROVE SlotsAccounted'
<1> DEFINE HolderStep ==
      \/ permits' = permits /\ Holders' = Holders
      \/ permits' = permits - 1 /\ \E t \in Task \ Holders : Holders' = Holders \union {t}
      \/ permits' = permits + 1 /\ \E t \in Holders : Holders' = Holders \ {t}
<1>1. HolderStep
  <2> USE DEF input, signal, engine, client, Holders, Holding, Goto, CloseRule, SkipRule, RuleFails, StopRun,
          Degrade, AttemptFails, ReleaseSlot
  <2>0. pc \in [Task -> Label]
    BY DEF TypeOK
  <2>1. ASSUME NEW t \in Task, Begin(t) \/ Plain(t) \/ Exit(t) \/ Leave(t) \/ Conclude(t) PROVE HolderStep
    BY <2>0, <2>1 DEF Begin, Plain, Exit, Leave, Conclude
  <2>2. ASSUME NEW t \in Task, Gate(t) \/ Attempt(t) \/ Post(t) \/ Backoff(t) PROVE HolderStep
    BY <2>0, <2>2 DEF Gate, Attempt, Post, Backoff
  <2>3. ASSUME NEW t \in Task, Wait(t) PROVE HolderStep
    BY <2>0, <2>3 DEF Wait
  <2>4. ASSUME NEW t \in Task, Reserve(t) \/ Announce(t) PROVE HolderStep
    BY <2>0, <2>4 DEF Reserve, Announce
  <2>5. ASSUME NEW t \in Task, Send(t) \/ NoAnswer(t) PROVE HolderStep
    BY <2>0, <2>5 DEF Send, NoAnswer
  <2>6. ASSUME NEW t \in Task, Answer(t) PROVE HolderStep
    BY <2>0, <2>6 DEF Answer
  <2>7. ASSUME NEW t \in Task, Cancel(t) \/ Expire(t) PROVE HolderStep
    BY <2>7 DEF Cancel, Expire
  <2>8. CASE UNCHANGED vars
    BY <2>8 DEF vars
  <2> QED BY <2>1, <2>2, <2>3, <2>4, <2>5, <2>6, <2>7, <2>8 DEF Next, Step
<1>2. permits + Cardinality(Holders) = MaxConcurrency /\ permits \in Nat /\ MaxConcurrency \in Nat
  BY RuleRunAssumption DEF SlotsAccounted, TypeOK, Holders, Holding
<1>3. IsFiniteSet(Holders) /\ Cardinality(Holders) \in Nat
  BY HoldersCounted
<1>4. ASSUME NEW t, t \notin Holders PROVE Cardinality(Holders \union {t}) = Cardinality(Holders) + 1
  BY <1>3, <1>4, FS_AddElement
<1>5. ASSUME NEW t, t \in Holders PROVE Cardinality(Holders \ {t}) = Cardinality(Holders) - 1
  BY <1>3, <1>5, FS_RemoveElement
<1>6. permits' + Cardinality(Holders') = MaxConcurrency
  BY <1>1, <1>2, <1>3, <1>4, <1>5
<1> QED BY <1>6 DEF SlotsAccounted, Holders, Holding

LEMMA InvariantHolds == Spec => []IInv
<1>1. ASSUME IInv, [Next]_vars PROVE IInv'
  <2>1. TypeOK' /\ SlotsAccounted'
    BY <1>1, TypesKept, AccountsKept DEF IInv, TaskInv
  <2>2. ASSUME NEW t \in Task, Step(t) \/ Cancel(t) \/ Expire(t), NEW q \in Task PROVE TaskInv(q)'
    <3>1. CASE q = t
      BY <1>1, <2>2, <3>1, ControlKept, AuthorisedKept, CountKept, LastRequestKept, WorkKept, CheckedKept
      DEF IInv, TaskInv
    <3>2. CASE q # t
      BY <1>1, <2>2, <3>2, OthersStay, SameKeepsInvariant DEF IInv
    <3> QED BY <3>1, <3>2
  <2>3. ASSUME UNCHANGED vars, NEW q \in Task PROVE TaskInv(q)'
    BY <1>1, <2>3, SameKeepsInvariant DEF IInv, SameFor, vars, input, signal, engine, client
  <2> QED BY <1>1, <2>1, <2>2, <2>3 DEF IInv, Next
<1> QED BY InitHolds, <1>1, PTL DEF Spec

\* A review that is passed or sent back was checked: every rule ran to its end and
\* every AI rule read an answer for each part of the document.
THEOREM VerdictsAreEarned == Spec => []ConcludedMeansChecked
<1>1. IInv => ConcludedMeansChecked
  BY DEF IInv, TaskInv, Checked, Read, ConcludedMeansChecked
<1> QED BY InvariantHolds, <1>1, PTL

\* No request leaves for a review without consent, request and deployment switch.
THEOREM EgressIsAuthorised == Spec => []EgressNeedsConsent
<1>1. IInv => EgressNeedsConsent
  BY RuleRunAssumption DEF IInv, TypeOK, TaskInv, Authorised, AiActive, EgressNeedsConsent
<1> QED BY InvariantHolds, <1>1, PTL

\* Retries, repairs and parts together keep to the call budget of the review.
THEOREM BudgetIsKept == Spec => []BudgetKept
<1>1. ASSUME IInv PROVE BudgetKept
  <2>1. ASSUME NEW t \in Task PROVE sent[t] <= MaxCalls
    BY <1>1, RuleRunAssumption DEF IInv, TypeOK, TaskInv, CountedFirst
  <2> QED BY <1>1, <2>1 DEF IInv, BudgetKept
<1> QED BY InvariantHolds, <1>1, PTL

\* Every slot of the provider is free or held by an attempt, however attempts end.
THEOREM SlotsAreAccounted == Spec => []SlotsAccounted
<1>1. IInv => SlotsAccounted
  BY DEF IInv
<1> QED BY InvariantHolds, <1>1, PTL

\* After a cancellation at most the request that was about to leave is sent.
THEOREM CancelIsHeard == Spec => []CancelStopsRequests
<1>1. IInv => CancelStopsRequests
  BY DEF IInv, TaskInv, LastRequest, CancelStopsRequests
<1> QED BY InvariantHolds, <1>1, PTL
=============================================================================
