------------------------------ MODULE MCRuleRun ------------------------------
(* Values for the constants of RuleRun.                                    *)
EXTENDS RuleRun, TLC

\* A plain rule and two AI rules; the second sends the document in two parts.
TwoParts == [r \in AiRules |-> IF r = 3 THEN 2 ELSE 1]

AnySubmission == Submission
Consented == {[use |-> TRUE, consent |-> TRUE, size |-> Rules]}

Symmetric == Permutations(Task)
==============================================================================
