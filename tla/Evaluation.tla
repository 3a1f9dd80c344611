----------------------------- MODULE Evaluation -----------------------------
(* eval/metrics.py: how the issues a review found are paired with those an *)
(* annotated sample is known to have.  An issue has a key (its checker and *)
(* its severity), a page (0 when unknown) and the set of the words of its  *)
(* text; an expected one has anchors, words the right issue must have.     *)
EXTENDS Integers, Sequences, FiniteSets, SequencesExt, FiniteSetsExt, Functions

Keys(issues) == {issues[i].key : i \in DOMAIN issues}

\* Faulty variant: severities are not told apart.
OfChecker(issues, key) == SelectSeq(issues, LAMBDA i : i.key[1] = key[1])

OfKey(issues, key) == SelectSeq(issues, LAMBDA i : i.key = key)

\* _sort_key within a key: by page, then in an order of the texts.
SortedByPage(issues) ==
    LET less(i, j) == issues[i].page < issues[j].page
                      \/ (issues[i].page = issues[j].page /\ i < j)
        order == SetToSortSeq(DOMAIN issues, less)
    IN  [i \in DOMAIN issues |-> issues[order[i]]]

Shorter(a, b) == Min({Len(a), Len(b)})
From(seq, n) == SubSeq(seq, n, Len(seq))
Joined(a, b) == [part \in DOMAIN a |-> a[part] \o b[part]]

\* zip: both sides in order, one to one, and what either has left over.
Paired(p, e) ==
    LET both == Shorter(p, e)
    IN  [tp |-> [i \in 1 .. both |-> <<e[i], p[i]>>],
         fp |-> From(p, both + 1), fn |-> From(e, both + 1)]

\* match_issues: key by key.
MatchIssues(predicted, expected) ==
    FoldSet(LAMBDA key, match :
                Joined(match, Paired(SortedByPage(OfKey(predicted, key)),
                                     SortedByPage(OfKey(expected, key)))),
            [tp |-> <<>>, fp |-> <<>>, fn |-> <<>>], Keys(predicted) \cup Keys(expected))

\* set_based_counts: an issue repeated counts once.
SetBasedCounts(predicted, expected) ==
    LET p == Keys(predicted)
        e == Keys(expected)
    IN  [tp |-> Cardinality(p \cap e), fp |-> Cardinality(p \ e), fn |-> Cardinality(e \ p)]

\* checker_counts of one checker: a pair counts for the checker it was expected of.
CheckerCounts(match, checker) ==
    LET of(issues) == Len(SelectSeq(issues, LAMBDA i : i.key[1] = checker))
    IN  [tp |-> of([i \in DOMAIN match.tp |-> match.tp[i][1]]),
         fp |-> of(match.fp), fn |-> of(match.fn)]

-----------------------------------------------------------------------------
\* Faulty variant: one of the anchors will do.
AnchorsTouched(e, p) == e.anchors \cap p.words # {}

AnchorsSatisfied(e, p) == e.anchors # {} /\ e.anchors \subseteq p.words

Locatable(issues) == SelectSeq(issues, LAMBDA e : e.anchors # {})
RuleLevel(issues) == SelectSeq(issues, LAMBDA e : e.anchors = {})

\* The first prediction that has all the anchors is taken.
Locate(s, e) ==
    LET hits == {i \in DOMAIN s.preds : AnchorsSatisfied(e, s.preds[i])}
    IN  IF hits = {} THEN [s EXCEPT !.fn = Append(@, e)]
        ELSE [s EXCEPT !.identified = Append(@, <<e, s.preds[Min(hits)]>>),
                       !.preds = RemoveAt(@, Min(hits))]

\* One key: the rule-level expectations share what is left of the predictions.
IdentifiedPairs(p, e) ==
    LET located == FoldLeft(Locate, [preds |-> p, identified |-> <<>>, fn |-> <<>>],
                            Locatable(e))
        rest == Paired(located.preds, RuleLevel(e))
    IN  [identified |-> located.identified, unverified |-> rest.tp,
         fp |-> rest.fp, fn |-> located.fn \o rest.fn]

\* match_identified
MatchIdentified(predicted, expected) ==
    LET match == FoldSet(
            LAMBDA key, m : Joined(m, IdentifiedPairs(SortedByPage(OfKey(predicted, key)),
                                                      SortedByPage(OfKey(expected, key)))),
            [identified |-> <<>>, unverified |-> <<>>, fp |-> <<>>, fn |-> <<>>],
            Keys(predicted) \cup Keys(expected))
    IN  [identified |-> match.identified, unverified |-> match.unverified,
         tp |-> match.identified \o match.unverified, fp |-> match.fp, fn |-> match.fn]

\* precision_recall_f1, as fractions <<numerator, denominator>>; a score with
\* nothing to divide by is nought.
Fraction(a, b) == IF b = 0 THEN <<0, 1>> ELSE <<a, b>>

Scores(match) ==
    LET tp == Len(match.tp)
        fp == Len(match.fp)
        fn == Len(match.fn)
    IN  [precision |-> Fraction(tp, tp + fp), recall |-> Fraction(tp, tp + fn),
         f1 |-> Fraction(2 * tp, 2 * tp + fp + fn)]
=============================================================================
