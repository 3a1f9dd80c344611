--------------------------- MODULE NumberingChecks ---------------------------
(* heading_numbering of checkers_layout.py and figure_table_numbering of   *)
(* checkers_content.py.                                                    *)
EXTENDS DocumentIR, SequencesExt

NoNumber == -1

\* A Chinese numeral is a sequence of digits and of the characters for ten and
\* hundred; what stands after a hundred has no second one.
Digit == 0 .. 9
Ten == 10
Hundred == 100

BeforeMark(v, mark) == SubSeq(v, 1, SelectInSeq(v, LAMBDA a : a = mark) - 1)
AfterMark(v, mark) == SubSeq(v, SelectInSeq(v, LAMBDA a : a = mark) + 1, Len(v))

\* _CN_DIGITS.get(text, default)
DigitOr(v, default) == IF Len(v) = 1 /\ v[1] \in Digit THEN v[1] ELSE default

DigitString(v) == FoldLeft(LAMBDA n, d : 10 * n + d, 0, v)

\* Faulty variant: ten alone is no ten.
ChineseNumberNoTeen(v) ==
    CASE v = <<>> -> NoNumber
      [] v # <<>> /\ Contains(v, Ten) ->
            10 * DigitOr(BeforeMark(v, Ten), 0) + DigitOr(AfterMark(v, Ten), 0)
      [] OTHER -> DigitString(v)

BelowHundred(v) ==
    CASE v = <<>> -> NoNumber
      [] v # <<>> /\ Contains(v, Ten) ->
            10 * DigitOr(BeforeMark(v, Ten), 1) + DigitOr(AfterMark(v, Ten), 0)
      [] OTHER -> DigitString(v)

ChineseNumber(v) ==
    IF ~Contains(v, Hundred) THEN BelowHundred(v)
    ELSE LET rest == AfterMark(v, Hundred)
         IN  100 * DigitOr(BeforeMark(v, Hundred), 1)
                + IF rest = <<>> THEN 0 ELSE BelowHundred(rest)

-----------------------------------------------------------------------------
\* The start of a heading's text: the kind of mark and the numbers in it,
\* "dots" for 1. and 1.2.3 alike.
Plain == [mark |-> "none", numbers |-> <<>>]

ParseHeadingNumber(text, single_arabic_level) ==
    LET token(style, level) == [style |-> style, level |-> level, numbers |-> text.numbers]
    IN  CASE text.mark = "chapter" -> token("chapter", 1)
          [] text.mark = "chinese" -> token("chinese", 1)
          [] text.mark = "chinese_parenthesized" -> token("chinese_parenthesized", 2)
          [] text.mark = "arabic_parenthesized" -> token("arabic_parenthesized", 2)
          [] text.mark = "dots" ->
                IF Len(text.numbers) > 1 THEN token("decimal", Len(text.numbers))
                ELSE token("arabic", single_arabic_level)
          [] OTHER -> token("none", 0)

\* allowed_styles: no entry for a level allows every style on it.
Allowed(allowed, token) ==
    \/ token.level \notin DOMAIN allowed
    \/ token.style \in allowed[token.level]

AtLevel(f, level, default) == IF level \in DOMAIN f THEN f[level] ELSE default

\* What the loop over the numbered headings carries from one to the next.
NumberingStart == [previous |-> 0, last |-> <<>>, style |-> <<>>,
                   sequence |-> <<>>, reported |-> {}, issues |-> <<>>]

Popped(last, level) == Restrict(last, {l \in DOMAIN last : l <= level})

\* Faulty variant: all headings of a level are one sequence.
ContextOfLevel(last, level) == <<level, <<>>>>

\* A sequence of siblings: the level and the numbers of those above it.
Context(last, level) == <<level, [l \in 1 .. level - 1 |-> AtLevel(last, l, 0)]>>

\* Faulty variant: any larger number will do.
FollowsUp(number, before) == before = NoNumber \/ number > before

Follows(number, before) == before = NoNumber \/ number = before + 1

NumberingStep(s, token, allow_mixed) ==
    LET level == token.level
        number == Last(token.numbers)
        prior == AtLevel(s.style, level, token.style)
        mixed == prior # token.style /\ ~allow_mixed /\ level \notin s.reported
        last == Popped(s.last, level)
        parent == AtLevel(last, level - 1, NoNumber)
        context == Context(last, level)
        before == AtLevel(s.sequence, context, NoNumber)
        found == << <<"level_skipped", s.previous > 0 /\ level > s.previous + 1>>,
                    <<"mixed_styles", mixed>>,
                    <<"wrong_parent", /\ token.style = "decimal"
                                      /\ parent # NoNumber
                                      /\ parent # token.numbers[Len(token.numbers) - 1]>>,
                    <<"not_consecutive", ~Follows(number, before)>> >>
    IN  [previous |-> level,
         last |-> (level :> number) @@ last,
         style |-> (level :> token.style) @@ s.style,
         sequence |-> (context :> number) @@ s.sequence,
         reported |-> s.reported \cup {l \in {level} : mixed},
         issues |-> s.issues \o SelectSeq(found, LAMBDA f : f[2])]

\* headings: a sequence of texts with pages; the missing and the forbidden
\* marks are reported before the order is judged.
HeadingNumbering(headings, params) ==
    LET judged == SelectSeq(headings, LAMBDA h : h.page \notin params.skip_pages)
        tokens == [i \in DOMAIN judged |->
                      ParseHeadingNumber(judged[i].text, params.single_arabic_level)]
        numbered == SelectSeq(tokens, LAMBDA t : t.style # "none")
        marks == SelectSeq(tokens, LAMBDA t :
                    IF t.style = "none" THEN params.require_numbering
                    ELSE ~Allowed(params.allowed_styles, t))
        loop == FoldLeft(LAMBDA s, t : NumberingStep(s, t, params.allow_mixed_styles),
                         NumberingStart, numbered)
        all == [i \in DOMAIN marks |-> <<"mark", TRUE>>] \o loop.issues
    IN  SubSeq(all, 1, Min({Len(all), params.max_issues}))

-----------------------------------------------------------------------------
(* Figures.  A mention is a number after the word for figure: where it     *)
(* stands (first in its block or not) and what follows it: a "title", a    *)
(* word of a reference ("said"), either after a space ("space_title" and   *)
(* "space_said"), or the "end" of the block.                               *)
\* Faulty variant: the numbers before the first are not missed.
GapsInside(numbers) == IF numbers = {} THEN {} ELSE (Min(numbers) .. Max(numbers)) \ numbers

Gaps(numbers) == IF numbers = {} THEN {} ELSE (1 .. Max(numbers)) \ numbers

\* Faulty variant: the pattern is searched for anywhere in the block.
CaptionAnywhere(m) ==
    IF m.after \notin {"said", "end"} THEN {m.number} ELSE {m.number \div 10} \ {0}

\* The caption pattern wants one more character that is no word of a
\* reference; a space will do.  Where there is none it gives back the number's
\* last digit and takes that: figure 12 counts as the caption of figure 1.
CaptionOf(m) ==
    CASE ~m.first -> {}
      [] m.first /\ m.after \notin {"said", "end"} -> {m.number}
      [] OTHER -> {m.number \div 10} \ {0}

FigureNumbering(mentions) ==
    LET numbers == {mentions[i].number : i \in DOMAIN mentions}
        captions == UNION {CaptionOf(mentions[i]) : i \in DOMAIN mentions}
    IN  {Fault("figure_gap", g) : g \in {Gaps(numbers)} \ {{}}} \cup
        {Fault("no_caption", c) : c \in {x \in {numbers \ captions} \ {{}} : captions # {}}}

TableNumbering(numbers) == {Fault("table_gap", g) : g \in {Gaps(numbers)} \ {{}}}
=============================================================================
