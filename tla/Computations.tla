---------------------------- MODULE Computations ----------------------------
(* The computations of the checkers, of the PDF parser and of the          *)
(* evaluation, over every small input.  An input is written one element at *)
(* a time, as a document is read, and each property looks at the inputs of *)
(* its kind.  The rate limits keep state: of the kind "window" they run as *)
(* the machine of RateWindow.                                              *)
EXTENDS StructureChecks, FormatChecks, NumberingChecks, BudgetChecks,
        PresenceChecks, FieldChecks, RateWindow, Functions, TLC
Catalogue == INSTANCE RuleCatalog
Pdf == INSTANCE PdfParsing
Metrics == INSTANCE Evaluation

CONSTANTS Kinds,                      \* the kinds of input to write
          MaxBlocks                   \* elements of a document

VARIABLES kind, doc

vars == <<kind, doc, windowVars>>

Init == kind \in Kinds /\ doc = <<>> /\ WindowInit

Write(k, elements, bound) ==
    /\ kind = k /\ Len(doc) < bound
    /\ \E e \in elements : doc' = Append(doc, e)
    /\ UNCHANGED <<kind, windowVars>>

-----------------------------------------------------------------------------
(* Outlines: headings and paragraphs, each perhaps the first of its page.  *)
Titles == {"goal", "plan", "team"}

WriteBlock == Write("outline",
    [type : {"heading"}, level : {1, 2}, text : {{t} : t \in Titles}, words : {1}, turn : {0, 1}]
    \cup [type : {"heading"}, level : {1}, text : {{"goal", "plan"}}, words : {1}, turn : {0}]
    \cup [type : {"paragraph"}, level : {0}, text : {{}}, words : {2}, turn : {0, 1}], MaxBlocks)

PageAt(i) == 1 + FoldLeft(LAMBDA n, b : n + b.turn, 0, SubSeq(doc, 2, i))

Outline ==
    [pages |-> IF doc = <<>> THEN 1 ELSE PageAt(Len(doc)),
     page_meta |-> {}, ocr_pages |-> {},
     word_count |-> FoldLeft(LAMBDA n, b : n + b.words, 0, doc),
     blocks |-> [i \in DOMAIN doc |->
         [type |-> doc[i].type, level |-> doc[i].level, text |-> doc[i].text,
          words |-> doc[i].words, page |-> PageAt(i)]]]

\* The tree of the outline: a block stands under the last heading before it,
\* a heading under the last one of a higher rank.
Parent(i) ==
    LET above == {j \in 1 .. i - 1 : doc[j].type = "heading" /\
            (doc[i].type = "paragraph" \/ doc[j].level < doc[i].level)}
    IN  IF above = {} THEN 0 ELSE Max(above)

Under[i \in DOMAIN doc] ==
    IF Parent(i) = 0 THEN {} ELSE {Parent(i)} \cup Under[Parent(i)]

WordsUnder(h) == MapThenSumSet(LAMBDA i : doc[i].words, {i \in DOMAIN doc : h \in Under[i]})

\* The lower and the upper limit on a section's words are judged by two
\* checkers that find the section each in its own way: both count the words
\* that stand under its heading in the outline, no more and no less.
SectionsJudgedAlike ==
    kind = "outline" => LET ir == Outline IN \A title \in Titles :
        LET h == MatchedHeading(ir, <<title>>)
            wanted(m) == [aliases |-> <<title>>, min_words |-> m]
            allowed(m) == [title |-> title, max |-> m]
            words == WordsUnder(h)
        IN  IF h = 0
            THEN RequiredSections(ir, {wanted(1)}) = {Fault("missing", wanted(1))}
            ELSE \A m \in {words, words + 1} :
                     /\ RequiredSections(ir, {wanted(m)}) = {} <=> words >= m
                     /\ WordLimit(ir, ir.word_count, {allowed(m - 1)}) = {} <=> words < m

\* section_order complains exactly when a title of the expected order first
\* appears after a heading that has one of the titles expected later.  Only
\* neighbours are compared, and no misplaced title slips through.
OrderReported ==
    kind = "outline" =>
        LET expected == <<"goal", "plan", "team">>
            has(i, p) == doc[i].type = "heading" /\ doc[i].level = 1 /\ expected[p] \in doc[i].text
        IN  SectionOrder(Outline, expected) # {} <=>
                \E p, q \in DOMAIN expected, i, j \in DOMAIN doc :
                    /\ p < q /\ i < j /\ has(i, q) /\ has(j, p)
                    /\ \A k \in 1 .. j - 1 : ~has(k, p)

\* Where each chapter begins a page, the chapters share the pages from the
\* first of them on among themselves: when each has a title of its own and
\* keeps a limit on its pages, that many pages are all there can be.
SectionsCoverPages ==
    kind = "outline" =>
        LET ir == Outline
            tops == TopHeadings(ir)
            covered == ir.pages - PageAt(Min(tops)) + 1
            limits(m) == {[title |-> t, max |-> m] : t \in UNION {doc[i].text : i \in tops}}
        IN  (tops # {} /\ \A i \in tops : i = 1 \/ doc[i].turn = 1) =>
                /\ MapThenSumSet(LAMBDA i : SectionPages(ir, i), tops) = covered
                /\ (\A t \in Titles : Cardinality(Titled(ir, t)) <= 1) =>
                       \A m \in 1 .. MaxBlocks : PageLimit(ir, ir.pages, limits(m)) = {} =>
                           covered <= m * Cardinality(tops)

-----------------------------------------------------------------------------
(* Type: paragraphs with the fonts and measures the parser gave them, some *)
(* of them on a page read by OCR.                                          *)
Song == [exact |-> "SimSun", within |-> {"SimSun"}]
Bold == [exact |-> "other", within |-> {"SimHei", "MicrosoftYaHei"}]

Styles == {[font |-> Song, size |-> 24, spacing |-> 18, alignment |-> "left"],
           [font |-> Bold, size |-> 28, spacing |-> 21, alignment |-> "center"],
           [font |-> NoFont, size |-> 0, spacing |-> Unset, alignment |-> ""]}

WriteParagraph == Write("type", [style : Styles, ocr : BOOLEAN], MaxBlocks)

Typeset(paragraphs) ==
    [ocr_pages |-> {2 : p \in {q \in Range(paragraphs) : q.ocr}},
     blocks |-> [i \in DOMAIN paragraphs |-> paragraphs[i].style @@
         [type |-> "paragraph", page |-> (IF paragraphs[i].ocr THEN 2 ELSE 1), lines |-> 2,
          indent |-> Unset]]]

NoLimit == [exact |-> Unset, min |-> Unset, max |-> Unset, tolerance |-> 0]

BodyConfig == [min_size |-> 24, max_size |-> 24, alignment |-> "left",
               spacing |-> [NoLimit EXCEPT !.exact = 18], indent |-> NoLimit]

\* The fonts and measures that OCR makes up decide nothing: whatever they are
\* on the pages it has read, the checks of the body say the same.  (Headings
\* are another matter: CheckHeadings judges those of OCR pages as well.)
OcrDecidesNothing ==
    kind = "type" => \A style \in Styles :
        LET other == [i \in DOMAIN doc |-> IF doc[i].ocr THEN [doc[i] EXCEPT !.style = style] ELSE doc[i]]
        IN  /\ FontCheck(Typeset(doc), "Song", 24) = FontCheck(Typeset(other), "Song", 24)
            /\ CheckBody(Typeset(doc), BodyConfig) = CheckBody(Typeset(other), BodyConfig)

\* The three ways to limit a measure agree: an exact value is the same as equal
\* bounds on both sides, with the same tolerance at the edge; and what both a
\* lower and an upper bound let pass is what they let pass together.
LimitsAgree ==
    kind = "type" => \A e \in 17 .. 22, t \in 0 .. 2 :
        LET off(limit) == OffMetric(Typeset(doc), "spacing", [limit EXCEPT !.tolerance = t], 2)
            exact == [NoLimit EXCEPT !.exact = e]
            atLeast == [NoLimit EXCEPT !.min = e]
            atMost == [NoLimit EXCEPT !.max = e]
        IN  /\ off(exact) = off([atLeast EXCEPT !.max = e])
            /\ off(exact) = off(atLeast) \cup off(atMost)
            /\ off(exact) = {i \in DOMAIN SelectSeq(Trusted(Typeset(doc)), LAMBDA b : b.size > 0) :
                   SelectSeq(Trusted(Typeset(doc)), LAMBDA b : b.size > 0)[i].spacing \notin e - t .. e + t}

-----------------------------------------------------------------------------
(* Footers: blocks with the page they are on; a number low on the page is  *)
(* a page number.                                                          *)
WriteFooter == Write("footers",
    [page : 1 .. 3, number : {Unset} \cup 1 .. 4, low : {TRUE}]
    \cup [page : 1 .. 3, number : {1}, low : {FALSE}], MaxBlocks)

Paged == [pages |-> 3, page_meta |-> [page : 1 .. 3], blocks |-> doc]

\* A page_number_check without a word means that every page after the front
\* matter has a number and that they go up by one from page to page, however
\* many footers a page has: none is skipped, so the distance of two numbers is
\* that of their pages.
NumbersAreConsecutive ==
    kind = "footers" => \A front \in 0 .. 3 :
        PageNumberCheck(Paged, [allow_unumbered_front_pages |-> front]) = {} =>
            \A p, q \in front + 1 .. 3 :
                /\ FootersOn(Paged, p) # {}
                /\ NumberOn(Paged, q) - NumberOn(Paged, p) = q - p

-----------------------------------------------------------------------------
(* Sheets: pages with the box of the text on them.                         *)
A4 == <<6, 8>>

WriteSheet == Write("sheets",
    [width : {6, 8}, height : {6, 8}, x0 : {0, 2}, x1 : {4, 6}, y0 : {1}, y1 : {1, 7},
     type : {"paragraph", "image"}], 2)

\* All blocks on one page, and each on a page of its own.
OnOneSheet == [page_meta |-> {[page |-> 1, width |-> 6, height |-> 8]},
               blocks |-> [i \in DOMAIN doc |->
                   [page |-> 1, type |-> doc[i].type, words |-> 1, box |-> doc[i]]]]

OnSheets == [page_meta |-> {[page |-> i, width |-> doc[i].width, height |-> doc[i].height] :
                            i \in DOMAIN doc},
             blocks |-> [i \in DOMAIN doc |->
                   [page |-> i, type |-> doc[i].type, words |-> 1, box |-> doc[i]]]]

\* A page is upright, turned or neither, and "any" forgives what one of the
\* others does; a margin is too narrow exactly when one block of text reaches
\* into it, images and boxes without extent aside, and a block more never
\* makes it wider.
SheetsJudgedByTheirText ==
    kind = "sheets" =>
        /\ \A t \in 0 .. 2 :
              WrongPages(OnSheets, A4, "any", t) =
                  WrongPages(OnSheets, A4, "portrait", t) \cap WrongPages(OnSheets, A4, "landscape", t)
        /\ \A m \in 0 .. 4, excluded \in {{}, {1}} :
              LET narrow == NarrowMargins(OnOneSheet, [side \in Side |-> m], excluded)
                  text == {b \in Range(doc) : b.type = "paragraph" /\ b.y1 > b.y0}
                  reaches(b, side) == CASE side = "left" -> b.x0 + 1 < m
                                        [] side = "right" -> 6 - b.x1 + 1 < m
                                        [] side = "top" -> b.y0 + 1 < m
                                        [] side = "bottom" -> 8 - b.y1 + 1 < m
              IN  narrow = {<<side, 1>> : side \in
                      {s \in Side : excluded = {} /\ m > 0 /\ \E b \in text : reaches(b, s)}}

-----------------------------------------------------------------------------
(* Numerals: the digits of a number below a thousand.                      *)
WriteDigit == Write("numerals", IF doc = <<>> THEN 1 .. 9 ELSE Digit, 3)

\* A number as it is written in Chinese: ten alone, tens and ones, hundreds
\* with a zero where the tens are missing.
Tens(t, ones, alone) ==
    (IF t = 0 THEN <<>> ELSE IF t = 1 /\ alone THEN <<Ten>> ELSE <<t, Ten>>)
    \o (IF ones = 0 THEN <<>> ELSE <<ones>>)

InChinese(digits) ==
    CASE Len(digits) = 1 -> digits
      [] Len(digits) = 2 -> Tens(digits[1], digits[2], TRUE)
      [] Len(digits) = 3 -> <<digits[1], Hundred>>
            \o (IF digits[2] = 0 /\ digits[3] # 0 THEN <<0>> ELSE <<>>)
            \o Tens(digits[2], digits[3], FALSE)

\* The number of a heading is read as it was meant: every Chinese numeral up
\* to nine hundred and ninety-nine, and the same written digit by digit.
NumeralsReadBack ==
    kind = "numerals" /\ doc # <<>> =>
        /\ ChineseNumber(InChinese(doc)) = DigitString(doc)
        /\ ChineseNumber(doc) = DigitString(doc)

-----------------------------------------------------------------------------
(* Headings: the levels of the headings of a document, one after another.  *)
WriteHeading == Write("headings", 1 .. 3, MaxBlocks + 1)

\* The number of a heading among its siblings, and its number in full.
Sibling(i, j) == doc[j] = doc[i] /\ \A k \in j .. i : doc[k] >= doc[i]

Rank[i \in DOMAIN doc] == Cardinality({j \in 1 .. i : Sibling(i, j)})

FullNumber(i) ==
    LET last(l) == {j \in 1 .. i : doc[j] = l}
    IN  [l \in 1 .. doc[i] |-> IF last(l) = {} THEN 0 ELSE Rank[Max(last(l))]]

\* Two ways to number three levels: 1. 1.1 1.1.1, and one to three in Chinese,
\* in brackets and in digits.
Decimal(level, number) == [mark |-> "dots", numbers |-> number]
Mixed(level, number) == [numbers |-> <<Last(number)>>,
    mark |-> CASE level = 1 -> "chinese" [] level = 2 -> "chinese_parenthesized" [] level = 3 -> "dots"]

Signals == [bare |-> FALSE, bold |-> FALSE, larger |-> FALSE, short |-> TRUE]

\* The headings the parser finds in the texts, one to a page.
HeadingsRead(texts) ==
    LET found == {i \in DOMAIN texts : Pdf!ClassifyWithSignals(texts[i] @@ Signals) # 0}
    IN  [i \in 1 .. Cardinality(found) |->
            LET at == CHOOSE f \in found : Cardinality({g \in found : g <= f}) = i
            IN  [page |-> at, text |-> texts[at]]]

Strict(single, skip_pages) ==
    [require_numbering |-> TRUE, allow_mixed_styles |-> FALSE, skip_pages |-> skip_pages,
     allowed_styles |-> <<>>, single_arabic_level |-> single, max_issues |-> 20]

\* An outline: it begins on the first level and goes down one at a time.
IsOutline == \A i \in DOMAIN doc : doc[i] <= (IF i = 1 THEN 1 ELSE doc[i - 1] + 1)

\* From the text to the verdict: a document numbered as it should be is found
\* without fault in either scheme, whatever number of pages at its front are
\* skipped.
CanonicalIsSilent ==
    kind = "headings" /\ IsOutline => \A k \in 0 .. Len(doc) :
        /\ HeadingNumbering(HeadingsRead([i \in DOMAIN doc |-> Decimal(doc[i], FullNumber(i))]),
                            Strict(1, 1 .. k)) = <<>>
        /\ HeadingNumbering(HeadingsRead([i \in DOMAIN doc |-> Mixed(doc[i], FullNumber(i))]),
                            Strict(3, 1 .. k)) = <<>>

\* A heading whose number does not follow that of the sibling before it is
\* reported, wherever it stands, whatever stands between the two and however
\* the rest goes on; so is a heading more than one level below the one before.
MisnumberedIsReported ==
    kind = "headings" =>
        /\ ~IsOutline /\ doc[1] = 1 =>
              HeadingNumbering(HeadingsRead([i \in DOMAIN doc |-> Mixed(doc[i], FullNumber(i))]),
                               Strict(3, {})) # <<>>
        /\ IsOutline => \A i \in DOMAIN doc, wrong \in 1 .. 4 :
              LET number(j) == IF j = i THEN [FullNumber(j) EXCEPT ![doc[j]] = wrong] ELSE FullNumber(j)
              IN  Rank[i] > 1 /\ wrong # Rank[i] =>
                      /\ HeadingNumbering(HeadingsRead([j \in DOMAIN doc |-> Decimal(doc[j], number(j))]),
                                          Strict(1, {})) # <<>>
                      /\ HeadingNumbering(HeadingsRead([j \in DOMAIN doc |-> Mixed(doc[j], number(j))]),
                                          Strict(3, {})) # <<>>

\* What the evaluation expects of two of the faults it injects (GROUND_TRUTH):
\* one report when a chapter in the middle is taken out with its number, three
\* when it changes places with the next and another follows.
InjectionsCounted ==
    kind = "headings" /\ doc # <<>> /\ (\A i \in DOMAIN doc : doc[i] = 1) =>
        LET reports(numbers) == HeadingNumbering(
                HeadingsRead([i \in DOMAIN numbers |-> Mixed(1, <<numbers[i]>>)]), Strict(3, {}))
            chapters == [i \in DOMAIN doc |-> i]
            swapped(k) == [chapters EXCEPT ![k] = k + 1, ![k + 1] = k]
        IN  \A k \in 2 .. Len(doc) - 1 :
                /\ Len(reports(RemoveAt(chapters, k))) = 1
                /\ k + 2 <= Len(doc) => Len(reports(swapped(k))) = 3

-----------------------------------------------------------------------------
(* Figures: the mentions of figures, in the order of the text.             *)
WriteMention == Write("figures",
    [number : {1, 2, 12}, first : {TRUE}, after : {"title", "said", "space_title", "space_said", "end"}]
    \cup [number : {1, 2, 3}, first : {FALSE}, after : {"title", "said"}], 3)

\* In a document with captions a figure that is spoken of and has none is
\* reported, unless it is spoken of in one of the two ways that pass for a
\* caption: its number and a space at the start of a block, or a longer number
\* there that begins with it.
UncaptionedIsReported ==
    kind = "figures" =>
        LET captioned == {m \in Range(doc) : m.first /\ m.after \in {"title", "space_title"}}
            passing(n) == \E m \in Range(doc) : m.first /\
                             (m.number \div 10 = n \/ (m.number = n /\ m.after = "space_said"))
        IN  captioned # {} /\ ~(\E f \in FigureNumbering(doc) : f[2] = "no_caption") =>
                \A m \in Range(doc) : (\E c \in captioned : c.number = m.number) \/ passing(m.number)

\* The numbers spoken of are one, two, three and so on, or a gap is reported
\* with exactly the numbers nobody speaks of.
GapsReported ==
    kind = "figures" =>
        LET numbers == {m.number : m \in Range(doc)}
            gaps == {f \in FigureNumbering(doc) \cup TableNumbering(numbers) : f[2] # "no_caption"}
        IN  IF \E n \in 0 .. 12 : numbers = 1 .. n THEN gaps = {}
            ELSE \A f \in gaps : /\ f[3] \cup numbers = 1 .. Max(numbers)
                                 /\ f[3] \cap numbers = {}
                                 /\ Cardinality(gaps) = 2

-----------------------------------------------------------------------------
(* Budgets: the rows of a table as the PDF library extracts them.          *)
Header == <<Cell({"budget"}, NoAmount, FALSE), Cell({"amount"}, NoAmount, FALSE)>>
Staff == [category \in {"staff"} |-> 50]

WriteRow == Write("budget",
    {<<Cell(name, NoAmount, FALSE), Cell({}, amount, FALSE)>> :
        name \in {{}, {"total"}, {"staff"}}, amount \in {100, 200, NoAmount}}
    \cup {Header, <<Header[1]>>, <<Cell({"staff"}, NoAmount, FALSE), EmptyCell>>, NoRow}, MaxBlocks)

\* A budget_check without a word was earned: no row or cell was made up to fill
\* the table, and some column has a number, or nothing at all, in every row
\* below the first, adds up to the last of its totals and keeps the limits.
BudgetSilenceIsEarned ==
    kind = "budget" /\ BudgetCheck(<<TableBlock(doc)>>, Staff) = {} =>
        LET below == 2 .. Len(doc)
            totals == {r \in below : "total" \in RowWords(doc[r])}
            number(r, c) == doc[r][c].amount
            sum(c) == MapThenSumSet(LAMBDA r : number(r, c),
                          {r \in below \ totals : number(r, c) # NoAmount})
        IN  /\ \A r \in DOMAIN doc : doc[r] # NoRow /\ Len(doc[r]) = Len(doc[1])
            /\ below = {} \/ \E c \in DOMAIN doc[1] :
                  /\ \A r \in below : number(r, c) # NoAmount \/ (r \notin totals /\ doc[r][c].blank)
                  /\ totals # {} =>
                        /\ sum(c) = number(Max(totals), c)
                        /\ \A r \in below : "staff" \in RowWords(doc[r]) /\ number(r, c) # NoAmount =>
                              2 * number(r, c) <= number(Max(totals), c)

-----------------------------------------------------------------------------
(* Terms: blocks with months in them, some of them about the project's     *)
(* term.                                                                   *)
Months == (2024 .. 2025) \X (1 .. 12)

WriteTerm == Write("term",
    [about : {"term", "period", "other"},
     dates : {<<>>, << <<2024, 3>> >>, << <<2024, 3>>, <<2025, 2>> >>, << <<2025, 1>>, <<2024, 2>> >>}],
    MaxBlocks)

\* The term is read where it is spoken of and next to it: what stands in any
\* other block changes nothing.  A term that passes has as many months, the
\* first and the last included, as were asked for.
TermFromItsNeighbourhood ==
    kind = "term" =>
        LET beside(i) == \/ doc[i].about # "other"
                         \/ \E j \in DOMAIN doc : doc[j].about = "term" /\ i \in j - 2 .. j + 2
            read == UNION {Range(doc[i].dates) : i \in {j \in DOMAIN doc : beside(j)}}
            without(i) == [doc EXCEPT ![i].dates = <<>>]
        IN  /\ \A i \in DOMAIN doc : ~beside(i) => DateCheck(without(i), 12) = DateCheck(doc, 12)
            /\ Cardinality(read) > 1 /\ DateCheck(doc, 12) = {} =>
                  Cardinality({m \in Months : /\ \E d \in read : NotAfter(d, m)
                                              /\ \E d \in read : NotAfter(m, d)}) = 12

-----------------------------------------------------------------------------
(* Fields: a line of a form, and the grid of one.                          *)
Name == [name |-> "name", required |-> TRUE, format |-> "text", labels |-> <<<<"name">>>>]

WriteAtom == Write("line", Words \cup {":", " ", "_"}, MaxBlocks + 1)

GridCells == {<<>>, <<"name">>, <<"name", ":">>, <<"name", ":", "ans">>,
              <<"school", ":">>, <<"ans">>, <<"_">>}

WriteGridRow == Write("grid", GridCells \X GridCells, 2)

\* Where the next field of a line begins at the latest: at the word, or words
\* written together, before its colon.
NextField(q) ==
    {i \in q + 1 .. Len(doc) : \E j, k \in i .. Len(doc) :
        /\ i <= j /\ j < k /\ doc[k] = ":"
        /\ \A l \in i .. j : doc[l] \in Words
        /\ \A l \in j + 1 .. k - 1 : doc[l] = " "}

\* The places of the line that answer the question at p: after its colon and
\* before the next field.
AnswerTo(p) ==
    LET colons == {q \in p + 1 .. Len(doc) : doc[q] = ":" /\ \A i \in p + 1 .. q - 1 : doc[i] = " "}
        next(q) == NextField(q) \cup {Len(doc) + 1}
    IN  UNION {q + 1 .. Min(next(q)) - 1 : q \in colons}

Asked == {p \in DOMAIN doc : doc[p] = "name"}
Answered == \E p \in Asked : \E i \in AnswerTo(p) : doc[i] \in Words \cup {":"}
LineFound == RequiredFields(TextBlock(doc), {Name}) = {}

\* A field is judged by one of two checkers and by neither twice: what counts as
\* missing for required_fields has no format to keep, and whatever satisfies it is
\* measured by field_format (here one that nothing satisfies).
FoundIsMeasured ==
    kind \in {"line", "grid"} =>
        LET block == IF kind = "line" THEN TextBlock(doc) ELSE GridBlock(doc)
        IN  RequiredFields(block, {Name}) = {} <=>
                FieldFormat(block, {Name}, [f \in {Name.format} |-> {}]) # {}

\* A required field passes when it has an answer on its line, or when there is
\* no room for one: the next field begins where its answer should be.
LinesNeedAnAnswer ==
    kind = "line" /\ LineFound =>
        Answered \/ \E p \in Asked : \E q \in p + 1 .. Len(doc) : doc[q] = ":" /\ NextField(q) # {}

\* In a grid the answer is in the cell of the label or to its right.  Below a
\* label with a colon and nothing more in its row, the text of the next row
\* passes for one.
GridsNeedAnAnswer ==
    kind = "grid" /\ RequiredFields(GridBlock(doc), {Name}) = {} =>
        \E r \in DOMAIN doc, c \in 1 .. 2 :
            /\ IsPrefix(<<"name">>, doc[r][c])
            /\ \/ ~IsEmpty(CellRest(doc[r][c], <<"name">>))
               \/ \E d \in c + 1 .. 2 : ~IsEmpty(doc[r][d])
               \/ doc[r][c] = <<"name", ":">> /\ r < Len(doc)

-----------------------------------------------------------------------------
(* Identity numbers: an edit of one digit of a valid one.                  *)
Identity == <<1, 1, 0, 1, 0, 5, 1, 9, 4, 9, 1, 2, 3, 1, 0, 0, 2>>

WriteSlip == Write("identity", [at : 1 .. 17, digit : Digit], 1)

Edited(digits, edits) == FoldLeft(LAMBDA d, e : [d EXCEPT ![e.at] = e.digit], digits, edits)

\* The check code gives away every slip of one digit and every swap of two
\* neighbours, whatever the number: a valid one becomes invalid.
ChecksumCatchesSlips ==
    kind = "identity" =>
        LET number == Edited(Identity, doc)
            code == CheckCode(number)
        IN  ValidCnId(number, code) =>
                /\ \A i \in 1 .. 17, d \in Digit :
                      d # number[i] => ~ValidCnId([number EXCEPT ![i] = d], code)
                /\ \A i \in 1 .. 16 : number[i] # number[i + 1] =>
                      ~ValidCnId([number EXCEPT ![i] = number[i + 1], ![i + 1] = number[i]], code)

-----------------------------------------------------------------------------
(* Values: what was found for two fields that should agree.                *)
WriteValue == Write("values", [side : {"left", "right"}, value : {0, 1, 2, 4, NotANumber}], MaxBlocks)

ValuesOf(side) ==
    LET found == SelectSeq(doc, LAMBDA v : v.side = side)
    IN  [i \in DOMAIN found |-> found[i].value]

\* Two fields that were both found and pass hold nothing but numbers, and the
\* tolerance adds up at most three times over all the places: within each
\* field and once between them.  Without one they hold a single value.
ConsistentThroughout ==
    kind = "values" => \A mode \in {"number", "date"}, t \in 0 .. 1 :
        LET found == Range(ValuesOf("left")) \cup Range(ValuesOf("right"))
        IN  /\ ValuesOf("left") # <<>> /\ ValuesOf("right") # <<>>
            /\ CrossFieldConsistency(ValuesOf("left"), ValuesOf("right"), mode, t) = {}
            => /\ NotANumber \notin found
               /\ Spread(found) <= (IF mode = "number" THEN 3 * t ELSE 0)

-----------------------------------------------------------------------------
(* Presence: pages with the state they were read in and the text found.    *)
Receipt == {"r", "e", "c", "p"}

SeenPage ==
    [status : {"ok", "ocr_failed", "mixed_image_unread"},
     text : {{}, {"r", "e"}, {"r", "e", "c"}, {"sign"}, {"sign", "seal"}}]

WritePage == Write("presence", SeenPage, MaxBlocks)

\* The document had page p held the text of extra(p) as well.
Read(extra) ==
    [pages |-> Len(doc), page_meta |-> {[page |-> p, status |-> doc[p].status] : p \in DOMAIN doc},
     blocks |-> [p \in DOMAIN doc |->
         [type |-> "paragraph", page |-> p, text |-> doc[p].text \cup extra[p]]]]

Certain(issues) == {i \in issues : i[1] = "fault"}

\* A fault that is reported as certain stands, whatever the pages hold that
\* were not read in full: what they may hide is left to a person.
FaultsSurviveReading ==
    kind = "presence" /\ doc # <<>> =>
        LET nothing == [p \in DOMAIN doc |-> {}]
            hidden == {p \in DOMAIN doc : doc[p].status # "ok"}
            faults(extra) == Certain(AttachmentChecklist(Read(extra), {Receipt})
                                     \cup SignaturePage(Read(extra), {"sign", "seal"}))
        IN  \A pages \in SUBSET hidden, text \in {Receipt, {"sign"}, {"sign", "seal"}} :
                faults(nothing) \subseteq
                    faults([p \in DOMAIN doc |-> IF p \in pages THEN text ELSE {}])

-----------------------------------------------------------------------------
(* Pages of a PDF: digits, images, what OCR would make of them.            *)
Image(area, covered) == [area |-> area, covered |-> covered]

PdfPage ==
    [chars : {0, 10, 100, 300}, images : {<<>>, <<Image(70, TRUE)>>, <<Image(55, FALSE)>>},
     ocr : {Pdf!Raises, 10, 300}, table_fails : {FALSE}]
    \cup [chars : {300}, images : {<<>>}, ocr : {10}, table_fails : {TRUE}]

WritePdfPage == Write("pages", PdfPage, 3)

Readings == {Pdf!Parse(doc, enabled, limit) : enabled \in BOOLEAN, limit \in 0 .. 2}

\* The page holds little but pictures without text: nobody can say that what
\* is on it was read.
Pictures(page) == \E i \in Range(page.images) : i.area >= Pdf!ScannedImageRatio /\ page.chars < 200
Blank(page) == page.images # <<>> /\ page.chars = 0
Doubtful(page) == \E i \in Range(page.images) : i.area >= Pdf!UnreadRegionRatio /\ ~i.covered

\* The page is neither given up nor doubted when it has less text than full
\* pages have and more than a page number.
SparseText(page) == page.chars \in 1 .. Pdf!UncertainMinDigitalChars - 1

\* No review says "pass" while a page may have gone unread: each page that has
\* pictures for text was read by OCR with enough to show for it, and no table
\* was lost.  A large picture beside little text escapes the rule.
UnreadNeverPasses ==
    kind = "pages" => \A ir \in Readings : Pdf!SaysPass(ir) => \A p \in DOMAIN doc :
        /\ ~doc[p].table_fails
        /\ \/ ~Pictures(doc[p]) /\ ~Blank(doc[p]) /\ (~Doubtful(doc[p]) \/ SparseText(doc[p]))
           \/ p \in ir.ocr_pages /\ doc[p].ocr >= Pdf!OcrMinPageChars

\* OCR keeps to its limit of pages, is not asked again once it has failed, and
\* is only asked where there is a picture and hardly any text.
OcrKeepsItsLimit ==
    kind = "pages" => \A limit \in 0 .. 2 :
        LET ir == Pdf!Parse(doc, TRUE, limit)
            tried == {p \in DOMAIN doc : ir.page_meta[p].ocr \in {"success", "insufficient", "failed"}}
            failed == {p \in tried : doc[p].ocr = Pdf!Raises}
        IN  /\ Cardinality(ir.ocr_pages) <= limit
            /\ \A p \in failed, q \in tried : q <= p
            /\ \A p \in tried : doc[p].images # <<>> /\ doc[p].chars < Pdf!OcrMinPageChars

-----------------------------------------------------------------------------
(* Fragments of lines, in the order of the content stream.                 *)
FragmentBox == {[top |-> t, bottom |-> t + h, left |-> l] : t \in 0 .. 3, h \in 1 .. 2, l \in 0 .. 1}

WriteFragment == Write("lines", FragmentBox, MaxBlocks)

Fragments == [i \in DOMAIN doc |-> [n |-> i, top |-> doc[i].top, bottom |-> doc[i].bottom,
                                    left |-> doc[i].left]]

\* The lines of a page hold each fragment once and nothing else, from left to
\* right, and no line can be cut between its fragments: at every height one
\* stands in the way.
LinesAreBands ==
    kind = "lines" =>
        LET lines == Pdf!GroupVisualLines(Fragments)
            at(i, r, k) == lines[r][k] = Fragments[i]
        IN  /\ \A i \in DOMAIN doc : \E r \in DOMAIN lines : \E k \in DOMAIN lines[r] :
                  /\ at(i, r, k)
                  /\ \A s \in DOMAIN lines : \A l \in DOMAIN lines[s] : at(i, s, l) => s = r /\ l = k
            /\ \A r \in DOMAIN lines : \A k \in DOMAIN lines[r] : \E i \in DOMAIN doc : at(i, r, k)
            /\ \A r \in DOMAIN lines : LET line == Range(lines[r]) IN
                  /\ \A i, j \in DOMAIN lines[r] : i < j => lines[r][i].left <= lines[r][j].left
                  /\ \A y \in Min({f.top : f \in line}) + 1 .. Max({f.bottom : f \in line}) - 1 :
                        \E f \in line : f.top < y /\ y < f.bottom

-----------------------------------------------------------------------------
(* Attempts: log-ins through the two sliding windows.                      *)
PassWindows == kind = "window" /\ WindowNext /\ UNCHANGED <<kind, doc>>

-----------------------------------------------------------------------------
(* Drafts: the requirements a model found in a guide.                      *)
Silent == [number |-> Catalogue!NoNumber, names |-> <<>>, format |-> "", pattern |-> "",
           body |-> Catalogue!Text("")]

Sizes(low, high) == Catalogue!Object([min_size |-> low, max_size |-> high])

Requirement ==
    [kind : {"page_limit", "word_limit", "duration", "required_section", "attachment",
             "required_field", "font", "budget_ratio", "heading_numbering", "other"},
     detail : {[Silent EXCEPT !.number = n, !.names = names] :
                   n \in {Catalogue!NoNumber, 0, 5}, names \in {<<>>, <<"a">>}}]
    \cup [kind : {"field_format"},
          detail : {[Silent EXCEPT !.names = <<"a">>, !.format = f, !.pattern = p] :
                   f \in {"", "email", "iban"}, p \in {"", ".*", Catalogue!Broken}}]
    \cup [kind : {"layout"},
          detail : {[Silent EXCEPT !.format = f, !.body = b] : f \in {"A4", "B5"},
                   b \in {Catalogue!Text("12"), Sizes(Catalogue!Number(14), Catalogue!Number(12)),
                          Sizes(Catalogue!Text("12"), Catalogue!Number(12))}}]

WriteRequirement == Write("drafts", Requirement, 2)

\* Whatever a model answers, the draft made of it is a rule set whose shape the
\* validation accepts, and that it answers: at most the numbers and patterns
\* the guide itself gives are wrong.  And no requirement is lost: each one is a
\* rule or is handed back as dropped.
DraftsFit ==
    kind = "drafts" =>
        LET draft == Catalogue!BuildDraft(doc)
        IN  /\ Catalogue!ValidateRuleset(draft.rules) \subseteq {"minimum", "regex", "size_type", "sizes"}
            /\ Len(draft.rules) + Len(draft.dropped) = Cardinality(Range(doc))
            /\ Range(draft.dropped) \subseteq Range(doc)

-----------------------------------------------------------------------------
(* Fields of a rule: the keys an administrator gave it.                    *)
FieldValue(value) ==
    LET V(s) == Catalogue!Text(s) IN
    CASE value.key = "name" -> V(IF value.good THEN "school" ELSE "")
      [] value.key = "format" -> V(IF value.good THEN "email" ELSE "iban")
      [] value.key = "pattern" -> V(IF value.good THEN ".*" ELSE Catalogue!Broken)
      [] value.key = "aliases" -> IF value.good THEN Catalogue!List(<<V("a")>>) ELSE Catalogue!Number(1)
      [] value.key = "required" -> Catalogue!Flag(value.good)

Keys == {"name", "format", "pattern", "aliases", "required"}

WriteKey == Write("rules", [key : Keys \ {doc[i].key : i \in DOMAIN doc}, good : BOOLEAN], 4)

FieldOf(values) ==
    Catalogue!Object([k \in {values[i].key : i \in DOMAIN values} |->
        FieldValue(CHOOSE v \in Range(values) : v.key = k)])

Nameless == ~\E i \in DOMAIN doc : doc[i].key = "name" /\ doc[i].good

\* A rule set that passes validation runs: its checkers raise on none of the
\* fields that validation accepts, but for a field without a name.  The catalog
\* asks for one, and validation does not look.
ValidatedFieldsRun ==
    kind = "rules" => \A type \in {"required_fields", "field_format"} :
        LET rule == [type |-> type, params |-> [fields |-> Catalogue!List(<<FieldOf(doc)>>)]]
        IN  Catalogue!RuleErrors(rule) = {} => Catalogue!FieldRuleRuns(rule) \/ Nameless

-----------------------------------------------------------------------------
(* Issues of two checkers, one of them at two severities: those predicted  *)
(* and those expected.                                                     *)
Places == {<<<<"fonts", "error">>, 1>>, <<<<"fonts", "error">>, 3>>,
           <<<<"fonts", "info">>, 1>>, <<<<"dates", "info">>, 1>>}
Marked == {{}, {"a"}, {"a", "b"}}

Issue(side, place, words, anchors) ==
    [side |-> side, key |-> place[1], page |-> place[2], words |-> words, anchors |-> anchors]

WriteIssue == Write("metrics",
    {Issue("predicted", place, words, {}) : place \in Places, words \in Marked}
    \cup {Issue("expected", place, {}, anchors) : place \in Places, anchors \in Marked}, 3)

\* Longer lists of one checker, where places are contended for.
WriteRival == Write("rivals",
    {Issue("predicted", place, words, {}) : place \in {p \in Places : p[1][2] = "error"}, words \in Marked}
    \cup {Issue("expected", place, {}, anchors) :
            place \in {p \in Places : p[1][2] = "error"}, anchors \in Marked}, MaxBlocks)

Issues(side) == SelectSeq(doc, LAMBDA i : i.side = side)

NotAbove(a, b) == a[1] * b[2] <= b[1] * a[2]

\* Every issue is counted once on its side and for its checker, and pairs are of
\* one checker and severity.  An expectation is only counted as missed when nothing
\* fitting it was left over, so that no issue of another place stands in for it; the
\* strict way to match never scores higher than the lenient one; and the oldest way
\* to count, by checker and severity, is the lenient one without repetitions
\* (match_issues, match_identified, checker_counts, set_based_counts).
NoStandIns ==
    kind \in {"metrics", "rivals"} =>
        LET p == Issues("predicted")
            e == Issues("expected")
            strict == Metrics!MatchIdentified(p, e)
            lenient == Metrics!MatchIssues(p, e)
            kinds == Metrics!SetBasedCounts(p, e)
            by(issues, checker) == Len(SelectSeq(issues, LAMBDA i : i.key[1] = checker))
            met == {pair[1].key : pair \in Range(lenient.tp)}
        IN  /\ \A m \in {strict, lenient} :
                  /\ \A pair \in Range(m.tp) : pair[1].key = pair[2].key
                  /\ \A checker \in {"fonts", "dates"} :
                        LET c == Metrics!CheckerCounts(m, checker)
                        IN  c.tp + c.fp = by(p, checker) /\ c.tp + c.fn = by(e, checker)
            /\ \A pair \in Range(strict.tp) : pair[1].anchors \subseteq pair[2].words
            /\ \A missed \in Range(strict.fn), left \in Range(strict.fp) \cup
                    {strict.unverified[i][2] : i \in DOMAIN strict.unverified} :
                  missed.anchors # {} /\ missed.key = left.key =>
                      ~(missed.anchors \subseteq left.words)
            /\ \A score \in {"precision", "recall", "f1"} :
                  NotAbove(Metrics!Scores(strict)[score], Metrics!Scores(lenient)[score])
            /\ kinds.tp = Cardinality(met)
            /\ kinds.fp = Cardinality({i.key : i \in Range(lenient.fp)} \ met)
            /\ kinds.fn = Cardinality({i.key : i \in Range(lenient.fn)} \ met)

-----------------------------------------------------------------------------
(* What the runs check, by what the computations are for.                  *)

\* The checks of structure, type and pages say what the document is like, in
\* every place they look at it from (checkers_structure.py, checkers_format.py and
\* layout_check).
LayoutJudged ==
    /\ SectionsJudgedAlike /\ OrderReported /\ SectionsCoverPages
    /\ OcrDecidesNothing /\ LimitsAgree
    /\ NumbersAreConsecutive /\ SheetsJudgedByTheirText

\* Numbers of headings, figures and tables are read as they were meant, and what
\* is out of order is reported and nothing else (heading_numbering,
\* figure_table_numbering).
NumberingJudged ==
    /\ NumeralsReadBack /\ CanonicalIsSilent /\ MisnumberedIsReported
    /\ InjectionsCounted /\ UncaptionedIsReported /\ GapsReported

\* A check of values that says nothing has read values that are in order: of a
\* budget, a term, a form, an identity number, two fields that should agree
\* (checkers_content.py, checkers_fields.py, cross_field_consistency).
SilenceIsEarned ==
    /\ BudgetSilenceIsEarned /\ TermFromItsNeighbourhood
    /\ LinesNeedAnAnswer /\ GridsNeedAnAnswer /\ FoundIsMeasured
    /\ ChecksumCatchesSlips /\ ConsistentThroughout

\* What was not read is not judged: no page passes unread, no fault is certain
\* that an unread page may clear, and what was read is in its order
\* (pdf_parser.py, page_quality.py, checkers_meta.py).
NothingUnreadIsJudged ==
    /\ UnreadNeverPasses /\ OcrKeepsItsLimit /\ LinesAreBands /\ FaultsSurviveReading

\* What becomes a rule set can be run: drafts are valid and what is valid does not
\* raise (guideline.py, catalog.py).
AcceptedRulesRun == DraftsFit /\ ValidatedFieldsRun

-----------------------------------------------------------------------------
Next == WriteBlock \/ WriteParagraph \/ WriteFooter \/ WriteSheet \/ WriteDigit \/ WriteHeading
        \/ WriteMention \/ WriteRow \/ WriteTerm \/ WriteAtom \/ WriteGridRow
        \/ WriteSlip \/ WriteValue \/ WritePage \/ WritePdfPage \/ WriteFragment
        \/ PassWindows \/ WriteRequirement \/ WriteKey \/ WriteIssue \/ WriteRival

Spec == Init /\ [][Next]_vars
=============================================================================
