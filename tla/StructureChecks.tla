--------------------------- MODULE StructureChecks ---------------------------
(* checkers_structure.py (required_sections, section_order) and the two    *)
(* limits of checkers_format.py (page_limit, word_limit).                  *)
EXTENDS DocumentIR

Titled(ir, title) == {i \in HeadingsOf(ir) : title \in ir.blocks[i].text}

\* The heading of the first alias that has one; 0 when none has.
MatchedHeading(ir, aliases) ==
    LET found == {a \in DOMAIN aliases : Titled(ir, aliases[a]) # {}}
    IN  IF found = {} THEN 0 ELSE Min(Titled(ir, aliases[Min(found)]))

\* Where a section's text stops: at the next heading of the same or a higher
\* level, or at the end of the document.
SectionEnd(ir, h) ==
    LET next == {j \in HeadingsOf(ir) :
                    j > h /\ ir.blocks[j].level <= ir.blocks[h].level}
    IN  IF next = {} THEN Len(ir.blocks) ELSE Min(next) - 1

\* The section is looked up again, by the heading's text.
CountWordsAfterHeading(ir, text) ==
    LET same == {i \in HeadingsOf(ir) : text \subseteq ir.blocks[i].text}
    IN  IF same = {} THEN 0
        ELSE WordsBetween(ir, Min(same) + 1, SectionEnd(ir, Min(same)))

\* sections: a set of records with a sequence of aliases and min_words.
RequiredSections(ir, sections) ==
    LET heading(s) == MatchedHeading(ir, s.aliases)
        short(s) == /\ s.min_words > 0
                    /\ CountWordsAfterHeading(ir, ir.blocks[heading(s)].text) < s.min_words
    IN  {Fault("missing", s) : s \in {x \in sections : heading(x) = 0}} \cup
        {Fault("short", s) : s \in {x \in sections : heading(x) # 0 /\ short(x)}}

\* Faulty variant: the heading's own words count.
CountSectionWordsInclusive(ir, h) == WordsBetween(ir, h, SectionEnd(ir, h))

CountSectionWords(ir, h) == WordsBetween(ir, h + 1, SectionEnd(ir, h))

\* limits: a set of records with a title and max.
WordLimit(ir, max_words, limits) ==
    {Fault("words", max_words) : x \in {y \in {ir.word_count} : y > max_words}} \cup
    {Fault("section_words", s) : s \in {x \in limits :
        /\ Titled(ir, x.title) # {}
        /\ CountSectionWords(ir, Min(Titled(ir, x.title))) > x.max}}

\* Faulty variant: the page of the next heading counts too.
SectionPagesToNext(ir, h) ==
    LET later == {j \in TopHeadings(ir) : j > h}
    IN  (IF later = {} THEN ir.pages ELSE ir.blocks[Min(later)].page) - ir.blocks[h].page + 1

\* A section ends on the page before the next level-1 heading of a later page.
SectionPages(ir, h) ==
    LET start == ir.blocks[h].page
        later == {j \in TopHeadings(ir) : ir.blocks[j].page > start}
        last == IF later = {} THEN ir.pages ELSE ir.blocks[Min(later)].page - 1
    IN  last - start + 1

PageLimit(ir, max_pages, limits) ==
    {Fault("pages", max_pages) : x \in {y \in {ir.pages} : y > max_pages}} \cup
    {Fault("section_pages", s) : s \in {x \in limits :
        /\ Titled(ir, x.title) # {}
        /\ SectionPages(ir, Min(Titled(ir, x.title))) > x.max}}

-----------------------------------------------------------------------------
\* Faulty variant: headings of all levels are looked at, the last one counts.
FoundAtAny(ir, title) ==
    LET at == {i \in HeadingsOf(ir) : title \in ir.blocks[i].text}
    IN  IF at = {} THEN 0 ELSE Max(at)

\* expected: the titles in the order the guide asks for, without repetition.
\* Each is found at the first level-1 heading that has it; titles of one
\* heading are taken in the expected order.
FoundAt(ir, title) ==
    LET at == {i \in TopHeadings(ir) : title \in ir.blocks[i].text}
    IN  IF at = {} THEN 0 ELSE Min(at)

FoundBefore(ir, expected, p, q) ==
    \/ FoundAt(ir, expected[p]) < FoundAt(ir, expected[q])
    \/ FoundAt(ir, expected[p]) = FoundAt(ir, expected[q]) /\ p < q

\* Only neighbours of the order found are compared; the first pair the wrong
\* way round is reported.
SectionOrder(ir, expected) ==
    LET found == {p \in DOMAIN expected : FoundAt(ir, expected[p]) # 0}
        after(p) == {q \in found : q # p /\ FoundBefore(ir, expected, p, q)}
        next(p) == {q \in after(p) : after(p) \ {q} = after(q)}
        wrong == {p \in found : \E q \in next(p) : q < p}
    IN  IF wrong = {} THEN {}
        ELSE {Fault("order", expected[q]) : q \in next(
                CHOOSE p \in wrong : \A w \in wrong \ {p} : FoundBefore(ir, expected, p, w))}
=============================================================================
