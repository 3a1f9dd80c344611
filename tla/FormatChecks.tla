---------------------------- MODULE FormatChecks ----------------------------
(* checkers_format.py (font_check, page_number_check) and layout_check of  *)
(* checkers_layout.py.  Lengths are integers in one unit; a font's name is *)
(* the set of known family names that occur in it, with the whole name     *)
(* among them when it is one of them.                                      *)
EXTENDS DocumentIR, SequencesExt

Unset == -1          \* a limit the rule leaves out, a measure the parser has not

Distance(a, b) == IF a > b THEN a - b ELSE b - a

\* FONT_ALIASES in the order they are tried, and the family each stands for.
AliasOrder == <<"SimSun", "SimHei", "Hei", "KaiTi", "FangSong", "MicrosoftYaHei">>
FamilyOf == [SimSun |-> "Song", SimHei |-> "Hei", Hei |-> "Hei", KaiTi |-> "Kai",
             FangSong |-> "Fang", MicrosoftYaHei |-> "YaHei"]

NoFont == [exact |-> "", within |-> {}]

NormalizeFont(name) ==
    IF name.exact \in DOMAIN FamilyOf THEN FamilyOf[name.exact]
    ELSE LET known == {i \in DOMAIN AliasOrder : AliasOrder[i] \in name.within}
         IN  IF known = {} THEN name.exact ELSE FamilyOf[AliasOrder[Min(known)]]

\* Counter.most_common(1): among the most frequent, the one met first.
MostCommon(seq) ==
    LET times(x) == Cardinality({i \in DOMAIN seq : seq[i] = x})
        best == {i \in DOMAIN seq : \A j \in DOMAIN seq : times(seq[j]) <= times(seq[i])}
    IN  seq[Min(best)]

\* Faulty variant: pages read by OCR are trusted.
TrustedEvenOcr(ir) == SelectSeq(ir.blocks, LAMBDA b : b.type = "paragraph")

\* Paragraphs whose type can be trusted: OCR invents the fonts of its pages.
Trusted(ir) == SelectSeq(ir.blocks, LAMBDA b :
    b.type = "paragraph" /\ b.page \notin ir.ocr_pages)

DominantFont(ir) ==
    LET named == SelectSeq(Trusted(ir), LAMBDA b : b.font # NoFont)
    IN  IF named = <<>> THEN NoFont
        ELSE MostCommon([i \in DOMAIN named |-> named[i].font])

\* 0 when no paragraph has a size.
BodySize(ir) ==
    LET sized == SelectSeq(Trusted(ir), LAMBDA b : b.size > 0)
    IN  IF sized = <<>> THEN 0 ELSE MostCommon([i \in DOMAIN sized |-> sized[i].size])

\* Half a point, in the unit of the sizes.
FontTolerance == 1

FontCheck(ir, body_font, body_size) ==
    LET family == NormalizeFont(DominantFont(ir))
        size == BodySize(ir)
    IN  {Fault("font", f) : f \in {family} \ {"", body_font}} \cup
        {Fault("size", s) : s \in {x \in {size} \ {0} :
            Distance(x, body_size) > FontTolerance}} \cup
        {Manual("ocr_fonts", pages) : pages \in {ir.ocr_pages} \ {{}}}

-----------------------------------------------------------------------------
\* A block that is nothing but a number, in the bottom part of its page.
FootersOn(ir, page) == {i \in OnPage(ir, page) :
    /\ ir.blocks[i].number # Unset
    /\ ir.blocks[i].low
    /\ \E m \in ir.page_meta : m.page = page}

\* Of several footers on a page the last one counts.
NumberOn(ir, page) == ir.blocks[Max(FootersOn(ir, page))].number

Numbered(ir, required) == {p \in required : FootersOn(ir, p) # {}}

\* Faulty variant: numbers only have to go up.
UnsteadyBackwards(ir, required) ==
    LET found == Numbered(ir, required)
    IN  {p \in found : \E q \in found : p < q /\ NumberOn(ir, q) < NumberOn(ir, p)}

\* Consecutive among the numbers found, whatever pages lie between them.
Unsteady(ir, required) ==
    LET found == Numbered(ir, required)
    IN  {p \in found : \E q \in found :
            /\ p < q
            /\ \A r \in found : r <= p \/ q <= r
            /\ NumberOn(ir, q) # NumberOn(ir, p) + 1}

\* allow_front is the value the checker reads: the parameter
\* "allow_unumbered_front_pages", 1 when the rule does not set it.
AllowFront(params) ==
    IF "allow_unumbered_front_pages" \in DOMAIN params
    THEN params["allow_unumbered_front_pages"] ELSE 1

PageNumberCheck(ir, params) ==
    LET required == (AllowFront(params) + 1) .. ir.pages
        empty == {Fault("empty_page", p) : p \in {q \in 1 .. ir.pages : OnPage(ir, q) = {}}}
        meta == {Fault("page_meta", n) : n \in {Cardinality(ir.page_meta)} \ {ir.pages}}
        none == \A p \in 1 .. ir.pages : FootersOn(ir, p) = {}
    IN  IF required # {} /\ none THEN empty \cup meta \cup {Manual("no_numbers", required)}
        ELSE empty \cup meta \cup
             {Fault("unnumbered", ps) : ps \in {required \ Numbered(ir, required)} \ {{}}} \cup
             {Fault("not_consecutive", ps) : ps \in {Unsteady(ir, required)} \ {{}}}

-----------------------------------------------------------------------------
\* _check_pages.  size: the expected <<width, height>> of an upright page.
Fits(m, size, tolerance) ==
    /\ Distance(m.width, size[1]) <= tolerance
    /\ Distance(m.height, size[2]) <= tolerance

Turned(size) == <<size[2], size[1]>>

WrongPages(ir, size, orientation, tolerance) ==
    LET fits(m) == CASE orientation = "portrait" -> Fits(m, size, tolerance)
                     [] orientation = "landscape" -> Fits(m, Turned(size), tolerance)
                     [] orientation = "any" -> \/ Fits(m, size, tolerance)
                                               \/ Fits(m, Turned(size), tolerance)
    IN  {m.page : m \in {x \in ir.page_meta : ~fits(x)}}

\* _check_margins.  Measured from the outermost text of the page.
Side == {"left", "right", "top", "bottom"}

\* Faulty variant: images and empty boxes count as text.
TextOnAny(ir, page) == OnPage(ir, page)

TextOn(ir, page) == {i \in OnPage(ir, page) :
    /\ ir.blocks[i].type \in {"heading", "paragraph", "table", "list"}
    /\ ir.blocks[i].words > 0
    /\ ir.blocks[i].box.x1 > ir.blocks[i].box.x0
    /\ ir.blocks[i].box.y1 > ir.blocks[i].box.y0}

Margin(ir, m, side) ==
    LET all(edge(_)) == {edge(ir.blocks[i].box) : i \in TextOn(ir, m.page)}
    IN  CASE side = "left" -> Min(all(LAMBDA b : b.x0))
          [] side = "right" -> m.width - Max(all(LAMBDA b : b.x1))
          [] side = "top" -> Min(all(LAMBDA b : b.y0))
          [] side = "bottom" -> m.height - Max(all(LAMBDA b : b.y1))

MarginSlack == 1

NarrowMargins(ir, minimum, excluded) ==
    UNION {{<<side, m.page>> : m \in {x \in ir.page_meta :
        /\ x.page \notin excluded
        /\ TextOn(ir, x.page) # {}
        /\ minimum[side] > 0
        /\ Margin(ir, x, side) + MarginSlack < minimum[side]}} : side \in Side}

\* Faulty variant: the edge of a tolerance is outside.
OffMetricWithin(ir, metric, config, minimum_lines) ==
    LET measured(b) == b[metric] # Unset /\ b.lines >= minimum_lines
        off(v) == \/ config.exact # Unset /\ Distance(v, config.exact) > config.tolerance
                  \/ config.min # Unset /\ v <= config.min - config.tolerance
                  \/ config.max # Unset /\ v >= config.max + config.tolerance
        body == SelectSeq(Trusted(ir), LAMBDA b : b.size > 0)
    IN  {i \in DOMAIN body : measured(body[i]) /\ off(body[i][metric])}

\* _check_paragraph_metric.
OffMetric(ir, metric, config, minimum_lines) ==
    LET measured(b) == b[metric] # Unset /\ b.lines >= minimum_lines
        off(v) == \/ config.exact # Unset /\ Distance(v, config.exact) > config.tolerance
                  \/ config.min # Unset /\ v < config.min - config.tolerance
                  \/ config.max # Unset /\ v > config.max + config.tolerance
        body == SelectSeq(Trusted(ir), LAMBDA b : b.size > 0)
    IN  {i \in DOMAIN body : measured(body[i]) /\ off(body[i][metric])}

\* _check_body.  config has limits on the size and the two metrics.
CheckBody(ir, config) ==
    LET body == SelectSeq(Trusted(ir), LAMBDA b : b.size > 0)
        astray == {i \in DOMAIN body : body[i].alignment \notin {"", config.alignment}}
    IN  IF body = <<>> THEN {}
        ELSE {Fault("small", s) : s \in {x \in {BodySize(ir)} :
                 config.min_size # Unset /\ x < config.min_size}} \cup
             {Fault("large", s) : s \in {x \in {BodySize(ir)} :
                 config.max_size # Unset /\ x > config.max_size}} \cup
             {Fault("alignment", a) : a \in {x \in {astray} \ {{}} : config.alignment # ""}} \cup
             {Fault("spacing", is) : is \in {OffMetric(ir, "spacing", config.spacing, 2)} \ {{}}} \cup
             {Fault("indent", is) : is \in {OffMetric(ir, "indent", config.indent, 2)} \ {{}}}

\* _check_headings: here the blocks of OCR pages are judged like the others.
CheckHeadings(ir, configs) ==
    LET off(b, c) == \/ c.font # "" /\ c.font # NormalizeFont(b.font)
                     \/ c.size # Unset /\ Distance(b.size, c.size) > c.tolerance
                     \/ c.min_size # Unset /\ b.size < c.min_size
                     \/ c.max_size # Unset /\ b.size > c.max_size
                     \/ c.bold /\ ~b.bold
                     \/ c.alignment # "" /\ b.alignment # c.alignment
    IN  {Fault("heading", i) : i \in {j \in HeadingsOf(ir) :
            /\ ir.blocks[j].level \in DOMAIN configs
            /\ off(ir.blocks[j], configs[ir.blocks[j].level])}}
=============================================================================
