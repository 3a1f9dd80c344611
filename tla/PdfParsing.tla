----------------------------- MODULE PdfParsing -----------------------------
(* pdf_parser.py and page_quality.py: which pages are read by OCR, how     *)
(* well each was read, how lines are put together and what is a heading;   *)
(* and the gates of routes.py that stop a review of an unread page.        *)
(* Areas are per cent of the page.                                         *)
EXTENDS DocumentIR, SequencesExt

OcrMinPageChars == 20
MinExtractedTextChars == 80
ScannedImageRatio == 60
ScannedMaxDigitalChars == 200
UnreadRegionRatio == 50
UncertainMinDigitalChars == 200

Raises == -1          \* OCR without its program or its language data

\* A page: the characters of its text, its images (area, and whether text
\* lies over it), the characters OCR would find, and whether extracting a
\* table fails.
ImageAreaRatio(page) ==
    LET area[n \in 0 .. Len(page.images)] ==
            IF n = 0 THEN 0 ELSE area[n - 1] + page.images[n].area
    IN  Min({100, area[Len(page.images)]})

HasUnreadImageRegion(page) == \E i \in Range(page.images) :
    i.area >= UnreadRegionRatio /\ ~i.covered

\* Faulty variant: OCR that does not fail has read the page.
OcrPageTrusting(page) == IF page.ocr = Raises THEN "failed" ELSE "success"

OcrPage(page) ==
    CASE page.ocr = Raises -> "failed"
      [] page.ocr # Raises /\ page.ocr >= Max({1, OcrMinPageChars}) -> "success"
      [] OTHER -> "insufficient"

NeedsOcr(page) == page.images # <<>> /\ page.chars < OcrMinPageChars

ClassifyPage(page, ocr) ==
    CASE ocr = "success" -> "ocr"
      [] ocr = "insufficient" -> "ocr_insufficient"
      [] ocr = "failed" -> "ocr_failed"
      [] ocr = "skipped_limit" -> "ocr_skipped_limit"
      [] ocr \in {"not_attempted", "disabled"} ->
            IF page.chars = 0 THEN IF page.images = <<>> THEN "empty" ELSE "scanned_no_text"
            ELSE IF /\ ImageAreaRatio(page) >= ScannedImageRatio
                    /\ page.chars < ScannedMaxDigitalChars
            THEN "scanned_minimal_text"
            ELSE IF /\ HasUnreadImageRegion(page)
                    /\ ImageAreaRatio(page) >= UnreadRegionRatio
                    /\ page.chars >= UncertainMinDigitalChars
            THEN "mixed_image_unread" ELSE "ok"

\* Faulty variant: OCR is tried on every page, whatever became of it before.
OcrStateAgain(s, page, max_pages) ==
    CASE ~NeedsOcr(page) -> "not_attempted"
      [] NeedsOcr(page) /\ Cardinality(s.ocr_pages) >= max_pages -> "skipped_limit"
      [] OTHER -> OcrPage(page)

\* Once OCR has failed it is not tried again; the limit counts the pages it
\* has read.
OcrState(s, page, max_pages) ==
    CASE ~NeedsOcr(page) -> "not_attempted"
      [] NeedsOcr(page) /\ ~s.ocr_available -> "disabled"
      [] NeedsOcr(page) /\ s.ocr_available /\ Cardinality(s.ocr_pages) >= max_pages -> "skipped_limit"
      [] OTHER -> OcrPage(page)

\* The loop over the pages.
ReadPage(s, page, max_pages) ==
    LET ocr == OcrState(s, page, max_pages)
        number == Len(s.page_meta) + 1
    IN  [ocr_available |-> s.ocr_available /\ ocr # "failed",
         ocr_pages |-> s.ocr_pages \cup {n \in {number} : ocr = "success"},
         page_meta |-> Append(s.page_meta,
             [page |-> number, ocr |-> ocr, status |-> ClassifyPage(page, ocr),
              text |-> IF ocr = "success" THEN page.ocr ELSE page.chars]),
         parse_warnings |-> s.parse_warnings \cup {n \in {number} : page.table_fails}]

Parse(pages, enabled, max_pages) ==
    LET read[n \in 0 .. Len(pages)] ==
            IF n = 0 THEN [ocr_available |-> enabled, ocr_pages |-> {}, page_meta |-> <<>>,
                           parse_warnings |-> {}]
            ELSE ReadPage(read[n - 1], pages[n], max_pages)
    IN  read[Len(pages)]

\* The gates: too little text and an unread page end the review with an error;
\* a page in doubt or a warning is an issue for a person to look at.
ValidateExtractedText(ir) ==
    FoldLeft(LAMBDA sum, m : sum + m.text, 0, ir.page_meta) >= MinExtractedTextChars

ValidatePageCoverage(ir) == \A m \in Range(ir.page_meta) : m.status \notin UnreadStatus

PageQualityManualIssues(ir) ==
    {Manual("uncertain_page", m.page) : m \in {x \in Range(ir.page_meta) : x.status \in UncertainStatus}}
    \cup {Manual("parse_warning", w) : w \in ir.parse_warnings}

\* A review whose rules find nothing says "pass".
SaysPass(ir) == /\ ValidateExtractedText(ir)
                /\ ValidatePageCoverage(ir)
                /\ PageQualityManualIssues(ir) = {}

-----------------------------------------------------------------------------
\* Faulty variant: touching is enough.
SameLineTouching(f, row) ==
    Min({f.bottom, row.bottom}) - Max({f.top, row.top}) >= 0

\* _group_visual_lines.  A fragment has top, bottom and left; it joins the
\* first row it shares half of the lower of their two heights with.
SameLine(f, row) ==
    LET overlap == Min({f.bottom, row.bottom}) - Max({f.top, row.top})
        height == Min({f.bottom - f.top, row.bottom - row.top})
    IN  overlap > 0 /\ 2 * overlap >= height

PlaceFragment(rows, f) ==
    LET fits == {r \in DOMAIN rows : SameLine(f, rows[r])}
        first == Min(fits)
    IN  IF fits = {} THEN Append(rows, [top |-> f.top, bottom |-> f.bottom, left |-> f.left, parts |-> <<f>>])
        ELSE [rows EXCEPT ![first] =
                 [top |-> Min({f.top, rows[first].top}),
                  bottom |-> Max({f.bottom, rows[first].bottom}),
                  left |-> Min({f.left, rows[first].left}),
                  parts |-> Append(rows[first].parts, f)]]

\* list.sort with a key of two parts, which has them for each position.
SortedBy(seq, major, minor) ==
    LET before(i, j) == \/ major[i] < major[j]
                        \/ major[i] = major[j] /\ minor[i] < minor[j]
                        \/ major[i] = major[j] /\ minor[i] = minor[j] /\ i < j
        place(i) == Cardinality({j \in DOMAIN seq : before(j, i)}) + 1
    IN  [p \in DOMAIN seq |-> seq[CHOOSE i \in DOMAIN seq : place(i) = p]]

Column(seq, field) == [i \in DOMAIN seq |-> seq[i][field]]

RowsOf(fragments) ==
    LET rows[n \in 0 .. Len(fragments)] ==
            IF n = 0 THEN <<>> ELSE PlaceFragment(rows[n - 1], fragments[n])
    IN  rows[Len(fragments)]

GroupVisualLines(fragments) ==
    LET middle == [i \in DOMAIN fragments |-> fragments[i].top + fragments[i].bottom]
        rows == RowsOf(SortedBy(fragments, middle, Column(fragments, "left")))
        down == SortedBy(rows, Column(rows, "top"), Column(rows, "left"))
        line(parts) == SortedBy(parts, Column(parts, "left"), Column(parts, "top"))
    IN  [r \in DOMAIN down |-> line(down[r].parts)]

-----------------------------------------------------------------------------
\* _classify_with_signals.  A text has the mark it starts with, the numbers
\* in it, whether anything but digits and punctuation follows, and the two
\* signals of its type.
HeadingLevel(text) ==
    CASE text.mark = "chinese" -> 1
      [] text.mark \in {"chinese_parenthesized", "arabic_parenthesized"} -> 2
      [] text.mark = "dots" -> IF Len(text.numbers) > 1 THEN 3 ELSE 2
      [] OTHER -> 0

\* 0 for a paragraph.
ClassifyWithSignals(text) ==
    CASE text.bare -> 0
      [] ~text.bare /\ HeadingLevel(text) # 0 -> HeadingLevel(text)
      [] OTHER -> IF text.bold /\ text.larger /\ text.short THEN 2 ELSE 0
=============================================================================
