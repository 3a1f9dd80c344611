----------------------------- MODULE DocumentIR -----------------------------
(* The parsed document the checkers read (schemas/ir.py).  A document is a *)
(* record with the number of pages, page_meta and the blocks in reading    *)
(* order; a block has only the fields a checker looks at.  A text is the   *)
(* set of the words in it, so that "needle in text" is membership; where   *)
(* the order of the words matters the checker's module has a richer text.  *)
EXTENDS Integers, Sequences, FiniteSets, FiniteSetsExt

UnreadStatus == {"scanned_no_text", "scanned_minimal_text",
                 "ocr_insufficient", "ocr_failed", "ocr_skipped_limit"}
UncertainStatus == {"mixed_image_unread"}
IncompleteStatus == UnreadStatus \cup UncertainStatus

\* Positions of blocks rather than the blocks themselves.
OfType(ir, type) == {i \in DOMAIN ir.blocks : ir.blocks[i].type = type}
HeadingsOf(ir) == OfType(ir, "heading")
TopHeadings(ir) == {i \in HeadingsOf(ir) : ir.blocks[i].level = 1}
OnPage(ir, page) == {i \in DOMAIN ir.blocks : ir.blocks[i].page = page}

WordsBetween(ir, from, to) ==
    MapThenSumSet(LAMBDA i : ir.blocks[i].words, from .. to)

PagesWith(ir, statuses) == {m.page : m \in {x \in ir.page_meta : x.status \in statuses}}
UnreadPages(ir) == PagesWith(ir, UnreadStatus)
PageReadIncomplete(ir, page) == page \in PagesWith(ir, IncompleteStatus)

\* BaseChecker._issue, and the RuleIssue of "manual_required" confidence.
Fault(what, about) == <<"fault", what, about>>
Manual(what, about) == <<"manual", what, about>>
=============================================================================
