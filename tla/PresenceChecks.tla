--------------------------- MODULE PresenceChecks ---------------------------
(* attachment_checklist and signature_page of checkers_meta.py: what can   *)
(* be said of text that was or was not found when pages were not read.     *)
EXTENDS DocumentIR

TextOf(ir, pages) == UNION {ir.blocks[i].text : i \in
    {j \in DOMAIN ir.blocks : ir.blocks[j].page \in pages}}

IncompletePages(ir) == PagesWith(ir, IncompleteStatus)

AllPages(ir) == 0 .. ir.pages

\* expected: names, each the set of its characters; a name is found when
\* seven tenths of at least four characters occur anywhere in the text.  The
\* names here have four: then to look for the name itself adds nothing.
FuzzyFind(name, text) == /\ Cardinality(name) >= 4
                         /\ 10 * Cardinality(name \cap text) >= 7 * Cardinality(name)

\* Faulty variant: a page in doubt counts as read.
AttachmentChecklistHasty(ir, expected) ==
    LET absent == {a \in expected : ~FuzzyFind(a, TextOf(ir, AllPages(ir)))}
        doubt == UnreadPages(ir)
    IN  IF absent = {} THEN {Manual("attachments_named", expected) : x \in expected}
        ELSE IF doubt # {} THEN {Manual("attachment_unread", a) : a \in absent}
        ELSE {Fault("attachment_missing", a) : a \in absent}

AttachmentChecklist(ir, expected) ==
    LET absent == {a \in expected : ~FuzzyFind(a, TextOf(ir, AllPages(ir)))}
        doubt == IncompletePages(ir)
    IN  IF absent = {} THEN {Manual("attachments_named", expected) : x \in expected}
        ELSE IF doubt # {} THEN {Manual("attachment_unread", a) : a \in absent}
        ELSE {Fault("attachment_missing", a) : a \in absent}

\* The last two pages.
LastPages(ir) == Max({1, ir.pages - 1}) .. ir.pages

SignaturePage(ir, keywords) ==
    LET missing == keywords \ TextOf(ir, LastPages(ir))
        doubt == {p \in LastPages(ir) : PageReadIncomplete(ir, p)}
        images == {i \in OfType(ir, "image") : ir.blocks[i].page \in LastPages(ir)}
    IN  CASE missing # {} /\ doubt # {} -> {Manual("signature_unread", missing)}
          [] missing # {} /\ doubt = {} -> {Fault("signature_missing", missing)}
          [] missing = {} /\ images # {} -> {Manual("signature_image", images)}
          [] OTHER -> {Manual("signature_text", keywords)}
=============================================================================
