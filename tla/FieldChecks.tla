----------------------------- MODULE FieldChecks -----------------------------
(* checkers_fields.py (required_fields, field_format, identity numbers)    *)
(* and cross_field_consistency of checkers_meta.py.  A text is a sequence  *)
(* of atoms: words, ":", " ", the "|" between the rows of a table, and "_" *)
(* for the dashes and markers that count as nothing.  A label is a         *)
(* sequence of words; the atoms in Words are made of letters only.         *)
EXTENDS DocumentIR, SequencesExt

CONSTANT Words                      \* labels and answers, as far as in letters

Stripped(text, atoms) ==
    LET solid == {i \in DOMAIN text : text[i] \notin atoms}
    IN  IF solid = {} THEN <<>> ELSE SubSeq(text, Min(solid), Max(solid))

\* Faulty variant: dashes count as an answer.
IsBlank(text) == \A i \in DOMAIN text : text[i] = " "

\* _is_empty
IsEmpty(text) == \A i \in DOMAIN text : text[i] \in {" ", "_"}

\* A space, then one word and a colon: where the next field begins.
LabelAt(text, i) ==
    /\ text[i] = " "
    /\ \E j, k \in i .. Len(text) :
        /\ i < j /\ j < k /\ text[k] = ":"
        /\ \A l \in i .. (j - 1) : text[l] = " "
        /\ text[j] \in Words
        /\ \A l \in (j + 1) .. (k - 1) :
              text[l] \in Words \/ (text[l] = " " /\ \A n \in l .. (k - 1) : text[n] = " ")

TrimValue(text) ==
    LET value == Stripped(Stripped(text, {" "}), {"|"})
        cut == {i \in DOMAIN value : LabelAt(value, i)}
    IN  Stripped(IF cut = {} THEN value ELSE SubSeq(value, 1, Min(cut) - 1), {" "})

\* The text after the label and its colon, from the first place that has both;
\* it runs to the end of the line, so a line has one match for a label.
AfterColon(text) ==
    LET colon == {i \in DOMAIN text : text[i] = ":" /\ \A j \in 1 .. (i - 1) : text[j] = " "}
    IN  {SubSeq(text, i + 1, Len(text)) : i \in colon}

InlineMatches(line, label) ==
    LET after(p) == AfterColon(SubSeq(line, p + Len(label), Len(line)))
        places == {p \in 1 .. (Len(line) - Len(label) + 1) :
            /\ SubSeq(line, p, p + Len(label) - 1) = label
            /\ after(p) # {}}
    IN  IF places = {} THEN {} ELSE {TrimValue(v) : v \in after(Min(places))}

\* A cell that begins with the label holds the value, or the first cell with
\* something in it to its right does; the first alias that fits is taken.
CellRest(cell, label) ==
    LET rest == SubSeq(cell, Len(label) + 1, Len(cell))
    IN  IF AfterColon(rest) = {} THEN rest ELSE CHOOSE v \in AfterColon(rest) : TRUE

\* Faulty variant: the answer may stand to the left.
CellValueAnywhere(row, c, label) ==
    LET own == TrimValue(CellRest(row[c], label))
        others == {d \in DOMAIN row : d # c /\ ~IsEmpty(row[d])}
    IN  IF ~IsEmpty(own) \/ others = {} THEN own ELSE TrimValue(row[Min(others)])

CellValue(row, c, label) ==
    LET own == TrimValue(CellRest(row[c], label))
        right == {d \in (c + 1) .. Len(row) : ~IsEmpty(row[d])}
    IN  IF ~IsEmpty(own) \/ right = {} THEN own
        ELSE TrimValue(row[Min(right)])

TableMatches(rows, labels) ==
    LET fits(cell) == {a \in DOMAIN labels : IsPrefix(labels[a], cell)}
        hits == {h \in UNION {{r} \X (DOMAIN rows[r]) : r \in DOMAIN rows} :
                    fits(rows[h[1]][h[2]]) # {}}
    IN  {CellValue(rows[h[1]], h[2], labels[Min(fits(rows[h[1]][h[2]]))]) : h \in hits}

\* The text of a table block: cells apart by a space, rows by " | ".
FlatText(rows) ==
    LET row(r) == FoldLeft(LAMBDA s, c : IF s = <<>> THEN c ELSE s \o <<" ">> \o c, <<>>, rows[r])
    IN  FoldLeft(LAMBDA s, r : IF r = 1 THEN row(r) ELSE s \o <<" ", "|", " ">> \o row(r),
                 <<>>, [r \in DOMAIN rows |-> r])

\* Values found for a field: in the lines of a block, and in its table.
FieldMatches(block, labels) ==
    UNION {InlineMatches(line, label) : line \in block.lines, label \in Range(labels)}
    \cup TableMatches(block.rows, labels)

TextBlock(line) == [lines |-> {line}, rows |-> <<>>]
GridBlock(rows) == [lines |-> {FlatText(rows)}, rows |-> rows]

RequiredFields(block, fields) ==
    {Fault("field_missing", f) : f \in {g \in fields :
        /\ g.required
        /\ \A v \in FieldMatches(block, g.labels) : IsEmpty(v)}}

\* Faulty variant: what stands for no answer is measured too.
FieldFormatOfAll(block, fields, accepted) ==
    {Fault("field_format", p) : p \in {found \in
        UNION {{f} \X FieldMatches(block, f.labels) : f \in fields} :
            found[2] \notin accepted[found[1].format]}}

\* accepted[format] is the set of texts that the validator of a format passes.
FieldFormat(block, fields, accepted) ==
    {Fault("field_format", p) : p \in {found \in
        UNION {{f} \X FieldMatches(block, f.labels) : f \in fields} :
            ~IsEmpty(found[2]) /\ found[2] \notin accepted[found[1].format]}}

-----------------------------------------------------------------------------
\* Identity numbers: seventeen digits and a check code, 10 for the letter X.
CheckCodes == <<1, 0, 10, 9, 8, 7, 6, 5, 4, 3, 2>>

\* Faulty variant: two neighbours weigh the same.
WeightsRepeated == <<7, 9, 9, 5, 8, 4, 2, 1, 6, 3, 7, 9, 10, 5, 8, 4, 2>>

Weights == <<7, 9, 10, 5, 8, 4, 2, 1, 6, 3, 7, 9, 10, 5, 8, 4, 2>>
Leap(year) == year % 4 = 0 /\ (year % 100 # 0 \/ year % 400 = 0)

\* datetime.date(year, month, day) accepts it
IsDate(year, month, day) ==
    /\ year >= 1 /\ month \in 1 .. 12
    /\ day \in 1 .. (CASE month = 2 -> IF Leap(year) THEN 29 ELSE 28
                       [] month \in {4, 6, 9, 11} -> 30
                       [] OTHER -> 31)

CheckCode(digits) ==
    CheckCodes[(MapThenSumSet(LAMBDA i : digits[i] * Weights[i], 1 .. 17) % 11) + 1]

ValidCnId(digits, code) ==
    LET number(from, to) == FoldLeft(LAMBDA n, d : 10 * n + d, 0, SubSeq(digits, from, to))
    IN  /\ Len(digits) = 17
        /\ IsDate(number(7, 10), number(11, 12), number(13, 14))
        /\ code = CheckCode(digits)

-----------------------------------------------------------------------------
\* Consistency.  A normalised value is a number, or NotANumber where the mode
\* asks for a number or a date and the text is none.
CONSTANT NotANumber

Spread(values) == Max(values) - Min(values)

MatchesAgree(values, mode, tolerance) ==
    CASE NotANumber \in values -> "error"
      [] NotANumber \notin values /\ mode = "number" ->
            IF Spread(values) <= tolerance THEN "agree" ELSE "differ"
      [] OTHER -> IF Cardinality(values) <= 1 THEN "agree" ELSE "differ"

\* One field found several times (values in the order found).
RepeatedField(values, mode, tolerance) ==
    IF Len(values) < 2 THEN {}
    ELSE {Fault("repeated", v) : v \in {MatchesAgree(Range(values), mode, tolerance)} \ {"agree"}}

\* Faulty variant: only the first values count, and an unreadable one agrees.
ComparisonAgreesFirst(left, right, mode, tolerance) ==
    LET pairs == {v \in {MatchesAgree({left[1], right[1]}, mode, tolerance)} : v # "error"}
    IN  IF pairs = {} THEN "agree" ELSE CHOOSE v \in pairs : TRUE

\* Two fields agree as soon as one value of each does.
ComparisonAgrees(left, right, mode, tolerance) ==
    LET verdicts == {MatchesAgree({l, r}, mode, tolerance) : l \in Range(left), r \in Range(right)}
    IN  CASE "agree" \in verdicts -> "agree"
          [] "agree" \notin verdicts /\ "differ" \in verdicts -> "differ"
          [] OTHER -> "error"

ComparedFields(left, right, mode, tolerance) ==
    IF left = <<>> \/ right = <<>> THEN {}
    ELSE {Fault("compared", v) : v \in {ComparisonAgrees(left, right, mode, tolerance)} \ {"agree"}}

CrossFieldConsistency(left, right, mode, tolerance) ==
    RepeatedField(left, mode, tolerance) \cup RepeatedField(right, mode, tolerance)
    \cup ComparedFields(left, right, mode, tolerance)
=============================================================================
