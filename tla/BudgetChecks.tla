---------------------------- MODULE BudgetChecks ----------------------------
(* How the PDF parser turns a table into rows (_normalize_table_rows) and  *)
(* what budget_check and date_check of checkers_content.py make of tables  *)
(* and of the term of the project.  Amounts are integers in hundredths.    *)
EXTENDS DocumentIR, SequencesExt

CONSTANTS NoAmount,                   \* a cell that does not read as a number
          NoRow                       \* a row that extract() returned as None

\* A cell: the words it has ("total", "budget", "amount", a category) and the
\* amount it reads as; blank when it is empty or a dash.
Cell(words, amount, blank) == [words |-> words, amount |-> amount, blank |-> blank]
EmptyCell == Cell({}, NoAmount, TRUE)

\* _normalize_table_rows: every row as wide as the widest.
NormalizedRows(raw) ==
    LET width == Max({0} \cup {Len(raw[i]) : i \in {j \in DOMAIN raw : raw[j] # NoRow}})
        cells(row) == IF row = NoRow THEN <<>> ELSE row
    IN  IF width = 0 THEN <<>>
        ELSE [i \in DOMAIN raw |-> [c \in 1 .. width |->
                 IF c <= Len(cells(raw[i])) THEN cells(raw[i])[c] ELSE EmptyCell]]

PaddingWarnings(raw) ==
    LET rows == {i \in DOMAIN raw : raw[i] # NoRow}
        width == Max({0} \cup {Len(raw[i]) : i \in rows})
    IN  {"no_cells" : x \in {y \in {width} : y = 0}} \cup
        {"empty_row" : i \in {j \in DOMAIN raw : width > 0 /\ raw[j] = NoRow}} \cup
        {"short_row" : i \in {j \in rows : Len(raw[j]) < width}}

\* The block of a parsed table: without rows when nothing could be read.
TableBlock(raw) == [rows |-> NormalizedRows(raw), warnings |-> PaddingWarnings(raw)]

-----------------------------------------------------------------------------
RowWords(row) == UNION {row[c].words : c \in DOMAIN row}
AmountIn(row, col) == IF col \in DOMAIN row THEN row[col].amount ELSE NoAmount

BudgetWords == {"budget", "amount", "total"}

\* The first table with one of the words in it; 0 when there is none.
FindBudgetTable(tables) ==
    LET found == {t \in DOMAIN tables : \E r \in DOMAIN tables[t].rows :
                     RowWords(tables[t].rows[r]) \cap BudgetWords # {}}
    IN  IF found = {} THEN 0 ELSE Min(found)

\* The first column whose header speaks of an amount, else the first of those
\* with most numbers; a first column with a number in every row is an index.
FindAmountColumn(rows) ==
    LET header == {c \in DOMAIN rows[1] : "amount" \in rows[1][c].words}
        numbers(c) == Cardinality({r \in 2 .. Len(rows) : AmountIn(rows[r], c) # NoAmount})
        columns == {c \in DOMAIN rows[1] :
                       numbers(c) > 0 /\ (c > 1 \/ numbers(c) < Len(rows) - 1)}
    IN  CASE header # {} -> Min(header)
          [] header = {} /\ columns = {} -> 0
          [] OTHER -> Min({c \in columns : \A d \in columns : numbers(d) <= numbers(c)})

IsTotal(row) == "total" \in RowWords(row)

\* Of several rows that speak of a total the last readable one counts.
TotalOf(rows, col) ==
    LET totals == {r \in 2 .. Len(rows) : IsTotal(rows[r]) /\ AmountIn(rows[r], col) # NoAmount}
    IN  IF totals = {} THEN NoAmount ELSE AmountIn(rows[Max(totals)], col)

\* Faulty variant: the total is one of its own summands.
DetailsOfAll(rows, col) == {r \in 2 .. Len(rows) : AmountIn(rows[r], col) # NoAmount}

Details(rows, col) == {r \in 2 .. Len(rows) :
    ~IsTotal(rows[r]) /\ AmountIn(rows[r], col) # NoAmount}

DetailTotal(rows, col) == MapThenSumSet(LAMBDA r : AmountIn(rows[r], col), Details(rows, col))

\* Rows a person has to look at.  A detail row too short to have the column
\* is passed over; rows of a PDF never are.
Unparsed(rows, col) == {r \in 2 .. Len(rows) :
    /\ AmountIn(rows[r], col) = NoAmount
    /\ IsTotal(rows[r]) \/ (col \in DOMAIN rows[r] /\ ~rows[r][col].blank)}

\* max_ratio: per cent of the total a category may take.
OverRatio(rows, col, max_ratio) ==
    LET total == TotalOf(rows, col)
    IN  IF total = NoAmount THEN {}
        ELSE {over \in (DOMAIN max_ratio) \X (DOMAIN rows) :
                 LET category == over[1]
                     row == rows[over[2]]
                 IN  /\ total > 0
                     /\ category \in RowWords(row)
                     /\ AmountIn(row, col) # NoAmount
                     /\ 100 * AmountIn(row, col) > max_ratio[category] * total}

Unbalanced(rows, col) ==
    LET total == TotalOf(rows, col)
        difference == DetailTotal(rows, col) - total
    IN  total # NoAmount /\ (difference > 1 \/ difference < -1)

BudgetRows(rows, max_ratio) ==
    LET col == FindAmountColumn(rows)
    IN  IF col = 0 THEN {Fault("no_amounts", 0)}
        ELSE {Fault("unbalanced", col) : x \in {y \in {col} : Unbalanced(rows, y)}} \cup
             {Fault("ratio", p) : p \in OverRatio(rows, col, max_ratio)} \cup
             {Manual("unparsed", rs) : rs \in {Unparsed(rows, col)} \ {{}}}

BudgetCheck(tables, max_ratio) ==
    LET t == FindBudgetTable(tables)
        degraded == {d \in DOMAIN tables : tables[d].warnings # {}}
    IN  IF t = 0
        THEN IF degraded # {} THEN {Manual("tables_unread", degraded)}
             ELSE {Fault("no_budget", 0)}
        ELSE {Manual("degraded", w) : w \in {tables[t].warnings} \ {{}}} \cup
             (IF Len(tables[t].rows) < 2 THEN {} ELSE BudgetRows(tables[t].rows, max_ratio))

-----------------------------------------------------------------------------
\* date_check.  A block has the dates in it, in order, as <<year, month>>,
\* and the words around them: "term" (two of the keywords, whose neighbours
\* are searched too), "period" (the other two) or "other".
NotAfter(d, e) == d[1] < e[1] \/ (d[1] = e[1] /\ d[2] <= e[2])

\* Faulty variant: dates are taken from anywhere.
NearAll(blocks, i) == DOMAIN blocks

Near(blocks, i) == {j \in DOMAIN blocks : i - 2 <= j /\ j <= i + 2}
PeriodDates(blocks) ==
    LET named == {i \in DOMAIN blocks : blocks[i].about \in {"term", "period"}}
        around == UNION {Near(blocks, i) : i \in {j \in DOMAIN blocks : blocks[j].about = "term"}}
    IN  UNION {Range(blocks[i].dates) : i \in named \cup around}

\* How many dates the search returns, counting repetitions: a block named and
\* near is read twice.
DatesRead(blocks) ==
    LET times(i) == Cardinality({j \in DOMAIN blocks :
                        blocks[j].about = "term" /\ i \in Near(blocks, j)})
                    + (IF blocks[i].about \in {"term", "period"} THEN 1 ELSE 0)
    IN  MapThenSumSet(LAMBDA i : times(i) * Len(blocks[i].dates), DOMAIN blocks)

ActualMonths(dates) ==
    LET first == CHOOSE d \in dates : \A e \in dates : NotAfter(d, e)
        final == CHOOSE d \in dates : \A e \in dates : NotAfter(e, d)
    IN  (final[1] - first[1]) * 12 + (final[2] - first[2]) + 1

DateCheck(blocks, expected_months) ==
    LET backwards == {i \in DOMAIN blocks :
            /\ blocks[i].about \in {"term", "period"}
            /\ Len(blocks[i].dates) >= 2
            /\ NotAfter(blocks[i].dates[2], blocks[i].dates[1])}
        dates == PeriodDates(blocks)
    IN  {Fault("backwards", i) : i \in {j \in backwards : j = Min(backwards)}} \cup
        {Fault("months", m) : m \in {ActualMonths(dates) :
            x \in {y \in {DatesRead(blocks)} : expected_months > 0 /\ y >= 2}} \ {expected_months}}
=============================================================================
