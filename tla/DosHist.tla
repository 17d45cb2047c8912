-------------------------------- MODULE DosHist --------------------------------
(******************************************************************************)
(* tounix | hist: a table whose lines may end as DOS lines do is converted    *)
(* and read while it is still being written.  todos reads the same table.     *)
(******************************************************************************)
EXTENDS Chars, Hist

CONSTANTS
    Lines,          \* what the lines of the table may be
    Dflts,          \* what the conversions may be told to use for other characters
    MaxLines        \* bound on the lines of a table

VARIABLES
    table,          \* history: the lines sent so far
    dflt,
    cr,             \* the static variables of dtou and of utod
    unix, dos       \* history: what tounix and todos have written

vars == <<histVars, table, dflt, cr, unix, dos>>

\* A line has cells, each with the text it is written as and, if hist is to make
\* sense of it, the number that stands for: 0 for a word.
Text(line) ==
    FlattenSeq([i \in 1..Len(line.cells) |->
                   (IF i = 1 THEN <<>> ELSE <<COMMA>>) \o line.cells[i].text]) \o line.end

Total(line) == FoldLeft(LAMBDA n, c : n + c.value, 0, line.cells)

ASSUME TableAssumption ==
    /\ Lines \subseteq [cells : Seq([text : Seq(0..127), value : Int, regular : BOOLEAN]),
                        end : Seq(0..127)]
    /\ Dflts \subseteq 0..127 /\ MaxLines \in Nat

TypeOK ==
    /\ input \in Seq(1..127) /\ eof \in BOOLEAN
    /\ cols \in Nat
    /\ cleaned \in [0..ENTRIES - 1 -> 0..127]
    /\ IsABag(hist) /\ DOMAIN hist \subseteq MIN_RANGE..HIST_RANGE - 1 - OFFSET
    /\ min \in MIN_RANGE..MAX_RANGE /\ max \in MIN_RANGE..HIST_RANGE - 1 - OFFSET
    /\ status \in {"reading", "0", "1", "2", "undefined"}
    /\ rows \in Seq([text : Seq(1..127), sum : DOMAIN hist])
    /\ table \in Seq(Lines) /\ Len(table) <= MaxLines
    /\ dflt \in Dflts
    /\ cr \in [{"dtou", "utod"} -> BOOLEAN]

Init ==
    /\ HistInit
    /\ table = <<>>
    /\ dflt \in Dflts
    /\ cr = [f \in {"dtou", "utod"} |-> FALSE]
    /\ unix = <<>> /\ dos = <<>>

\* tounix and todos convert one more line; who writes into a pipe that hist has left
\* is killed.
Send(line) ==
    LET u == tounix(Text(line), cr["dtou"], dflt)
        d == todos(Text(line), cr["utod"], dflt)
    IN  /\ ~eof /\ status = "reading" /\ Len(table) < MaxLines
        /\ table' = Append(table, line)
        /\ cr' = [dtou |-> u.cr, utod |-> d.cr]
        /\ unix' = unix \o u.str /\ dos' = dos \o d.str
        /\ input' = input \o u.str
        /\ UNCHANGED <<eof, cols, cleaned, hist, min, max, status, chart, rows, dflt>>

Close ==
    /\ ~eof
    /\ eof' = TRUE
    /\ UNCHANGED <<input, cols, cleaned, hist, min, max, status, chart, rows>>
    /\ UNCHANGED <<table, dflt, cr, unix, dos>>

Next ==
    \/ \E line \in Lines : Send(line)
    \/ Close
    \/ Reads /\ UNCHANGED <<table, dflt, cr, unix, dos>>

Spec == Init /\ [][Next]_vars

-----------------------------------------------------------------------------
(* Properties.                                                             *)

Regular(line) ==
    /\ \A i \in 1..Len(line.cells) : line.cells[i].regular
    /\ MIN_RANGE <= Total(line) /\ Total(line) < HIST_RANGE - OFFSET
    /\ line.end # <<>> /\ Last(line.end) = LF /\ Len(Text(line)) < ENTRIES - 1

\* Wherever the text is cut into lines and whatever was held back between them,
\* tounix and todos convert it as a whole: each end of line, and only that,
\* becomes the one of the other system.
Converted ==
    LET text == FlattenSeq([i \in 1..Len(table) |-> Text(table[i])])
    IN  unix = UnixText(text, dflt) /\ dos = DosText(text, dflt)

\* A row whose cells are all regular is counted at the sum of its cells, whatever
\* earlier and longer rows left in cleaned and however its line ended.
RowSums ==
    \A i \in 1..Len(rows) : \A line \in Lines :
       Regular(line) /\ rows[i].text = UnixText(Text(line), dflt) => rows[i].sum = Total(line)

\* The chart accounts for the rows: each sum up to 990 has a bar, and the height of
\* a bar is the number of rows with one of its two sums.
EveryRowShown ==
    status = "0" =>
        /\ \A i \in 1..Len(rows) : rows[i].sum <= MAX_RANGE =>
              \E r \in DOMAIN chart : rows[i].sum \in {r - 1, r}
        /\ \A r \in DOMAIN chart :
              chart[r] = Cardinality({i \in 1..Len(rows) :
                                         rows[i].sum \in {r - 1, r} /\ rows[i].sum <= MAX_RANGE})

\* hist reads and writes inside its arrays, but for a table without a row, a cell
\* that is empty or has text behind its number, a sum it has no counter for, and a
\* line that does not fit.
StaysInside == status = "undefined" => Len(table) <= 1 \/ \E i \in 1..Len(table) : ~Regular(table[i])

=============================================================================
