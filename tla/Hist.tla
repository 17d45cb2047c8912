--------------------------------- MODULE Hist ----------------------------------
(******************************************************************************)
(* hist (Pointers and Arrays/hist.c): reads a table, adds up the cells of     *)
(* each row and draws how often each sum occurs.  One action is one line.     *)
(*                                                                            *)
(* The buffer cleaned is never emptied: what a longer row has left in it      *)
(* stays behind the end of a shorter one, and before the first row it holds   *)
(* what was on the stack.  Where the code reads or writes outside its arrays, *)
(* status becomes "undefined" and the model stops.                            *)
(******************************************************************************)
EXTENDS Integers, FiniteSets, SequencesExt

CONSTANTS
    ENTRIES,        \* the size of in and of cleaned
    HIST_RANGE,     \* the size of hist
    Garbage         \* what cleaned may be filled with at the start

ASSUME HistAssumption ==
    ENTRIES \in Nat \ {0, 1} /\ HIST_RANGE \in Nat /\ Garbage \subseteq 0..127

\* Mutant: one counter more below 0.
OFFSETMore == 91

OFFSET == 90
MIN_RANGE == -90
MAX_RANGE == 990

COMMA == 44
PLUS == 43
MINUS == 45
Newline == 10
Quotes == {34, 39}
isspace(c) == c \in 9..13 \cup {32}
isdigit(c) == c \in 48..57

VARIABLES
    input, eof,     \* what standard input holds, and whether more may come
    cols,           \* 0 before the first line
    cleaned,
    hist,           \* a bag of sums
    min, max,
    status,         \* "reading", the exit status, or "undefined"
    chart,          \* what print_hist draws: the height of each bar
    rows            \* history: the rows counted, with their sums

histVars == <<input, eof, cols, cleaned, hist, min, max, status, chart, rows>>

HistInit ==
    /\ input = <<>> /\ eof = FALSE
    /\ cols = 0
    /\ \E g \in Garbage : cleaned = [i \in 0..ENTRIES - 1 |-> g]
    /\ hist = EmptyBag
    /\ min = MAX_RANGE /\ max = MIN_RANGE
    /\ status = "reading"
    /\ chart = <<>>
    /\ rows = <<>>

-----------------------------------------------------------------------------
(* Strings.                                                                *)

\* fgets gives the first n characters: a line, or what of it fits.
Fgets(n) ==
    /\ status = "reading"
    /\ n \in 1..Len(input) /\ n < ENTRIES
    /\ \A i \in 1..n - 1 : input[i] # Newline
    /\ input[n] = Newline \/ n = ENTRIES - 1 \/ (eof /\ n = Len(input))

num_cols(str) == Len(SelectSeq(str, LAMBDA c : c = COMMA)) + 1

Visible(str) == SelectSeq(str, LAMBDA c : ~isspace(c))

\* Mutant: nothing ends the last cell.
clean_strUnended(str) ==
    LET v == Visible(str)
    IN  [i \in 0..ENTRIES - 1 |->
            IF i < Len(v) THEN (IF v[i + 1] = COMMA THEN 0 ELSE v[i + 1]) ELSE cleaned[i]]

\* cleaned afterwards: the cells, each ended by 0, and another 0.
clean_str(str) ==
    LET v == Visible(str)
    IN  [i \in 0..ENTRIES - 1 |->
            CASE i < Len(v) -> IF v[i + 1] = COMMA THEN 0 ELSE v[i + 1]
              [] i \in Len(v)..Len(v) + 1 -> 0
              [] OTHER -> cleaned[i]]

\* The first of some places from p on; Outside if there is none.
Outside == ENTRIES + 1
From(p, places) == Min({q \in places : q >= p} \cup {Outside})

\* One turn of str_to_arr: strtol where the next cell seems to begin, and where
\* the turn after it starts.
Cell(str, p) ==
    LET nuls == {q \in DOMAIN str : str[q] = 0}
        digits == {q \in DOMAIN str : isdigit(str[q])}
        b == From(p, DOMAIN str \ nuls)
        d == IF b # Outside /\ str[b] \in {PLUS, MINUS} THEN b + 1 ELSE b
        e == From(d, DOMAIN str \ digits)
        n == FoldLeft(LAMBDA k, c : 10 * k + (c - 48), 0, [i \in 1..e - d |-> str[d + i - 1]])
    IN  CASE Outside \in {b, e}        -> [value |-> 0, end |-> Outside]
          [] Outside # e /\ e = d      -> [value |-> 0, end |-> From(b, nuls)]
          [] Outside # e /\ e > d      -> [value |-> IF str[b] = MINUS THEN -n ELSE n,
                                           end |-> IF e \in nuls THEN e ELSE e + 1]

\* Mutant: one turn too many.
SumPast(str) ==
    LET f[i \in 0..cols + 1] ==
            IF i = 0 THEN [value |-> 0, end |-> 0]
            ELSE LET c == Cell(str, f[i - 1].end)
                 IN  [c EXCEPT !.value = @ + f[i - 1].value]
    IN  f[cols + 1]

\* str_to_arr and sum_arr.
Sum(str) ==
    LET f[i \in 0..cols] ==
            IF i = 0 THEN [value |-> 0, end |-> 0]
            ELSE LET c == Cell(str, f[i - 1].end)
                 IN  [c EXCEPT !.value = @ + f[i - 1].value]
    IN  f[cols]

-----------------------------------------------------------------------------
(* main.                                                                   *)

Stop(s) == status' = s /\ UNCHANGED <<cleaned, hist, min, max, rows>>

Header ==
    /\ cols = 0
    /\ \E n \in 1..Len(input) :
          /\ Fgets(n)
          /\ cols' = num_cols(SubSeq(input, 1, n))
          /\ input' = SubSeq(input, n + 1, Len(input))
    /\ UNCHANGED <<eof, cleaned, hist, min, max, status, chart, rows>>

\* A row whose cells str_to_arr finds inside cleaned and whose sum is inside hist.
CountSum(in, s) ==
    /\ s.end # Outside /\ s.value + OFFSET \in 0..HIST_RANGE - 1
    /\ cleaned' = clean_str(in)
    /\ hist' = hist (+) SetToBag({s.value})
    /\ min' = IF s.value <= min THEN s.value ELSE min
    /\ max' = IF s.value >= max THEN s.value ELSE max
    /\ rows' = Append(rows, [text |-> in, sum |-> s.value])
    /\ UNCHANGED status

Row ==
    /\ cols > 0
    /\ \E n \in 1..Len(input) :
          /\ Fgets(n)
          /\ input' = SubSeq(input, n + 1, Len(input))
          /\ LET in == SubSeq(input, 1, n)
                 s == Sum(clean_str(in))
                 quoted == \E i \in 1..n : in[i] \in Quotes
                 fits == Len(Visible(in)) + 1 < ENTRIES
             IN  \/ quoted /\ Stop("2")
                 \/ ~quoted /\ ~fits /\ Stop("undefined")
                 \/ ~quoted /\ fits /\ num_cols(in) # cols /\ Stop("1")
                 \/ /\ ~quoted /\ fits /\ num_cols(in) = cols
                    /\ \/ CountSum(in, s)
                       \/ (s.end = Outside \/ s.value + OFFSET \notin 0..HIST_RANGE - 1)
                             /\ Stop("undefined")
    /\ UNCHANGED <<eof, cols, chart>>

\* Mutant: up is down.
round_upDown(n) == 10 * (n \div 10)

\* C's division drops the fraction; what they add makes it go down and up.
round_down(n) == 10 * (n \div 10)
round_up(n) == -(10 * ((-n) \div 10))
\* Each bar stands for an even sum and the one before it.
Bars ==
    LET lo == round_down(min)
        num_bins == (round_up(max) - lo) \div 2 + 1
        Count(s) == IF s \in MIN_RANGE..MAX_RANGE THEN CopiesIn(s, hist) ELSE 0
    IN  [r \in {lo + 2 * i : i \in 0..num_bins - 1} |-> Count(r - 1) + Count(r)]

\* print_hist.  Without a row there are fewer than no bins, and line[width] is far
\* below line; without a first line num_cols reads what in never held.
End ==
    /\ status = "reading" /\ eof /\ input = <<>>
    /\ \/ rows = <<>> /\ status' = "undefined" /\ UNCHANGED chart
       \/ rows # <<>> /\ status' = "0" /\ chart' = Bars
    /\ UNCHANGED <<input, eof, cols, cleaned, hist, min, max, rows>>

Reads == Header \/ Row \/ End

=============================================================================
