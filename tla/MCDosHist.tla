------------------------------- MODULE MCDosHist -------------------------------
(* A small instance of DosHist for TLC: cells, lines and tables. *)
EXTENDS DosHist

Number(text, value) == [text |-> text, value |-> value, regular |-> TRUE]
Odd(text) == [text |-> text, value |-> 0, regular |-> FALSE]

One == Number(<<32, 49>>, 1)
MinusTwo == Number(<<45, 50>>, -2)
Word == Number(<<120>>, 0)
Weight == Odd(<<51, 107, 103>>)
Empty == Odd(<<>>)

\* Sums at and past the limits, words, a number with one letter behind it.
Cells == {One, MinusTwo, Word, Weight, Empty,
          Number(<<45, 57, 48>>, -90), Number(<<45, 57, 49>>, -91),
          Number(<<57, 57, 48>>, 990), Number(<<57, 57, 49>>, 991), Number(<<49, 50, 109>>, 12)}

Line(cells, end) == [cells |-> cells, end |-> end]

Dos == <<CR, LF>>
Tables ==
    {Line(<<c>>, Dos) : c \in Cells}
      \cup {Line(<<c, d>>, Dos) : c, d \in {One, Weight, Empty}}
      \cup {Line(<<One>>, e) : e \in {<<LF>>, <<CR, CR, LF>>, <<CR, NUL, LF>>, <<CR>>}}
      \cup {Line(<<Odd(<<34>>)>>, Dos), Line(<<Odd([i \in 1..7 |-> 120])>>, Dos)}

=============================================================================
