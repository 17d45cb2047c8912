--------------------------------- MODULE MCLzw ---------------------------------
(* Small instances of Lzw for TLC: the base of a digit is 2. *)
EXTENDS Lzw

\* Every file of up to seven bytes: 0 and two characters; and those of up to four
\* in which there may be a byte without a code.
ShortTexts == UNION {[1..n -> 0..2] : n \in 0..7} \cup UNION {[1..n -> 0..3] : n \in 0..4}

\* One character over and over: the string of k characters has the k-th code, and
\* the seventh is one too many (D = 2: eight codes, three of them characters').
Ones == {[i \in 1..28 |-> 1]}

\* Those and what leads up to it: with 21 characters the last code that fits has
\* been handed out, with 22 one more, and with 28 it is written.
Texts == ShortTexts \cup {[i \in 1..n |-> 1] : n \in 8..28}

=============================================================================
