-------------------------------- MODULE MCDict --------------------------------
(* A small instance of Freq, and of Dict in it, for TLC. *)
EXTENDS Freq

\* "a" and "f" are in the same list of 5, "a" and "l" of 11; the last two have
\* the same first eight characters, so they always meet.
Long(c) == [i \in 1..9 |-> IF i = 9 THEN c ELSE 97]
SixKeys == {<<97>>, <<102>>, <<108>>, <<97, 98>>, Long(98), Long(99)}

\* The six as words, "A", "a-b" and "1".
Tokens == SixKeys \cup {<<65>>, <<97, 45, 98>>, <<49>>}

\* Files of up to three tokens, and five words, which fill the lists, and three more.
Five == <<<<97>>, <<108>>, <<97, 98>>, Long(98), Long(99)>>
ShortAndLong == UNION {[1..n -> Tokens] : n \in 1..3} \cup {Five \o t : t \in [1..3 -> Tokens]}

=============================================================================
