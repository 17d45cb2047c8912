------------------------------- MODULE MCFsort -------------------------------
(* A small instance of Fsort for TLC. *)
EXTENDS Fsort

\* 5 = 2 + 3 and 3 = 1 + 2: odd parts give the larger half to the child, and a
\* child of the child has a child.  Falling, with equal elements, and shuffled.
Arrays == {[i \in 0..4 |-> s[i + 1]] :
              s \in {<<5, 4, 3, 2, 1>>, <<2, 1, 2, 1, 2>>, <<3, 1, 2, 2, 1>>, <<1, 5, 2, 4, 3>>}}

=============================================================================
