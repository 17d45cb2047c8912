----------------------------- MODULE MCGossipNet -----------------------------
(* Small instances of GossipNet for TLC. *)
EXTENDS GossipNet

CONSTANTS n1, n2, n3

Three == {n1, n2, n3}

\* Who types how many lines.
TwoThenOne == [n \in Three |-> CASE n = n1 -> 2 [] n = n2 -> 1 [] n = n3 -> 0]

\* Who may dial whom: n1 and n3 dial n2, or n2 relays from n1 to n3; n2 and n3
\* may dial each other, which closes a ring.
Roles == [n \in Three |-> CASE n = n1 -> {n2} [] n = n2 -> {n3} [] n = n3 -> {n2}]

\* Two processes dial the third one, as in test3.sh.
Hub == [n \in Three |-> IF n = n3 THEN {} ELSE {n3}]

=============================================================================
