---------------------------- MODULE MCGossipLoop ----------------------------
(* Small instances of GossipLoop for TLC. *)
EXTENDS GossipLoop

CONSTANTS me, c1, c2

Three == {me, c1, c2}

\* Two peers, which may leave; one of them types.  Each of them dials or is
\* dialled, and c2 may do it before me dials c1.
Peers == [pieces |-> [n \in Three |-> IF n = c1 THEN 1 ELSE 0],
          others |-> {c1, c2},
          dials |-> [n \in Three |-> CASE n = me -> {c1} [] n = c1 -> {} [] n = c2 -> {me}],
          faults |-> {"exit"}, timeout |-> FALSE]

\* As before, and only the others dial.
Dialled == [Peers EXCEPT !.dials = [n \in Three |-> IF n = me THEN {} ELSE {me}]]

\* Two processes that may dial each other, in any order.
Mutual == [Peers EXCEPT !.others = {c1},
                        !.dials = [n \in Three |-> IF n = me THEN {c1} ELSE {me}]]

\* One peer, a line of two reads here and a piece there, every fault and the timeout.
Halves == [pieces |-> [n \in Three |-> CASE n = me -> LineLen [] n = c1 -> 1 [] n = c2 -> 0],
           others |-> {c1},
           dials |-> [n \in Three |-> IF n = me THEN {c1} ELSE {}],
           faults |-> {"exit", "cut"}, timeout |-> TRUE]
HalvesDialled == [Halves EXCEPT !.dials = [n \in Three |-> IF n = me THEN {} ELSE {me}]]

\* The process dials itself.
Itself == [Halves EXCEPT !.others = {}, !.dials = [n \in Three |-> {me}]]

PeersAndHalves == {Peers, Mutual, Halves, HalvesDialled, Itself}
OnlyDialled == {Dialled}

=============================================================================
