--------------------------------- MODULE Map ---------------------------------
(******************************************************************************)
(* What a dictionary promises (Memory Management/dict.h and the comments of   *)
(* dict.c): a finite map from keys to values, which are never NULL. dctkeys   *)
(* returns each key once, in any order, or no array if there is none.         *)
(******************************************************************************)
EXTENDS Naturals, Sequences, Functions

CONSTANTS Key, Val, NULL

VARIABLES
    map,
    last    \* the last call and what it returned

Init == map = [k \in {} |-> NULL] /\ last = <<"create">>

Lookup(k) == IF k \in DOMAIN map THEN map[k] ELSE NULL

\* The call of this step.
Called(op, k) == last'[1] = op /\ last'[2] = k

Get(k) == Called("get", k) /\ last'[3] = Lookup(k) /\ UNCHANGED map

Insert(k, v) ==
    /\ Called("insert", k) /\ last'[3] = v
    /\ map' = [x \in DOMAIN map \cup {k} |-> IF x = k THEN v ELSE map[x]]

Remove(k) ==
    /\ Called("remove", k) /\ last'[3] = Lookup(k)
    /\ map' = Restrict(map, DOMAIN map \ {k})

Keys ==
    /\ last'[1] = "keys"
    /\ IsInjective(last'[2]) /\ Range(last'[2]) = DOMAIN map
    /\ UNCHANGED map

Next == \/ \E k \in Key : Get(k) \/ Remove(k) \/ \E v \in Val : Insert(k, v)
        \/ Keys

Spec == Init /\ [][Next]_<<map, last>>

=============================================================================
