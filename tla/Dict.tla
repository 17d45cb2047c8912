--------------------------------- MODULE Dict ---------------------------------
(***************************************************************************)
(* The dictionary of Memory Management/dict.c and Files/dict.c: an array of *)
(* lists, which grows when it holds as many nodes as it has lists.  A list  *)
(* is the sequence of its nodes; one action is one call.                    *)
(*                                                                         *)
(* Keys are sequences of ASCII codes.  For these dcthash never overflows    *)
(* (eight characters are less than 2^43), so that it may be taken modulo    *)
(* the capacity in every step.                                              *)
(***************************************************************************)
EXTENDS Integers, Sequences, FiniteSets, SequencesExt

CONSTANTS
    Key, Val, NULL,
    Given           \* the values that a caller inserts

ASSUME DictAssumption ==
    /\ Key \subseteq Seq(1..127)
    /\ Given \subseteq Val
    /\ NULL \notin Val

VARIABLES
    cap, arr, size,     \* the fields of Dict
    last                \* the last call and what it returned

vars == <<cap, arr, size, last>>

Node == [key : Key, val : Val]

TypeOK ==
    /\ cap \in Nat \ {0}
    /\ arr \in [0..cap - 1 -> Seq(Node)]
    /\ size \in Nat
    /\ last[1] \in {"create", "get", "insert", "remove", "keys"}

\* dctcreate.
Init ==
    /\ cap = 5
    /\ arr = [i \in 0..4 |-> <<>>]
    /\ size = 0
    /\ last = <<"create">>

\* dcthash(key) % c: the first eight characters count.
Index(key, c) ==
    LET len == IF Len(key) < 8 THEN Len(key) ELSE 8
        code[i \in 0..len] == IF i = 0 THEN 0 ELSE (key[i] + 31 * code[i - 1]) % c
    IN code[len]

\* The places of key in a list: one, or none.
At(list, key) == {i \in DOMAIN list : list[i].key = key}
FirstAt(list, key) == CHOOSE i \in At(list, key) : \A j \in At(list, key) : i <= j

-----------------------------------------------------------------------------

dctget(key) ==
    LET list == arr[Index(key, cap)] IN
    /\ last' = <<"get", key,
                  IF At(list, key) = {} THEN NULL ELSE list[FirstAt(list, key)].val>>
    /\ UNCHANGED <<cap, arr, size>>

Lists == [i \in 1..cap |-> arr[i - 1]]

\* Mutant: nodes stay in the list of the same number.
RehashInPlace(c) == [h \in 0..c - 1 |-> IF h < cap THEN arr[h] ELSE <<>>]

\* The lists of an array of c: the nodes are visited in order, and each is put
\* at the head of its new list.
Rehash(c) ==
    LET nodes == FlattenSeq(Lists)
        moved[k \in 0..Len(nodes)] ==
            IF k = 0 THEN [h \in 0..c - 1 |-> <<>>]
            ELSE [moved[k - 1] EXCEPT ![Index(nodes[k].key, c)] = <<nodes[k]>> \o @]
    IN  moved[Len(nodes)]

Full == cap <= size

\* Mutant: the value of an existing key stays.
InsertKeepsOld(key, val) ==
    LET c == IF Full THEN 2 * cap + 1 ELSE cap
        a == IF Full THEN Rehash(c) ELSE arr
        i == Index(key, c)
    IN
    /\ cap' = c
    /\ IF At(a[i], key) # {}
       THEN arr' = a /\ UNCHANGED size
       ELSE /\ arr' = [a EXCEPT ![i] = <<[key |-> key, val |-> val]>> \o @]
            /\ size' = size + 1
    /\ last' = <<"insert", key, val>>

dctinsert(key, val) ==
    LET c == IF Full THEN 2 * cap + 1 ELSE cap
        a == IF Full THEN Rehash(c) ELSE arr
        i == Index(key, c)
    IN
    /\ cap' = c
    /\ IF At(a[i], key) # {}
       THEN /\ arr' = [a EXCEPT ![i][FirstAt(a[i], key)].val = val]
            /\ UNCHANGED size
       ELSE /\ arr' = [a EXCEPT ![i] = <<[key |-> key, val |-> val]>> \o @]
            /\ size' = size + 1
    /\ last' = <<"insert", key, val>>

dctremove(key) ==
    LET i == Index(key, cap) IN
    /\ IF At(arr[i], key) = {}
       THEN last' = <<"remove", key, NULL>> /\ UNCHANGED <<arr, size>>
       ELSE /\ last' = <<"remove", key, arr[i][FirstAt(arr[i], key)].val>>
            /\ arr' = [arr EXCEPT ![i] = RemoveAt(@, FirstAt(@, key))]
            /\ size' = size - 1
    /\ UNCHANGED cap

\* dctkeys, which fills an array of size entries; no array if size is 0.
dctkeys ==
    LET nodes == FlattenSeq(Lists) IN
    /\ last' = <<"keys", IF size = 0 THEN <<>> ELSE [i \in DOMAIN nodes |-> nodes[i].key]>>
    /\ UNCHANGED <<cap, arr, size>>

Next == \/ \E key \in Key : dctget(key) \/ dctremove(key) \/ \E val \in Given : dctinsert(key, val)
        \/ dctkeys

Spec == Init /\ [][Next]_vars

-----------------------------------------------------------------------------
(* Properties.                                                             *)

Nodes == UNION {{<<i, j>> : j \in DOMAIN arr[i]} : i \in DOMAIN arr}
NodeAt(p) == arr[p[1]][p[2]]

\* The fields have their types, every node is in the list its key hashes to, no key is in two nodes, size
\* counts the nodes (dctkeys allocates that many entries and fills one for each
\* node), and there are no more nodes than lists.
WellFormed ==
    /\ TypeOK
    /\ \A p \in Nodes : Index(NodeAt(p).key, cap) = p[1]
    /\ \A p, q \in Nodes : NodeAt(p).key = NodeAt(q).key => p = q
    /\ size = Cardinality(Nodes)
    /\ size <= cap

\* The dictionary is a finite map: every call returns what Map's does and has its
\* effect, however long the lists are and whenever the array grows.
contents ==
    LET nodes == UNION {Range(arr[i]) : i \in DOMAIN arr}
    IN  [k \in {n.key : n \in nodes} |-> (CHOOSE n \in nodes : n.key = k).val]

M == INSTANCE Map WITH map <- contents

IsMap == M!Spec

=============================================================================
