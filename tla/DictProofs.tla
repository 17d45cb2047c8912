------------------------------ MODULE DictProofs ------------------------------
(***************************************************************************)
(* Theorems about the dictionary, for every set of keys and values and for  *)
(* every sequence of calls.                                                 *)
(***************************************************************************)
EXTENDS Freq, Measures, SequenceTheorems

-----------------------------------------------------------------------------
(* The hash.                                                               *)

\* Length and elements of a sequence, in the form the proofs use.
LEMMA SeqFacts ==
    ASSUME NEW A, NEW s \in Seq(A)
    PROVE  Len(s) \in Nat /\ DOMAIN s = 1..Len(s) /\ \A i \in 1..Len(s) : s[i] \in A
  OBVIOUS

\* A key's index is that of a list.
LEMMA IndexRange ==
    ASSUME NEW key \in Key, NEW c \in Nat \ {0}
    PROVE  Index(key, c) \in 0..c - 1
  <1> DEFINE len == IF Len(key) < 8 THEN Len(key) ELSE 8
             D == 0..len
             V == 0..c - 1
             Body(g) == [i \in D |-> IF i = 0 THEN 0 ELSE (key[i] + 31 * g[i - 1]) % c]
             S == [i \in 1..len |-> [v \in V |-> (key[i] + 31 * v) % c]]
             code == CHOOSE g : g = Body(g)
  <1>1. key \in Seq(1..127)
    BY DictAssumption
  <1>2. Len(key) \in Nat /\ \A i \in 1..Len(key) : key[i] \in 1..127
    BY <1>1, SeqFacts
  <1>3. len \in Nat /\ len <= Len(key)
    BY <1>2
  <1>4. ASSUME NEW i \in 1..len PROVE key[i] \in Nat
    <2>1. i \in 1..Len(key)
      BY <1>2, <1>3
    <2>2. key[i] \in 1..127
      BY <2>1, <1>2
    <2> HIDE DEF S, code, Body, D, V, len
    <2> QED
      BY <2>2
  <1> HIDE DEF len
  <1>5. \A x \in Nat : x % c \in V
    OBVIOUS
  <1>6. 0 \in V /\ \A v \in V : v \in Nat
    OBVIOUS
  <1> HIDE DEF V
  <1>7. ASSUME NEW i \in 1..len, NEW v \in V PROVE (key[i] + 31 * v) % c \in V
    <2>1. key[i] \in Nat /\ v \in Nat
      BY <1>4, <1>6
    <2>2. key[i] + 31 * v \in Nat
      BY <2>1
    <2> QED
      BY <2>2, <1>5
  <1>8. S \in [1..len -> [V -> V]]
    BY <1>7
  <1>9. \A i \in D : i # 0 => i \in 1..len /\ i - 1 \in D
    BY <1>3
  <1>10. \E g : g = Body(g)
    <2> HIDE DEF S
    <2>1. PICK g \in [D -> V] : g[0] = 0 /\ \A i \in 1..len : g[i] = S[i][g[i - 1]]
      <3>1. \E g \in [0..len -> V] : Iterates(g, len, 0, S)
        <4> HIDE DEF Body, code, D
        <4> QED
          BY <1>3, <1>6, <1>8, Iterate
      <3> QED
        BY <3>1 DEF Iterates
    <2>2. ASSUME NEW i \in D PROVE g[i] = Body(g)[i]
      <3>1. CASE i = 0
        BY <2>1, <3>1
      <3>2. CASE i # 0
        <4>1. i \in 1..len /\ g[i - 1] \in V
          BY <1>9, <3>2
        <4> HIDE DEF D
        <4>2. S[i][g[i - 1]] = (key[i] + 31 * g[i - 1]) % c
          BY <4>1 DEF S
        <4>3. g[i] = S[i][g[i - 1]]
          BY <2>1, <4>1
        <4> QED
          BY <3>2, <4>2, <4>3
      <3> QED
        BY <3>1, <3>2
    <2>3. g = Body(g)
      <3> HIDE DEF D
      <3>1. DOMAIN g = D
        BY <2>1
      <3> QED
        BY <2>1, <2>2, <3>1
    <2> QED
      BY <2>3
  <1>11. code = Body(code)
    <2> HIDE DEF Body
    <2> QED
      BY <1>10, Zenon
  <1> HIDE DEF code
  <1>12. ASSUME NEW i \in D
         PROVE  code[i] = IF i = 0 THEN 0 ELSE (key[i] + 31 * code[i - 1]) % c
    <2> HIDE DEF D
    <2> QED
      BY <1>11, Zenon
  <1> DEFINE T == {i \in D : code[i] \in V}
  <1>13. 0 \in T
    <2>1. 0 \in D
      BY <1>3
    <2> QED
      BY <2>1, <1>12, <1>6
  <1>14. ASSUME NEW i \in 0..len, i \in T, i < len PROVE i + 1 \in T
    <2>1. i + 1 \in 1..len /\ i + 1 \in D /\ (i + 1) - 1 = i /\ i + 1 # 0
      BY <1>3, <1>14
    <2>2. code[i + 1] = (key[i + 1] + 31 * code[(i + 1) - 1]) % c
      <3> HIDE DEF D
      <3> QED
        BY <2>1, <1>12
    <2>3. code[i] \in V
      BY <1>14
    <2>4. code[i + 1] \in V
      BY <2>1, <2>2, <2>3, <1>7
    <2> QED
      BY <2>1, <2>4
  <1>15. \A i \in 0..len : i \in T
    <2> HIDE DEF T
    <2> QED
      BY <1>3, <1>13, <1>14, Climb
  <1>16. code[len] \in V
    <2>1. len \in 0..len
      BY <1>3
    <2> QED
      BY <2>1, <1>15
  <1>17. Index(key, c) = code[len]
    BY Zenon DEF Index, code, len, Body, D
  <1> QED
    BY <1>16, <1>17 DEF V

-----------------------------------------------------------------------------
(* A list, and the array of lists.                                         *)

\* No key is twice in a list.
Unique(list) == \A i, j \in DOMAIN list : list[i].key = list[j].key => i = j

\* The list is one that may stand at h.
Holds(list, c, h) ==
    /\ list \in Seq(Node)
    /\ Unique(list)
    /\ \A n \in Range(list) : Index(n.key, c) = h

Good(a, c) ==
    /\ a \in [0..c - 1 -> Seq(Node)]
    /\ \A h \in 0..c - 1 : Holds(a[h], c, h)

\* The nodes as a set, in which a key determines its node.
Recs(a) == UNION {Range(a[h]) : h \in DOMAIN a}
Functional(R) == \A m, n \in R : m.key = n.key => m = n

\* The first place of a key is one of its places.
LEMMA FirstPlace ==
    ASSUME NEW list \in Seq(Node), NEW key, At(list, key) # {}
    PROVE  FirstAt(list, key) \in DOMAIN list /\ list[FirstAt(list, key)].key = key
  <1> DEFINE T == At(list, key)
  <1>1. T \subseteq Nat
    BY SeqFacts DEF At
  <1>2. \A i \in T : i \in DOMAIN list /\ list[i].key = key
    BY DEF At
  <1>3. FirstAt(list, key) = CHOOSE i \in T : \A j \in T : i <= j
    BY DEF FirstAt
  <1> HIDE DEF T
  <1>4. \E i \in T : \A j \in T : i <= j
    BY <1>1, LeastNat DEF T
  <1>5. FirstAt(list, key) \in T
    BY <1>3, <1>4
  <1> QED
    BY <1>2, <1>5

\* A node put at the head of a list that has not its key.
LEMMA Pushed ==
    ASSUME NEW c, NEW h, NEW list, Holds(list, c, h), NEW n \in Node,
           Index(n.key, c) = h, At(list, n.key) = {}
    PROVE  /\ Holds(<<n>> \o list, c, h)
           /\ Range(<<n>> \o list) = Range(list) \cup {n}
  <1> DEFINE L == <<n>> \o list
  <1>1. list \in Seq(Node)
    BY DEF Holds
  <1>2. L \in Seq(Node) /\ Len(L) = Len(list) + 1 /\ DOMAIN L = 1..Len(list) + 1
    BY <1>1
  <1>3. Len(list) \in Nat /\ DOMAIN list = 1..Len(list)
    BY <1>1, SeqFacts
  <1>4. L[1] = n
    BY <1>1
  <1>5. ASSUME NEW i \in DOMAIN list PROVE i + 1 \in DOMAIN L /\ L[i + 1] = list[i]
    BY <1>1, <1>2, <1>3
  <1>6. ASSUME NEW i \in DOMAIN L, i # 1
        PROVE  i - 1 \in DOMAIN list /\ L[i] = list[i - 1] /\ i \in Int
    <2>1. i - 1 \in DOMAIN list /\ (i - 1) + 1 = i /\ i \in Int
      BY <1>2, <1>3, <1>6
    <2> QED
      BY <2>1, <1>5
  <1>7. \A i \in DOMAIN list : list[i].key # n.key
    BY DEF At
  <1> HIDE DEF L
  <1>8. Unique(L)
    <2> SUFFICES ASSUME NEW i \in DOMAIN L, NEW j \in DOMAIN L, L[i].key = L[j].key PROVE i = j
      BY DEF Unique
    <2>1. CASE i = 1 \/ j = 1
      BY <2>1, <1>4, <1>6, <1>7
    <2>2. CASE i # 1 /\ j # 1
      <3>1. i - 1 = j - 1
        BY <2>2, <1>6 DEF Holds, Unique
      <3> QED
        BY <2>2, <3>1, <1>6
    <2> QED
      BY <2>1, <2>2
  <1>9. Range(L) = Range(list) \cup {n}
    <2>1. 1 \in DOMAIN L
      BY <1>2, <1>3
    <2>2. ASSUME NEW x \in Range(L) PROVE x \in Range(list) \cup {n}
      BY <1>4, <1>6 DEF Range
    <2>3. ASSUME NEW x \in Range(list) PROVE x \in Range(L)
      BY <1>5 DEF Range
    <2>4. n \in Range(L)
      BY <1>4, <2>1 DEF Range
    <2> QED
      BY <2>2, <2>3, <2>4
  <1>10. Holds(L, c, h)
    BY <1>2, <1>8, <1>9 DEF Holds
  <1> QED
    BY <1>9, <1>10 DEF L

\* A node whose value is replaced.
LEMMA Overwritten ==
    ASSUME NEW c, NEW h, NEW list, Holds(list, c, h), NEW i \in DOMAIN list, NEW val \in Val
    PROVE  LET n == [key |-> list[i].key, val |-> val]
               L == [list EXCEPT ![i].val = val]
           IN  /\ Holds(L, c, h)
               /\ DOMAIN L = DOMAIN list
               /\ n \in Node
               /\ Range(L) = (Range(list) \ {list[i]}) \cup {n}
  <1> DEFINE n == [key |-> list[i].key, val |-> val]
             L == [list EXCEPT ![i].val = val]
  <1>1. list \in Seq(Node) /\ list[i] \in Node
    BY DEF Holds
  <1>2. n \in Node
    BY <1>1 DEF Node
  <1>3. L[i] = n
    BY <1>1 DEF Node
  <1>4. DOMAIN L = DOMAIN list /\ \A j \in DOMAIN list : j # i => L[j] = list[j]
    BY <1>1
  <1>5. L \in Seq(Node)
    <2>1. \A j \in 1..Len(list) : L[j] \in Node
      BY <1>1, <1>2, <1>3, <1>4
    <2>2. L = [j \in 1..Len(list) |-> L[j]]
      BY <1>1
    <2> HIDE DEF L, n
    <2> QED
      BY <2>1, <2>2, <1>1, SeqFacts
  <1>6. n.key = list[i].key
    OBVIOUS
  <1> HIDE DEF L, n
  <1>7. \A j \in DOMAIN list : L[j].key = list[j].key
    BY <1>3, <1>4, <1>6
  <1>8. Unique(L)
    BY <1>4, <1>7 DEF Unique, Holds
  <1>9. Range(L) = (Range(list) \ {list[i]}) \cup {n}
    <2>1. ASSUME NEW j \in DOMAIN list, j # i PROVE list[j] # list[i]
      BY <2>1 DEF Holds, Unique
    <2> QED
      BY <2>1, <1>3, <1>4 DEF Range
  <1>10. \A m \in Range(L) : Index(m.key, c) = h
    BY <1>6, <1>9 DEF Holds, Range
  <1> QED
    BY <1>2, <1>4, <1>5, <1>8, <1>9, <1>10 DEF Holds, L, n

\* A node taken out of a list.
LEMMA TakenOut ==
    ASSUME NEW c, NEW h, NEW list, Holds(list, c, h), NEW i \in DOMAIN list
    PROVE  /\ Holds(RemoveAt(list, i), c, h)
           /\ Range(RemoveAt(list, i)) = Range(list) \ {list[i]}
  <1> DEFINE L == RemoveAt(list, i)
  <1>1. list \in Seq(Node)
    BY DEF Holds
  <1>2. Len(list) \in Nat /\ DOMAIN list = 1..Len(list) /\ i \in 1..Len(list)
    BY <1>1, SeqFacts
  <1> DEFINE s == SubSeq(list, 1, i - 1)
             t == SubSeq(list, i + 1, Len(list))
  <1>3. s \in Seq(Node) /\ Len(s) = i - 1 /\ \A j \in 1..i - 1 : s[j] = list[j]
    <2>1. i - 1 \in Int /\ \A j \in 1..i - 1 : list[j] \in Node
      BY <1>1, <1>2, SeqFacts
    <2>2. /\ s \in Seq(Node)
          /\ Len(s) = IF 1 <= i - 1 THEN i - 1 - 1 + 1 ELSE 0
          /\ \A j \in 1..i - 1 - 1 + 1 : s[j] = list[1 + j - 1]
      BY <2>1, SubSeqProperties
    <2> HIDE DEF s
    <2>3. Len(s) = i - 1
      BY <2>2, <1>2
    <2>4. ASSUME NEW j \in 1..i - 1 PROVE s[j] = list[j]
      <3>1. j \in 1..i - 1 - 1 + 1 /\ 1 + j - 1 = j
        BY <1>2
      <3> QED
        BY <2>2, <3>1
    <2> QED
      BY <2>2, <2>3, <2>4
  <1>4. t \in Seq(Node) /\ Len(t) = Len(list) - i /\ \A j \in 1..Len(list) - i : t[j] = list[i + j]
    <2>1. i + 1 \in Int /\ Len(list) \in Int /\ \A j \in i + 1..Len(list) : list[j] \in Node
      BY <1>1, <1>2, SeqFacts
    <2>2. /\ t \in Seq(Node)
          /\ Len(t) = IF i + 1 <= Len(list) THEN Len(list) - (i + 1) + 1 ELSE 0
          /\ \A j \in 1..Len(list) - (i + 1) + 1 : t[j] = list[i + 1 + j - 1]
      BY <2>1, SubSeqProperties
    <2> HIDE DEF t
    <2>3. Len(t) = Len(list) - i
      BY <2>2, <1>2
    <2>4. ASSUME NEW j \in 1..Len(list) - i PROVE t[j] = list[i + j]
      <3>1. j \in 1..Len(list) - (i + 1) + 1 /\ i + 1 + j - 1 = i + j
        BY <1>2
      <3> QED
        BY <2>2, <3>1
    <2> QED
      BY <2>2, <2>3, <2>4
  <1>5. L = s \o t
    BY DEF RemoveAt
  <1> HIDE DEF L, s, t
  <1>6. L \in Seq(Node) /\ Len(L) = Len(s) + Len(t)
    BY <1>3, <1>4, <1>5, ConcatProperties
  <1>7. Len(L) = Len(list) - 1 /\ DOMAIN L = 1..Len(list) - 1
    <2>1. Len(L) = Len(list) - 1
      BY <1>2, <1>3, <1>4, <1>6
    <2> QED
      BY <2>1, <1>6, SeqFacts
  <1>8. ASSUME NEW j \in 1..Len(list) - 1
        PROVE  L[j] = IF j < i THEN list[j] ELSE list[j + 1]
    <2>1. j \in 1..Len(s) + Len(t)
      BY <1>2, <1>3, <1>4
    <2>2. L[j] = IF j <= Len(s) THEN s[j] ELSE t[j - Len(s)]
      BY <2>1, <1>3, <1>4, <1>5, ConcatProperties
    <2>3. CASE j < i
      <3>1. j <= Len(s) /\ j \in 1..i - 1
        BY <2>3, <1>2, <1>3
      <3> QED
        BY <2>2, <2>3, <3>1, <1>3
    <2>4. CASE ~(j < i)
      <3>1. ~(j <= Len(s)) /\ j - Len(s) \in 1..Len(list) - i /\ i + (j - Len(s)) = j + 1
        BY <2>4, <1>2, <1>3
      <3> QED
        BY <2>2, <2>4, <3>1, <1>4
    <2> QED
      BY <2>3, <2>4
  <1> DEFINE old(j) == IF j < i THEN j ELSE j + 1
  <1>9. ASSUME NEW j \in DOMAIN L
        PROVE  old(j) \in DOMAIN list /\ old(j) # i /\ L[j] = list[old(j)]
    <2>1. j \in 1..Len(list) - 1
      BY <1>7
    <2>2. old(j) \in DOMAIN list /\ old(j) # i
      BY <2>1, <1>2
    <2> QED
      BY <2>1, <2>2, <1>8
  <1>10. \A j, k \in DOMAIN L : old(j) = old(k) => j = k
    BY <1>2, <1>7
  <1>11. ASSUME NEW k \in DOMAIN list, k # i
         PROVE  \E j \in DOMAIN L : old(j) = k
    <2>1. CASE k < i
      <3>1. k \in DOMAIN L /\ old(k) = k
        BY <2>1, <1>2, <1>7
      <3> QED
        BY <3>1
    <2>2. CASE ~(k < i)
      <3>1. k - 1 \in DOMAIN L /\ old(k - 1) = k
        BY <2>2, <1>2, <1>7, <1>11
      <3> QED
        BY <3>1
    <2> QED
      BY <2>1, <2>2
  <1> HIDE DEF old
  <1>12. \A j, k \in DOMAIN list : list[j].key = list[k].key => j = k
    BY DEF Holds, Unique
  <1>13. Unique(L)
    BY <1>9, <1>10, <1>12 DEF Unique
  <1>14. Range(L) = Range(list) \ {list[i]}
    <2>1. ASSUME NEW k \in DOMAIN list, k # i PROVE list[k] # list[i]
      BY <2>1, <1>12
    <2>2. ASSUME NEW n \in Range(L) PROVE n \in Range(list) \ {list[i]}
      BY <1>9, <2>1 DEF Range
    <2>3. ASSUME NEW n \in Range(list) \ {list[i]} PROVE n \in Range(L)
      <3>1. PICK k \in DOMAIN list : n = list[k] /\ k # i
        BY DEF Range
      <3>2. PICK j \in DOMAIN L : old(j) = k
        BY <3>1, <1>11
      <3> QED
        BY <3>1, <3>2, <1>9 DEF Range
    <2> QED
      BY <2>2, <2>3
  <1>15. Holds(L, c, h)
    BY <1>6, <1>13, <1>14 DEF Holds
  <1> QED
    BY <1>14, <1>15 DEF L

\* Another list in the place of one.
LEMMA Placed ==
    ASSUME NEW c \in Nat \ {0}, NEW a, Good(a, c), NEW h \in 0..c - 1, NEW L, Holds(L, c, h)
    PROVE  /\ Good([a EXCEPT ![h] = L], c)
           /\ Recs([a EXCEPT ![h] = L]) = (Recs(a) \ Range(a[h])) \cup Range(L)
  <1> DEFINE b == [a EXCEPT ![h] = L]
  <1>1. DOMAIN a = 0..c - 1 /\ \A i \in 0..c - 1 : Holds(a[i], c, i)
    BY DEF Good
  <1>2. DOMAIN b = 0..c - 1 /\ b[h] = L /\ \A i \in 0..c - 1 : i # h => b[i] = a[i]
    BY <1>1
  <1>3. b = [i \in 0..c - 1 |-> b[i]]
    BY <1>1 DEF Good
  <1> HIDE DEF b
  <1>4. \A i \in 0..c - 1 : Holds(b[i], c, i)
    BY <1>1, <1>2
  <1>5. Good(b, c)
    <2>1. \A i \in 0..c - 1 : b[i] \in Seq(Node)
      BY <1>4 DEF Holds
    <2>2. b \in [0..c - 1 -> Seq(Node)]
      BY <1>3, <2>1
    <2> QED
      BY <1>4, <2>2 DEF Good
  <1>6. ASSUME NEW i \in 0..c - 1, i # h, NEW n \in Range(a[i])
        PROVE  n \notin Range(a[h])
    BY <1>1, <1>6 DEF Holds
  <1>7. Recs(b) = (Recs(a) \ Range(a[h])) \cup Range(L)
    <2>1. ASSUME NEW n \in Recs(b) PROVE n \in (Recs(a) \ Range(a[h])) \cup Range(L)
      <3>1. PICK i \in 0..c - 1 : n \in Range(b[i])
        BY <1>2 DEF Recs
      <3>2. CASE i = h
        BY <3>1, <3>2, <1>2
      <3>3. CASE i # h
        <4>1. n \in Range(a[i])
          BY <3>1, <3>3, <1>2
        <4> QED
          BY <4>1, <3>3, <1>1, <1>6 DEF Recs
      <3> QED
        BY <3>2, <3>3
    <2>2. ASSUME NEW n \in Recs(a), n \notin Range(a[h]) PROVE n \in Recs(b)
      <3>1. PICK i \in 0..c - 1 : n \in Range(a[i])
        BY <1>1 DEF Recs
      <3>2. i # h
        BY <3>1, <2>2
      <3> QED
        BY <3>1, <3>2, <1>2 DEF Recs
    <2>3. ASSUME NEW n \in Range(L) PROVE n \in Recs(b)
      BY <1>2 DEF Recs
    <2> QED
      BY <2>1, <2>2, <2>3
  <1> QED
    BY <1>5, <1>7 DEF b

\* A key has at most one node, which is found in its list.
LEMMA Found ==
    ASSUME NEW c \in Nat \ {0}, NEW a, Good(a, c)
    PROVE  /\ Recs(a) \subseteq Node
           /\ Functional(Recs(a))
           /\ \A h \in 0..c - 1 : Range(a[h]) \subseteq Recs(a)
           /\ \A n \in Recs(a) :
                  LET i == Index(n.key, c)
                  IN  i \in 0..c - 1 /\ n \in Range(a[i]) /\ At(a[i], n.key) # {}
           /\ \A key \in Key :
                  LET i == Index(key, c)
                  IN  At(a[i], key) # {} =>
                          LET n == a[i][FirstAt(a[i], key)]
                          IN  FirstAt(a[i], key) \in DOMAIN a[i] /\ n \in Recs(a) /\ n.key = key
  <1>1. DOMAIN a = 0..c - 1 /\ \A i \in 0..c - 1 : Holds(a[i], c, i)
    BY DEF Good
  <1>2. ASSUME NEW i \in 0..c - 1, NEW n \in Range(a[i])
        PROVE  n \in Node /\ Index(n.key, c) = i /\ At(a[i], n.key) # {}
    <2>1. a[i] \in Seq(Node) /\ Index(n.key, c) = i
      BY <1>1 DEF Holds
    <2>2. PICK j \in DOMAIN a[i] : n = a[i][j]
      BY DEF Range
    <2>3. j \in At(a[i], n.key)
      BY <2>2 DEF At
    <2> QED
      BY <2>1, <2>2, <2>3
  <1>3. ASSUME NEW n \in Recs(a)
        PROVE  /\ n \in Node /\ Index(n.key, c) \in 0..c - 1
               /\ n \in Range(a[Index(n.key, c)]) /\ At(a[Index(n.key, c)], n.key) # {}
    <2>1. PICK i \in 0..c - 1 : n \in Range(a[i])
      BY <1>1 DEF Recs
    <2> QED
      BY <2>1, <1>2
  <1>4. ASSUME NEW m \in Recs(a), NEW n \in Recs(a), m.key = n.key
        PROVE  m = n
    <2> DEFINE i == Index(n.key, c)
    <2>1. i \in 0..c - 1 /\ m \in Range(a[i]) /\ n \in Range(a[i])
      BY <1>3, <1>4
    <2>2. Unique(a[i])
      BY <1>1, <2>1 DEF Holds
    <2> HIDE DEF i
    <2> QED
      BY <1>4, <2>1, <2>2 DEF Unique, Range
  <1>5. \A h \in 0..c - 1 : Range(a[h]) \subseteq Recs(a)
    BY <1>1 DEF Recs
  <1>6. ASSUME NEW key \in Key, At(a[Index(key, c)], key) # {}
        PROVE  LET i == Index(key, c)
                   n == a[i][FirstAt(a[i], key)]
               IN  FirstAt(a[i], key) \in DOMAIN a[i] /\ n \in Recs(a) /\ n.key = key
    <2> DEFINE i == Index(key, c)
               j == FirstAt(a[i], key)
    <2>1. i \in 0..c - 1
      BY IndexRange
    <2>2. a[i] \in Seq(Node)
      BY <2>1, <1>1 DEF Holds
    <2>3. At(a[i], key) # {}
      BY <1>6
    <2> HIDE DEF i
    <2>4. j \in DOMAIN a[i] /\ a[i][j].key = key
      BY <2>2, <2>3, FirstPlace
    <2>5. a[i][j] \in Range(a[i])
      BY <2>4 DEF Range
    <2>6. a[i][j] \in Recs(a)
      BY <2>1, <2>5, <1>5
    <2> QED
      BY <2>4, <2>6 DEF i
  <1> QED
    BY <1>3, <1>4, <1>5, <1>6 DEF Functional

\* Two lists after each other.
LEMMA Joined ==
    ASSUME NEW s \in Seq(Node), NEW t \in Seq(Node), Unique(s), Unique(t),
           \A m \in Range(s), n \in Range(t) : m.key # n.key
    PROVE  /\ s \o t \in Seq(Node)
           /\ Unique(s \o t)
           /\ Range(s \o t) = Range(s) \cup Range(t)
  <1> DEFINE r == s \o t
  <1>1. /\ Len(s) \in Nat /\ DOMAIN s = 1..Len(s)
        /\ Len(t) \in Nat /\ DOMAIN t = 1..Len(t)
    BY SeqFacts
  <1>2. r \in Seq(Node) /\ Len(r) = Len(s) + Len(t) /\ DOMAIN r = 1..Len(s) + Len(t)
    <2>1. r \in Seq(Node) /\ Len(r) = Len(s) + Len(t)
      BY ConcatProperties
    <2> HIDE DEF r
    <2> QED
      BY <2>1, SeqFacts
  <1>3. \A i \in 1..Len(s) + Len(t) : r[i] = IF i <= Len(s) THEN s[i] ELSE t[i - Len(s)]
    BY ConcatProperties
  <1> HIDE DEF r
  <1>4. ASSUME NEW i \in DOMAIN r, i <= Len(s) PROVE i \in DOMAIN s /\ r[i] = s[i]
    BY <1>1, <1>2, <1>3, <1>4
  <1>5. ASSUME NEW i \in DOMAIN r, ~(i <= Len(s))
        PROVE  i - Len(s) \in DOMAIN t /\ r[i] = t[i - Len(s)] /\ i \in Int
    <2>1. i \in 1..Len(s) + Len(t)
      BY <1>2
    <2>2. i - Len(s) \in DOMAIN t /\ i \in Int
      BY <1>1, <2>1, <1>5
    <2> QED
      BY <2>1, <2>2, <1>3, <1>5
  <1>6. ASSUME NEW i \in DOMAIN s PROVE i \in DOMAIN r /\ r[i] = s[i]
    <2>1. i \in DOMAIN r /\ i <= Len(s)
      BY <1>1, <1>2
    <2> QED
      BY <2>1, <1>4
  <1>7. ASSUME NEW i \in DOMAIN t PROVE i + Len(s) \in DOMAIN r /\ r[i + Len(s)] = t[i]
    <2>1. i + Len(s) \in DOMAIN r /\ ~(i + Len(s) <= Len(s)) /\ (i + Len(s)) - Len(s) = i
      BY <1>1, <1>2
    <2> QED
      BY <2>1, <1>5
  <1>8. Unique(r)
    <2> SUFFICES ASSUME NEW i \in DOMAIN r, NEW j \in DOMAIN r, r[i].key = r[j].key PROVE i = j
      BY DEF Unique
    <2>1. CASE i <= Len(s) /\ j <= Len(s)
      BY <2>1, <1>4 DEF Unique
    <2>2. CASE ~(i <= Len(s)) /\ ~(j <= Len(s))
      <3>1. i - Len(s) = j - Len(s)
        BY <2>2, <1>5 DEF Unique
      <3> QED
        BY <3>1, <2>2, <1>1, <1>5
    <2>3. CASE i <= Len(s) /\ ~(j <= Len(s))
      BY <2>3, <1>4, <1>5 DEF Range
    <2>4. CASE ~(i <= Len(s)) /\ j <= Len(s)
      BY <2>4, <1>4, <1>5 DEF Range
    <2> QED
      BY <2>1, <2>2, <2>3, <2>4
  <1>9. Range(r) = Range(s) \cup Range(t)
    <2>1. ASSUME NEW n \in Range(r) PROVE n \in Range(s) \cup Range(t)
      BY <1>4, <1>5 DEF Range
    <2>2. ASSUME NEW n \in Range(s) PROVE n \in Range(r)
      BY <1>6 DEF Range
    <2>3. ASSUME NEW n \in Range(t) PROVE n \in Range(r)
      BY <1>7 DEF Range
    <2> QED
      BY <2>1, <2>2, <2>3
  <1> QED
    BY <1>2, <1>8, <1>9 DEF r

\* All lists after each other.
LEMMA Flattened ==
    ASSUME NEW n \in Nat \ {0}, NEW lists \in [1..n -> Seq(Node)],
           \A i \in 1..n : Unique(lists[i]),
           \A i, j \in 1..n : i # j =>
               \A m \in Range(lists[i]), k \in Range(lists[j]) : m.key # k.key
    PROVE  /\ FlattenSeq(lists) \in Seq(Node)
           /\ Unique(FlattenSeq(lists))
           /\ Range(FlattenSeq(lists)) = UNION {Range(lists[i]) : i \in 1..n}
  <1> DEFINE V == Seq(Node)
             D == 1..n
             Body(g) == [i \in D |-> IF i = 1 THEN lists[i] ELSE g[i - 1] \o lists[i]]
             flatten == CHOOSE g : g = Body(g)
             S == [i \in 1..n |-> [v \in V |-> v \o lists[i]]]
  <1>1. Len(lists) = n
    BY LenProperties
  <1>2. \A i \in D : lists[i] \in V
    OBVIOUS
  <1>3. \A u, v \in V : u \o v \in V
    BY ConcatProperties
  <1>4. <<>> \in V /\ \A v \in V : <<>> \o v = v
    BY ConcatEmptySeq
  <1> HIDE DEF V
  <1>5. S \in [1..n -> [V -> V]]
    BY <1>2, <1>3
  <1>6. \E g : g = Body(g)
    <2>1. PICK g \in [0..n -> V] : Iterates(g, n, <<>>, S)
      <3> HIDE DEF S
      <3> QED
        BY <1>4, <1>5, Iterate
    <2> DEFINE f == [i \in D |-> g[i]]
    <2>2. ASSUME NEW i \in D PROVE f[i] = IF i = 1 THEN lists[i] ELSE f[i - 1] \o lists[i]
      <3>1. i - 1 \in 0..n
        OBVIOUS
      <3>2. g[i - 1] \in V
        BY <3>1, <2>1
      <3>3. g[i] = g[i - 1] \o lists[i]
        <4>1. g[i] = S[i][g[i - 1]]
          BY <2>1 DEF Iterates
        <4> QED
          BY <4>1, <3>2
      <3>4. CASE i = 1
        <4>1. g[i - 1] = <<>>
          BY <2>1, <3>4 DEF Iterates
        <4> QED
          BY <4>1, <3>3, <3>4, <1>2, <1>4
      <3>5. CASE i # 1
        <4>1. i - 1 \in D
          BY <3>5
        <4> QED
          BY <4>1, <3>3, <3>5
      <3> QED
        BY <3>4, <3>5
    <2>3. f = Body(f)
      <3>1. DOMAIN f = D
        OBVIOUS
      <3>2. f = [i \in D |-> f[i]]
        OBVIOUS
      <3> HIDE DEF f, D
      <3> QED
        BY <2>2, <3>2, Zenon
    <2> QED
      BY <2>3
  <1>7. flatten = Body(flatten)
    <2> HIDE DEF Body
    <2> QED
      BY <1>6, Zenon
  <1> HIDE DEF flatten
  <1>8. ASSUME NEW i \in D
        PROVE  flatten[i] = IF i = 1 THEN lists[i] ELSE flatten[i - 1] \o lists[i]
    <2> HIDE DEF D
    <2> QED
      BY <1>7, Zenon
  <1> DEFINE Up(i) == UNION {Range(lists[j]) : j \in 1..i}
             Done(i) == flatten[i] \in V /\ Unique(flatten[i]) /\ Range(flatten[i]) = Up(i)
             T == {i \in 0..n : i = 0 \/ Done(i)}
  <1>9. ASSUME NEW i \in 0..n, i \in T, i < n PROVE i + 1 \in T
    <2>1. i + 1 \in D /\ i + 1 \in 0..n
      BY <1>9
    <2>2. CASE i = 0
      <3>1. flatten[1] = lists[1] /\ 1 \in D
        BY <2>1, <2>2, <1>8
      <3>2. Up(1) = Range(lists[1])
        OBVIOUS
      <3>3. Done(1)
        <4> HIDE DEF Up
        <4> QED
          BY <3>1, <3>2, <1>2
      <3> HIDE DEF Done
      <3> QED
        BY <2>1, <2>2, <3>3
    <2>3. CASE i # 0
      <3> DEFINE s == flatten[i]
                 t == lists[i + 1]
      <3>1. i \in D /\ i + 1 # 1 /\ (i + 1) - 1 = i
        BY <2>3, <1>9
      <3>2. flatten[i + 1] = s \o t
        <4> HIDE DEF D
        <4> QED
          BY <2>1, <3>1, <1>8
      <3>3. s \in V /\ Unique(s) /\ Range(s) = Up(i)
        <4> HIDE DEF Up
        <4> QED
          BY <1>9, <2>3
      <3>4. t \in V /\ Unique(t)
        BY <2>1, <1>2
      <3>5. ASSUME NEW m \in Up(i), NEW k \in Range(t) PROVE m.key # k.key
        <4>1. PICK j \in 1..i : m \in Range(lists[j])
          OBVIOUS
        <4>2. j \in D /\ j # i + 1
          BY <3>1
        <4> QED
          BY <2>1, <4>1, <4>2
      <3>6. Up(i + 1) = Up(i) \cup Range(t)
        <4>1. 1..i + 1 = (1..i) \cup {i + 1}
          BY <3>1
        <4> QED
          BY <4>1
      <3> HIDE DEF s, t, Up
      <3>7. s \o t \in V /\ Unique(s \o t) /\ Range(s \o t) = Range(s) \cup Range(t)
        BY <3>3, <3>4, <3>5, Joined DEF V
      <3>8. Done(i + 1)
        BY <3>2, <3>3, <3>6, <3>7
      <3> HIDE DEF Done
      <3> QED
        BY <2>1, <3>8
    <2> QED
      BY <2>2, <2>3
  <1>10. Done(n)
    <2>1. 0 \in T
      OBVIOUS
    <2>2. n \in Nat /\ n \in 0..n /\ n # 0
      OBVIOUS
    <2>3. n \in T
      <3> HIDE DEF T
      <3> QED
        BY <2>1, <2>2, <1>9, Climb
    <2> HIDE DEF Done
    <2> QED
      BY <2>2, <2>3
  <1>11. FlattenSeq(lists) = flatten[n]
    <2>1. Len(lists) # 0
      BY <1>1
    <2> QED
      BY <2>1, <1>1, Zenon DEF FlattenSeq, flatten, Body, D
  <1> QED
    BY <1>10, <1>11 DEF V

-----------------------------------------------------------------------------
(* All nodes of the array, and how many there are.                         *)

\* The nodes in the order in which dctkeys and rehash meet them: each one once.
LEMMA AllNodes ==
    ASSUME cap \in Nat \ {0}, Good(arr, cap)
    PROVE  LET nodes == FlattenSeq(Lists)
           IN  nodes \in Seq(Node) /\ Unique(nodes) /\ Range(nodes) = Recs(arr)
  <1>1. DOMAIN arr = 0..cap - 1 /\ \A h \in 0..cap - 1 : Holds(arr[h], cap, h)
    BY DEF Good
  <1>2. \A i \in 1..cap : i - 1 \in 0..cap - 1
    OBVIOUS
  <1>3. Lists = [i \in 1..cap |-> Lists[i]] /\ \A i \in 1..cap : Lists[i] = arr[i - 1]
    BY DEF Lists
  <1>4. ASSUME NEW i \in 1..cap
        PROVE  Holds(Lists[i], cap, i - 1)
    <2>1. Holds(arr[i - 1], cap, i - 1)
      BY <1>1, <1>2
    <2> QED
      BY <2>1, <1>3
  <1>5. \A i \in 1..cap : Lists[i] \in Seq(Node) /\ Unique(Lists[i])
    BY <1>4 DEF Holds
  <1>6. Lists \in [1..cap -> Seq(Node)]
    BY <1>3, <1>5
  <1>7. ASSUME NEW i \in 1..cap, NEW j \in 1..cap, i # j,
               NEW m \in Range(Lists[i]), NEW k \in Range(Lists[j])
        PROVE  m.key # k.key
    <2>1. Index(m.key, cap) = i - 1 /\ Index(k.key, cap) = j - 1
      BY <1>4 DEF Holds
    <2>2. i - 1 # j - 1
      BY <1>7
    <2> QED
      BY <2>1, <2>2
  <1>8. /\ FlattenSeq(Lists) \in Seq(Node)
        /\ Unique(FlattenSeq(Lists))
        /\ Range(FlattenSeq(Lists)) = UNION {Range(Lists[i]) : i \in 1..cap}
    BY <1>5, <1>6, <1>7, Flattened
  <1>9. UNION {Range(Lists[i]) : i \in 1..cap} = Recs(arr)
    <2>1. ASSUME NEW i \in 1..cap PROVE Range(Lists[i]) \subseteq Recs(arr)
      BY <1>1, <1>2, <1>3 DEF Recs
    <2>2. ASSUME NEW h \in 0..cap - 1
          PROVE  \E i \in 1..cap : Range(arr[h]) = Range(Lists[i])
      <3>1. h + 1 \in 1..cap /\ (h + 1) - 1 = h
        OBVIOUS
      <3>2. Lists[h + 1] = arr[h]
        BY <3>1, <1>3
      <3> QED
        BY <3>1, <3>2
    <2> QED
      BY <2>1, <2>2, <1>1 DEF Recs
  <1> QED
    BY <1>8, <1>9

\* The nodes of a list without two of the same key are as many as the list is long.
LEMMA AsManyAs ==
    ASSUME NEW list \in Seq(Node), Unique(list)
    PROVE  IsFiniteSet(Range(list)) /\ Cardinality(Range(list)) = Len(list)
  <1> DEFINE f == [i \in 1..Len(list) |-> list[i]]
             R == Range(list)
  <1>1. Len(list) \in Nat /\ DOMAIN list = 1..Len(list)
    BY SeqFacts
  <1>2. f \in [1..Len(list) -> R]
    BY <1>1 DEF Range
  <1>3. \A i, j \in 1..Len(list) : f[i] = f[j] => i = j
    BY <1>1 DEF Unique
  <1>4. \A n \in R : \E i \in 1..Len(list) : f[i] = n
    BY <1>1 DEF Range
  <1> HIDE DEF f, R
  <1>5. f \in Bijection(1..Len(list), R)
    BY <1>2, <1>3, <1>4 DEF Bijection, Injection, Surjection, IsInjective
  <1>6. ExistsBijection(1..Len(list), R)
    BY <1>5 DEF ExistsBijection
  <1>7. IsFiniteSet(R) /\ Cardinality(R) = Len(list)
    BY <1>1, <1>6, FS_CountingElements, FS_NatBijection
  <1> QED
    BY <1>7 DEF R

\* The array grows: every node goes to where its key hashes to now, and none is lost.
LEMMA Rehashed ==
    ASSUME cap \in Nat \ {0}, Good(arr, cap), NEW c \in Nat \ {0}
    PROVE  Good(Rehash(c), c) /\ Recs(Rehash(c)) = Recs(arr)
  <1> DEFINE nodes == FlattenSeq(Lists)
             n == Len(nodes)
             D == 0..n
             V == [0..c - 1 -> Seq(Node)]
             empty == [h \in 0..c - 1 |-> <<>>]
             put(k, a) == [a EXCEPT ![Index(nodes[k].key, c)] = <<nodes[k]>> \o @]
             Body(g) == [k \in D |-> IF k = 0 THEN empty ELSE put(k, g[k - 1])]
             S == [k \in 1..n |-> [a \in V |-> put(k, a)]]
             moved == CHOOSE g : g = Body(g)
  <1>1. nodes \in Seq(Node) /\ Unique(nodes) /\ Range(nodes) = Recs(arr)
    BY AllNodes
  <1>2. Rehash(c) = moved[n]
    BY Zenon DEF Rehash, moved, Body, put, empty, D, n, nodes
  <1> HIDE DEF nodes
  <1>3. n \in Nat /\ DOMAIN nodes = 1..n /\ \A k \in 1..n : nodes[k] \in Node
    BY <1>1, SeqFacts
  <1> HIDE DEF n
  <1>4. ASSUME NEW k \in 1..n
        PROVE  Index(nodes[k].key, c) \in 0..c - 1
    <2>1. nodes[k].key \in Key
      BY <1>3 DEF Node
    <2> QED
      BY <2>1, IndexRange
  <1>5. ASSUME NEW k \in 1..n, NEW a \in V PROVE put(k, a) \in V
    <2> DEFINE i == Index(nodes[k].key, c)
    <2>1. i \in 0..c - 1
      BY <1>4
    <2>2. a[i] \in Seq(Node) /\ <<nodes[k]>> \in Seq(Node)
      BY <2>1, <1>3
    <2> DEFINE L == <<nodes[k]>> \o a[i]
    <2>3. L \in Seq(Node)
      BY <2>2, ConcatProperties
    <2>4. put(k, a) = [a EXCEPT ![i] = L]
      OBVIOUS
    <2> HIDE DEF i, L, put
    <2> QED
      BY <2>3, <2>4
  <1>6. empty \in V
    <2>1. <<>> \in Seq(Node)
      OBVIOUS
    <2> QED
      BY <2>1
  <1> HIDE DEF V, put, empty
  <1>7. S \in [1..n -> [V -> V]]
    BY <1>5
  <1>8. \E g : g = Body(g)
    <2>1. PICK g \in [0..n -> V] : Iterates(g, n, empty, S)
      <3> HIDE DEF S
      <3> QED
        BY <1>3, <1>6, <1>7, Iterate
    <2>2. ASSUME NEW k \in D PROVE g[k] = IF k = 0 THEN empty ELSE put(k, g[k - 1])
      <3>1. CASE k = 0
        BY <2>1, <3>1 DEF Iterates
      <3>2. CASE k # 0
        <4>1. k \in 1..n /\ k - 1 \in 0..n
          BY <3>2, <1>3
        <4>2. g[k] = S[k][g[k - 1]] /\ g[k - 1] \in V
          BY <4>1, <2>1 DEF Iterates
        <4> QED
          BY <3>2, <4>1, <4>2
      <3> QED
        BY <3>1, <3>2
    <2>3. g = [k \in D |-> g[k]]
      BY <2>1
    <2>4. g = Body(g)
      <3> HIDE DEF D
      <3> QED
        BY <2>2, <2>3, Zenon
    <2> QED
      BY <2>4
  <1>9. moved = Body(moved)
    <2> HIDE DEF Body
    <2> QED
      BY <1>8, Zenon
  <1> HIDE DEF moved
  <1>10. ASSUME NEW k \in D
         PROVE  moved[k] = IF k = 0 THEN empty ELSE put(k, moved[k - 1])
    <2> HIDE DEF D
    <2> QED
      BY <1>9, Zenon
  <1> DEFINE First(k) == {nodes[j] : j \in 1..k}
             Done(k) == Good(moved[k], c) /\ Recs(moved[k]) = First(k)
             T == {k \in D : Done(k)}
  <1>11. 0 \in T
    <2>1. 0 \in D
      BY <1>3
    <2>2. moved[0] = empty
      BY <2>1, <1>10
    <2>3. Good(empty, c)
      <3>1. Holds(<<>>, c, 0) /\ \A h : Holds(<<>>, c, h)
        BY DEF Holds, Unique, Range
      <3> QED
        BY <1>6, <3>1 DEF Good, V, empty
    <2>4. Recs(empty) = {}
      BY DEF Recs, empty, Range
    <2>5. First(0) = {}
      OBVIOUS
    <2> QED
      BY <2>1, <2>2, <2>3, <2>4, <2>5
  <1>12. ASSUME NEW k \in 0..n, k \in T, k < n PROVE k + 1 \in T
    <2> DEFINE x == nodes[k + 1]
               i == Index(x.key, c)
               a == moved[k]
    <2>1. k + 1 \in D /\ k + 1 \in 1..n /\ k + 1 # 0 /\ (k + 1) - 1 = k
      BY <1>3, <1>12
    <2>2. moved[k + 1] = [a EXCEPT ![i] = <<x>> \o a[i]]
      <3>1. moved[k + 1] = put(k + 1, moved[k])
        <4> HIDE DEF D
        <4> QED
          BY <2>1, <1>10
      <3> QED
        BY <3>1 DEF put
    <2>3. Good(a, c) /\ Recs(a) = First(k)
      <3> HIDE DEF First
      <3> QED
        BY <1>12
    <2>4. i \in 0..c - 1 /\ x \in Node
      BY <2>1, <1>3, <1>4
    <2>5. Holds(a[i], c, i)
      BY <2>3, <2>4 DEF Good
    <2>6. At(a[i], x.key) = {}
      <3> SUFFICES ASSUME NEW j \in DOMAIN a[i], a[i][j].key = x.key PROVE FALSE
        BY DEF At
      <3>1. a[i][j] \in First(k)
        <4>1. a[i][j] \in Range(a[i])
          BY DEF Range
        <4> HIDE DEF First, a
        <4> QED
          BY <4>1, <2>3, <2>4, Found
      <3>2. PICK l \in 1..k : a[i][j] = nodes[l]
        BY <3>1
      <3>3. l \in DOMAIN nodes /\ k + 1 \in DOMAIN nodes /\ l # k + 1
        BY <2>1, <1>3
      <3> QED
        BY <3>2, <3>3, <1>1 DEF Unique
    <2> HIDE DEF x, a
    <2> DEFINE L == <<x>> \o a[i]
    <2>7. Holds(L, c, i) /\ Range(L) = Range(a[i]) \cup {x}
      <3>1. Index(x.key, c) = i
        OBVIOUS
      <3> HIDE DEF i
      <3> QED
        BY <3>1, <2>4, <2>5, <2>6, Pushed
    <2> HIDE DEF L, i
    <2>8. /\ Good([a EXCEPT ![i] = L], c)
          /\ Recs([a EXCEPT ![i] = L]) = (Recs(a) \ Range(a[i])) \cup Range(L)
      <3>1. Good(a, c) /\ i \in 0..c - 1 /\ Holds(L, c, i)
        BY <2>3, <2>4, <2>7
      <3>2. Good([a EXCEPT ![i] = L], c)
        BY <3>1, Placed
      <3>3. Recs([a EXCEPT ![i] = L]) = (Recs(a) \ Range(a[i])) \cup Range(L)
        BY <3>1, Placed
      <3> QED
        BY <3>2, <3>3
    <2>9. Range(a[i]) \subseteq Recs(a)
      BY <2>3, <2>4, Found
    <2>10. First(k + 1) = First(k) \cup {x}
      <3>1. 1..k + 1 = (1..k) \cup {k + 1}
        BY <2>1
      <3> QED
        BY <3>1 DEF x
    <2> HIDE DEF First
    <2>11. Good(moved[k + 1], c) /\ Recs(moved[k + 1]) = First(k + 1)
      BY <2>2, <2>3, <2>7, <2>8, <2>9, <2>10 DEF L
    <2> QED
      BY <2>1, <2>11
  <1>13. n \in T
    <2>1. n \in 0..n
      BY <1>3
    <2> HIDE DEF T
    <2> QED
      BY <2>1, <1>3, <1>11, <1>12, Climb
  <1>14. Good(moved[n], c) /\ Recs(moved[n]) = First(n)
    <2> HIDE DEF First
    <2> QED
      BY <1>13
  <1>15. First(n) = Range(nodes)
    BY <1>3 DEF Range
  <1> QED
    BY <1>1, <1>2, <1>14, <1>15

-----------------------------------------------------------------------------
(* The calls.                                                              *)

\* WellFormed, of the nodes as a set.
DInv ==
    /\ cap \in Nat \ {0}
    /\ Good(arr, cap)
    /\ IsFiniteSet(Recs(arr))
    /\ size = Cardinality(Recs(arr))
    /\ size <= cap
    /\ last[1] \in {"create", "get", "insert", "remove", "keys"}

\* The node of a key, in a set of nodes, and what is left without it.
Others(R, key) == {n \in R : n.key # key}
ValueIn(R, key) == IF \E n \in R : n.key = key THEN (CHOOSE n \in R : n.key = key).val ELSE NULL

\* The value of a node's key is that of the node.
LEMMA ValueOf ==
    ASSUME NEW R, Functional(R), NEW n \in R
    PROVE  ValueIn(R, n.key) = n.val
  <1>1. \A m \in R : m.key = n.key => m = n
    BY DEF Functional
  <1>2. (CHOOSE m \in R : m.key = n.key) = n
    BY <1>1
  <1> QED
    BY <1>2 DEF ValueIn

\* dctcreate makes a dictionary in order, and without nodes.
LEMMA InitDInv ==
    ASSUME Init
    PROVE  DInv /\ Recs(arr) = {}
  <1>1. cap = 5 /\ arr = [i \in 0..4 |-> <<>>] /\ size = 0 /\ last[1] = "create"
    BY DEF Init
  <1>2. Holds(<<>>, cap, 0) /\ \A h : Holds(<<>>, cap, h)
    BY DEF Holds, Unique, Range
  <1>3. Good(arr, cap)
    <2>1. cap - 1 = 4
      BY <1>1
    <2>2. <<>> \in Seq(Node)
      OBVIOUS
    <2>3. arr \in [0..cap - 1 -> Seq(Node)]
      BY <1>1, <2>1, <2>2
    <2>4. \A h \in 0..cap - 1 : arr[h] = <<>>
      BY <1>1, <2>1
    <2> QED
      BY <1>2, <2>3, <2>4 DEF Good
  <1>4. Recs(arr) = {}
    BY <1>1 DEF Recs, Range
  <1>5. IsFiniteSet(Recs(arr)) /\ Cardinality(Recs(arr)) = 0
    BY <1>4, FS_EmptySet
  <1> QED
    BY <1>1, <1>3, <1>4, <1>5 DEF DInv

\* What a search for a key in its list finds.
LEMMA Searched ==
    ASSUME NEW c \in Nat \ {0}, NEW a, Good(a, c), NEW key \in Key, NEW i, i = Index(key, c)
    PROVE  /\ i \in 0..c - 1
           /\ Holds(a[i], c, i)
           /\ At(a[i], key) = {} => (\A n \in Recs(a) : n.key # key) /\ ValueIn(Recs(a), key) = NULL
           /\ At(a[i], key) # {} =>
                  /\ FirstAt(a[i], key) \in DOMAIN a[i]
                  /\ a[i][FirstAt(a[i], key)] \in Recs(a)
                  /\ a[i][FirstAt(a[i], key)].key = key
                  /\ ValueIn(Recs(a), key) = a[i][FirstAt(a[i], key)].val
  <1>1. i \in 0..c - 1
    BY IndexRange
  <1>2. Holds(a[i], c, i)
    BY <1>1 DEF Good
  <1>3. ASSUME At(a[i], key) = {}
        PROVE  (\A n \in Recs(a) : n.key # key) /\ ValueIn(Recs(a), key) = NULL
    <2>1. ASSUME NEW n \in Recs(a), n.key = key PROVE FALSE
      <3>1. At(a[Index(n.key, c)], n.key) # {}
        BY Found
      <3> QED
        BY <3>1, <2>1, <1>3
    <2> QED
      BY <2>1 DEF ValueIn
  <1>4. ASSUME At(a[i], key) # {}
        PROVE  /\ FirstAt(a[i], key) \in DOMAIN a[i]
               /\ a[i][FirstAt(a[i], key)] \in Recs(a)
               /\ a[i][FirstAt(a[i], key)].key = key
               /\ ValueIn(Recs(a), key) = a[i][FirstAt(a[i], key)].val
    <2> DEFINE n == a[i][FirstAt(a[i], key)]
    <2>1. FirstAt(a[i], key) \in DOMAIN a[i] /\ n \in Recs(a) /\ n.key = key
      BY <1>4, Found
    <2>2. Functional(Recs(a))
      BY Found
    <2> HIDE DEF n
    <2>3. ValueIn(Recs(a), n.key) = n.val
      BY <2>1, <2>2, ValueOf
    <2> QED
      BY <2>1, <2>3 DEF n
  <1> QED
    BY <1>1, <1>2, <1>3, <1>4

\* dctget returns the value of the key and changes nothing.
LEMMA GetDoes ==
    ASSUME DInv, NEW key \in Key, dctget(key)
    PROVE  /\ DInv' /\ Recs(arr') = Recs(arr)
           /\ last' = <<"get", key, ValueIn(Recs(arr), key)>>
  <1> DEFINE i == Index(key, cap)
  <1>1. cap \in Nat \ {0} /\ Good(arr, cap)
    BY DEF DInv
  <1>2. /\ cap' = cap /\ arr' = arr /\ size' = size
        /\ last' = <<"get", key, IF At(arr[i], key) = {} THEN NULL
                                 ELSE arr[i][FirstAt(arr[i], key)].val>>
    BY DEF dctget
  <1>3. DInv'
    <2>1. last'[1] = "get"
      BY <1>2
    <2> QED
      BY <1>2, <2>1 DEF DInv
  <1>4. /\ At(arr[i], key) = {} => ValueIn(Recs(arr), key) = NULL
        /\ At(arr[i], key) # {} => ValueIn(Recs(arr), key) = arr[i][FirstAt(arr[i], key)].val
    <2> HIDE DEF i
    <2> QED
      BY <1>1, Searched DEF i
  <1> HIDE DEF i
  <1> QED
    BY <1>2, <1>3, <1>4

\* dctremove returns the value of the key and takes out its node, no other.
LEMMA RemoveDoes ==
    ASSUME DInv, NEW key \in Key, dctremove(key)
    PROVE  /\ DInv' /\ Recs(arr') = Others(Recs(arr), key)
           /\ last' = <<"remove", key, ValueIn(Recs(arr), key)>>
  <1> DEFINE i == Index(key, cap)
             R == Recs(arr)
  <1>1. /\ cap \in Nat \ {0} /\ Good(arr, cap) /\ IsFiniteSet(R)
        /\ size = Cardinality(R) /\ size <= cap
    BY DEF DInv
  <1>2. /\ i \in 0..cap - 1
        /\ Holds(arr[i], cap, i)
        /\ At(arr[i], key) = {} => (\A n \in R : n.key # key) /\ ValueIn(R, key) = NULL
        /\ At(arr[i], key) # {} =>
               /\ FirstAt(arr[i], key) \in DOMAIN arr[i]
               /\ arr[i][FirstAt(arr[i], key)] \in R
               /\ arr[i][FirstAt(arr[i], key)].key = key
               /\ ValueIn(R, key) = arr[i][FirstAt(arr[i], key)].val
    BY <1>1, Searched
  <1>3. CASE At(arr[i], key) = {}
    <2>1. cap' = cap /\ arr' = arr /\ size' = size /\ last' = <<"remove", key, NULL>>
      BY <1>3 DEF dctremove
    <2>2. last'[1] = "remove"
      BY <2>1
    <2>3. DInv'
      BY <2>1, <2>2 DEF DInv
    <2>4. Others(R, key) = R /\ ValueIn(R, key) = NULL
      BY <1>2, <1>3 DEF Others
    <2> HIDE DEF i
    <2> QED
      BY <2>1, <2>3, <2>4
  <1>4. CASE At(arr[i], key) # {}
    <2> DEFINE j == FirstAt(arr[i], key)
               n == arr[i][j]
               L == RemoveAt(arr[i], j)
    <2>1. /\ cap' = cap /\ arr' = [arr EXCEPT ![i] = L] /\ size' = size - 1
          /\ last' = <<"remove", key, n.val>>
      BY <1>4 DEF dctremove
    <2>2. j \in DOMAIN arr[i] /\ n \in R /\ n.key = key /\ ValueIn(R, key) = n.val
      BY <1>2, <1>4
    <2> HIDE DEF i, j
    <2>3. Holds(L, cap, i) /\ Range(L) = Range(arr[i]) \ {n}
      BY <1>2, <2>2, TakenOut
    <2>4. Good([arr EXCEPT ![i] = L], cap)
      BY <1>1, <1>2, <2>3, Placed
    <2>5. Recs([arr EXCEPT ![i] = L]) = (R \ Range(arr[i])) \cup Range(L)
      BY <1>1, <1>2, <2>3, Placed
    <2>6. Range(arr[i]) \subseteq R /\ Functional(R)
      BY <1>1, <1>2, Found
    <2>7. n \in Range(arr[i])
      BY <2>2 DEF Range
    <2> HIDE DEF L, n, R
    <2>8. Recs(arr') = R \ {n}
      BY <2>1, <2>3, <2>5, <2>6, <2>7
    <2>9. R \ {n} = Others(R, key)
      BY <2>2, <2>6 DEF Others, Functional
    <2>10. IsFiniteSet(R \ {n}) /\ Cardinality(R \ {n}) = Cardinality(R) - 1
      BY <1>1, <2>2, FS_RemoveElement
    <2>11. size' <= cap' /\ size' = Cardinality(Recs(arr'))
      <3>1. Cardinality(R) \in Nat
        BY <1>1, FS_CardinalityType
      <3>2. size' = size - 1 /\ cap' = cap
        BY <2>1
      <3>3. cap \in Nat /\ size \in Nat /\ size <= cap
        BY <1>1, <3>1
      <3>4. size' <= cap'
        BY <3>2, <3>3
      <3>5. size' = Cardinality(Recs(arr'))
        BY <1>1, <2>8, <2>10, <3>2
      <3> QED
        BY <3>4, <3>5
    <2>12. last'[1] = "remove"
      BY <2>1
    <2>13. DInv'
      BY <1>1, <2>1, <2>4, <2>8, <2>10, <2>11, <2>12 DEF DInv
    <2> QED
      BY <2>1, <2>2, <2>8, <2>9, <2>13 DEF R
  <1> QED
    BY <1>3, <1>4

\* The array an insertion begins with: the old one, or a larger one with the same nodes.
LEMMA Grown ==
    ASSUME DInv
    PROVE  LET c == IF Full THEN 2 * cap + 1 ELSE cap
               a == IF Full THEN Rehash(c) ELSE arr
           IN  c \in Nat \ {0} /\ size + 1 <= c /\ Good(a, c) /\ Recs(a) = Recs(arr)
  <1>1. /\ cap \in Nat \ {0} /\ Good(arr, cap) /\ IsFiniteSet(Recs(arr))
        /\ size = Cardinality(Recs(arr)) /\ size <= cap
    BY DEF DInv
  <1>2. size \in Nat
    BY <1>1, FS_CardinalityType
  <1>3. CASE Full
    <2> DEFINE c == 2 * cap + 1
    <2>1. c \in Nat \ {0} /\ size + 1 <= c
      BY <1>1, <1>2
    <2> HIDE DEF c
    <2>2. Good(Rehash(c), c) /\ Recs(Rehash(c)) = Recs(arr)
      BY <1>1, <2>1, Rehashed
    <2> QED
      BY <1>3, <2>1, <2>2 DEF c
  <1>4. CASE ~Full
    <2>1. size + 1 <= cap
      BY <1>1, <1>2, <1>4 DEF Full
    <2> QED
      BY <1>1, <1>4, <2>1
  <1> QED
    BY <1>3, <1>4

\* The array with another value for a key whose list is the i-th.
Revalued(a, i, key, val) == [a EXCEPT ![i] = [a[i] EXCEPT ![FirstAt(a[i], key)].val = val]]

\* The node of the key is replaced, and no other.
LEMMA Replaced ==
    ASSUME NEW c \in Nat \ {0}, NEW a, Good(a, c), IsFiniteSet(Recs(a)),
           NEW key \in Key, NEW val \in Val, NEW i, i = Index(key, c), At(a[i], key) # {}
    PROVE  LET b == Revalued(a, i, key, val)
           IN  /\ Good(b, c)
               /\ Recs(b) = Others(Recs(a), key) \cup {[key |-> key, val |-> val]}
               /\ IsFiniteSet(Recs(b)) /\ Cardinality(Recs(b)) = Cardinality(Recs(a))
  <1> DEFINE j == FirstAt(a[i], key)
             L == [a[i] EXCEPT ![j].val = val]
             b == [a EXCEPT ![i] = L]
             old == a[i][j]
             n == [key |-> key, val |-> val]
             R == Recs(a)
  <1>1. n \in Node /\ n.key = key
    BY DEF Node
  <1>2. i \in 0..c - 1 /\ Holds(a[i], c, i) /\ j \in DOMAIN a[i] /\ old \in R /\ old.key = key
    BY Searched
  <1>3. Functional(R) /\ Range(a[i]) \subseteq R
    BY <1>2, Found
  <1>4. n = [key |-> a[i][j].key, val |-> val]
    BY <1>2
  <1>5. Cardinality(R) \in Nat
    BY FS_CardinalityType
  <1> HIDE DEF j, n, R
  <1>6. Holds(L, c, i) /\ Range(L) = (Range(a[i]) \ {old}) \cup {n}
    BY <1>1, <1>2, <1>4, Overwritten
  <1> HIDE DEF L
  <1>7. Good(b, c) /\ Recs(b) = (Recs(a) \ Range(a[i])) \cup Range(L)
    <2> HIDE DEF old
    <2>1. Good([a EXCEPT ![i] = L], c)
      BY <1>2, <1>6, Placed
    <2>2. Recs([a EXCEPT ![i] = L]) = (Recs(a) \ Range(a[i])) \cup Range(L)
      BY <1>2, <1>6, Placed
    <2> QED
      BY <2>1, <2>2
  <1>8. old \in Range(a[i])
    BY <1>2 DEF Range
  <1> HIDE DEF old, b
  <1>9. Recs(b) = (R \ {old}) \cup {n}
    BY <1>3, <1>6, <1>7, <1>8 DEF R
  <1>10. R \ {old} = Others(R, key)
    BY <1>2, <1>3 DEF Others, Functional
  <1>11. n \notin R \ {old}
    BY <1>1, <1>10 DEF Others
  <1>12. IsFiniteSet(R \ {old}) /\ Cardinality(R \ {old}) = Cardinality(R) - 1
    BY <1>2, FS_RemoveElement DEF R
  <1>13. IsFiniteSet((R \ {old}) \cup {n}) /\ Cardinality((R \ {old}) \cup {n}) = Cardinality(R)
    <2>1. /\ IsFiniteSet((R \ {old}) \cup {n})
          /\ Cardinality((R \ {old}) \cup {n}) = Cardinality(R \ {old}) + 1
      BY <1>11, <1>12, FS_AddElement
    <2>2. (Cardinality(R) - 1) + 1 = Cardinality(R)
      BY <1>5
    <2> QED
      BY <1>12, <2>1, <2>2
  <1> QED
    BY <1>7, <1>9, <1>10, <1>13 DEF b, L, j, n, R, Revalued

\* dctinsert puts the node in the place of the one of its key, if there is one, and
\* leaves all others, whether the array grows or not.
LEMMA InsertDoes ==
    ASSUME DInv, NEW key \in Key, NEW val \in Val, dctinsert(key, val)
    PROVE  /\ DInv'
           /\ Recs(arr') = Others(Recs(arr), key) \cup {[key |-> key, val |-> val]}
           /\ last' = <<"insert", key, val>>
  <1> DEFINE c == IF Full THEN 2 * cap + 1 ELSE cap
             a == IF Full THEN Rehash(c) ELSE arr
             i == Index(key, c)
             n == [key |-> key, val |-> val]
             R == Recs(arr)
  <1>1. c \in Nat \ {0} /\ size + 1 <= c /\ Good(a, c) /\ Recs(a) = R
    BY Grown
  <1>2. /\ cap' = c
        /\ last' = <<"insert", key, val>>
        /\ At(a[i], key) # {} =>
               arr' = [a EXCEPT ![i] = [a[i] EXCEPT ![FirstAt(a[i], key)].val = val]] /\ size' = size
        /\ At(a[i], key) = {} =>
               arr' = [a EXCEPT ![i] = <<n>> \o a[i]] /\ size' = size + 1
    BY DEF dctinsert
  <1>3. n \in Node /\ n.key = key /\ n.val = val
    BY DEF Node
  <1>4. size = Cardinality(R) /\ IsFiniteSet(R)
    BY DEF DInv
  <1>5. size \in Nat
    BY <1>4, FS_CardinalityType
  <1> HIDE DEF c, a, R
  <1>6. /\ i \in 0..c - 1
        /\ Holds(a[i], c, i)
        /\ At(a[i], key) = {} => \A m \in R : m.key # key
        /\ At(a[i], key) # {} =>
               /\ FirstAt(a[i], key) \in DOMAIN a[i]
               /\ a[i][FirstAt(a[i], key)] \in R
               /\ a[i][FirstAt(a[i], key)].key = key
    BY <1>1, Searched
  <1>7. Functional(R) /\ Range(a[i]) \subseteq R
    BY <1>1, <1>6, Found
  <1>8. last'[1] = "insert"
    BY <1>2
  <1>9. Index(n.key, c) = i
    BY <1>3
  <1>10. CASE At(a[i], key) = {}
    <2> DEFINE L == <<n>> \o a[i]
    <2>1. arr' = [a EXCEPT ![i] = L] /\ size' = size + 1
      BY <1>2, <1>10
    <2>2. At(a[i], n.key) = {}
      BY <1>3, <1>10
    <2> HIDE DEF i, n
    <2>3. Holds(L, c, i) /\ Range(L) = Range(a[i]) \cup {n}
      BY <1>3, <1>6, <1>9, <2>2, Pushed
    <2> HIDE DEF L
    <2>4. Good([a EXCEPT ![i] = L], c)
      BY <1>1, <1>6, <2>3, Placed
    <2>5. Recs([a EXCEPT ![i] = L]) = (Recs(a) \ Range(a[i])) \cup Range(L)
      BY <1>1, <1>6, <2>3, Placed
    <2>6. Recs(arr') = R \cup {n}
      BY <1>1, <1>7, <2>1, <2>3, <2>5
    <2>7. Others(R, key) = R
      BY <1>6, <1>10 DEF Others
    <2>8. n \notin R
      BY <1>3, <1>6, <1>10
    <2>9. IsFiniteSet(R \cup {n}) /\ Cardinality(R \cup {n}) = size + 1
      BY <1>4, <2>8, FS_AddElement
    <2>10. DInv'
      <3>1. cap' \in Nat \ {0} /\ size' <= cap' /\ cap' = c
        BY <1>1, <1>2, <2>1
      <3> QED
        BY <1>8, <2>1, <2>4, <2>6, <2>9, <3>1 DEF DInv
    <2> QED
      BY <1>2, <2>6, <2>7, <2>10 DEF n, R
  <1>11. CASE At(a[i], key) # {}
    <2> DEFINE b == Revalued(a, i, key, val)
    <2>1. arr' = b /\ size' = size
      BY <1>2, <1>11 DEF Revalued
    <2>2. i = Index(key, c)
      OBVIOUS
    <2> HIDE DEF i
    <2>3. /\ Good(b, c)
          /\ Recs(b) = Others(R, key) \cup {n}
          /\ IsFiniteSet(Recs(b)) /\ Cardinality(Recs(b)) = size
      BY <1>1, <1>4, <1>11, <2>2, Replaced
    <2> HIDE DEF b
    <2>4. cap' \in Nat \ {0} /\ size' <= cap' /\ cap' = c
      BY <1>1, <1>2, <1>5, <2>1
    <2>5. DInv'
      BY <1>8, <2>1, <2>3, <2>4 DEF DInv
    <2> QED
      BY <1>2, <2>1, <2>3, <2>5 DEF n, R
  <1> QED
    BY <1>10, <1>11

\* What dctkeys returns has every key in it once.
LEMMA KeysDoes ==
    ASSUME DInv, dctkeys
    PROVE  /\ DInv' /\ Recs(arr') = Recs(arr)
           /\ last'[1] = "keys"
           /\ IsInjective(last'[2])
           /\ Range(last'[2]) = {n.key : n \in Recs(arr)}
  <1> DEFINE nodes == FlattenSeq(Lists)
             R == Recs(arr)
             keys == IF size = 0 THEN <<>> ELSE [i \in DOMAIN nodes |-> nodes[i].key]
  <1>1. cap \in Nat \ {0} /\ Good(arr, cap) /\ size = Cardinality(R) /\ IsFiniteSet(R)
    BY DEF DInv
  <1>2. cap' = cap /\ arr' = arr /\ size' = size /\ last' = <<"keys", keys>>
    BY DEF dctkeys
  <1>3. nodes \in Seq(Node) /\ Unique(nodes) /\ Range(nodes) = R
    BY <1>1, AllNodes
  <1>4. Len(nodes) = size
    BY <1>1, <1>3, AsManyAs
  <1> HIDE DEF nodes
  <1>5. Len(nodes) \in Nat /\ DOMAIN nodes = 1..Len(nodes)
    BY <1>3, SeqFacts
  <1>6. last'[1] = "keys" /\ last'[2] = keys
    BY <1>2
  <1>7. DInv'
    BY <1>2, <1>6 DEF DInv
  <1>8. CASE size = 0
    <2>1. R = {}
      BY <1>1, <1>8, FS_EmptySet
    <2>2. keys = <<>>
      BY <1>8
    <2> HIDE DEF keys, R
    <2>3. DOMAIN keys = {}
      BY <2>2
    <2>4. IsInjective(keys) /\ Range(keys) = {n.key : n \in R}
      BY <2>1, <2>3 DEF IsInjective, Range
    <2> QED
      BY <1>2, <1>6, <1>7, <2>4 DEF R
  <1>9. CASE size # 0
    <2>1. keys = [i \in 1..size |-> nodes[i].key]
      BY <1>4, <1>5, <1>9
    <2> HIDE DEF keys
    <2>2. DOMAIN keys = 1..size
      BY <2>1
    <2>3. Range(keys) = {n.key : n \in R}
      <3>1. \A i \in 1..size : keys[i] = nodes[i].key /\ nodes[i] \in R
        BY <1>3, <1>4, <1>5, <2>1 DEF Range
      <3>2. \A n \in R : \E i \in 1..size : n = nodes[i]
        BY <1>3, <1>4, <1>5 DEF Range
      <3> HIDE DEF R
      <3> QED
        BY <2>2, <3>1, <3>2 DEF Range
    <2>4. IsInjective(keys)
      BY <1>3, <1>4, <1>5, <2>1, <2>2 DEF IsInjective, Unique
    <2> QED
      BY <1>2, <1>6, <1>7, <2>3, <2>4
  <1> QED
    BY <1>8, <1>9

-----------------------------------------------------------------------------
(* WellFormed.                                                             *)

\* Every call leaves the dictionary in order.
LEMMA NextDInv ==
    ASSUME DInv, [Next]_vars
    PROVE  DInv'
  <1>1. CASE UNCHANGED vars
    BY <1>1 DEF vars, DInv
  <1>2. ASSUME NEW key \in Key, dctget(key) PROVE DInv'
    BY <1>2, GetDoes
  <1>3. ASSUME NEW key \in Key, dctremove(key) PROVE DInv'
    BY <1>3, RemoveDoes
  <1>4. ASSUME NEW key \in Key, NEW val \in Given, dctinsert(key, val) PROVE DInv'
    BY <1>4, InsertDoes, DictAssumption
  <1>5. CASE dctkeys
    BY <1>5, KeysDoes
  <1> QED
    BY <1>1, <1>2, <1>3, <1>4, <1>5 DEF Next

\* Every call, in every sequence of calls, leaves the array, its size and its
\* lists in order.
THEOREM Invariant == Spec => []DInv
  <1>1. Init => DInv
    BY InitDInv
  <1>2. DInv /\ [Next]_vars => DInv'
    BY NextDInv
  <1> QED
    BY <1>1, <1>2, PTL DEF Spec

\* The places of nodes are as many as the nodes.
LEMMA PlacesCounted ==
    ASSUME DInv
    PROVE  Cardinality(Nodes) = Cardinality(Recs(arr))
  <1> DEFINE R == Recs(arr)
             at(n) == <<Index(n.key, cap), FirstAt(arr[Index(n.key, cap)], n.key)>>
             f == [n \in R |-> at(n)]
  <1>1. cap \in Nat \ {0} /\ Good(arr, cap) /\ IsFiniteSet(R)
    BY DEF DInv
  <1>2. /\ R \subseteq Node /\ Functional(R)
        /\ \A h \in 0..cap - 1 : Range(arr[h]) \subseteq R
    BY <1>1, Found
  <1>3. DOMAIN arr = 0..cap - 1 /\ \A h \in 0..cap - 1 : Holds(arr[h], cap, h)
    BY <1>1 DEF Good
  <1>4. ASSUME NEW n \in R
        PROVE  at(n) \in Nodes /\ arr[at(n)[1]][at(n)[2]] = n
    <2> DEFINE h == Index(n.key, cap)
               j == FirstAt(arr[h], n.key)
    <2>1. n.key \in Key
      BY <1>2 DEF Node
    <2>2. h \in 0..cap - 1 /\ At(arr[h], n.key) # {}
      BY <1>1, Found
    <2>3. j \in DOMAIN arr[h] /\ arr[h][j] \in R /\ arr[h][j].key = n.key
      BY <1>1, <2>1, <2>2, Searched
    <2>4. at(n) = <<h, j>>
      OBVIOUS
    <2> HIDE DEF h, j, R, at
    <2>5. arr[h][j] = n
      BY <1>2, <2>3 DEF Functional
    <2>6. <<h, j>> \in Nodes
      BY <1>3, <2>2, <2>3 DEF Nodes
    <2> QED
      BY <2>4, <2>5, <2>6
  <1>5. ASSUME NEW p \in Nodes
        PROVE  \E n \in R : at(n) = p
    <2>1. PICK h \in 0..cap - 1 : \E j \in DOMAIN arr[h] : p = <<h, j>>
      BY <1>3 DEF Nodes
    <2>0. PICK j \in DOMAIN arr[h] : p = <<h, j>>
      BY <2>1
    <2> DEFINE n == arr[h][j]
               k == FirstAt(arr[h], n.key)
    <2>2. n \in Range(arr[h])
      BY DEF Range
    <2>3. n \in R
      BY <1>2, <2>2
    <2>4. Index(n.key, cap) = h /\ arr[h] \in Seq(Node) /\ Unique(arr[h])
      BY <1>3, <2>2 DEF Holds
    <2>5. j \in At(arr[h], n.key)
      BY DEF At
    <2>6. k \in DOMAIN arr[h] /\ arr[h][k].key = n.key
      BY <2>4, <2>5, FirstPlace
    <2>7. k = j
      BY <2>4, <2>6 DEF Unique
    <2>8. at(n) = <<h, k>>
      BY <2>4
    <2> HIDE DEF n, k, at
    <2> QED
      BY <2>0, <2>3, <2>7, <2>8
  <1> HIDE DEF at, R
  <1>6. f \in [R -> Nodes]
    BY <1>4
  <1>7. \A m, n \in R : f[m] = f[n] => m = n
    BY <1>4
  <1>8. \A p \in Nodes : \E n \in R : f[n] = p
    BY <1>5
  <1> HIDE DEF f
  <1>9. f \in Bijection(R, Nodes)
    BY <1>6, <1>7, <1>8 DEF Bijection, Injection, Surjection, IsInjective
  <1>10. ExistsBijection(R, Nodes)
    BY <1>9 DEF ExistsBijection
  <1> QED
    BY <1>1, <1>10, FS_Bijection DEF R

\* DInv is WellFormed said of places instead of nodes.
LEMMA DInvWellFormed ==
    ASSUME DInv
    PROVE  WellFormed
  <1>1. /\ cap \in Nat \ {0} /\ Good(arr, cap) /\ IsFiniteSet(Recs(arr))
        /\ size = Cardinality(Recs(arr)) /\ size <= cap
        /\ last[1] \in {"create", "get", "insert", "remove", "keys"}
    BY DEF DInv
  <1>2. DOMAIN arr = 0..cap - 1 /\ \A h \in 0..cap - 1 : Holds(arr[h], cap, h)
    BY <1>1 DEF Good
  <1>3. TypeOK
    <2>1. size \in Nat
      BY <1>1, FS_CardinalityType
    <2> QED
      BY <1>1, <2>1 DEF TypeOK, Good
  <1>4. ASSUME NEW p \in Nodes
        PROVE  /\ p = <<p[1], p[2]>> /\ p[1] \in 0..cap - 1 /\ p[2] \in DOMAIN arr[p[1]]
               /\ Index(NodeAt(p).key, cap) = p[1]
    <2>1. PICK h \in 0..cap - 1 : \E j \in DOMAIN arr[h] : p = <<h, j>>
      BY <1>2 DEF Nodes
    <2>0. PICK j \in DOMAIN arr[h] : p = <<h, j>>
      BY <2>1
    <2>2. p[1] = h /\ p[2] = j
      BY <2>0
    <2>3. arr[h][j] \in Range(arr[h])
      BY DEF Range
    <2>4. Index(arr[h][j].key, cap) = h
      BY <1>2, <2>3 DEF Holds
    <2> QED
      BY <2>0, <2>2, <2>4 DEF NodeAt
  <1>5. ASSUME NEW p \in Nodes, NEW q \in Nodes, NodeAt(p).key = NodeAt(q).key
        PROVE  p = q
    <2>1. p[1] = q[1]
      BY <1>4, <1>5
    <2>2. Unique(arr[p[1]])
      BY <1>2, <1>4 DEF Holds
    <2>3. p[2] = q[2]
      BY <1>4, <1>5, <2>1, <2>2 DEF Unique, NodeAt
    <2> QED
      BY <1>4, <2>1, <2>3
  <1>6. size = Cardinality(Nodes)
    BY <1>1, PlacesCounted
  <1> QED
    BY <1>1, <1>3, <1>4, <1>5, <1>6 DEF WellFormed

\* The dictionary is well formed after every sequence of calls: each node in the
\* list its key hashes to, no key twice, size the number of nodes and at most cap.
THEOREM AlwaysWellFormed == Spec => []WellFormed
  <1>1. DInv => WellFormed
    BY DInvWellFormed
  <1> QED
    BY <1>1, Invariant, PTL

-----------------------------------------------------------------------------
(* The dictionary implements the map.                                      *)

\* The map that a set of nodes stands for.
AsMap(R) == [k \in {n.key : n \in R} |-> (CHOOSE n \in R : n.key = k).val]

\* A set of nodes as a map: its keys, its values, and what a lookup returns.
LEMMA AsMapFacts ==
    ASSUME NEW R, Functional(R)
    PROVE  /\ DOMAIN AsMap(R) = {n.key : n \in R}
           /\ \A n \in R : AsMap(R)[n.key] = n.val
           /\ \A key : ValueIn(R, key) = IF key \in DOMAIN AsMap(R) THEN AsMap(R)[key] ELSE NULL
           /\ AsMap(R) = [k \in DOMAIN AsMap(R) |-> AsMap(R)[k]]
  <1>1. DOMAIN AsMap(R) = {n.key : n \in R}
    BY DEF AsMap
  <1>2. ASSUME NEW n \in R PROVE AsMap(R)[n.key] = n.val
    <2>1. n.key \in {m.key : m \in R}
      OBVIOUS
    <2>2. AsMap(R)[n.key] = (CHOOSE m \in R : m.key = n.key).val
      BY <2>1, Zenon DEF AsMap
    <2>3. ValueIn(R, n.key) = (CHOOSE m \in R : m.key = n.key).val
      BY Zenon DEF ValueIn
    <2> QED
      BY <2>2, <2>3, ValueOf
  <1>3. ASSUME NEW key
        PROVE  ValueIn(R, key) = IF key \in DOMAIN AsMap(R) THEN AsMap(R)[key] ELSE NULL
    BY DEF AsMap, ValueIn
  <1>4. AsMap(R) = [k \in DOMAIN AsMap(R) |-> AsMap(R)[k]]
    BY DEF AsMap
  <1> QED
    BY <1>1, <1>2, <1>3, <1>4

\* The refinement mapping depends on the set of nodes only, not on their places.
LEMMA ContentsAre == contents = AsMap(Recs(arr))
  BY DEF contents, AsMap, Recs

With(map, key, val) == [k \in DOMAIN map \cup {key} |-> IF k = key THEN val ELSE map[k]]

\* Replacing the node of a key is overwriting the map there.
LEMMA InsertMaps ==
    ASSUME NEW R, Functional(R), NEW key, NEW val,
           NEW Q, Q = Others(R, key) \cup {[key |-> key, val |-> val]}, Functional(Q)
    PROVE  AsMap(Q) = With(AsMap(R), key, val)
  <1> DEFINE n == [key |-> key, val |-> val]
             g == With(AsMap(R), key, val)
  <1>1. n \in Q /\ n.key = key /\ n.val = val
    OBVIOUS
  <1>2. \A m \in R : m.key # key => m \in Q
    BY DEF Others
  <1>3. \A m \in Q : m = n \/ (m \in R /\ m.key # key)
    BY DEF Others
  <1>4. /\ DOMAIN g = {key} \cup DOMAIN AsMap(R)
        /\ g[key] = val
        /\ \A k \in DOMAIN AsMap(R) : k # key => g[k] = AsMap(R)[k]
        /\ g = [k \in DOMAIN g |-> g[k]]
    BY DEF With
  <1> HIDE DEF g, n
  <1>5. DOMAIN AsMap(Q) = DOMAIN g
    <2>1. DOMAIN AsMap(Q) = {m.key : m \in Q} /\ DOMAIN AsMap(R) = {m.key : m \in R}
      BY AsMapFacts
    <2> QED
      BY <2>1, <1>1, <1>2, <1>3, <1>4
  <1>6. ASSUME NEW k \in DOMAIN AsMap(Q) PROVE AsMap(Q)[k] = g[k]
    <2>0. k \in {m.key : m \in Q}
      BY AsMapFacts
    <2>1. PICK m \in Q : m.key = k
      BY <2>0
    <2>2. AsMap(Q)[k] = m.val
      BY <2>1, AsMapFacts
    <2>3. CASE m = n
      BY <2>1, <2>2, <2>3, <1>1, <1>4
    <2>4. CASE m \in R /\ m.key # key
      <3>1. AsMap(R)[k] = m.val /\ k \in DOMAIN AsMap(R)
        <4>1. AsMap(R)[m.key] = m.val
          BY <2>4, AsMapFacts
        <4>2. m.key \in {r.key : r \in R}
          BY <2>4
        <4>3. m.key \in DOMAIN AsMap(R)
          BY <4>2, AsMapFacts
        <4> QED
          BY <2>1, <4>1, <4>3
      <3> QED
        BY <2>1, <2>2, <2>4, <3>1, <1>4
    <2> QED
      BY <2>3, <2>4, <1>3
  <1>7. AsMap(Q) = [k \in DOMAIN AsMap(Q) |-> AsMap(Q)[k]]
    BY AsMapFacts
  <1>8. AsMap(Q) = g
    BY <1>4, <1>5, <1>6, <1>7
  <1> QED
    BY <1>8 DEF g

\* Taking out the node of a key is taking the key out of the map.
LEMMA RemoveMaps ==
    ASSUME NEW R, Functional(R), NEW key
    PROVE  AsMap(Others(R, key)) = Restrict(AsMap(R), DOMAIN AsMap(R) \ {key})
  <1> DEFINE Q == Others(R, key)
             g == Restrict(AsMap(R), DOMAIN AsMap(R) \ {key})
  <1>1. \A m : m \in Q <=> m \in R /\ m.key # key
    BY DEF Others
  <1> HIDE DEF Q
  <1>2. Functional(Q)
    BY <1>1 DEF Functional
  <1>3. /\ DOMAIN g = DOMAIN AsMap(R) \ {key}
        /\ \A k \in DOMAIN g : g[k] = AsMap(R)[k]
        /\ g = [k \in DOMAIN g |-> g[k]]
    BY DEF Restrict
  <1> HIDE DEF g
  <1>4. DOMAIN AsMap(Q) = DOMAIN g
    <2>1. DOMAIN AsMap(Q) = {m.key : m \in Q} /\ DOMAIN AsMap(R) = {m.key : m \in R}
      BY <1>2, AsMapFacts
    <2> QED
      BY <2>1, <1>1, <1>3
  <1>5. ASSUME NEW k \in DOMAIN AsMap(Q) PROVE AsMap(Q)[k] = g[k]
    <2>0. k \in {m.key : m \in Q}
      BY <1>2, AsMapFacts
    <2>1. PICK m \in Q : m.key = k
      BY <2>0
    <2>2. AsMap(Q)[k] = m.val /\ AsMap(R)[k] = m.val
      BY <2>1, <1>1, <1>2, AsMapFacts
    <2> QED
      BY <2>2, <1>3, <1>4
  <1>6. AsMap(Q) = [k \in DOMAIN AsMap(Q) |-> AsMap(Q)[k]]
    BY <1>2, AsMapFacts
  <1>7. AsMap(Q) = g
    BY <1>3, <1>4, <1>5, <1>6
  <1> QED
    BY <1>7 DEF Q, g

\* dctcreate makes an empty map.
LEMMA InitMaps ==
    ASSUME Init
    PROVE  M!Init
  <1>1. Recs(arr) = {} /\ last = <<"create">>
    BY InitDInv DEF Init
  <1>2. AsMap({}) = [k \in {} |-> NULL]
    BY DEF AsMap
  <1> QED
    BY <1>1, <1>2, ContentsAre DEF M!Init

\* A node in the place of the one of its key is an insertion, whoever puts it there.
LEMMA InsertIs ==
    ASSUME DInv, DInv', NEW key \in Key, NEW val \in Val,
           Recs(arr') = Others(Recs(arr), key) \cup {[key |-> key, val |-> val]},
           last' = <<"insert", key, val>>
    PROVE  M!Insert(key, val)
  <1> DEFINE R == Recs(arr)
             Q == Others(R, key) \cup {[key |-> key, val |-> val]}
  <1>1. Functional(R) /\ contents = AsMap(R)
    BY Found, ContentsAre DEF DInv
  <1>2. Functional(Q)
    <2>1. cap' \in Nat \ {0} /\ Good(arr', cap')
      BY DEF DInv
    <2> QED
      BY <2>1, Found
  <1>3. contents' = AsMap(Q)
    <2>1. contents' = AsMap(Recs(arr'))
      BY DEF contents, AsMap, Recs
    <2> QED
      BY <2>1
  <1> HIDE DEF R
  <1>4. AsMap(Q) = With(AsMap(R), key, val)
    BY <1>1, <1>2, InsertMaps
  <1> HIDE DEF Q
  <1>5. contents' = [k \in DOMAIN contents \cup {key} |-> IF k = key THEN val ELSE contents[k]]
    BY <1>1, <1>3, <1>4 DEF With
  <1> QED
    BY <1>5 DEF M!Insert, M!Called

\* Every call is the map's call of the same name.
LEMMA StepMaps ==
    ASSUME DInv, Next
    PROVE  M!Next
  <1> DEFINE R == Recs(arr)
  <1>1. Functional(R) /\ R \subseteq Node /\ IsFiniteSet(R) /\ size = Cardinality(R)
    BY Found DEF DInv
  <1>2. contents = AsMap(R)
    BY ContentsAre
  <1>3. contents' = AsMap(Recs(arr'))
    BY ContentsAre DEF contents, AsMap, Recs
  <1> HIDE DEF R
  <1>4. ASSUME NEW key \in Key
        PROVE  ValueIn(R, key) = M!Lookup(key)
    BY <1>1, <1>2, AsMapFacts DEF M!Lookup
  <1>5. ASSUME NEW key \in Key, dctget(key) PROVE M!Get(key)
    <2>1. Recs(arr') = R /\ last' = <<"get", key, ValueIn(R, key)>>
      BY <1>5, GetDoes DEF R
    <2> QED
      BY <2>1, <1>2, <1>3, <1>4 DEF M!Get, M!Called
  <1>6. ASSUME NEW key \in Key, dctremove(key) PROVE M!Remove(key)
    <2>1. Recs(arr') = Others(R, key) /\ last' = <<"remove", key, ValueIn(R, key)>>
      BY <1>6, RemoveDoes DEF R
    <2>2. contents' = Restrict(contents, DOMAIN contents \ {key})
      BY <2>1, <1>1, <1>2, <1>3, RemoveMaps
    <2> QED
      BY <2>1, <2>2, <1>4 DEF M!Remove, M!Called, M!Restrict, Restrict
  <1>7. ASSUME NEW key \in Key, NEW val \in Given, dctinsert(key, val)
        PROVE  M!Insert(key, val)
    BY <1>7, DictAssumption, InsertDoes, InsertIs
  <1>8. ASSUME dctkeys PROVE M!Keys
    <2>1. /\ Recs(arr') = R
          /\ last'[1] = "keys"
          /\ IsInjective(last'[2])
          /\ Range(last'[2]) = {n.key : n \in R}
      BY <1>8, KeysDoes DEF R
    <2>2. DOMAIN contents = {n.key : n \in R}
      BY <1>1, <1>2, AsMapFacts
    <2>4. contents' = contents
      BY <2>1, <1>2, <1>3
    <2> QED
      BY <2>1, <2>2, <2>4 DEF M!Keys, M!Range, M!IsInjective, Range, IsInjective
  <1>9. Given \subseteq Val
    BY DictAssumption
  <1> QED
    BY <1>5, <1>6, <1>7, <1>8, <1>9 DEF Next, M!Next

\* Every call returns what the finite map's does and has its effect.
THEOREM ImplementsMap == Spec => IsMap
  <1>1. Init => M!Init
    BY InitMaps
  <1>2. DInv /\ [Next]_vars => [M!Next]_<<contents, last>>
    <2> SUFFICES ASSUME DInv, [Next]_vars PROVE [M!Next]_<<contents, last>>
      OBVIOUS
    <2>1. CASE Next
      BY <2>1, StepMaps
    <2>2. CASE UNCHANGED vars
      BY <2>2 DEF vars, contents
    <2> QED
      BY <2>1, <2>2
  <1> QED
    BY <1>1, <1>2, Invariant, PTL DEF Spec, IsMap, M!Spec

-----------------------------------------------------------------------------
(* freq.                                                                   *)

\* The nodes at all places are those of the lists.
LEMMA NodesAre == {NodeAt(p) : p \in Nodes} = Recs(arr)
  <1>1. ASSUME NEW p \in Nodes PROVE NodeAt(p) \in Recs(arr)
    <2>1. PICK h \in DOMAIN arr : \E j \in DOMAIN arr[h] : p = <<h, j>>
      BY DEF Nodes
    <2>2. PICK j \in DOMAIN arr[h] : p = <<h, j>>
      BY <2>1
    <2> QED
      BY <2>2 DEF NodeAt, Recs, Range
  <1>2. ASSUME NEW n \in Recs(arr) PROVE \E p \in Nodes : NodeAt(p) = n
    <2>1. PICK h \in DOMAIN arr : n \in Range(arr[h])
      BY DEF Recs
    <2>2. PICK j \in DOMAIN arr[h] : n = arr[h][j]
      BY <2>1 DEF Range
    <2>3. <<h, j>> \in Nodes /\ NodeAt(<<h, j>>) = n
      BY <2>2 DEF Nodes, NodeAt
    <2> QED
      BY <2>3
  <1> QED
    BY <1>1, <1>2

\* dctget finds a word's count if the dictionary has it.
LEMMA KnownIs ==
    ASSUME DInv, NEW word \in Key
    PROVE  /\ Known(word) => \E n \in Recs(arr) : n.key = word
           /\ ~Known(word) => \A n \in Recs(arr) : n.key # word
  <1> DEFINE i == Index(word, cap)
  <1>1. cap \in Nat \ {0} /\ Good(arr, cap) /\ i = Index(word, cap)
    BY DEF DInv
  <1>2. Known(word) <=> At(arr[i], word) # {}
    BY DEF Known, List
  <1> HIDE DEF i
  <1>3. At(arr[i], word) = {} => \A n \in Recs(arr) : n.key # word
    BY <1>1, Searched
  <1>4. At(arr[i], word) # {} => \E n \in Recs(arr) : n.key = word
    BY <1>1, Searched
  <1> QED
    BY <1>2, <1>3, <1>4

\* A count incremented where it is: to the dictionary, another value of the word.
LEMMA IncrementDoes ==
    ASSUME DInv, NEW word \in Key, Known(word), Increment(word), NEW count \in Nat,
           ValueIn(Recs(arr), word) = count, count + 1 \in Val
    PROVE  /\ DInv'
           /\ Recs(arr') = Others(Recs(arr), word) \cup {[key |-> word, val |-> count + 1]}
           /\ last' = <<"insert", word, count + 1>>
  <1> DEFINE i == Index(word, cap)
             b == Revalued(arr, i, word, count + 1)
             R == Recs(arr)
  <1>1. cap \in Nat \ {0} /\ Good(arr, cap) /\ i = Index(word, cap) /\ IsFiniteSet(R) /\ At(arr[i], word) # {}
    BY DEF DInv, Known, List
  <1>2. /\ i \in DOMAIN arr
        /\ FirstAt(arr[i], word) \in DOMAIN arr[i]
        /\ arr[i][FirstAt(arr[i], word)].val = count
    <2> HIDE DEF i, R
    <2>1. i \in 0..cap - 1
      BY <1>1, Searched
    <2>2. FirstAt(arr[i], word) \in DOMAIN arr[i]
      BY <1>1, Searched
    <2>3. ValueIn(Recs(arr), word) = arr[i][FirstAt(arr[i], word)].val
      BY <1>1, Searched
    <2> QED
      BY <1>1, <2>1, <2>2, <2>3 DEF Good
  <1>3. arr' = b /\ size' = size /\ cap' = cap /\ last' = <<"insert", word, count + 1>>
    BY <1>2 DEF Increment, Revalued
  <1> HIDE DEF i
  <1>4. /\ Good(b, cap)
        /\ Recs(b) = Others(R, word) \cup {[key |-> word, val |-> count + 1]}
        /\ IsFiniteSet(Recs(b)) /\ Cardinality(Recs(b)) = Cardinality(R)
    BY <1>1, Replaced
  <1> HIDE DEF b
  <1>5. last'[1] = "insert"
    BY <1>3
  <1>6. DInv'
    BY <1>3, <1>4, <1>5 DEF DInv
  <1> QED
    BY <1>3, <1>4, <1>6

\* The tally of one token more.
LEMMA TallyGrows ==
    ASSUME NEW k \in Nat, NEW w, w = Clean(text[k + 1])
    PROVE  /\ Cardinality(Seen(w, k)) \in 0..k
           /\ w = <<>> => Tally(k + 1) = Tally(k)
           /\ w # <<>> => Tally(k + 1) = Others(Tally(k), w)
                              \cup {[key |-> w, val |-> Cardinality(Seen(w, k)) + 1]}
           /\ \A n \in Tally(k) : n.val = Cardinality(Seen(n.key, k))
           /\ (\A n \in Tally(k) : n.key # w) /\ w # <<>> => Cardinality(Seen(w, k)) = 0
  <1>1. 1..k + 1 = 1..k \cup {k + 1} /\ k + 1 \notin 1..k
    OBVIOUS
  <1>2. ASSUME NEW v
        PROVE  IsFiniteSet(Seen(v, k)) /\ Cardinality(Seen(v, k)) \in 0..k /\ k + 1 \notin Seen(v, k)
    <2>1. IsFiniteSet(1..k) /\ Cardinality(1..k) = k
      BY FS_Interval
    <2>2. Seen(v, k) \subseteq 1..k
      BY DEF Seen
    <2>3. IsFiniteSet(Seen(v, k)) /\ Cardinality(Seen(v, k)) <= k /\ Cardinality(Seen(v, k)) \in Nat
      BY <2>1, <2>2, FS_Subset, FS_CardinalityType
    <2> QED
      BY <1>1, <2>2, <2>3
  <1>3. Cardinality(Seen(w, k + 1)) = Cardinality(Seen(w, k)) + 1
    <2>1. Seen(w, k + 1) = Seen(w, k) \cup {k + 1}
      BY <1>1 DEF Seen
    <2> QED
      BY <1>2, <2>1, FS_AddElement
  <1>4. ASSUME NEW v, v # w PROVE Seen(v, k + 1) = Seen(v, k)
    BY <1>1, <1>4 DEF Seen
  <1>5. Words(k + 1) = Words(k) \cup ({w} \ {<<>>})
    BY <1>1 DEF Words
  <1> DEFINE entry(v, j) == [key |-> v, val |-> Cardinality(Seen(v, j))]
  <1>6. \A j : Tally(j) = {entry(v, j) : v \in Words(j)}
    BY DEF Tally
  <1>7. \A v, j : entry(v, j).key = v /\ entry(v, j).val = Cardinality(Seen(v, j))
    OBVIOUS
  <1>8. \A v : v # w => entry(v, k + 1) = entry(v, k)
    BY <1>4
  <1>9. entry(w, k + 1) = [key |-> w, val |-> Cardinality(Seen(w, k)) + 1]
    BY <1>3
  <1> HIDE DEF entry
  <1>10. <<>> \notin Words(k)
    BY DEF Words
  <1>11. ASSUME w = <<>> PROVE Tally(k + 1) = Tally(k)
    <2>1. Words(k + 1) = Words(k) /\ w \notin Words(k)
      BY <1>5, <1>10, <1>11
    <2> QED
      BY <1>6, <1>8, <2>1
  <1>12. ASSUME w # <<>> PROVE Tally(k + 1) = Others(Tally(k), w) \cup {entry(w, k + 1)}
    <2>1. Words(k + 1) = (Words(k) \ {w}) \cup {w}
      BY <1>5, <1>12
    <2>2. Others(Tally(k), w) = {entry(v, k) : v \in Words(k) \ {w}}
      BY <1>6, <1>7 DEF Others
    <2> QED
      BY <1>6, <1>8, <2>1, <2>2
  <1>13. ASSUME \A n \in Tally(k) : n.key # w, w # <<>> PROVE Cardinality(Seen(w, k)) = 0
    <2>1. w \notin Words(k)
      BY <1>6, <1>7, <1>13
    <2>2. Seen(w, k) = {}
      BY <1>13, <2>1 DEF Words, Seen
    <2> QED
      BY <2>2, FS_EmptySet
  <1> QED
    BY <1>2, <1>6, <1>7, <1>9, <1>11, <1>12, <1>13

\* What holds between two tokens, and between two calls of any program.
FreqInv ==
    /\ DInv
    /\ text \in Files \cup {<<>>}
    /\ pos \in 0..Len(text)
    /\ pc # "calls" => Recs(arr) = Tally(pos)

\* A token is counted: its word is inserted, or its count incremented, which is an
\* insertion of the next number; or it is no word.
LEMMA CountDoes ==
    ASSUME FreqInv, Count
    PROVE  /\ FreqInv'
           /\ M!Next \/ (contents' = contents /\ last' = last)
  <1> DEFINE w == Clean(text[pos + 1])
             k == Cardinality(Seen(w, pos))
             R == Recs(arr)
  <1>1. DInv /\ pc = "count" /\ pos < Len(text) /\ pos' = pos + 1 /\ text' = text /\ pc' = pc
    BY DEF FreqInv, Count
  <1>2. text \in Files /\ Len(text) \in Nat
    <2>1. CASE text = <<>>
      BY <1>1, <2>1 DEF FreqInv
    <2>2. CASE text \in Files
      BY <2>2, FreqAssumption
    <2> QED
      BY <2>1, <2>2 DEF FreqInv
  <1>3. pos \in Nat /\ pos + 1 \in 1..Len(text) /\ pos' \in 0..Len(text')
    BY <1>1, <1>2 DEF FreqInv
  <1>4. (w = <<>> \/ w \in Key) /\ \A i \in 1..Len(text) : i \in Val
    BY <1>2, <1>3, FreqAssumption
  <1>5. R = Tally(pos)
    BY <1>1 DEF FreqInv
  <1>7. (Tally(pos))' = Tally(pos + 1)
    BY <1>1 DEF Tally, Words, Seen
  <1>8. (w = <<>> /\ UNCHANGED vars) \/ (w # <<>> /\ Known(w) /\ Increment(w))
            \/ (w # <<>> /\ ~Known(w) /\ dctinsert(w, 1))
    BY DEF Count
  <1> HIDE DEF k, w, R
  <1>9. /\ k \in 0..pos
        /\ w = <<>> => Tally(pos + 1) = R
        /\ w # <<>> => Tally(pos + 1) = Others(R, w) \cup {[key |-> w, val |-> k + 1]}
        /\ \A n \in R : n.key = w => n.val = k
        /\ (\A n \in R : n.key # w) /\ w # <<>> => k = 0
    BY <1>3, <1>5, TallyGrows DEF w, k
  <1>10. k + 1 \in Val /\ k \in Nat
    <2>1. k + 1 \in 1..Len(text)
      BY <1>2, <1>3, <1>9
    <2> QED
      BY <1>4, <1>9, <2>1
  <1>11. CASE w = <<>> /\ UNCHANGED vars
    <2>1. DInv' /\ Recs(arr') = R /\ contents' = contents /\ last' = last
      BY <1>1, <1>11 DEF vars, DInv, contents, R
    <2> QED
      BY <1>1, <1>2, <1>3, <1>7, <1>9, <1>11, <2>1 DEF FreqInv
  <1>12. ASSUME w # <<>>, DInv', Recs(arr') = Others(R, w) \cup {[key |-> w, val |-> k + 1]},
                last' = <<"insert", w, k + 1>>
         PROVE  FreqInv' /\ M!Next
    <2>1. M!Insert(w, k + 1)
      BY <1>1, <1>4, <1>10, <1>12, InsertIs DEF R
    <2>2. M!Next
      BY <1>4, <1>10, <1>12, <2>1 DEF M!Next
    <2> QED
      BY <1>1, <1>2, <1>3, <1>7, <1>9, <1>12, <2>2 DEF FreqInv
  <1>13. CASE w # <<>> /\ Known(w) /\ Increment(w)
    <2>1. PICK n \in R : n.key = w
      BY <1>1, <1>4, <1>13, KnownIs DEF R
    <2>2. Functional(R)
      BY <1>1, Found DEF DInv, R
    <2>3. ValueIn(R, w) = k
      BY <1>9, <2>1, <2>2, ValueOf
    <2>4. DInv' /\ Recs(arr') = Others(R, w) \cup {[key |-> w, val |-> k + 1]} /\ last' = <<"insert", w, k + 1>>
      BY <1>1, <1>4, <1>10, <1>13, <2>3, IncrementDoes DEF R
    <2> QED
      BY <1>12, <1>13, <2>4
  <1>14. CASE w # <<>> /\ ~Known(w) /\ dctinsert(w, 1)
    <2>1. k = 0
      BY <1>1, <1>4, <1>9, <1>14, KnownIs DEF R
    <2>2. k + 1 = 1 /\ 1 \in Val
      BY <1>10, <2>1
    <2>3. DInv' /\ Recs(arr') = Others(R, w) \cup {[key |-> w, val |-> 1]} /\ last' = <<"insert", w, 1>>
      BY <1>1, <1>4, <1>14, <2>2, InsertDoes DEF R
    <2> QED
      BY <1>12, <1>14, <2>2, <2>3
  <1> QED
    BY <1>8, <1>11, <1>13, <1>14

\* freq starts with a new dictionary and no token read.
LEMMA FreqInitInv == FreqInit => FreqInv
  <1> SUFFICES ASSUME FreqInit PROVE FreqInv
    OBVIOUS
  <1>1. DInv /\ Recs(arr) = {}
    BY InitDInv DEF FreqInit
  <1>2. text \in Files \cup {<<>>} /\ pos = 0
    BY DEF FreqInit
  <1>3. Len(text) \in Nat
    BY <1>2, FreqAssumption
  <1>4. Tally(0) = {}
    BY DEF Tally, Words
  <1> QED
    BY <1>1, <1>2, <1>3, <1>4 DEF FreqInv

\* Every step of either client keeps it, and is a call of the map.
LEMMA FreqStep ==
    ASSUME FreqInv, [FreqNext]_freqVars
    PROVE  FreqInv' /\ [M!Next]_<<contents, last>>
  <1>0. DInv
    BY DEF FreqInv
  <1>1. CASE pc = "calls" /\ Next /\ UNCHANGED <<text, pos, pc, top>>
    <2>1. DInv' /\ M!Next
      BY <1>0, <1>1, NextDInv, StepMaps
    <2> QED
      BY <1>1, <2>1 DEF FreqInv
  <1>2. CASE Count
    BY <1>2, CountDoes
  <1>3. CASE UNCHANGED <<vars, text, pos>> /\ (pc # "calls" \/ pc' = pc)
    <2>1. DInv' /\ Recs(arr') = Recs(arr) /\ contents' = contents /\ last' = last
      BY <1>0, <1>3 DEF vars, DInv, contents
    <2>2. (Tally(pos))' = Tally(pos)
      BY <1>3 DEF Tally, Words, Seen
    <2> QED
      BY <1>3, <2>1, <2>2 DEF FreqInv
  <1>4. Report \/ ReportNothing \/ UNCHANGED freqVars
            => UNCHANGED <<vars, text, pos>> /\ (pc # "calls" \/ pc' = pc)
    BY DEF Report, ReportNothing, freqVars
  <1> QED
    BY <1>1, <1>2, <1>3, <1>4 DEF FreqNext

\* The dictionary is in order whichever program uses it, and freq's holds the tally
\* of the tokens it has read.
THEOREM FreqInvariant == FreqSpec => []FreqInv
  <1>1. FreqInv /\ [FreqNext]_freqVars => FreqInv'
    BY FreqStep
  <1> QED
    BY <1>1, FreqInitInv, PTL DEF FreqSpec

\* The dictionary stays well formed also when freq writes counts behind its back
\* (freq.c 90).
THEOREM FreqWellFormed == FreqSpec => []WellFormed
  <1>1. FreqInv => WellFormed
    BY DInvWellFormed DEF FreqInv
  <1> QED
    BY <1>1, FreqInvariant, PTL

\* After every token the dictionary has each word read so far once, with the number
\* of times it was read (freq.c 64-95), for every file.
THEOREM CountsRight == FreqSpec => []Tallied
  <1>1. FreqInv => Tallied
    BY NodesAre DEF FreqInv, Tallied
  <1> QED
    BY <1>1, FreqInvariant, PTL

\* With either client the dictionary is a finite map, and an increment in place is to
\* it an insertion.
THEOREM FreqImplementsMap == FreqSpec => IsMap
  <1>1. FreqInit => M!Init
    BY InitMaps DEF FreqInit
  <1>2. FreqInv /\ [FreqNext]_freqVars => [M!Next]_<<contents, last>>
    BY FreqStep
  <1> QED
    BY <1>1, <1>2, FreqInvariant, PTL DEF FreqSpec, IsMap, M!Spec

-----------------------------------------------------------------------------
(* What freq prints.                                                       *)

\* The text has a length.
LEMMA TextLength ==
    ASSUME text \in Files \cup {<<>>}
    PROVE  Len(text) \in Nat
  <1>1. Len(<<>>) = 0
    OBVIOUS
  <1> QED
    BY <1>1, FreqAssumption

\* strcmp orders strings: no string is before itself, one that is before another is before
\* all that are behind that, and of two different strings one is before the other.
LEMMA BeforeOrders ==
    ASSUME NEW a \in Seq(Int), NEW b \in Seq(Int), NEW c \in Seq(Int)
    PROVE  /\ ~Before(a, a)
           /\ Before(a, b) /\ Before(b, c) => Before(a, c)
           /\ a # b => Before(a, b) \/ Before(b, a)
  <1>t. /\ Len(a) \in Nat /\ Len(b) \in Nat /\ Len(c) \in Nat
        /\ \A i \in 1..Len(a) : a[i] \in Int
        /\ \A i \in 1..Len(b) : b[i] \in Int
        /\ \A i \in 1..Len(c) : c[i] \in Int
    OBVIOUS
  <1>1. ~Before(a, a)
    BY <1>t DEF Before
  <1>2. ASSUME Before(a, b), Before(b, c) PROVE Before(a, c)
    <2>1. PICK i \in 1..Len(b) : /\ \A j \in 1..i - 1 : j <= Len(a) /\ a[j] = b[j]
                                 /\ i > Len(a) \/ a[i] < b[i]
      BY <1>2 DEF Before
    <2>2. PICK k \in 1..Len(c) : /\ \A j \in 1..k - 1 : j <= Len(b) /\ b[j] = c[j]
                                 /\ k > Len(b) \/ b[k] < c[k]
      BY <1>2 DEF Before
    <2>3. CASE i < k
      <3>1. i \in 1..Len(c) /\ b[i] = c[i] /\ \A j \in 1..i - 1 : j <= Len(a) /\ a[j] = c[j]
        BY <1>t, <2>1, <2>2, <2>3
      <3> QED
        BY <2>1, <3>1 DEF Before
    <2>4. CASE k < i
      <3>1. k <= Len(a) /\ a[k] = b[k] /\ \A j \in 1..k - 1 : j <= Len(a) /\ a[j] = c[j]
        BY <1>t, <2>1, <2>2, <2>4
      <3>2. k <= Len(b)
        BY <1>t, <2>1, <2>4
      <3>3. a[k] < c[k]
        BY <2>2, <3>1, <3>2
      <3> QED
        BY <3>1, <3>3 DEF Before
    <2>5. CASE i = k
      <3>1. \A j \in 1..k - 1 : j <= Len(a) /\ a[j] = c[j]
        BY <1>t, <2>1, <2>2, <2>5
      <3>2. b[k] < c[k]
        BY <1>t, <2>1, <2>2, <2>5
      <3>3. k > Len(a) \/ a[k] < c[k]
        <4>1. CASE k > Len(a)
          BY <4>1
        <4>2. CASE k <= Len(a)
          <5>1. a[k] \in Int /\ b[k] \in Int /\ c[k] \in Int /\ a[k] < b[k]
            BY <1>t, <2>1, <2>2, <2>5, <4>2
          <5> QED
            BY <3>2, <5>1
        <4> QED
          BY <1>t, <4>1, <4>2
      <3> QED
        BY <3>1, <3>3 DEF Before
    <2> QED
      BY <2>3, <2>4, <2>5
  <1>3. ASSUME a # b PROVE Before(a, b) \/ Before(b, a)
    <2> DEFINE T == {i \in Nat \ {0} : i > Len(a) \/ i > Len(b) \/ a[i] # b[i]}
    <2>1. PICK m \in T : \A i \in T : m <= i
      <3>1. Len(a) + 1 \in T
        BY <1>t
      <3> HIDE DEF T
      <3>2. T \subseteq Nat
        BY DEF T
      <3> QED
        BY <3>1, <3>2, LeastNat
    <2>2. ASSUME NEW j \in 1..m - 1 PROVE j <= Len(a) /\ j <= Len(b) /\ a[j] = b[j]
      <3>1. j \in Nat \ {0} /\ ~(m <= j)
        BY <2>1
      <3> QED
        BY <1>t, <2>1, <3>1
    <2>3. m \in Nat \ {0}
      BY <2>1
    <2>4. m <= Len(a) \/ m <= Len(b)
      <3> SUFFICES ASSUME m > Len(a), m > Len(b) PROVE FALSE
        BY <1>t, <2>3
      <3>1. \A j \in 1..Len(a) : j \in 1..m - 1
        BY <1>t, <2>3
      <3>2. \A j \in 1..Len(b) : j \in 1..m - 1
        BY <1>t, <2>3
      <3>3. \A j \in 1..Len(a) : j <= Len(b) /\ a[j] = b[j]
        BY <2>2, <3>1
      <3>4. \A j \in 1..Len(b) : j <= Len(a)
        BY <2>2, <3>2
      <3>5. Len(a) <= Len(b)
        BY <1>t, <3>3
      <3>6. Len(b) <= Len(a)
        BY <1>t, <3>4
      <3>7. Len(a) = Len(b) /\ \A j \in 1..Len(a) : a[j] = b[j]
        BY <1>t, <3>3, <3>5, <3>6
      <3>8. a = b
        BY <3>7, SeqEqual
      <3> QED
        BY <1>3, <3>8
    <2>5. CASE m > Len(a)
      <3>1. m \in 1..Len(b) /\ \A j \in 1..m - 1 : j <= Len(a) /\ a[j] = b[j]
        BY <1>t, <2>2, <2>3, <2>4, <2>5
      <3> QED
        BY <2>5, <3>1 DEF Before
    <2>6. CASE m > Len(b)
      <3>1. m \in 1..Len(a) /\ \A j \in 1..m - 1 : j <= Len(b) /\ b[j] = a[j]
        BY <1>t, <2>2, <2>3, <2>4, <2>6
      <3> QED
        BY <2>6, <3>1 DEF Before
    <2>7. CASE m <= Len(a) /\ m <= Len(b)
      <3>1. m \in 1..Len(a) /\ m \in 1..Len(b) /\ a[m] \in Int /\ b[m] \in Int /\ a[m] # b[m]
        BY <1>t, <2>1, <2>3, <2>7
      <3>2. a[m] < b[m] \/ b[m] < a[m]
        BY <3>1
      <3> QED
        BY <2>2, <3>1, <3>2 DEF Before
    <2> QED
      BY <1>t, <2>3, <2>5, <2>6, <2>7
  <1> QED
    BY <1>1, <1>2, <1>3

\* In a finite set with an order, each number of elements that may come before one is
\* that of one element.
Rank(S, R) == [x \in S |-> Cardinality({y \in S : <<y, x>> \in R})]

LEMMA Ranks ==
    ASSUME NEW S, IsFiniteSet(S), NEW R,
           \A a \in S : <<a, a>> \notin R,
           \A a, b, c \in S : <<a, b>> \in R /\ <<b, c>> \in R => <<a, c>> \in R,
           \A a, b \in S : a # b => <<a, b>> \in R \/ <<b, a>> \in R
    PROVE  /\ \A x \in S : Rank(S, R)[x] \in 0..Cardinality(S) - 1
           /\ \A x, y \in S : <<x, y>> \in R => Rank(S, R)[x] < Rank(S, R)[y]
           /\ \A i \in 0..Cardinality(S) - 1 : \E x \in S : Rank(S, R)[x] = i
  <1> DEFINE below(x) == {y \in S : <<y, x>> \in R}
             rank == Rank(S, R)
             n == Cardinality(S)
             K == 0..n - 1
  <1>n. n \in Nat
    BY FS_CardinalityType
  <1>r. rank = [x \in S |-> Cardinality(below(x))]
    BY DEF Rank
  <1> HIDE DEF rank
  <1>1. ASSUME NEW x \in S PROVE IsFiniteSet(below(x)) /\ Cardinality(below(x)) \in Nat /\ Cardinality(below(x)) \in K
    <2>1. below(x) \subseteq S /\ x \notin below(x)
      OBVIOUS
    <2>2. below(x) # S
      BY <2>1
    <2> HIDE DEF below
    <2>3. IsFiniteSet(below(x)) /\ Cardinality(below(x)) <= n /\ Cardinality(below(x)) # n
      BY <2>1, <2>2, FS_Subset
    <2>4. Cardinality(below(x)) \in Nat
      BY <2>3, FS_CardinalityType
    <2> QED
      BY <1>n, <2>3, <2>4
  <1>2. ASSUME NEW x \in S, NEW y \in S, <<x, y>> \in R PROVE Cardinality(below(x)) < Cardinality(below(y))
    <2>1. below(x) \subseteq below(y) /\ x \in below(y) /\ x \notin below(x)
      BY <1>2
    <2>2. IsFiniteSet(below(y)) /\ Cardinality(below(y)) \in Nat /\ Cardinality(below(x)) \in Nat
      BY <1>1
    <2> HIDE DEF below
    <2>3. Cardinality(below(x)) <= Cardinality(below(y)) /\ Cardinality(below(x)) # Cardinality(below(y))
      BY <2>1, <2>2, FS_Subset
    <2> QED
      BY <2>2, <2>3
  <1>3. rank \in [S -> K] /\ \A x \in S : rank[x] = Cardinality(below(x)) /\ rank[x] \in Nat
    BY <1>1, <1>r
  <1> HIDE DEF below, n
  <1>4. \A x, y \in S : <<x, y>> \in R => rank[x] < rank[y]
    BY <1>2, <1>3
  <1>5. \A x, y \in S : rank[x] = rank[y] => x = y
    <2> SUFFICES ASSUME NEW x \in S, NEW y \in S, rank[x] = rank[y], x # y PROVE FALSE
      OBVIOUS
    <2>1. rank[x] < rank[y] \/ rank[y] < rank[x]
      BY <1>4
    <2> QED
      BY <1>3, <2>1
  <1>6. IsFiniteSet(K) /\ Cardinality(K) = n
    <2>1. 0 \in Int /\ n - 1 \in Int
      BY <1>n
    <2> QED
      BY <1>n, <2>1, FS_Interval
  <1> HIDE DEF K
  <1>7. rank \in Injection(S, K)
    BY <1>3, <1>5 DEF Injection, IsInjective
  <1>8. rank \in Surjection(S, K)
    <2>1. Cardinality(S) = Cardinality(K)
      BY <1>6 DEF n
    <2> QED
      BY <1>6, <1>7, <2>1, FS_Injection
  <1>9. \A i \in K : \E x \in S : rank[x] = i
    BY <1>8 DEF Surjection
  <1> QED
    BY <1>3, <1>4, <1>9 DEF rank, K, n

\* qsort (freq.c 111): the pairs, each once, each behind those that come before it.
LEMMA PairsSorted ==
    ASSUME IsFiniteSet(Recs(arr)), size = Cardinality(Recs(arr)), Functional(Recs(arr)),
           \A n \in Recs(arr) : n.key \in Seq(Int) /\ n.val \in Int
    PROVE  /\ Pairs \in Seq(Recs(arr)) /\ Len(Pairs) = size /\ size \in Nat
           /\ \A i, j \in 1..size : i < j => compare_vals(Pairs[i], Pairs[j])
           /\ \A n \in Recs(arr) : \E i \in 1..size : Pairs[i] = n
  <1> DEFINE S == Recs(arr)
             R == {r \in S \X S : compare_vals(r[1], r[2])}
             rank == Rank(S, R)
  <1>n. size \in Nat
    BY FS_CardinalityType
  <1>1. \A p, q \in S : <<p, q>> \in R <=> compare_vals(p, q)
    OBVIOUS
  <1>2. \A q \in S : rank[q] = Cardinality(Lesser(q))
    <2> SUFFICES ASSUME NEW q \in S PROVE {y \in S : <<y, q>> \in R} = Lesser(q)
      BY DEF Rank
    <2>1. Lesser(q) = {y \in S : compare_vals(y, q)}
      BY NodesAre DEF Lesser
    <2> HIDE DEF R
    <2> QED
      BY <1>1, <2>1
  <1>3. Pairs = [i \in 1..size |-> CHOOSE q \in S : Cardinality(Lesser(q)) = i - 1]
    BY NodesAre DEF Pairs
  <1>t. \A n \in S : n.key \in Seq(Int) /\ n.val \in Int
    OBVIOUS
  <1>f. \A m, n \in S : m.key = n.key => m = n
    BY DEF Functional
  <1>s. IsFiniteSet(S) /\ size = Cardinality(S)
    OBVIOUS
  <1> HIDE DEF S, R
  <1>4. \A a \in S : <<a, a>> \notin R
    <2> SUFFICES ASSUME NEW a \in S PROVE ~compare_vals(a, a)
      BY <1>1
    <2>1. ~Before(a.key, a.key)
      BY <1>t, BeforeOrders
    <2> QED
      BY <1>t, <2>1 DEF compare_vals
  <1>5. \A a, b, c \in S : <<a, b>> \in R /\ <<b, c>> \in R => <<a, c>> \in R
    <2> SUFFICES ASSUME NEW a \in S, NEW b \in S, NEW c \in S, compare_vals(a, b), compare_vals(b, c)
                 PROVE  compare_vals(a, c)
      BY <1>1
    <2>1. a.val \in Int /\ b.val \in Int /\ c.val \in Int
      BY <1>t
    <2>2. Before(a.key, b.key) /\ Before(b.key, c.key) => Before(a.key, c.key)
      BY <1>t, BeforeOrders
    <2> QED
      BY <2>1, <2>2 DEF compare_vals
  <1>6. \A a, b \in S : a # b => <<a, b>> \in R \/ <<b, a>> \in R
    <2> SUFFICES ASSUME NEW a \in S, NEW b \in S, a # b PROVE compare_vals(a, b) \/ compare_vals(b, a)
      BY <1>1
    <2>1. a.val \in Int /\ b.val \in Int /\ a.key # b.key
      BY <1>t, <1>f
    <2>2. Before(a.key, b.key) \/ Before(b.key, a.key)
      BY <1>t, <2>1, BeforeOrders
    <2> QED
      BY <2>1, <2>2 DEF compare_vals
  <1>7. /\ \A x \in S : rank[x] \in 0..size - 1
        /\ \A x, y \in S : <<x, y>> \in R => rank[x] < rank[y]
        /\ \A i \in 0..size - 1 : \E x \in S : rank[x] = i
    BY <1>4, <1>5, <1>6, <1>s, Ranks
  <1> HIDE DEF rank
  <1>8. ASSUME NEW i \in 1..size PROVE Pairs[i] \in S /\ rank[Pairs[i]] = i - 1
    <2>1. i - 1 \in 0..size - 1
      BY <1>n
    <2>2. \E q \in S : Cardinality(Lesser(q)) = i - 1
      BY <1>2, <1>7, <2>1
    <2>3. Pairs[i] = CHOOSE q \in S : Cardinality(Lesser(q)) = i - 1
      BY <1>3
    <2>4. Pairs[i] \in S /\ Cardinality(Lesser(Pairs[i])) = i - 1
      BY <2>2, <2>3
    <2> QED
      BY <1>2, <2>4
  <1>9. Pairs \in Seq(S) /\ Len(Pairs) = size
    <2>1. Pairs \in [1..size -> S]
      BY <1>3, <1>8
    <2> QED
      BY <1>n, <2>1
  <1>10. ASSUME NEW i \in 1..size, NEW j \in 1..size, i < j PROVE compare_vals(Pairs[i], Pairs[j])
    <2> DEFINE p == Pairs[i]
               q == Pairs[j]
    <2>1. p \in S /\ q \in S /\ rank[p] = i - 1 /\ rank[q] = j - 1
      BY <1>8
    <2> HIDE DEF p, q
    <2>2. p # q
      BY <1>10, <2>1
    <2>3. ~(rank[q] < rank[p])
      BY <1>10, <1>n, <2>1
    <2>4. <<p, q>> \in R
      BY <1>6, <1>7, <2>1, <2>2, <2>3
    <2> QED
      BY <1>1, <2>1, <2>4 DEF p, q
  <1>11. ASSUME NEW n \in S PROVE \E i \in 1..size : Pairs[i] = n
    <2>1. rank[n] \in 0..size - 1
      BY <1>7
    <2>2. rank[n] + 1 \in 1..size /\ (rank[n] + 1) - 1 = rank[n]
      BY <1>n, <2>1
    <2>3. Pairs[rank[n] + 1] \in S /\ rank[Pairs[rank[n] + 1]] = rank[n]
      BY <1>8, <2>2
    <2>4. \A m \in S : rank[m] = rank[n] => m = n
      <3> SUFFICES ASSUME NEW m \in S, rank[m] = rank[n], m # n PROVE FALSE
        OBVIOUS
      <3>1. rank[m] < rank[n] \/ rank[n] < rank[m]
        BY <1>6, <1>7
      <3>2. rank[n] \in Int
        BY <2>1, <1>n
      <3> QED
        BY <3>1, <3>2
    <2> QED
      BY <2>2, <2>3, <2>4
  <1> QED
    BY <1>n, <1>9, <1>10, <1>11 DEF S

\* The pairs are the words of the file, each with its number.
LEMMA PairsAreWords ==
    ASSUME FreqInv, pc # "calls", pos = Len(text)
    PROVE  LET words == Words(Len(text))
           IN  /\ \A n \in Recs(arr) : n.key \in words /\ n.val = Occurrences(n.key)
                                       /\ n.key \in Seq(Int) /\ n.val \in Int
               /\ \A w \in words : \E n \in Recs(arr) : n.key = w
               /\ Functional(Recs(arr)) /\ IsFiniteSet(Recs(arr)) /\ size = Cardinality(Recs(arr))
               /\ Cardinality(words) = size
  <1> DEFINE len == Len(text)
             words == Words(len)
             R == Recs(arr)
             entry(w) == [key |-> w, val |-> Cardinality(Seen(w, len))]
             key == [n \in R |-> n.key]
  <1>1. R = Tally(len) /\ IsFiniteSet(R) /\ size = Cardinality(R) /\ Good(arr, cap) /\ cap \in Nat \ {0}
    BY DEF FreqInv, DInv
  <1>2. Functional(R) /\ \A n \in R : n.key \in Key
    BY <1>1, Found DEF Node
  <1>3. R = {entry(w) : w \in words} /\ \A w : entry(w).key = w /\ entry(w).val = Occurrences(w)
    BY <1>1 DEF Tally, Occurrences
  <1>4. \A n \in R : n.key \in Seq(Int)
    <2>1. Key \subseteq Seq(1..127) /\ Seq(1..127) \subseteq Seq(Int)
      <3>1. 1..127 \subseteq Int
        OBVIOUS
      <3> QED
        BY <3>1, DictAssumption, SeqMonotonic
    <2> QED
      BY <1>2, <2>1
  <1>5. \A w : Occurrences(w) \in Int
    <2> SUFFICES ASSUME NEW w PROVE Cardinality(Seen(w, len)) \in Int
      BY DEF Occurrences
    <2>1. len \in Nat
      BY TextLength DEF FreqInv
    <2>2. IsFiniteSet(1..len) /\ Seen(w, len) \subseteq 1..len
      BY <2>1, FS_Interval DEF Seen
    <2> QED
      BY <2>2, FS_Subset, FS_CardinalityType
  <1> HIDE DEF entry, words, R
  <1>6. \A n \in R : n.key \in words /\ n.val = Occurrences(n.key)
    BY <1>3
  <1>7. \A w \in words : \E n \in R : n.key = w
    BY <1>3
  <1>8. key \in Surjection(R, words) /\ key \in Injection(R, words)
    BY <1>2, <1>6, <1>7 DEF Surjection, Injection, IsInjective, Functional
  <1> HIDE DEF key
  <1>9. Cardinality(words) = Cardinality(R)
    BY <1>1, <1>8, FS_Surjection
  <1> QED
    BY <1>1, <1>2, <1>4, <1>5, <1>6, <1>7, <1>9 DEF words, R

\* freq.c 96-127: the first of the sorted pairs are printed.
LEMMA ReportDoes ==
    ASSUME FreqInv, Report
    PROVE  TopWords'
  <1> DEFINE len == Len(text)
             words == Words(len)
             S == Recs(arr)
             m == Min({size, TopSize})
             printed == {top'[i].key : i \in 1..Len(top')}
             Precedes(v, w) == \/ Occurrences(v) > Occurrences(w)
                               \/ Occurrences(v) = Occurrences(w) /\ Before(v, w)
  <1>1. pc = "count" /\ pos = len /\ text' = text /\ pc' = "done" /\ top' = SubSeq(Pairs, 1, m)
    BY DEF Report
  <1>2. /\ \A n \in S : n.key \in words /\ n.val = Occurrences(n.key) /\ n.key \in Seq(Int) /\ n.val \in Int
        /\ \A w \in words : \E n \in S : n.key = w
        /\ Functional(S) /\ IsFiniteSet(S) /\ size = Cardinality(S) /\ Cardinality(words) = size
    BY <1>1, PairsAreWords
  <1>3. /\ Pairs \in Seq(S) /\ Len(Pairs) = size /\ size \in Nat
        /\ \A i, j \in 1..size : i < j => compare_vals(Pairs[i], Pairs[j])
        /\ \A n \in S : \E i \in 1..size : Pairs[i] = n
    BY <1>2, PairsSorted
  <1> HIDE DEF S
  <1>4. m \in 0..size
    <2>1. TopSize \in Nat
      BY FreqAssumption
    <2>2. m \in {size, TopSize} /\ m <= size
      <3>1. \E x \in {size, TopSize} : \A y \in {size, TopSize} : x <= y
        BY <1>3, <2>1
      <3> QED
        BY <3>1 DEF Min
    <2> QED
      BY <1>3, <2>1, <2>2
  <1>5. m = Min({Cardinality(words), TopSize})
    BY <1>2
  <1> HIDE DEF m, words
  <1>6. Len(top') = m /\ \A i \in 1..m : top'[i] = Pairs[i]
    BY <1>1, <1>3, <1>4
  <1>7. \A i \in 1..size : Pairs[i] \in S
    BY <1>3
  <1>8. \A i \in 1..m : i \in 1..size
    BY <1>3, <1>4
  <1>9. \A i, j \in 1..size : i < j => Precedes(Pairs[i].key, Pairs[j].key)
    <2> SUFFICES ASSUME NEW i \in 1..size, NEW j \in 1..size, i < j PROVE Precedes(Pairs[i].key, Pairs[j].key)
      OBVIOUS
    <2>1. compare_vals(Pairs[i], Pairs[j])
      BY <1>3
    <2>2. Pairs[i].val = Occurrences(Pairs[i].key) /\ Pairs[j].val = Occurrences(Pairs[j].key)
      BY <1>2, <1>7
    <2> QED
      BY <2>1, <2>2 DEF compare_vals
  <1>10. \A i \in 1..Len(top') : top'[i].key \in words /\ top'[i].val = Occurrences(top'[i].key)
    BY <1>2, <1>6, <1>7, <1>8
  <1> HIDE DEF Precedes
  <1>11. \A i, j \in 1..Len(top') : i < j => Precedes(top'[i].key, top'[j].key)
    BY <1>6, <1>8, <1>9
  <1>12. ASSUME NEW v \in words \ printed, NEW w \in printed PROVE Precedes(w, v)
    <2>1. PICK j \in 1..size : Pairs[j].key = v
      BY <1>2, <1>3
    <2>2. PICK i \in 1..m : Pairs[i].key = w
      BY <1>6
    <2>3. j \notin 1..m
      BY <1>6, <2>1
    <2>4. i < j /\ i \in 1..size
      BY <1>3, <1>4, <2>3
    <2> QED
      BY <1>9, <2>1, <2>2, <2>4
  <1>13. Words(Len(text))' = words /\ \A w : Occurrences(w)' = Occurrences(w)
    BY <1>1 DEF words, Words, Occurrences, Seen
  <1> QED
    BY <1>5, <1>6, <1>10, <1>11, <1>12, <1>13 DEF TopWords, Precedes

\* Nothing is printed before all is counted, and then what is right.
Printed == TopWords /\ (pc # "done" => top = <<>>)

LEMMA PrintedKept ==
    ASSUME FreqInv, Printed, [FreqNext]_freqVars
    PROVE  Printed'
  <1>p. TopWords /\ (pc # "done" => top = <<>>)
    BY DEF Printed
  <1> SUFFICES TopWords' /\ (pc' # "done" => top' = <<>>)
    BY DEF Printed
  <1>1. CASE Report
    BY <1>1, ReportDoes DEF Report
  <1>2. CASE ReportNothing
    <2>1. pc = "count" /\ text' = <<>> /\ top' = <<>>
      BY <1>2, <1>p DEF ReportNothing
    <2>2. Words(Len(text))' = {} /\ Len(text') = 0 /\ Len(top') = 0
      BY <2>1 DEF Words
    <2>3. Min({Cardinality({}), TopSize}) = 0
      <3>1. TopSize \in Nat /\ Cardinality({}) = 0
        BY FreqAssumption, FS_EmptySet
      <3>2. \E x \in {0, TopSize} : \A y \in {0, TopSize} : x <= y
        BY <3>1
      <3> QED
        BY <3>1, <3>2 DEF Min
    <2>4. 1..Len(top') = {}
      BY <2>2
    <2> QED
      BY <2>1, <2>2, <2>3, <2>4 DEF TopWords
  <1>3. CASE pc # "done" /\ pc' = pc /\ top' = top
    BY <1>3, <1>p DEF TopWords
  <1>4. CASE UNCHANGED freqVars
    <2>1. UNCHANGED <<text, pc, top>>
      BY <1>4 DEF freqVars
    <2>2. Words(Len(text))' = Words(Len(text)) /\ \A w : Occurrences(w)' = Occurrences(w)
      BY <2>1 DEF Words, Occurrences, Seen
    <2> QED
      BY <1>p, <2>1, <2>2 DEF TopWords
  <1> QED
    BY <1>1, <1>2, <1>3, <1>4 DEF FreqNext, Count

\* freq.c: what is printed is the most frequent words of the file in order, each with the
\* number of its occurrences, for every file and however the dictionary grew.
THEOREM PrintsTop == FreqSpec => []TopWords
  <1>1. FreqInit => Printed
    BY DEF FreqInit, Printed, TopWords
  <1>2. FreqInv /\ Printed /\ [FreqNext]_freqVars => Printed'
    BY PrintedKept
  <1>3. Printed => TopWords
    BY DEF Printed
  <1> QED
    BY <1>1, <1>2, <1>3, FreqInvariant, PTL DEF FreqSpec

=============================================================================
