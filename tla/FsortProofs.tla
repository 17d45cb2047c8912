----------------------------- MODULE FsortProofs -----------------------------
(***************************************************************************)
(* The inductive invariant of Fsort and what follows from it, for every     *)
(* size of the array and of the pipes, every min and every number of        *)
(* processes killed; before it, what merge and outer do to every sequence.  *)
(***************************************************************************)
EXTENDS Fsort, Measures, SequenceTheorems

-----------------------------------------------------------------------------
(* Counting.                                                               *)

\* How often a value occurs among finitely many indices is a number.
LEMMA CountType ==
    ASSUME NEW S, IsFiniteSet(S), NEW a, NEW v
    PROVE  IsFiniteSet({i \in S : a[i] = v}) /\ Count(a, S, v) \in Nat
  <1>1. IsFiniteSet({i \in S : a[i] = v})
    BY FS_Subset
  <1> QED
    BY <1>1, FS_CardinalityType DEF Count

\* The elements of a from lo to hi are those of b from low on.
Shifted(a, lo, hi, b, low) == \A i \in lo..hi : a[i] = b[i + (low - lo)]

\* Then both have the same number of each.
LEMMA CountShift ==
    ASSUME NEW lo \in Int, NEW hi \in Int, NEW a, NEW b, NEW v,
           NEW low \in Int, Shifted(a, lo, hi, b, low), NEW high \in Int, high - low = hi - lo
    PROVE  Count(a, lo..hi, v) = Count(b, low..high, v)
  <1> DEFINE d == low - lo
  <1> d \in Int /\ low = lo + d /\ high = hi + d
    OBVIOUS
  <1> \A i \in lo..hi : a[i] = b[i + d]
    BY DEF Shifted
  <1> HIDE DEF d
  <1> DEFINE S == {i \in lo..hi : a[i] = v}
             T == {i \in low..high : b[i] = v}
             f == [i \in S |-> i + d]
  <1>1. IsFiniteSet(S)
    <2> S \in SUBSET (lo..hi)
      OBVIOUS
    <2> HIDE DEF S
    <2> QED
      BY FS_Interval, FS_Subset
  <1>2. f \in [S -> T]
    OBVIOUS
  <1>3. \A i, j \in S : f[i] = f[j] => i = j
    OBVIOUS
  <1>4. \A t \in T : \E i \in S : f[i] = t
    <2> TAKE t \in T
    <2>1. t - d \in S /\ f[t - d] = t
      OBVIOUS
    <2> QED
      BY <2>1
  <1>5. ExistsBijection(S, T)
    <2> HIDE DEF S, T, f
    <2> QED
      BY <1>2, <1>3, <1>4 DEF ExistsBijection, Bijection, Injection, Surjection, IsInjective
  <1>6. Cardinality(T) = Cardinality(S)
    <2> HIDE DEF S, T, f
    <2> QED
      BY <1>1, <1>5, FS_Bijection
  <1> QED
    BY <1>6 DEF Count

\* An interval in two parts: what occurs in it occurs in one of them.
LEMMA CountUnion ==
    ASSUME NEW lo \in Int, NEW m \in Int, NEW hi \in Int, lo <= m + 1, m <= hi, NEW a, NEW v
    PROVE  Count(a, lo..hi, v) = Count(a, lo..m, v) + Count(a, m + 1..hi, v)
  <1> DEFINE S == {i \in lo..m : a[i] = v}
             T == {i \in m + 1..hi : a[i] = v}
  <1>1. IsFiniteSet(S) /\ IsFiniteSet(T)
    <2>1. S \in SUBSET (lo..m) /\ T \in SUBSET (m + 1..hi)
      OBVIOUS
    <2>2. IsFiniteSet(lo..m) /\ IsFiniteSet(m + 1..hi)
      BY FS_Interval
    <2> HIDE DEF S, T
    <2> QED
      BY <2>1, <2>2, FS_Subset
  <1>2. S \cap T = {}
    OBVIOUS
  <1>3. {i \in lo..hi : a[i] = v} = S \cup T
    OBVIOUS
  <1>4. Cardinality(S) \in Nat /\ Cardinality(T) \in Nat
    <2> HIDE DEF S, T
    <2> QED
      BY <1>1, FS_CardinalityType
  <1>5. Cardinality(S \cup T) = Cardinality(S) + Cardinality(T)
    <2> HIDE DEF S, T
    <2>1. Cardinality(S \cap T) = 0
      BY <1>2, FS_EmptySet
    <2>2. Cardinality(S \cup T) = Cardinality(S) + Cardinality(T) - Cardinality(S \cap T)
      BY <1>1, FS_Union
    <2> QED
      BY <1>4, <2>1, <2>2
  <1> QED
    BY <1>3, <1>5 DEF Count

\* One element more at the front.
LEMMA CountFirst ==
    ASSUME NEW lo \in Int, NEW hi \in Int, lo <= hi, NEW a, NEW v
    PROVE  Count(a, lo..hi, v) = (IF a[lo] = v THEN 1 ELSE 0) + Count(a, lo + 1..hi, v)
  <1>1. Count(a, lo..hi, v) = Count(a, lo..lo, v) + Count(a, lo + 1..hi, v)
    BY CountUnion
  <1>2. lo..lo = {lo}
    OBVIOUS
  <1>3. CASE a[lo] = v
    <2>1. {i \in lo..lo : a[i] = v} = {lo}
      BY <1>2, <1>3
    <2> QED
      BY <1>1, <1>3, <2>1, FS_Singleton DEF Count
  <1>4. CASE a[lo] # v
    <2>1. {i \in lo..lo : a[i] = v} = {}
      BY <1>2, <1>4
    <2> QED
      BY <1>1, <1>4, <2>1, FS_EmptySet DEF Count
  <1> QED
    BY <1>3, <1>4

\* A value that is nowhere occurs 0 times.
LEMMA CountNone ==
    ASSUME NEW S, NEW a, NEW v, \A i \in S : a[i] # v
    PROVE  Count(a, S, v) = 0
  <1>1. {i \in S : a[i] = v} = {}
    OBVIOUS
  <1> QED
    BY <1>1, FS_EmptySet DEF Count

\* SameOn asks for the values that occur; the others occur never.
LEMMA SameCount ==
    ASSUME NEW S, NEW a, NEW b
    PROVE  SameOn(S, a, b) <=> \A v : Count(a, S, v) = Count(b, S, v)
  <1>1. ASSUME SameOn(S, a, b), NEW v PROVE Count(a, S, v) = Count(b, S, v)
    <2>1. CASE v \in {a[i] : i \in S} \cup {b[i] : i \in S}
      BY <1>1, <2>1 DEF SameOn
    <2>2. CASE v \notin {a[i] : i \in S} \cup {b[i] : i \in S}
      <3>1. Count(a, S, v) = 0
        BY <2>2, CountNone
      <3>2. Count(b, S, v) = 0
        BY <2>2, CountNone
      <3> QED
        BY <3>1, <3>2
    <2> QED
      BY <2>1, <2>2
  <1>2. ASSUME \A v : Count(a, S, v) = Count(b, S, v) PROVE SameOn(S, a, b)
    BY <1>2 DEF SameOn
  <1> QED
    BY <1>1, <1>2

-----------------------------------------------------------------------------
(* merge and outer.                                                        *)

\* A part of a sequence of numbers.
LEMMA SubSeqFacts ==
    ASSUME NEW a \in Seq(Nat), NEW lo \in Nat, NEW hi \in Nat,
           1 <= lo, lo <= hi + 1, hi <= Len(a)
    PROVE  /\ SubSeq(a, lo, hi) \in Seq(Nat)
           /\ Len(SubSeq(a, lo, hi)) = hi - lo + 1
           /\ \A k \in 1..hi - lo + 1 : SubSeq(a, lo, hi)[k] = a[k + (lo - 1)]
           /\ \A v : Count(SubSeq(a, lo, hi), 1..hi - lo + 1, v) = Count(a, lo..hi, v)
  <1> DEFINE r == SubSeq(a, lo, hi)
             d == lo - 1
             l == hi - lo + 1
  <1>1. r \in Seq(Nat) /\ Len(r) = l
    OBVIOUS
  <1>2. \A k \in 1..l : r[k] = a[k + d]
    OBVIOUS
  <1>3. ASSUME NEW v PROVE Count(r, 1..l, v) = Count(a, lo..hi, v)
    <2>1. 1 + d = lo /\ l + d = hi /\ d \in Int /\ l \in Int /\ 1 \in Int
      OBVIOUS
    <2> HIDE DEF r, d, l
    <2>2. Shifted(r, 1, l, a, lo)
      BY <1>2 DEF Shifted, d
    <2> QED
      BY <2>1, <2>2, CountShift
  <1> QED
    BY <1>1, <1>2, <1>3

\* An element before a sequence: it occurs once more than in the sequence.
LEMMA FirstFacts ==
    ASSUME NEW e \in Nat, NEW q \in Seq(Nat)
    PROVE  LET r == <<e>> \o q IN
           /\ r \in Seq(Nat) /\ Len(r) = Len(q) + 1
           /\ r[1] = e /\ \A k \in 1..Len(q) : r[k + 1] = q[k]
           /\ \A v : Count(r, 1..Len(r), v) =
                         (IF e = v THEN 1 ELSE 0) + Count(q, 1..Len(q), v)
  <1> DEFINE r == <<e>> \o q
             l == Len(q)
  <1>1. r \in Seq(Nat) /\ Len(r) = l + 1 /\ r[1] = e /\ l \in Nat
    OBVIOUS
  <1>2. \A k \in 1..l : q[k] = r[k + 1]
    OBVIOUS
  <1>3. ASSUME NEW v PROVE Count(r, 1..l + 1, v) = (IF e = v THEN 1 ELSE 0) + Count(q, 1..l, v)
    <2> HIDE DEF r, l
    <2>0. Shifted(q, 1, l, r, 1 + 1)
      BY <1>2 DEF Shifted
    <2>1. Count(q, 1..l, v) = Count(r, 1 + 1..l + 1, v)
      BY <1>1, <2>0, CountShift
    <2>2. Count(r, 1..l + 1, v) = (IF r[1] = v THEN 1 ELSE 0) + Count(r, 1 + 1..l + 1, v)
      BY <1>1, CountFirst
    <2> QED
      BY <1>1, <2>1, <2>2
  <1> QED
    BY <1>1, <1>2, <1>3

\* r is a merge of the elements of s from s[i] and of t from t[j] on.
MergeOf(r, s, i, t, j) ==
    /\ r \in Seq(Nat) /\ Len(r) = (Len(s) + 1 - i) + (Len(t) + 1 - j)
    /\ \A v : Count(r, 1..Len(r), v) = Count(s, i..Len(s), v) + Count(t, j..Len(t), v)
    /\ \A k \in 1..Len(r) : \/ \E a \in i..Len(s) : r[k] = s[a]
                            \/ \E b \in j..Len(t) : r[k] = t[b]
    /\ SortedOn(1..Len(s), s) /\ SortedOn(1..Len(t), t) => SortedOn(1..Len(r), r)

\* How often a value occurs in an interval is a number.
LEMMA CountNat ==
    ASSUME NEW lo \in Int, NEW hi \in Int, NEW a, NEW v
    PROVE  Count(a, lo..hi, v) \in Nat
  <1>1. IsFiniteSet(lo..hi)
    BY FS_Interval
  <1> QED
    BY <1>1, CountType

\* It does not matter which of the two is named first.
LEMMA MergeOfSwapped ==
    ASSUME NEW s \in Seq(Nat), NEW t \in Seq(Nat), NEW r,
           NEW i \in 1..Len(s) + 1, NEW j \in 1..Len(t) + 1, MergeOf(r, s, i, t, j)
    PROVE  MergeOf(r, t, j, s, i)
  <1>1. (Len(s) + 1 - i) + (Len(t) + 1 - j) = (Len(t) + 1 - j) + (Len(s) + 1 - i)
    OBVIOUS
  <1>2. ASSUME NEW v PROVE Count(r, 1..Len(r), v) = Count(t, j..Len(t), v) + Count(s, i..Len(s), v)
    <2>1. Count(t, j..Len(t), v) \in Nat /\ Count(s, i..Len(s), v) \in Nat
      BY CountNat
    <2> QED
      BY <2>1 DEF MergeOf
  <1> QED
    BY <1>1, <1>2 DEF MergeOf

\* One of the two has been used up.
LEMMA MergeOfRest ==
    ASSUME NEW s \in Seq(Nat), NEW t \in Seq(Nat), NEW j \in 1..Len(t) + 1
    PROVE  MergeOf(SubSeq(t, j, Len(t)), s, Len(s) + 1, t, j)
  <1> DEFINE r == SubSeq(t, j, Len(t))
  <1>1. /\ r \in Seq(Nat) /\ Len(r) = Len(t) - j + 1
        /\ \A k \in 1..Len(t) - j + 1 : r[k] = t[k + (j - 1)]
        /\ \A v : Count(r, 1..Len(t) - j + 1, v) = Count(t, j..Len(t), v)
    BY SubSeqFacts
  <1> HIDE DEF r
  <1>2. Len(r) = (Len(s) + 1 - (Len(s) + 1)) + (Len(t) + 1 - j)
    BY <1>1
  <1>3. ASSUME NEW v
        PROVE  Count(r, 1..Len(r), v) = Count(s, Len(s) + 1..Len(s), v) + Count(t, j..Len(t), v)
    <2>1. Len(s) + 1..Len(s) = {}
      OBVIOUS
    <2>2. Count(s, Len(s) + 1..Len(s), v) = 0
      BY <2>1, CountNone
    <2>3. Count(t, j..Len(t), v) \in Nat
      BY CountNat
    <2> QED
      BY <1>1, <2>2, <2>3
  <1>4. ASSUME NEW k \in 1..Len(r) PROVE \E b \in j..Len(t) : r[k] = t[b]
    <2>1. k + (j - 1) \in j..Len(t)
      BY <1>1
    <2> QED
      BY <1>1, <2>1
  <1>5. ASSUME SortedOn(1..Len(t), t) PROVE SortedOn(1..Len(r), r)
    <2> SUFFICES ASSUME NEW k \in 1..Len(r), NEW l \in 1..Len(r), k <= l PROVE r[k] <= r[l]
      BY DEF SortedOn
    <2>1. /\ k + (j - 1) \in 1..Len(t) /\ l + (j - 1) \in 1..Len(t)
          /\ k + (j - 1) <= l + (j - 1)
      BY <1>1
    <2>2. t[k + (j - 1)] <= t[l + (j - 1)]
      BY <1>5, <2>1 DEF SortedOn
    <2> QED
      BY <1>1, <2>2
  <1>6. MergeOf(r, s, Len(s) + 1, t, j)
    BY <1>1, <1>2, <1>3, <1>4, <1>5 DEF MergeOf
  <1> QED
    BY <1>6 DEF r

\* The lesser of the two first elements goes before a merge of all others.
LEMMA MergeOfFirst ==
    ASSUME NEW s \in Seq(Nat), NEW t \in Seq(Nat), NEW i \in 1..Len(s), NEW j \in 1..Len(t),
           s[i] <= t[j], NEW q, MergeOf(q, s, i + 1, t, j)
    PROVE  MergeOf(<<s[i]>> \o q, s, i, t, j)
  <1> DEFINE r == <<s[i]>> \o q
  <1>1. /\ q \in Seq(Nat) /\ Len(q) = (Len(s) + 1 - (i + 1)) + (Len(t) + 1 - j)
        /\ \A v : Count(q, 1..Len(q), v) = Count(s, i + 1..Len(s), v) + Count(t, j..Len(t), v)
        /\ \A k \in 1..Len(q) : \/ \E a \in i + 1..Len(s) : q[k] = s[a]
                                \/ \E b \in j..Len(t) : q[k] = t[b]
        /\ SortedOn(1..Len(s), s) /\ SortedOn(1..Len(t), t) => SortedOn(1..Len(q), q)
    BY DEF MergeOf
  <1>2. s[i] \in Nat /\ Len(q) \in Nat
    BY <1>1
  <1>3. /\ r \in Seq(Nat) /\ Len(r) = Len(q) + 1 /\ r[1] = s[i]
        /\ \A k \in 1..Len(q) : r[k + 1] = q[k]
        /\ \A v : Count(r, 1..Len(r), v) = (IF s[i] = v THEN 1 ELSE 0) + Count(q, 1..Len(q), v)
    BY <1>1, <1>2, FirstFacts
  <1> HIDE DEF r
  <1>4. Len(r) = (Len(s) + 1 - i) + (Len(t) + 1 - j)
    BY <1>1, <1>3
  <1>5. ASSUME NEW v
        PROVE  Count(r, 1..Len(r), v) = Count(s, i..Len(s), v) + Count(t, j..Len(t), v)
    <2>1. Count(s, i..Len(s), v) = (IF s[i] = v THEN 1 ELSE 0) + Count(s, i + 1..Len(s), v)
      BY CountFirst
    <2>2. Count(s, i + 1..Len(s), v) \in Nat /\ Count(t, j..Len(t), v) \in Nat
      BY CountNat
    <2>3. Count(r, 1..Len(r), v) = (IF s[i] = v THEN 1 ELSE 0)
                 + (Count(s, i + 1..Len(s), v) + Count(t, j..Len(t), v))
      BY <1>1, <1>3
    <2> QED
      BY <2>1, <2>2, <2>3
  <1>6. ASSUME NEW k \in 2..Len(r) PROVE k - 1 \in 1..Len(q) /\ r[k] = q[k - 1]
    <2>1. k - 1 \in 1..Len(q) /\ (k - 1) + 1 = k
      BY <1>2, <1>3
    <2> QED
      BY <2>1, <1>3
  <1>7. ASSUME NEW k \in 1..Len(r)
        PROVE  \/ \E a \in i..Len(s) : r[k] = s[a]
               \/ \E b \in j..Len(t) : r[k] = t[b]
    <2>1. CASE k = 1
      BY <2>1, <1>3
    <2>2. CASE k # 1
      <3>1. k - 1 \in 1..Len(q) /\ r[k] = q[k - 1]
        BY <2>2, <1>6
      <3>2. i + 1..Len(s) \subseteq i..Len(s)
        OBVIOUS
      <3> QED
        BY <3>1, <3>2, <1>1
    <2> QED
      BY <2>1, <2>2
  <1>8. ASSUME SortedOn(1..Len(s), s), SortedOn(1..Len(t), t) PROVE SortedOn(1..Len(r), r)
    <2>1. \A a \in i..Len(s) : s[i] <= s[a]
      BY <1>8 DEF SortedOn
    <2>2. \A b \in j..Len(t) : s[i] <= t[b]
      <3> TAKE b \in j..Len(t)
      <3>1. t[j] <= t[b] /\ t[j] \in Nat /\ t[b] \in Nat
        BY <1>8 DEF SortedOn
      <3> QED
        BY <1>2, <3>1
    <2>3. \A k \in 1..Len(r) : s[i] <= r[k]
      BY <2>1, <2>2, <1>7
    <2>4. ASSUME NEW k \in 1..Len(r), NEW l \in 1..Len(r), k <= l PROVE r[k] <= r[l]
      <3>1. CASE k = 1
        BY <3>1, <2>3, <1>3
      <3>2. CASE k # 1
        <4>1. k - 1 \in 1..Len(q) /\ r[k] = q[k - 1] /\ l - 1 \in 1..Len(q) /\ r[l] = q[l - 1]
          BY <3>2, <2>4, <1>6
        <4>2. k - 1 <= l - 1
          BY <2>4
        <4> QED
          BY <4>1, <4>2, <1>1, <1>8 DEF SortedOn
      <3> QED
        BY <3>1, <3>2
    <2> QED
      BY <2>4 DEF SortedOn
  <1>9. MergeOf(r, s, i, t, j)
    BY <1>3, <1>4, <1>5, <1>7, <1>8 DEF MergeOf
  <1> QED
    BY <1>9 DEF r

\* What merge makes of two sequences of numbers has their elements, each as often,
\* and is sorted if they are.
LEMMA MergeSorts ==
    ASSUME NEW s \in Seq(Nat), NEW t \in Seq(Nat)
    PROVE  /\ Merge(s, t) \in Seq(Nat)
           /\ Len(Merge(s, t)) = Len(s) + Len(t)
           /\ \A v : Count(Merge(s, t), 1..Len(Merge(s, t)), v) =
                         Count(s, 1..Len(s), v) + Count(t, 1..Len(t), v)
           /\ SortedOn(1..Len(s), s) /\ SortedOn(1..Len(t), t) =>
                  SortedOn(1..Len(Merge(s, t)), Merge(s, t))
  <1> DEFINE D == (1..Len(s) + 1) \X (1..Len(t) + 1)
             Body(g) == [x \in D |->
                 IF x[1] > Len(s) THEN SubSeq(t, x[2], Len(t))
                 ELSE IF x[2] > Len(t) THEN SubSeq(s, x[1], Len(s))
                 ELSE IF s[x[1]] <= t[x[2]] THEN <<s[x[1]]>> \o g[<<x[1] + 1, x[2]>>]
                 ELSE <<t[x[2]]>> \o g[<<x[1], x[2] + 1>>]]
             m == CHOOSE g : g = Body(g)
             mu == [x \in D |-> (Len(s) + 1 - x[1]) + (Len(t) + 1 - x[2])]
  <1>1. Merge(s, t) = m[<<1, 1>>]
    BY DEF Merge
  <1>x. \A x \in D : x[1] \in 1..Len(s) + 1 /\ x[2] \in 1..Len(t) + 1 /\ mu[x] \in Nat
    OBVIOUS
  <1>s. ASSUME NEW x \in D, x[1] <= Len(s), x[2] <= Len(t)
        PROVE  /\ s[x[1]] \in Nat /\ t[x[2]] \in Nat
               /\ <<x[1] + 1, x[2]>> \in D /\ mu[<<x[1] + 1, x[2]>>] < mu[x]
               /\ <<x[1], x[2] + 1>> \in D /\ mu[<<x[1], x[2] + 1>>] < mu[x]
    <2>1. <<x[1] + 1, x[2]>> \in D /\ <<x[1], x[2] + 1>> \in D
      BY <1>s
    <2>2. mu[<<x[1] + 1, x[2]>>] < mu[x] /\ mu[<<x[1], x[2] + 1>>] < mu[x]
      BY <2>1
    <2>3. s[x[1]] \in Nat /\ t[x[2]] \in Nat
      BY <1>s
    <2> QED
      BY <2>1, <2>2, <2>3
  <1>t. \A x \in D : SubSeq(t, x[2], Len(t)) \in Seq(Nat) /\ SubSeq(s, x[1], Len(s)) \in Seq(Nat)
    <2> SUFFICES ASSUME NEW x \in D
                 PROVE  SubSeq(t, x[2], Len(t)) \in Seq(Nat) /\ SubSeq(s, x[1], Len(s)) \in Seq(Nat)
      OBVIOUS
    <2> DEFINE i == x[1]
               j == x[2]
    <2>1. i \in 1..Len(s) + 1 /\ j \in 1..Len(t) + 1
      BY <1>x
    <2> HIDE DEF i, j, D
    <2>2. SubSeq(t, j, Len(t)) \in Seq(Nat) /\ SubSeq(s, i, Len(s)) \in Seq(Nat)
      BY <2>1
    <2> QED
      BY <2>2 DEF i, j
  <1> HIDE DEF D, mu
  <1>2. \E g : g = Body(g)
    <2> DEFINE F == [g \in [D -> Seq(Nat)] |-> Body(g)]
               g0 == [x \in D |-> <<>>]
    <2>1. mu \in [D -> Nat]
      BY <1>x DEF mu
    <2>2. F \in [[D -> Seq(Nat)] -> [D -> Seq(Nat)]]
      <3> SUFFICES ASSUME NEW g \in [D -> Seq(Nat)], NEW x \in D PROVE Body(g)[x] \in Seq(Nat)
        OBVIOUS
      <3>1. CASE x[1] > Len(s)
        BY <3>1, <1>x, <1>t
      <3>2. CASE x[1] <= Len(s) /\ x[2] > Len(t)
        BY <3>2, <1>x, <1>t
      <3>3. CASE x[1] <= Len(s) /\ x[2] <= Len(t)
        <4>1. g[<<x[1] + 1, x[2]>>] \in Seq(Nat) /\ g[<<x[1], x[2] + 1>>] \in Seq(Nat)
          BY <3>3, <1>s
        <4>2. <<s[x[1]]>> \o g[<<x[1] + 1, x[2]>>] \in Seq(Nat)
          BY <4>1, <3>3, <1>s
        <4>3. <<t[x[2]]>> \o g[<<x[1], x[2] + 1>>] \in Seq(Nat)
          BY <4>1, <3>3, <1>s
        <4> ~(x[1] > Len(s)) /\ ~(x[2] > Len(t))
          BY <3>3, <1>x
        <4>4. CASE s[x[1]] <= t[x[2]]
          <5>1. Body(g)[x] = <<s[x[1]]>> \o g[<<x[1] + 1, x[2]>>]
            BY <4>4, Zenon
          <5> QED
            BY <5>1, <4>2
        <4>5. CASE ~(s[x[1]] <= t[x[2]])
          <5>1. Body(g)[x] = <<t[x[2]]>> \o g[<<x[1], x[2] + 1>>]
            BY <4>5, Zenon
          <5> QED
            BY <5>1, <4>3
        <4> QED
          BY <4>4, <4>5
      <3> QED
        BY <3>1, <3>2, <3>3, <1>x
    <2>3. g0 \in [D -> Seq(Nat)]
      OBVIOUS
    <2>4. ASSUME NEW g \in [D -> Seq(Nat)], NEW h \in [D -> Seq(Nat)], NEW x \in D,
                 \A y \in D : mu[y] < mu[x] => g[y] = h[y]
          PROVE  F[g][x] = F[h][x]
      <3>1. F[g][x] = Body(g)[x] /\ F[h][x] = Body(h)[x]
        OBVIOUS
      <3>2. CASE x[1] > Len(s) \/ x[2] > Len(t)
        BY <3>1, <3>2, <1>x
      <3>3. CASE x[1] <= Len(s) /\ x[2] <= Len(t)
        <4>1. g[<<x[1] + 1, x[2]>>] = h[<<x[1] + 1, x[2]>>]
          BY <3>3, <2>4, <1>s
        <4>2. g[<<x[1], x[2] + 1>>] = h[<<x[1], x[2] + 1>>]
          BY <3>3, <2>4, <1>s
        <4> QED
          BY <3>1, <3>3, <4>1, <4>2
      <3> QED
        BY <3>2, <3>3, <1>x
    <2>5. \A g, h \in [D -> Seq(Nat)], x \in D :
              (\A y \in D : mu[y] < mu[x] => g[y] = h[y]) => F[g][x] = F[h][x]
      <3> HIDE DEF F
      <3> QED
        BY <2>4
    <2>6. \E g \in [D -> Seq(Nat)] : g = F[g]
      <3> HIDE DEF F, g0, Body
      <3>1. Descends(D, Seq(Nat), mu, F)
        BY <2>1, <2>2, <2>5 DEF Descends
      <3> QED
        BY <3>1, <2>3, Recursion
    <2>7. \A g \in [D -> Seq(Nat)] : F[g] = Body(g)
      <3> HIDE DEF Body
      <3> QED
        OBVIOUS
    <2> HIDE DEF F, Body
    <2> QED
      BY <2>6, <2>7
  <1>3. m = Body(m)
    <2> HIDE DEF Body
    <2> QED
      BY <1>2
  <1>4. ASSUME NEW x \in D, \A y \in D : mu[y] < mu[x] => MergeOf(m[y], s, y[1], t, y[2])
        PROVE  MergeOf(m[x], s, x[1], t, x[2])
    <2> DEFINE i == x[1]
               j == x[2]
    <2>1. i \in 1..Len(s) + 1 /\ j \in 1..Len(t) + 1
      BY <1>x
    <2>2. CASE i > Len(s)
      <3>1. m[x] = SubSeq(t, j, Len(t))
        BY <2>2, <1>3
      <3>2. i = Len(s) + 1
        BY <2>1, <2>2
      <3> HIDE DEF i, j, m
      <3> QED
        BY <3>1, <3>2, <2>1, MergeOfRest DEF i, j
    <2>3. CASE ~(i > Len(s)) /\ j > Len(t)
      <3>1. m[x] = SubSeq(s, i, Len(s))
        <4> HIDE DEF m
        <4> QED
          BY <2>3, <1>3
      <3>2. j = Len(t) + 1
        BY <2>1, <2>3
      <3> HIDE DEF i, j, m
      <3>3. MergeOf(m[x], t, j, s, i)
        BY <3>1, <3>2, <2>1, MergeOfRest
      <3> QED
        BY <3>3, <2>1, MergeOfSwapped DEF i, j
    <2>4. CASE ~(i > Len(s)) /\ ~(j > Len(t)) /\ s[i] <= t[j]
      <3> DEFINE y == <<i + 1, j>>
      <3>1. m[x] = <<s[i]>> \o m[y]
        <4> HIDE DEF m
        <4> QED
          BY <2>4, <1>3, Zenon
      <3>2. y \in D /\ mu[y] < mu[x] /\ y[1] = i + 1 /\ y[2] = j
        <4> i <= Len(s) /\ j <= Len(t)
          BY <2>1, <2>4
        <4> QED
          BY <1>s
      <3>3. i \in 1..Len(s) /\ j \in 1..Len(t)
        BY <2>1, <2>4
      <3> HIDE DEF m, y
      <3>4. MergeOf(m[y], s, i + 1, t, j)
        BY <3>2, <1>4
      <3> HIDE DEF i, j
      <3> QED
        BY <3>1, <3>3, <3>4, <2>4, MergeOfFirst DEF i, j
    <2>5. CASE ~(i > Len(s)) /\ ~(j > Len(t)) /\ ~(s[i] <= t[j])
      <3> DEFINE y == <<i, j + 1>>
      <3>1. m[x] = <<t[j]>> \o m[y]
        <4> HIDE DEF m
        <4> QED
          BY <2>5, <1>3, Zenon
      <3>2. y \in D /\ mu[y] < mu[x] /\ y[1] = i /\ y[2] = j + 1
        <4> i <= Len(s) /\ j <= Len(t)
          BY <2>1, <2>5
        <4> QED
          BY <1>s
      <3>3. i \in 1..Len(s) /\ j \in 1..Len(t) /\ t[j] <= s[i] /\ j + 1 \in 1..Len(t) + 1
        <4> s[i] \in Nat /\ t[j] \in Nat
          BY <2>1, <2>5, <1>s
        <4> HIDE DEF i, j
        <4> QED
          BY <2>1, <2>5
      <3> HIDE DEF m, y
      <3>4. MergeOf(m[y], s, i, t, j + 1)
        BY <3>2, <1>4
      <3> HIDE DEF i, j
      <3>5. MergeOf(m[y], t, j + 1, s, i)
        BY <3>3, <3>4, <2>1, MergeOfSwapped
      <3>6. MergeOf(m[x], t, j, s, i)
        BY <3>1, <3>3, <3>5, MergeOfFirst
      <3> QED
        BY <3>6, <2>1, MergeOfSwapped DEF i, j
    <2> QED
      BY <2>2, <2>3, <2>4, <2>5
  <1> HIDE DEF m
  <1>5. \A x \in D : MergeOf(m[x], s, x[1], t, x[2])
    <2> DEFINE Bad == {y \in D : ~MergeOf(m[y], s, y[1], t, y[2])}
               T == {mu[x] : x \in Bad}
    <2> SUFFICES ASSUME T # {} PROVE FALSE
      OBVIOUS
    <2>1. PICK l \in T : \A i \in T : l <= i
      <3> T \subseteq Nat
        <4> HIDE DEF Bad
        <4> Bad \subseteq D
          BY DEF Bad
        <4> QED
          BY <1>x
      <3> HIDE DEF T
      <3> QED
        BY LeastNat
    <2>2. PICK x \in Bad : mu[x] = l
      BY <2>1
    <2>3. ASSUME NEW y \in D, mu[y] < mu[x] PROVE MergeOf(m[y], s, y[1], t, y[2])
      <3>1. ~(mu[x] <= mu[y])
        BY <2>3, <1>x
      <3>2. y \notin Bad
        BY <3>1, <2>1, <2>2
      <3> QED
        BY <3>2
    <2> QED
      BY <2>2, <2>3, <1>4
  <1>6. <<1, 1>> \in D
    BY DEF D
  <1>7. MergeOf(m[<<1, 1>>], s, 1, t, 1)
    BY <1>5, <1>6
  <1> QED
    BY <1>1, <1>7 DEF MergeOf

\* The halves outer makes of s.
LEMMA Halves ==
    ASSUME NEW s \in Seq(Nat), ~(Len(s) <= 1), NEW h, h = Len(s) \div 2
    PROVE  /\ h \in Nat /\ 1 <= h /\ h < Len(s) /\ Len(s) \in Nat
           /\ SubSeq(s, 1, h) \in Seq(Nat) /\ Len(SubSeq(s, 1, h)) = h
           /\ SubSeq(s, h + 1, Len(s)) \in Seq(Nat)
           /\ Len(SubSeq(s, h + 1, Len(s))) = Len(s) - h
           /\ \A v : Count(SubSeq(s, 1, h), 1..h, v) = Count(s, 1..h, v)
           /\ \A v : Count(SubSeq(s, h + 1, Len(s)), 1..Len(s) - h, v) = Count(s, h + 1..Len(s), v)
  <1>1. h \in Nat /\ 1 <= h /\ h < Len(s) /\ Len(s) \in Nat
    OBVIOUS
  <1>2. /\ SubSeq(s, 1, h) \in Seq(Nat) /\ Len(SubSeq(s, 1, h)) = h - 1 + 1
        /\ \A v : Count(SubSeq(s, 1, h), 1..h - 1 + 1, v) = Count(s, 1..h, v)
    BY <1>1, SubSeqFacts
  <1>3. /\ SubSeq(s, h + 1, Len(s)) \in Seq(Nat)
        /\ Len(SubSeq(s, h + 1, Len(s))) = Len(s) - (h + 1) + 1
        /\ \A v : Count(SubSeq(s, h + 1, Len(s)), 1..Len(s) - (h + 1) + 1, v) =
                      Count(s, h + 1..Len(s), v)
    <2> DEFINE k == h + 1
               l == Len(s)
    <2>1. k \in Nat /\ 1 <= k /\ l \in Nat /\ k <= l + 1 /\ l <= Len(s)
      BY <1>1
    <2> HIDE DEF k, l
    <2>2. /\ SubSeq(s, k, l) \in Seq(Nat)
          /\ Len(SubSeq(s, k, l)) = l - k + 1
          /\ \A v : Count(SubSeq(s, k, l), 1..l - k + 1, v) = Count(s, k..l, v)
      BY <2>1, SubSeqFacts
    <2> QED
      BY <2>2 DEF k, l
  <1>4. h - 1 + 1 = h /\ Len(s) - (h + 1) + 1 = Len(s) - h
    BY <1>1
  <1> QED
    BY <1>1, <1>2, <1>3, <1>4

\* What outer makes of a sequence of numbers is sorted and has its elements, each
\* as often.
THEOREM OuterSorts ==
    ASSUME NEW s \in Seq(Nat)
    PROVE  /\ Outer[s] \in Seq(Nat)
           /\ Len(Outer[s]) = Len(s)
           /\ \A v : Count(Outer[s], 1..Len(s), v) = Count(s, 1..Len(s), v)
           /\ SortedOn(1..Len(s), Outer[s])
  <1> DEFINE S == Seq(Nat)
             former(a) == SubSeq(a, 1, Len(a) \div 2)
             latter(a) == SubSeq(a, Len(a) \div 2 + 1, Len(a))
             Body(g) == [a \in S |-> IF Len(a) <= 1 THEN a ELSE Merge(g[former(a)], g[latter(a)])]
             mu == [a \in S |-> Len(a)]
  <1>1. ASSUME NEW a \in S, ~(Len(a) <= 1)
        PROVE  /\ former(a) \in S /\ mu[former(a)] < mu[a]
               /\ latter(a) \in S /\ mu[latter(a)] < mu[a]
    BY <1>1, Halves
  <1>2. \E g : g = Body(g)
    <2> DEFINE F == [g \in [S -> S] |-> Body(g)]
               g0 == [a \in S |-> <<>>]
    <2>1. mu \in [S -> Nat]
      OBVIOUS
    <2>2. \A g \in [S -> S] : F[g] = Body(g)
      <3> HIDE DEF Body
      <3> QED
        OBVIOUS
    <2>3. F \in [[S -> S] -> [S -> S]]
      <3> SUFFICES ASSUME NEW g \in [S -> S], NEW a \in S PROVE Body(g)[a] \in S
        OBVIOUS
      <3>1. CASE Len(a) <= 1
        BY <3>1
      <3>2. CASE ~(Len(a) <= 1)
        <4>1. g[former(a)] \in S /\ g[latter(a)] \in S
          BY <3>2, <1>1
        <4>2. Body(g)[a] = Merge(g[former(a)], g[latter(a)])
          BY <3>2
        <4> QED
          BY <4>1, <4>2, MergeSorts
      <3> QED
        BY <3>1, <3>2
    <2>4. g0 \in [S -> S]
      OBVIOUS
    <2>5. ASSUME NEW g \in [S -> S], NEW h \in [S -> S], NEW a \in S,
                 \A b \in S : mu[b] < mu[a] => g[b] = h[b]
          PROVE  F[g][a] = F[h][a]
      <3>1. CASE Len(a) <= 1
        BY <3>1, <2>2
      <3>2. CASE ~(Len(a) <= 1)
        <4>1. g[former(a)] = h[former(a)] /\ g[latter(a)] = h[latter(a)]
          BY <3>2, <2>5, <1>1
        <4>2. Body(g)[a] = Merge(g[former(a)], g[latter(a)])
          BY <3>2
        <4>3. Body(h)[a] = Merge(h[former(a)], h[latter(a)])
          BY <3>2
        <4> HIDE DEF Body, F
        <4> QED
          BY <2>2, <4>1, <4>2, <4>3
      <3> QED
        BY <3>1, <3>2
    <2>6. \A g, h \in [S -> S], a \in S :
              (\A b \in S : mu[b] < mu[a] => g[b] = h[b]) => F[g][a] = F[h][a]
      <3> HIDE DEF F
      <3> QED
        BY <2>5
    <2>7. \E g \in [S -> S] : g = F[g]
      <3> HIDE DEF F, g0, Body, mu, S
      <3>1. Descends(S, S, mu, F)
        BY <2>1, <2>3, <2>6 DEF Descends
      <3> QED
        BY <3>1, <2>4, Recursion
    <2> HIDE DEF F, Body
    <2> QED
      BY <2>2, <2>7
  <1>3. Outer = Body(Outer)
    BY <1>2, Zenon DEF Outer
  <1> DEFINE Sorts(a) == /\ Outer[a] \in S
                         /\ Len(Outer[a]) = Len(a)
                         /\ \A v : Count(Outer[a], 1..Len(a), v) = Count(a, 1..Len(a), v)
                         /\ SortedOn(1..Len(a), Outer[a])
  <1>4. ASSUME NEW a \in S, \A b \in S : mu[b] < mu[a] => Sorts(b) PROVE Sorts(a)
    <2>1. CASE Len(a) <= 1
      <3>1. Outer[a] = a
        BY <2>1, <1>3
      <3>2. SortedOn(1..Len(a), a)
        BY <2>1 DEF SortedOn
      <3> QED
        BY <3>1, <3>2
    <2>2. CASE ~(Len(a) <= 1)
      <3> DEFINE h == Len(a) \div 2
                 x == Outer[former(a)]
                 y == Outer[latter(a)]
                 r == Merge(x, y)
      <3>1. Outer[a] = r
        BY <2>2, <1>3
      <3>2. /\ h \in Nat /\ 1 <= h /\ h < Len(a) /\ Len(a) \in Nat
            /\ former(a) \in S /\ Len(former(a)) = h
            /\ latter(a) \in S /\ Len(latter(a)) = Len(a) - h
            /\ \A v : Count(former(a), 1..h, v) = Count(a, 1..h, v)
            /\ \A v : Count(latter(a), 1..Len(a) - h, v) = Count(a, h + 1..Len(a), v)
        BY <2>2, Halves
      <3>3. Sorts(former(a)) /\ Sorts(latter(a))
        <4> HIDE DEF Sorts, former, latter, mu
        <4> QED
          BY <2>2, <1>1, <1>4
      <3>4. /\ x \in Seq(Nat) /\ Len(x) = h /\ SortedOn(1..Len(x), x)
            /\ y \in Seq(Nat) /\ Len(y) = Len(a) - h /\ SortedOn(1..Len(y), y)
            /\ \A v : Count(x, 1..Len(x), v) = Count(a, 1..h, v)
            /\ \A v : Count(y, 1..Len(y), v) = Count(a, h + 1..Len(a), v)
        <4> HIDE DEF former, latter, h
        <4> QED
          BY <3>2, <3>3
      <3> HIDE DEF h, x, y
      <3>5. /\ r \in Seq(Nat) /\ Len(r) = Len(x) + Len(y) /\ SortedOn(1..Len(r), r)
            /\ \A v : Count(r, 1..Len(r), v) = Count(x, 1..Len(x), v) + Count(y, 1..Len(y), v)
        BY <3>4, MergeSorts
      <3>6. Len(r) = Len(a)
        BY <3>2, <3>4, <3>5
      <3>7. ASSUME NEW v PROVE Count(a, 1..Len(a), v) = Count(a, 1..h, v) + Count(a, h + 1..Len(a), v)
        BY <3>2, CountUnion
      <3>8. \A v : Count(r, 1..Len(a), v) = Count(a, 1..Len(a), v)
        BY <3>4, <3>5, <3>6, <3>7
      <3> HIDE DEF r
      <3> QED
        BY <3>1, <3>5, <3>6, <3>8
    <2> QED
      BY <2>1, <2>2
  <1>5. \A a \in S : mu[a] \in Nat
    OBVIOUS
  <1> HIDE DEF S, mu, Sorts
  <1>6. \A a \in S : Sorts(a)
    <2> DEFINE Bad == {a \in S : ~Sorts(a)}
               T == {mu[a] : a \in Bad}
    <2> SUFFICES ASSUME T # {} PROVE FALSE
      OBVIOUS
    <2>1. PICK l \in T : \A i \in T : l <= i
      <3> T \subseteq Nat
        BY <1>5
      <3> HIDE DEF T
      <3> QED
        BY LeastNat
    <2>2. PICK a \in Bad : mu[a] = l
      BY <2>1
    <2>3. ASSUME NEW b \in S, mu[b] < mu[a] PROVE Sorts(b)
      <3>1. ~(mu[a] <= mu[b])
        BY <2>3, <1>5
      <3>2. b \notin Bad
        BY <3>1, <2>1, <2>2
      <3> QED
        BY <3>2
    <2> QED
      BY <2>2, <2>3, <1>4
  <1> QED
    BY <1>6 DEF S, Sorts

-----------------------------------------------------------------------------
(* Arrays.                                                                 *)

\* Two rearrangements are one.
LEMMA SameTransitive ==
    ASSUME NEW S, NEW a, NEW b, NEW c, SameOn(S, a, b), SameOn(S, b, c)
    PROVE  SameOn(S, a, c)
  BY SameCount

\* What is equal is a rearrangement.
LEMMA SameEqual ==
    ASSUME NEW S, NEW a, NEW b, \A i \in S : a[i] = b[i]
    PROVE  SameOn(S, a, b)
  <1>1. ASSUME NEW v PROVE Count(a, S, v) = Count(b, S, v)
    <2>1. {i \in S : a[i] = v} = {i \in S : b[i] = v}
      OBVIOUS
    <2> QED
      BY <2>1 DEF Count
  <1> QED
    BY <1>1, SameCount

\* Two parts rearranged, each in itself, are the whole rearranged.
LEMMA SameUnion ==
    ASSUME NEW lo \in Int, NEW m \in Int, NEW hi \in Int, lo <= m + 1, m <= hi,
           NEW a, NEW b, SameOn(lo..m, a, b), SameOn(m + 1..hi, a, b)
    PROVE  SameOn(lo..hi, a, b)
  <1>1. ASSUME NEW v PROVE Count(a, lo..hi, v) = Count(b, lo..hi, v)
    <2>1. /\ Count(a, lo..hi, v) = Count(a, lo..m, v) + Count(a, m + 1..hi, v)
          /\ Count(b, lo..hi, v) = Count(b, lo..m, v) + Count(b, m + 1..hi, v)
      BY CountUnion
    <2>2. Count(a, lo..m, v) = Count(b, lo..m, v) /\ Count(a, m + 1..hi, v) = Count(b, m + 1..hi, v)
      BY SameCount
    <2> QED
      BY <2>1, <2>2
  <1> QED
    BY <1>1, SameCount

\* A part of the array, read out.
LEMMA PartFacts ==
    ASSUME NEW a \in [Proc -> Nat], NEW lo \in Nat, NEW k \in Nat, lo + k <= N
    PROVE  /\ Part(a, lo, k) \in Seq(Nat) /\ Len(Part(a, lo, k)) = k
           /\ \A i \in 1..k : Part(a, lo, k)[i] = a[lo + i - 1]
           /\ \A v : Count(Part(a, lo, k), 1..k, v) = Count(a, lo..lo + k - 1, v)
           /\ SortedOn(lo..lo + k - 1, a) => SortedOn(1..k, Part(a, lo, k))
  <1> USE FsortAssumption
  <1> DEFINE r == Part(a, lo, k)
             hi == lo + k - 1
  <1>1. \A i \in 1..k : r[i] = a[lo + i - 1] /\ a[lo + i - 1] \in Nat
    BY DEF Part, Proc
  <1>2. r \in Seq(Nat) /\ Len(r) = k
    BY <1>1 DEF Part
  <1> HIDE DEF r
  <1>3. Shifted(r, 1, k, a, lo)
    <2>1. \A i \in 1..k : i + (lo - 1) = lo + i - 1
      OBVIOUS
    <2> QED
      BY <1>1, <2>1 DEF Shifted
  <1>4. hi \in Int /\ hi - lo = k - 1
    OBVIOUS
  <1>5. SortedOn(lo..hi, a) => SortedOn(1..k, r)
    <2> SUFFICES ASSUME SortedOn(lo..hi, a), NEW i \in 1..k, NEW j \in 1..k, i <= j PROVE r[i] <= r[j]
      BY DEF SortedOn
    <2>1. lo + i - 1 \in lo..hi /\ lo + j - 1 \in lo..hi /\ lo + i - 1 <= lo + j - 1
      OBVIOUS
    <2> QED
      BY <1>1, <2>1 DEF SortedOn
  <1> HIDE DEF hi
  <1>6. \A v : Count(r, 1..k, v) = Count(a, lo..hi, v)
    BY <1>3, <1>4, CountShift
  <1> QED
    BY <1>1, <1>2, <1>5, <1>6 DEF r, hi

\* A sequence has what an interval that it has been copied to has.
LEMMA CountMoved ==
    ASSUME NEW s, NEW r, NEW k, k \in Int, NEW lo, lo \in Int, NEW hi, hi \in Int,
           NEW S, S = 1..k, NEW T, T = lo..hi, NEW d, d = hi - lo, d = k - 1,
           NEW one, one = 1, Shifted(s, one, k, r, lo)
    PROVE  \A v : Count(s, S, v) = Count(r, T, v)
  <1>1. 1 \in Int
    OBVIOUS
  <1> QED
    BY <1>1, CountShift

\* A part of the array, written back.
LEMMA PutFacts ==
    ASSUME NEW a \in [Proc -> Nat], NEW lo \in Nat, NEW s \in Seq(Nat), lo + Len(s) <= N
    PROVE  /\ Put(a, lo, s) \in [Proc -> Nat]
           /\ \A i \in Proc : i \notin lo..lo + Len(s) - 1 => Put(a, lo, s)[i] = a[i]
           /\ \A v : Count(Put(a, lo, s), lo..lo + Len(s) - 1, v) = Count(s, 1..Len(s), v)
           /\ SortedOn(1..Len(s), s) => SortedOn(lo..lo + Len(s) - 1, Put(a, lo, s))
  <1> DEFINE r == Put(a, lo, s)
             k == Len(s)
             hi == lo + k - 1
  <1>1. k \in Nat
    OBVIOUS
  <1>2. \A i \in lo..hi : i \in Proc /\ i - lo + 1 \in 1..k
    BY FsortAssumption DEF Proc
  <1>3. r = [i \in Proc |-> IF i \in lo..hi THEN s[i - lo + 1] ELSE a[i]]
    BY DEF Put
  <1>4. \A i \in lo..hi : r[i] = s[i - lo + 1]
    BY <1>2, <1>3
  <1>5. \A i \in Proc : i \notin lo..hi => r[i] = a[i]
    BY <1>3
  <1>6. r \in [Proc -> Nat]
    <2>1. \A i \in lo..hi : s[i - lo + 1] \in Nat
      BY <1>2
    <2> HIDE DEF r, hi
    <2> QED
      BY <1>3, <2>1
  <1> HIDE DEF r
  <1>7. Shifted(s, 1, k, r, lo)
    <2> SUFFICES ASSUME NEW i \in 1..k PROVE s[i] = r[i + (lo - 1)]
      BY DEF Shifted
    <2>1. i + (lo - 1) \in lo..hi /\ (i + (lo - 1)) - lo + 1 = i
      OBVIOUS
    <2> QED
      BY <1>4, <2>1
  <1>8. hi \in Int /\ hi - lo = k - 1
    OBVIOUS
  <1>9. SortedOn(1..k, s) => SortedOn(lo..hi, r)
    <2> SUFFICES ASSUME SortedOn(1..k, s), NEW i \in lo..hi, NEW j \in lo..hi, i <= j
                 PROVE  r[i] <= r[j]
      BY DEF SortedOn
    <2>1. i - lo + 1 \in 1..k /\ j - lo + 1 \in 1..k /\ i - lo + 1 <= j - lo + 1
      OBVIOUS
    <2> QED
      BY <1>4, <2>1 DEF SortedOn
  <1> HIDE DEF hi, k
  <1>10. \A v : Count(s, 1..k, v) = Count(r, lo..hi, v)
    <2> SUFFICES ASSUME NEW S, S = 1..k, NEW T, T = lo..hi
                 PROVE  \A v : Count(s, S, v) = Count(r, T, v)
      BY Zenon
    <2>1. k \in Int /\ lo \in Int /\ hi \in Int
      BY <1>1, <1>8
    <2>2. \E d, one : one = 1 /\ d = hi - lo /\ d = k - 1 /\ Shifted(s, one, k, r, lo)
      BY <1>7, <1>8
    <2> QED
      BY <2>1, <2>2, CountMoved
  <1> QED
    BY <1>5, <1>6, <1>9, <1>10 DEF r, hi, k

\* A part of a has been replaced by its elements in another order.
Rearranged(a, b, lo, k) ==
    /\ b \in [Proc -> Nat]
    /\ SameOn(lo..lo + k - 1, b, a)
    /\ \A i \in Proc : i \notin lo..lo + k - 1 => b[i] = a[i]

\* If what is written back has the elements that were read, the array is rearranged.
LEMMA PutRearranged ==
    ASSUME NEW a \in [Proc -> Nat], NEW lo \in Nat, NEW k \in Nat, lo + k <= N,
           NEW s \in Seq(Nat), Len(s) = k,
           \A v : Count(s, 1..k, v) = Count(Part(a, lo, k), 1..k, v)
    PROVE  /\ Rearranged(a, Put(a, lo, s), lo, k)
           /\ SortedOn(1..k, s) => SortedOn(lo..lo + k - 1, Put(a, lo, s))
  <1> DEFINE b == Put(a, lo, s)
             S == lo..lo + k - 1
  <1>1. /\ b \in [Proc -> Nat]
        /\ \A i \in Proc : i \notin S => b[i] = a[i]
        /\ \A v : Count(b, S, v) = Count(s, 1..k, v)
        /\ SortedOn(1..k, s) => SortedOn(S, b)
    <2>1. lo + Len(s) <= N
      OBVIOUS
    <2>2. /\ Put(a, lo, s) \in [Proc -> Nat]
          /\ \A i \in Proc : i \notin lo..lo + Len(s) - 1 => Put(a, lo, s)[i] = a[i]
          /\ \A v : Count(Put(a, lo, s), lo..lo + Len(s) - 1, v) = Count(s, 1..Len(s), v)
          /\ SortedOn(1..Len(s), s) => SortedOn(lo..lo + Len(s) - 1, Put(a, lo, s))
      BY <2>1, PutFacts
    <2> QED
      BY <2>2
  <1>2. \A v : Count(Part(a, lo, k), 1..k, v) = Count(a, S, v)
    BY PartFacts
  <1> HIDE DEF b, S
  <1>3. SameOn(S, b, a)
    BY <1>1, <1>2, SameCount
  <1> QED
    BY <1>1, <1>3 DEF Rearranged, b, S

\* outer, of a part of the array.
LEMMA OuterPart ==
    ASSUME NEW a \in [Proc -> Nat], NEW lo \in Nat, NEW k \in Nat, lo + k <= N
    PROVE  /\ Rearranged(a, Put(a, lo, Outer[Part(a, lo, k)]), lo, k)
           /\ SortedOn(lo..lo + k - 1, Put(a, lo, Outer[Part(a, lo, k)]))
  <1> DEFINE s == Part(a, lo, k)
  <1>1. s \in Seq(Nat) /\ Len(s) = k
    BY PartFacts
  <1> HIDE DEF s
  <1>2. /\ Outer[s] \in Seq(Nat) /\ Len(Outer[s]) = k
        /\ \A v : Count(Outer[s], 1..k, v) = Count(s, 1..k, v)
        /\ SortedOn(1..k, Outer[s])
    BY <1>1, OuterSorts
  <1> QED
    BY <1>2, PutRearranged DEF s

\* An element of the second of two sequences after each other.
LEMMA ConcatAt ==
    ASSUME NEW x \in Seq(Nat), NEW y \in Seq(Nat), NEW i \in Len(x) + 1..Len(x) + Len(y)
    PROVE  (x \o y)[i] = y[i - Len(x)]
  OBVIOUS

\* merge, of a part of the array: of two halves as they are, or all of it with
\* qsort.
LEMMA MergePart ==
    ASSUME NEW a \in [Proc -> Nat], NEW lo \in Nat, NEW k \in Nat, lo + k <= N,
           NEW l \in 0..k,
           NEW s, s = Part(a, lo, l), NEW t, t = Part(a, lo + l, k - l),
           NEW r \in {Merge(s, t), Outer[s \o t]}
    PROVE  /\ Rearranged(a, Put(a, lo, r), lo, k)
           /\ SortedOn(lo..lo + l - 1, a) /\ SortedOn(lo + l..lo + k - 1, a) =>
                  SortedOn(lo..lo + k - 1, Put(a, lo, r))
  <1>0. l \in Nat /\ lo + l <= N /\ k - l \in Nat
    BY FsortAssumption
  <1>1. /\ s \in Seq(Nat) /\ Len(s) = l
        /\ \A i \in 1..l : s[i] = a[lo + i - 1]
        /\ \A v : Count(s, 1..l, v) = Count(a, lo..lo + l - 1, v)
        /\ SortedOn(lo..lo + l - 1, a) => SortedOn(1..l, s)
    <2>1. /\ Part(a, lo, l) \in Seq(Nat) /\ Len(Part(a, lo, l)) = l
          /\ \A i \in 1..l : Part(a, lo, l)[i] = a[lo + i - 1]
          /\ \A v : Count(Part(a, lo, l), 1..l, v) = Count(a, lo..lo + l - 1, v)
          /\ SortedOn(lo..lo + l - 1, a) => SortedOn(1..l, Part(a, lo, l))
      BY <1>0, PartFacts
    <2> QED
      BY <2>1
  <1>2. /\ t \in Seq(Nat) /\ Len(t) = k - l
        /\ \A i \in 1..k - l : t[i] = a[lo + l + i - 1]
        /\ \A v : Count(t, 1..k - l, v) = Count(a, lo + l..lo + k - 1, v)
        /\ SortedOn(lo + l..lo + k - 1, a) => SortedOn(1..k - l, t)
    <2> DEFINE m == lo + l
               h == k - l
    <2>1. m \in Nat /\ h \in Nat /\ m + h <= N /\ m + h - 1 = lo + k - 1
      BY FsortAssumption
    <2> HIDE DEF m, h
    <2>2. t = Part(a, m, h)
      BY DEF m, h
    <2>5. /\ Part(a, m, h) \in Seq(Nat) /\ Len(Part(a, m, h)) = h
          /\ \A i \in 1..h : Part(a, m, h)[i] = a[m + i - 1]
          /\ \A v : Count(Part(a, m, h), 1..h, v) = Count(a, m..m + h - 1, v)
          /\ SortedOn(m..m + h - 1, a) => SortedOn(1..h, Part(a, m, h))
      BY <2>1, PartFacts
    <2>3. /\ t \in Seq(Nat) /\ Len(t) = h
          /\ \A i \in 1..h : t[i] = a[m + i - 1]
          /\ \A v : Count(t, 1..h, v) = Count(a, m..m + h - 1, v)
          /\ SortedOn(m..m + h - 1, a) => SortedOn(1..h, t)
      BY <2>2, <2>5
    <2>4. \A i \in 1..h : t[i] = a[lo + l + i - 1]
      BY <2>3 DEF m
    <2> QED
      BY <2>1, <2>3, <2>4 DEF m, h
  <1>3. s \o t = Part(a, lo, k)
    <2> DEFINE p == Part(a, lo, k)
    <2>1. p \in Seq(Nat) /\ Len(p) = k /\ \A i \in 1..k : p[i] = a[lo + i - 1]
      BY PartFacts
    <2> HIDE DEF p
    <2>2. s \o t \in Seq(Nat) /\ Len(s \o t) = k
      <3>1. Len(s \o t) = Len(s) + Len(t) /\ s \o t \in Seq(Nat)
        BY <1>1, <1>2
      <3> QED
        BY <3>1, <1>1, <1>2
    <2>3. ASSUME NEW i \in 1..k, i <= l PROVE (s \o t)[i] = p[i]
      <3>1. i \in 1..Len(s)
        BY <1>0, <1>1, <2>3
      <3>2. (s \o t)[i] = s[i]
        BY <1>1, <1>2, <3>1
      <3> QED
        BY <3>1, <3>2, <1>1, <2>1
    <2>4. ASSUME NEW i \in 1..k, i > l PROVE (s \o t)[i] = p[i]
      <3>1. i \in Len(s) + 1..Len(s) + Len(t)
        BY <1>0, <1>1, <1>2, <2>4
      <3>2. (s \o t)[i] = t[i - Len(s)]
        BY <1>1, <1>2, <3>1, ConcatAt
      <3>3. lo + l + (i - l) - 1 = lo + i - 1 /\ i - l \in 1..k - l /\ i - Len(s) = i - l
        BY <1>0, <1>1, <2>4
      <3>4. t[i - l] = a[lo + l + (i - l) - 1]
        BY <3>3, <1>2
      <3> QED
        BY <3>2, <3>3, <3>4, <2>1
    <2>5. ASSUME NEW i \in 1..k PROVE (s \o t)[i] = p[i]
      <3>1. i <= l \/ i > l
        BY <1>0
      <3> QED
        BY <3>1, <2>3, <2>4
    <2> DEFINE q == s \o t
    <2>6. q \in Seq(Nat) /\ Len(q) = k /\ \A i \in 1..k : q[i] = p[i]
      BY <2>2, <2>5
    <2> HIDE DEF q
    <2>7. q = p
      BY <2>1, <2>6
    <2> QED
      BY <2>7 DEF p, q
  <1>4. CASE r = Outer[s \o t]
    BY <1>3, <1>4, OuterPart
  <1>5. CASE r = Merge(s, t)
    <2>1. /\ r \in Seq(Nat) /\ Len(r) = k
          /\ \A v : Count(r, 1..k, v) = Count(s, 1..l, v) + Count(t, 1..k - l, v)
          /\ SortedOn(1..l, s) /\ SortedOn(1..k - l, t) => SortedOn(1..k, r)
      BY <1>1, <1>2, <1>5, MergeSorts
    <2>2. ASSUME NEW v PROVE Count(Part(a, lo, k), 1..k, v) = Count(r, 1..k, v)
      <3> DEFINE m == lo + l - 1
                 h == lo + k - 1
      <3>1. m \in Int /\ h \in Int /\ lo <= m + 1 /\ m <= h /\ m + 1 = lo + l
        OBVIOUS
      <3> HIDE DEF m, h
      <3>2. Count(a, lo..h, v) = Count(a, lo..m, v) + Count(a, lo + l..h, v)
        BY <3>1, CountUnion
      <3>3. Count(Part(a, lo, k), 1..k, v) = Count(a, lo..h, v)
        BY PartFacts DEF h
      <3> QED
        BY <3>2, <3>3, <2>1, <1>1, <1>2 DEF m, h
    <2> QED
      BY <2>1, <2>2, <1>1, <1>2, PutRearranged
  <1> QED
    BY <1>4, <1>5

-----------------------------------------------------------------------------
(* Facts about a state.                                                    *)

\* The calls of a process that runs.
LEMMA CallFacts ==
    ASSUME TypeOK, Stacks, NEW p \in Proc
    PROVE  /\ p \in Nat /\ p < N /\ N \in Nat
           /\ Len(stack[p]) \in Nat
           /\ \A i \in Calls(p) : /\ stack[p][i] \in [n : 1..N, err : BOOLEAN]
                                  /\ stack[p][i].n \in 1..N /\ p + stack[p][i].n <= N
                                  /\ stack[p][i].err \in BOOLEAN
           /\ Alive(p) => 1 \in Calls(p) /\ n(p) \in 1..N /\ p + n(p) <= N
           /\ ~Alive(p) => stack[p] = <<>> /\ Calls(p) = {} /\ Pending(p) = {}
  <1>1. p \in Nat /\ p < N /\ N \in Nat
    BY FsortAssumption DEF Proc
  <1>2. stack[p] \in Seq([n : 1..N, err : BOOLEAN])
    BY DEF TypeOK
  <1>3. Len(stack[p]) \in Nat
    BY <1>2
  <1>4. \A i \in Calls(p) : stack[p][i] \in [n : 1..N, err : BOOLEAN]
    <2> DEFINE R == [n : 1..N, err : BOOLEAN]
    <2>1. stack[p] \in Seq(R)
      BY <1>2
    <2> HIDE DEF R
    <2>2. \A i \in Calls(p) : stack[p][i] \in R
      BY <2>1 DEF Calls
    <2> QED
      BY <2>2 DEF R
  <1>5. \A i \in Calls(p) : p + stack[p][i].n <= N
    BY DEF Stacks
  <1>6. Alive(p) => 1 \in Calls(p)
    BY <1>2 DEF Stacks, Calls
  <1>7. ~Alive(p) => stack[p] = <<>> /\ Calls(p) = {} /\ Pending(p) = {}
    BY DEF Stacks, Calls, Pending
  <1> QED
    BY <1>1, <1>3, <1>4, <1>5, <1>6, <1>7 DEF n

\* The child of a pending call.
LEMMA ChildFacts ==
    ASSUME TypeOK, Stacks, Families, NEW p \in Proc, NEW i \in Pending(p)
    PROVE  LET c == ChildOf(p, i) IN
           /\ Alive(p) /\ i \in Calls(p) /\ i \in Nat
           /\ c \in Proc /\ c \in Nat /\ p < c /\ c # 0
           /\ stack[p][i].n \in 2..N
           /\ Share(p, i) \in 1..N /\ c + Share(p, i) = p + stack[p][i].n
           /\ c + Share(p, i) <= N
           /\ 2 * (stack[p][i].n \div 2) <= stack[p][i].n
  <1>1. i \in Calls(p) /\ Len(stack[p]) \in Nat
    BY CallFacts DEF Pending
  <1>2. Alive(p) /\ i \in Nat
    BY <1>1, CallFacts DEF Calls
  <1>3. stack[p][i].n > 1
    BY DEF Families
  <1>4. stack[p][i].n \in 2..N /\ p + stack[p][i].n <= N /\ p \in Nat /\ N \in Nat
    BY <1>1, <1>3, CallFacts
  <1> DEFINE k == stack[p][i].n
             h == k \div 2
  <1>5. h \in Nat /\ 1 <= h /\ h < k /\ 2 * h <= k
    <2> HIDE DEF k
    <2> QED
      BY <1>4 DEF k
  <1> HIDE DEF h, k
  <1>6. k \in 2..N /\ p + k <= N /\ p \in Nat /\ N \in Nat
    BY <1>4 DEF k
  <1>7. p + h \in Proc /\ p + h \in Nat /\ p < p + h /\ p + h # 0
    BY <1>5, <1>6 DEF Proc
  <1>8. k - h \in 1..N /\ (p + h) + (k - h) = p + k /\ (p + h) + (k - h) <= N
    BY <1>5, <1>6
  <1>9. ChildOf(p, i) = p + h /\ Share(p, i) = k - h
    BY DEF ChildOf, Share, h, k
  <1> QED
    BY <1>1, <1>2, <1>5, <1>6, <1>7, <1>8, <1>9 DEF h, k

\* Two calls have different children.
LEMMA OneParent ==
    ASSUME TypeOK, Stacks, Families, NEW p \in Proc, NEW i \in Pending(p),
           NEW q \in Proc, NEW j \in Pending(q), ChildOf(p, i) = ChildOf(q, j)
    PROVE  p = q /\ i = j
  <1>1. p = q
    BY DEF Families
  <1>2. /\ i \in Calls(p) /\ j \in Calls(p) /\ i \in Nat /\ j \in Nat
        /\ stack[p][i].n \in 2..N /\ stack[p][j].n \in 2..N
    BY <1>1, ChildFacts
  <1>3. stack[p][i].n \div 2 = stack[p][j].n \div 2
    <2> DEFINE k == stack[p][i].n
               l == stack[p][j].n
    <2>1. k \in 2..N /\ l \in 2..N /\ N \in Nat /\ p \in Nat /\ p + k \div 2 = p + l \div 2
      BY <1>1, <1>2, CallFacts DEF ChildOf
    <2> HIDE DEF k, l
    <2>2. k \div 2 = l \div 2
      BY <2>1
    <2> QED
      BY <2>2 DEF k, l
  <1>4. ASSUME NEW a \in Calls(p), NEW b \in Calls(p), a < b,
               stack[p][a].n \in 2..N, stack[p][b].n \in 2..N,
               stack[p][a].n \div 2 = stack[p][b].n \div 2
        PROVE  FALSE
    <2>1. stack[p][a].n <= stack[p][b].n \div 2
      BY <1>4 DEF Stacks
    <2> DEFINE k == stack[p][a].n
    <2>2. k \in 2..N /\ k <= k \div 2 /\ N \in Nat
      BY <1>4, <2>1, CallFacts
    <2> HIDE DEF k
    <2> QED
      BY <2>2
  <1>5. ~(i < j) /\ ~(j < i)
    BY <1>2, <1>3, <1>4
  <1> QED
    BY <1>1, <1>2, <1>5

\* What is pending of q is a matter of its calls and of where it is.
LEMMA PendingSame ==
    ASSUME NEW q \in Proc, stack'[q] = stack[q],
           at'[q] \in {"read", "wait"} <=> at[q] \in {"read", "wait"}
    PROVE  /\ Pending(q)' = Pending(q) /\ Calls(q)' = Calls(q)
           /\ \A i : ChildOf(q, i)' = ChildOf(q, i) /\ Share(q, i)' = Share(q, i)
           /\ n(q)' = n(q)
  BY DEF Pending, Calls, ChildOf, Share, n

\* What is said of a part of an array stays true while the array does.
LEMMA DoneSame ==
    ASSUME NEW p, NEW k, NEW e, Done(p, k, e), mem'[p] = mem[p], input' = input,
           kills' = 0 => kills = 0
    PROVE  Done(p, k, e)'
  BY DEF Done

\* And while the part itself does.
LEMMA DonePart ==
    ASSUME NEW p, NEW k, NEW e, Done(p, k, e), input' = input, kills' = 0 => kills = 0,
           \A q \in p..p + k - 1 : mem'[p][q] = mem[p][q]
    PROVE  Done(p, k, e)'
  <1> DEFINE S == p..p + k - 1
             a == mem[p]
             b == mem'[p]
  <1>1. SameOn(S, b, a)
    BY SameEqual
  <1>2. SameOn(S, a, input) => SameOn(S, b, input)
    BY <1>1, SameTransitive
  <1>3. SortedOn(S, a) => SortedOn(S, b)
    BY DEF SortedOn
  <1>4. (kills = 0 \/ ~e => SameOn(S, a, input)) /\ (~e => SortedOn(S, a))
    BY DEF Done
  <1> HIDE DEF S, a, b
  <1>5. (kills' = 0 \/ ~e => SameOn(S, b, input')) /\ (~e => SortedOn(S, b))
    BY <1>2, <1>3, <1>4
  <1> QED
    BY <1>5 DEF Done, S, b

\* A process that reads or waits has a child that belongs to its innermost call.
LEMMA ReaderFacts ==
    ASSUME TypeOK, Stacks, Families, NEW p \in Proc, at[p] \in {"read", "wait"}
    PROVE  /\ 1 \in Pending(p) /\ Child(p) = ChildOf(p, 1) /\ Right(p) = Share(p, 1)
           /\ Child(p) \in Proc /\ Child(p) \in Nat /\ p < Child(p) /\ p \in Nat /\ Child(p) # 0
           /\ n(p) \in 2..N /\ Left(p) \in 1..N /\ Right(p) \in 1..N /\ N \in Nat
           /\ Left(p) + Right(p) = n(p) /\ Child(p) = p + Left(p) /\ p + n(p) <= N
           /\ got[Child(p)] \in Nat /\ pipe[Child(p)] \in Seq(Nat) /\ Len(pipe[Child(p)]) \in Nat
  <1>1. 1 \in Pending(p)
    BY CallFacts DEF Pending, Alive
  <1>2. Child(p) = ChildOf(p, 1) /\ Right(p) = Share(p, 1)
    BY DEF Child, ChildOf, Right, Share, Left, n
  <1>3. /\ Child(p) \in Proc /\ Child(p) \in Nat /\ p < Child(p) /\ Child(p) # 0
        /\ n(p) \in 2..N /\ Right(p) \in 1..N
    BY <1>1, <1>2, ChildFacts DEF n
  <1>4. p \in Nat /\ N \in Nat /\ p + n(p) <= N
    BY CallFacts DEF Alive
  <1>5. Left(p) \in 1..N /\ Left(p) + Right(p) = n(p) /\ Child(p) = p + Left(p)
    <2> DEFINE k == n(p)
    <2>1. k \in 2..N
      BY <1>3
    <2> HIDE DEF k
    <2>2. k \div 2 \in 1..N /\ k \div 2 + (k - k \div 2) = k
      BY <2>1, <1>4
    <2> QED
      BY <2>2 DEF Left, Right, Child, k
  <1>6. got[Child(p)] \in Nat /\ pipe[Child(p)] \in Seq(Nat)
    BY <1>3, <1>4 DEF TypeOK
  <1> QED
    BY <1>1, <1>2, <1>3, <1>4, <1>5, <1>6

\* A child that still runs when its parent waits for it has sent its whole half.
LEMMA SentAll ==
    ASSUME TypeOK, Stacks, Families, Pipes, NEW p \in Proc, at[p] = "wait", Alive(Child(p)),
           NEW c, c = Child(p), NEW r, r = Right(p)
    PROVE  at[c] = "write" /\ Sent(c) = n(c) /\ n(c) = r /\ got[c] = r
  <1>1. /\ 1 \in Pending(p) /\ c = ChildOf(p, 1) /\ r = Share(p, 1)
        /\ c \in Proc /\ r \in 1..N /\ N \in Nat
        /\ got[c] \in Nat /\ Len(pipe[c]) \in Nat
    BY ReaderFacts
  <1>2. /\ stack[c] # <<>> => stack[c][Len(stack[c])].n = r
        /\ Sent(c) <= r
        /\ got[c] = r \/ ~Alive(c)
    BY <1>1 DEF Families
  <1>3. got[c] = r
    BY <1>2
  <1>4. at[c] = "write"
    BY <1>1, <1>3 DEF Pipes, Alive
  <1>5. n(c) = r
    BY <1>1, <1>2, <1>4 DEF Stacks, n, Alive
  <1>6. Sent(c) = got[c] + Len(pipe[c])
    BY DEF Sent
  <1> QED
    BY <1>1, <1>2, <1>3, <1>4, <1>5, <1>6

-----------------------------------------------------------------------------
(* A process ends.                                                         *)

\* A child ends, by exit or by a signal.
LEMMA EndsInv ==
    ASSUME IInv, NEW c \in Proc, c # 0, Alive(c),
           NEW how \in {"exit0", "exit1", "killed"}, Ends(c, how),
           UNCHANGED <<input, mem, pipe, got, parent, noFork, abandoned>>,
           kills' \in 0..MaxKills, kills' = 0 => kills = 0,
           how = "killed" => kills' > 0,
           how # "killed" => /\ at[c] = "write" /\ Sent(c) = n(c)
                             /\ (how = "exit1") = stack[c][1].err
    PROVE  IInv'
  <1>0. TypeOK /\ Stacks /\ Fresh /\ Families /\ Owned /\ Pipes /\ Causes /\ Contents
    BY DEF IInv
  <1>1. TypeOK'
    <2>1. /\ at' \in [Proc -> {"none", "call", "read", "wait", "write",
                              "exit0", "exit1", "killed", "reaped"}]
          /\ rfd' \in [Proc -> SUBSET Proc] /\ wfd' \in [Proc -> SUBSET Proc]
      BY <1>0 DEF TypeOK, Ends
    <2>2. stack' \in [Proc -> Seq([n : 1..N, err : BOOLEAN])]
      <3> DEFINE R == [n : 1..N, err : BOOLEAN]
      <3>1. stack \in [Proc -> Seq(R)] /\ stack' = [stack EXCEPT ![c] = <<>>]
        BY <1>0 DEF TypeOK, Ends
      <3> HIDE DEF R
      <3>2. stack' \in [Proc -> Seq(R)]
        BY <3>1
      <3> QED
        BY <3>2 DEF R
    <2> QED
      BY <1>0, <2>1, <2>2 DEF TypeOK
  <1>2. /\ at'[c] = how /\ stack'[c] = <<>>
        /\ \A q \in Proc : q # c => at'[q] = at[q] /\ stack'[q] = stack[q]
        /\ \A q, d \in Proc : q # c => /\ q \in rfd[d] => q \in rfd'[d]
                                       /\ q \in wfd[d] => q \in wfd'[d]
        /\ at[c] \notin {"none", "reaped"}
    BY <1>0 DEF Ends, TypeOK, Alive
  <1>3. \A q \in Proc : q # c => /\ Pending(q)' = Pending(q) /\ Calls(q)' = Calls(q)
                                 /\ \A i : ChildOf(q, i)' = ChildOf(q, i) /\ Share(q, i)' = Share(q, i)
                                 /\ n(q)' = n(q) /\ (Alive(q)' <=> Alive(q))
    BY <1>2, PendingSame DEF Alive
  <1>4. Pending(c)' = {} /\ Calls(c)' = {} /\ ~Alive(c)'
    BY <1>2 DEF Pending, Calls, Alive
  <1>5. \A d \in Proc : Sent(d)' = Sent(d) /\ pipe'[d] = pipe[d] /\ got'[d] = got[d] /\ mem'[d] = mem[d]
    BY DEF Sent
  <1>6. kills > 0 => kills' > 0
    BY <1>0 DEF TypeOK
  <1>7. ASSUME at[c] = "write" PROVE Pending(c) = {} /\ Len(stack[c]) = 1
    <2>1. Len(stack[c]) = 1
      BY <1>0, <1>7 DEF Stacks
    <2> QED
      BY <1>7, <2>1 DEF Pending, Calls
  <1>8. Stacks'
    <2>1. \A p \in Proc : p # c =>
              /\ Alive(p)' <=> stack'[p] # <<>>
              /\ \A i \in Calls(p)' : p + stack'[p][i].n <= N
              /\ \A i \in Calls(p)' : i > 1 => stack'[p][i - 1].n = stack'[p][i].n \div 2
              /\ \A i, j \in Calls(p)' : i < j => stack'[p][i].n <= stack'[p][j].n \div 2
              /\ at'[p] = "write" => p # 0 /\ Len(stack'[p]) = 1
      BY <1>0, <1>2, <1>3 DEF Stacks
    <2>2. 0 \in Proc /\ at'[0] = at[0] /\ stack'[0] = stack[0]
      BY <1>2, FsortAssumption DEF Proc
    <2> QED
      BY <1>0, <1>2, <1>4, <2>1, <2>2 DEF Stacks
  <1>9. Fresh'
    <2> SUFFICES ASSUME NEW p \in Proc, at'[p] = "call", NEW q \in (p + 1..p + n(p) - 1)'
                 PROVE  at'[q] = "none"
      BY DEF Fresh
    <2>1. p # c /\ at[p] = "call" /\ n(p)' = n(p)
      BY <1>2, <1>3
    <2>2. at[q] = "none" /\ q \in Proc
      <3>1. p \in Nat /\ N \in Nat /\ n(p) \in 1..N /\ p + n(p) <= N
        BY <1>0, <2>1, CallFacts DEF Alive
      <3> QED
        BY <3>1, <1>0, <2>1 DEF Fresh, Proc
    <2> QED
      BY <1>2, <2>2
  <1>10. Families'
    <2> SUFFICES ASSUME NEW p \in Proc, NEW i \in Pending(p)', NEW d, d = ChildOf(p, i)'
                 PROVE  /\ stack'[p][i].n > 1
                        /\ parent'[d] = p
                        /\ at'[d] \notin {"none", "reaped"}
                        /\ stack'[d] # <<>> => stack'[d][Len(stack'[d])].n = Share(p, i)'
                        /\ Sent(d)' <= Share(p, i)'
                        /\ at'[d] \in {"exit0", "exit1"} => Sent(d)' = Share(p, i)'
                        /\ i > 1 => got'[d] = 0
                        /\ i > 1 \/ at'[p] = "read" => p \in rfd'[d] /\ got'[d] < Share(p, i)'
                        /\ i = 1 /\ at'[p] = "wait" =>
                               got'[d] = Share(p, i)' \/ (stack'[p][i].err /\ ~Alive(d)' /\ kills' > 0)
      BY DEF Families, Sent, Alive
    <2>1. p # c /\ i \in Pending(p) /\ at'[p] = at[p] /\ stack'[p] = stack[p]
      BY <1>2, <1>3, <1>4
    <2>2. d \in Proc /\ d = ChildOf(p, i) /\ Share(p, i)' = Share(p, i)
      BY <1>0, <1>3, <2>1, ChildFacts
    <2>3. /\ stack[p][i].n > 1
          /\ parent[d] = p
          /\ at[d] \notin {"none", "reaped"}
          /\ stack[d] # <<>> => stack[d][Len(stack[d])].n = Share(p, i)
          /\ Sent(d) <= Share(p, i)
          /\ at[d] \in {"exit0", "exit1"} => Sent(d) = Share(p, i)
          /\ i > 1 => got[d] = 0
          /\ i > 1 \/ at[p] = "read" => p \in rfd[d] /\ got[d] < Share(p, i)
          /\ i = 1 /\ at[p] = "wait" =>
                 got[d] = Share(p, i) \/ (stack[p][i].err /\ ~Alive(d) /\ kills > 0)
      BY <1>0, <2>1, <2>2 DEF Families
    <2>4. CASE d # c
      <3>1. at'[d] = at[d] /\ stack'[d] = stack[d] /\ (Alive(d)' <=> Alive(d))
        BY <1>2, <1>3, <2>2, <2>4
      <3> QED
        BY <1>2, <1>5, <1>6, <2>1, <2>2, <2>3, <3>1
    <2>5. CASE d = c
      <3>1. how # "killed" => Sent(c) = Share(p, i)
        BY <1>0, <1>7, <2>3, <2>5 DEF n, Stacks
      <3> QED
        BY <1>2, <1>5, <2>1, <2>2, <2>3, <2>5, <3>1
    <2> QED
      BY <2>4, <2>5
  <1>11. Owned'
    <2> SUFFICES ASSUME NEW d \in Proc \ {0}, at'[d] \notin {"none", "reaped"}
                 PROVE  \/ \E i \in Pending(parent[d])' : d = ChildOf(parent[d], i)'
                        \/ Forsaken(d)'
                        \/ kills' > 0 /\ parent[d] # 0
      BY DEF Owned, Pending, ChildOf
    <2>1. at[d] \notin {"none", "reaped"}
      BY <1>2
    <2>5. CASE Forsaken(d)
      BY <1>2, <1>3, <1>4, <1>5, <2>5 DEF Forsaken
    <2>2. parent[d] \in Proc
      BY <1>0 DEF TypeOK
    <2>3. CASE kills > 0 /\ parent[d] # 0
      BY <2>3, <1>6
    <2>4. CASE \E i \in Pending(parent[d]) : d = ChildOf(parent[d], i)
      <3>1. CASE parent[d] # c
        BY <2>2, <2>4, <3>1, <1>3
      <3>2. CASE parent[d] = c
        BY <2>4, <3>2, <1>7
      <3> QED
        BY <3>1, <3>2
    <2> QED
      BY <1>0, <2>1, <2>3, <2>4, <2>5 DEF Owned
  <1>12. Pipes'
    <2> SUFFICES ASSUME NEW d \in Proc
                 PROVE  /\ at'[d] \in {"none", "call", "read", "wait"} => pipe'[d] = <<>> /\ got'[d] = 0
                        /\ d + Sent(d)' <= N
                        /\ at'[d] = "write" => Sent(d)' <= n(d)'
                        /\ Alive(d)' /\ d # 0 => d \in wfd'[d]
      BY DEF Pipes, Sent, n, Alive
    <2> QED
      BY <1>0, <1>2, <1>3, <1>4, <1>5 DEF Pipes
  <1>13. Causes'
    <2>1. \A p \in Proc : at'[p] = "killed" => kills' > 0
      BY <1>0, <1>2, <1>6 DEF Causes
    <2>2. CASE noFork \/ abandoned # {} \/ kills > 0
      BY <2>1, <2>2, <1>6 DEF Causes
    <2>3. CASE ~noFork /\ abandoned = {} /\ kills = 0
      <3>1. \A p \in Proc : at[p] # "exit1" /\ \A i \in Calls(p) : ~stack[p][i].err
        BY <1>0, <2>3 DEF Causes
      <3>2. 1 \in Calls(c)
        BY <1>0, CallFacts
      <3>3. how # "exit1"
        BY <3>1, <3>2
      <3>4. \A p \in Proc : at'[p] # "exit1" /\ \A i \in Calls(p)' : ~stack'[p][i].err
        BY <1>2, <1>3, <1>4, <3>1, <3>3
      <3> QED
        BY <2>1, <3>4 DEF Causes, Calls
    <2> QED
      BY <1>0, <2>2, <2>3 DEF TypeOK
  <1>14. Contents'
    <2>1. \A p \in Proc : \A k, e : Done(p, k, e) => Done(p, k, e)'
      BY DoneSame
    <2>2. ASSUME NEW p \in Proc, p # c
          PROVE  /\ at'[p] = "call" => \A q \in (p..p + n(p) - 1)' : mem'[p][q] = input'[q]
                 /\ at'[p] \in {"read", "wait"} =>
                        /\ Done(p, Left(p), stack[p][1].err)'
                        /\ \A q \in (Child(p)..Child(p) + got[Child(p)] - 1)' :
                               mem'[p][q] = (mem[Child(p)][q])'
                 /\ at'[p] = "write" => Done(p, n(p), stack[p][1].err)'
      BY <1>0, <1>2, <2>1, <2>2 DEF Contents, n, Left, Child
    <2>3. \A p \in Proc : \A k \in 1..Len(pipe'[p]) : pipe'[p][k] = mem'[p][p + got'[p] + k - 1]
      BY <1>0 DEF Contents
    <2>4. ASSUME NEW p \in Proc, NEW i \in Pending(p)', NEW d, d = ChildOf(p, i)',
                 at'[d] \in {"exit0", "exit1"}
          PROVE  Done(d, Share(p, i), at[d] = "exit1")'
      <3>1. p # c /\ i \in Pending(p) /\ d = ChildOf(p, i) /\ Share(p, i)' = Share(p, i)
        BY <1>3, <1>4, <2>4
      <3>2. d \in Proc
        BY <1>0, <3>1, ChildFacts
      <3>3. CASE d # c
        BY <1>0, <1>2, <2>1, <2>4, <3>1, <3>2, <3>3 DEF Contents
      <3>4. CASE d = c
        <4>1. at[c] = "write" /\ (how = "exit1") = stack[c][1].err /\ at'[d] = how
          BY <1>2, <2>4, <3>4
        <4>2. n(c) = Share(p, i)
          <5>1. Len(stack[c]) = 1 /\ stack[c] # <<>>
            BY <1>0, <1>7, <4>1 DEF Stacks
          <5>2. stack[d] # <<>> => stack[d][Len(stack[d])].n = Share(p, i)
            BY <1>0, <3>1 DEF Families
          <5> QED
            BY <5>1, <5>2, <3>4 DEF n
        <4>3. Done(c, n(c), stack[c][1].err)
          BY <1>0, <4>1 DEF Contents
        <4> QED
          BY <2>1, <3>1, <3>4, <4>1, <4>2, <4>3
      <3> QED
        BY <3>3, <3>4
    <2>5. at'[0] = at[0] /\ 0 \in Proc
      BY <1>2, FsortAssumption DEF Proc
    <2>6. at'[0] \in {"exit0", "exit1"} => Done(0, N, at[0] = "exit1")'
      BY <1>0, <2>1, <2>5 DEF Contents
    <2>7. ~(at'[c] \in {"call", "read", "wait", "write"})
      BY <1>2
    <2> QED
      BY <2>2, <2>3, <2>4, <2>6, <2>7 DEF Contents
  <1> QED
    BY <1>1, <1>8, <1>9, <1>10, <1>11, <1>12, <1>13, <1>14 DEF IInv

\* A child that has written its part exits.
LEMMA ExitInv ==
    ASSUME IInv, NEW c \in Proc, Exit(c)
    PROVE  IInv'
  <1>1. c # 0 /\ Alive(c) /\ kills \in 0..MaxKills /\ stack[c][1].err \in BOOLEAN
    <2>1. TypeOK /\ Stacks /\ Alive(c)
      BY DEF IInv, Exit, Alive
    <2>2. 1 \in Calls(c)
      BY <2>1, CallFacts
    <2> QED
      BY <2>1, <2>2, CallFacts DEF Stacks, TypeOK, Exit
  <1> DEFINE how == IF stack[c][1].err THEN "exit1" ELSE "exit0"
  <1>2. how \in {"exit0", "exit1", "killed"} /\ how # "killed" /\ (how = "exit1") = stack[c][1].err
    BY <1>1
  <1>3. /\ Ends(c, how) /\ at[c] = "write" /\ Sent(c) = n(c)
        /\ UNCHANGED <<input, mem, pipe, got, parent, noFork, abandoned>> /\ kills' = kills
    BY DEF Exit
  <1> HIDE DEF how
  <1> QED
    BY <1>1, <1>2, <1>3, EndsInv

\* A child is killed.
LEMMA KillInv ==
    ASSUME IInv, NEW c \in Proc, Kill(c)
    PROVE  IInv'
  <1>1. kills \in Nat /\ kills' = kills + 1 /\ kills' \in 0..MaxKills
    BY FsortAssumption DEF IInv, TypeOK, Kill
  <1>2. /\ c # 0 /\ Alive(c) /\ Ends(c, "killed")
        /\ UNCHANGED <<input, mem, pipe, got, parent, noFork, abandoned>>
    BY DEF Kill
  <1> QED
    BY <1>1, <1>2, EndsInv

\* A child finds nobody who could read only if its parent has been killed: as long
\* as the parent waits for its half, the parent has the read end.
LEMMA BrokenPipeInv ==
    ASSUME IInv, NEW c \in Proc, BrokenPipe(c)
    PROVE  IInv'
  <1>0. TypeOK /\ Stacks /\ Families /\ Owned
    BY DEF IInv
  <1>1. c # 0 /\ Alive(c) /\ kills \in 0..MaxKills
    BY <1>0 DEF BrokenPipe, Alive, Stacks, TypeOK
  <1>2. kills > 0
    <2>1. SUFFICES ASSUME NEW i \in Pending(parent[c]), c = ChildOf(parent[c], i) PROVE FALSE
      <3>1. ~Forsaken(c)
        <4>1. Sent(c) < n(c) /\ Sent(c) \in Int /\ n(c) \in Int
          <5>1. Len(pipe[c]) \in Nat /\ got[c] \in Nat
            BY <1>0, FsortAssumption DEF TypeOK
          <5>2. n(c) \in 1..N
            BY <1>0, <1>1, CallFacts
          <5> QED
            BY <5>1, <5>2 DEF BrokenPipe, Sent
        <4> QED
          BY <1>1, <4>1 DEF Forsaken
      <3> QED
        BY <1>0, <1>1, <3>1 DEF Owned, BrokenPipe
    <2> DEFINE p == parent[c]
    <2>2. p \in Proc
      BY <1>0 DEF TypeOK
    <2>3. stack[c] # <<>> /\ Len(stack[c]) = 1
      BY <1>0 DEF Stacks, BrokenPipe, Alive
    <2>4. n(c) = Share(p, i)
      BY <1>0, <2>1, <2>2, <2>3 DEF Families, n
    <2>5. p \notin rfd[c] /\ Sent(c) < n(c)
      BY DEF BrokenPipe
    <2>6. i = 1 /\ at[p] = "wait"
      <3>1. i > 1 \/ at[p] = "read" => p \in rfd[c]
        BY <1>0, <2>1, <2>2 DEF Families
      <3>2. i \in Nat /\ i >= 1
        BY <1>0, <2>2, ChildFacts, CallFacts DEF Calls
      <3> QED
        BY <3>1, <3>2, <2>5 DEF Pending
    <2>7. got[c] = Share(p, i)
      BY <1>0, <1>1, <2>1, <2>2, <2>6 DEF Families
    <2>8. got[c] <= Sent(c) /\ got[c] \in Nat /\ Sent(c) \in Nat
      <3>1. Len(pipe[c]) \in Nat /\ got[c] \in Nat
        BY <1>0, FsortAssumption DEF TypeOK
      <3> QED
        BY <3>1 DEF Sent
    <2> QED
      BY <2>4, <2>5, <2>7, <2>8
  <1>3. /\ Ends(c, "killed") /\ kills' = kills
        /\ UNCHANGED <<input, mem, pipe, got, parent, noFork, abandoned>>
    BY DEF BrokenPipe
  <1> QED
    BY <1>1, <1>2, <1>3, EndsInv

-----------------------------------------------------------------------------
(* A child writes.                                                         *)

\* A child writes an element into its pipe.
LEMMA WriteInv ==
    ASSUME IInv, NEW c \in Proc, Write(c)
    PROVE  IInv'
  <1>0. TypeOK /\ Stacks /\ Fresh /\ Families /\ Owned /\ Pipes /\ Causes /\ Contents
    BY DEF IInv
  <1>1. /\ at[c] = "write" /\ Sent(c) < n(c) /\ Len(pipe[c]) < Cap
        /\ pipe' = [pipe EXCEPT ![c] = Append(@, mem[c][c + Sent(c)])]
        /\ UNCHANGED <<input, at, stack, mem, got, rfd, wfd, kills, noFork, abandoned, parent>>
    BY DEF Write
  <1>2. /\ pipe[c] \in Seq(Nat) /\ Len(pipe[c]) \in Nat /\ got[c] \in Nat /\ c \in Nat /\ N \in Nat
        /\ n(c) \in 1..N /\ c + n(c) <= N /\ Sent(c) \in Nat /\ Sent(c) = got[c] + Len(pipe[c])
    <2>1. pipe[c] \in Seq(Nat) /\ got[c] \in Nat
      BY <1>0, FsortAssumption DEF TypeOK
    <2>2. Len(pipe[c]) \in Nat /\ Sent(c) = got[c] + Len(pipe[c])
      BY <2>1 DEF Sent
    <2> QED
      BY <1>0, <1>1, <2>1, <2>2, CallFacts DEF Alive
  <1> DEFINE e == mem[c][c + Sent(c)]
  <1>3. e \in Nat
    <2>1. c + Sent(c) \in Proc
      BY <1>1, <1>2 DEF Proc
    <2> QED
      BY <1>0, <2>1 DEF TypeOK
  <1> HIDE DEF e
  <1>4. pipe'[c] = Append(pipe[c], e) /\ \A d \in Proc : d # c => pipe'[d] = pipe[d]
    BY <1>0, <1>1 DEF TypeOK, e
  <1>5. /\ pipe'[c] \in Seq(Nat) /\ Len(pipe'[c]) = Len(pipe[c]) + 1
        /\ pipe'[c][Len(pipe[c]) + 1] = e
        /\ \A k \in 1..Len(pipe[c]) : pipe'[c][k] = pipe[c][k]
    BY <1>2, <1>3, <1>4
  <1>6. /\ Sent(c)' = Sent(c) + 1
        /\ \A d \in Proc : d # c => Sent(d)' = Sent(d)
    <2>1. \A d : Sent(d)' = got[d] + Len(pipe'[d])
      BY <1>1 DEF Sent
    <2>2. \A d : Sent(d) = got[d] + Len(pipe[d])
      BY DEF Sent
    <2>3. Sent(c)' = Sent(c) + 1
      <3>1. got[c] + Len(pipe'[c]) = (got[c] + Len(pipe[c])) + 1
        BY <1>2, <1>5
      <3>2. Sent(c)' = got[c] + Len(pipe'[c])
        BY <2>1
      <3> QED
        BY <1>2, <3>1, <3>2
    <2> QED
      BY <1>4, <2>1, <2>2, <2>3
  <1>7. TypeOK'
    <2>1. pipe' \in [Proc -> Seq(Nat)]
      BY <1>0, <1>1, <1>2, <1>3 DEF TypeOK, e
    <2>2. \A d \in Proc : Len(pipe'[d]) <= Cap
      BY <1>0, <1>1, <1>2, <1>4, <1>5, FsortAssumption DEF TypeOK
    <2> QED
      BY <1>0, <1>1, <2>1, <2>2 DEF TypeOK
  <1>8. /\ \A q : Pending(q)' = Pending(q) /\ Calls(q)' = Calls(q) /\ n(q)' = n(q)
        /\ \A q, i : ChildOf(q, i)' = ChildOf(q, i) /\ Share(q, i)' = Share(q, i)
        /\ \A q : Alive(q)' <=> Alive(q)
    BY <1>1 DEF Pending, Calls, n, ChildOf, Share, Alive
  <1>9. Stacks'
    BY <1>0, <1>1, <1>8 DEF Stacks
  <1>10. Fresh'
    BY <1>0, <1>1 DEF Fresh, n
  <1>11. Families'
    <2> SUFFICES ASSUME NEW p \in Proc, NEW i \in Pending(p), NEW d, d = ChildOf(p, i)
                 PROVE  /\ Sent(d)' <= Share(p, i)
                        /\ at[d] \in {"exit0", "exit1"} => Sent(d)' = Share(p, i)
      BY <1>0, <1>1, <1>8 DEF Families
    <2>1. d \in Proc
      BY <1>0, ChildFacts
    <2>2. Sent(d) <= Share(p, i) /\ (at[d] \in {"exit0", "exit1"} => Sent(d) = Share(p, i))
      BY <1>0 DEF Families
    <2>3. CASE d # c
      BY <2>1, <2>2, <2>3, <1>6
    <2>4. CASE d = c
      <3>1. stack[c] # <<>> /\ Len(stack[c]) = 1
        BY <1>0, <1>1 DEF Stacks, Alive
      <3>2. stack[d] # <<>> => stack[d][Len(stack[d])].n = Share(p, i)
        BY <1>0 DEF Families
      <3>3. n(c) = Share(p, i)
        BY <2>4, <3>1, <3>2 DEF n
      <3> QED
        BY <1>1, <1>2, <1>6, <2>4, <3>3
    <2> QED
      BY <2>3, <2>4
  <1>12. Owned'
    <2>1. ~Forsaken(c)
      BY <1>1, <1>2 DEF Forsaken, Alive
    <2>2. \A d \in Proc : Forsaken(d) => Forsaken(d)'
      BY <1>1, <1>6, <2>1 DEF Forsaken, Alive, n
    <2>3. Pending(c)' = Pending(c) /\ \A p \in Proc : Pending(p)' = Pending(p)
      BY <1>1 DEF Pending, Calls
    <2>4. \A p, i : ChildOf(p, i)' = ChildOf(p, i)
      BY <1>1 DEF ChildOf
    <2> QED
      BY <1>0, <1>1, <2>2, <2>3, <2>4 DEF Owned, TypeOK
  <1>13. Pipes'
    <2> SUFFICES ASSUME NEW d \in Proc
                 PROVE  /\ at[d] \in {"none", "call", "read", "wait"} => pipe'[d] = <<>> /\ got[d] = 0
                        /\ d + Sent(d)' <= N
                        /\ at[d] = "write" => Sent(d)' <= n(d)
                        /\ Alive(d) /\ d # 0 => d \in wfd[d]
      BY <1>1, <1>8 DEF Pipes
    <2>1. CASE d # c
      BY <1>0, <1>4, <1>6, <2>1 DEF Pipes
    <2>2. CASE d = c
      <3>1. Sent(c) + 1 <= n(c) /\ c + (Sent(c) + 1) <= N
        BY <1>1, <1>2
      <3>2. at[c] = "write" /\ (c # 0 => c \in wfd[c])
        BY <1>0, <1>1 DEF Pipes, Alive
      <3> QED
        BY <1>6, <2>2, <3>1, <3>2
    <2> QED
      BY <2>1, <2>2
  <1>14. Causes'
    BY <1>0, <1>1, <1>8 DEF Causes
  <1>15. Contents'
    <2>1. \A p, k, f : Done(p, k, f)' = Done(p, k, f)
      BY <1>1 DEF Done
    <2>2. ASSUME NEW p \in Proc, NEW k \in 1..Len(pipe'[p])
          PROVE  pipe'[p][k] = mem[p][p + got[p] + k - 1]
      <3>1. CASE p # c
        BY <1>0, <1>4, <3>1 DEF Contents
      <3>2. CASE p = c /\ k \in 1..Len(pipe[c])
        BY <1>0, <1>5, <3>2 DEF Contents
      <3>3. CASE p = c /\ k = Len(pipe[c]) + 1
        <4>1. c + got[c] + k - 1 = c + Sent(c)
          BY <1>2, <3>3
        <4> QED
          BY <1>5, <3>3, <4>1 DEF e
      <3> QED
        BY <1>2, <1>5, <3>1, <3>2, <3>3
    <2> QED
      BY <1>0, <1>1, <1>8, <2>1, <2>2 DEF Contents, Left, Child
  <1> QED
    BY <1>7, <1>9, <1>10, <1>11, <1>12, <1>13, <1>14, <1>15 DEF IInv

-----------------------------------------------------------------------------
(* The parent reads.                                                       *)

\* A sequence that is not empty, taken apart.
LEMMA HeadTail ==
    ASSUME NEW s \in Seq(Nat), s # <<>>
    PROVE  /\ Head(s) \in Nat /\ Head(s) = s[1] /\ Tail(s) \in Seq(Nat)
           /\ Len(s) \in Nat /\ Len(s) >= 1 /\ Len(Tail(s)) = Len(s) - 1
           /\ \A k \in 1..Len(s) - 1 : Tail(s)[k] = s[k + 1]
  OBVIOUS

\* The parent reads an element.
LEMMA ReadInv ==
    ASSUME IInv, NEW p \in Proc, Read(p)
    PROVE  IInv'
  <1>0. TypeOK /\ Stacks /\ Fresh /\ Families /\ Owned /\ Pipes /\ Causes /\ Contents
    BY DEF IInv
  <1> DEFINE c == Child(p)
             r == Right(p)
  <1>1. /\ at[p] = "read" /\ pipe[c] # <<>>
        /\ mem' = [mem EXCEPT ![p][c + got[c]] = Head(pipe[c])]
        /\ pipe' = [pipe EXCEPT ![c] = Tail(@)]
        /\ got' = [got EXCEPT ![c] = @ + 1]
        /\ IF got'[c] = r THEN ReadEnds(p) ELSE UNCHANGED <<at, rfd>>
        /\ UNCHANGED <<input, stack, wfd, kills, noFork, abandoned, parent>>
    BY DEF Read
  <1>2. /\ 1 \in Pending(p) /\ c = ChildOf(p, 1) /\ r = Share(p, 1)
        /\ c \in Proc /\ c \in Nat /\ p < c /\ p \in Nat /\ c # p
        /\ n(p) \in 2..N /\ Left(p) \in 1..N /\ r \in 1..N /\ N \in Nat
        /\ Left(p) + r = n(p) /\ c = p + Left(p) /\ p + n(p) <= N
        /\ got[c] \in Nat /\ pipe[c] \in Seq(Nat) /\ Len(pipe[c]) \in Nat
    BY <1>0, <1>1, ReaderFacts
  <1> HIDE DEF c, r
  <1>3. got[c] < r /\ p \in rfd[c]
    <2>1. \A i \in Pending(p) : i > 1 \/ at[p] = "read" =>
              p \in rfd[ChildOf(p, i)] /\ got[ChildOf(p, i)] < Share(p, i)
      BY <1>0 DEF Families
    <2> QED
      BY <1>1, <1>2, <2>1
  <1>4. pipe[p] = <<>> /\ got[p] = 0
    BY <1>0, <1>1 DEF Pipes
  <1> DEFINE e == Head(pipe[c])
  <1>5. e \in Nat /\ e = pipe[c][1] /\ Tail(pipe[c]) \in Seq(Nat)
        /\ Len(pipe[c]) >= 1 /\ Len(Tail(pipe[c])) = Len(pipe[c]) - 1
        /\ \A k \in 1..Len(pipe[c]) - 1 : Tail(pipe[c])[k] = pipe[c][k + 1]
    BY <1>1, <1>2, HeadTail
  <1> HIDE DEF e
  <1>6. /\ got'[c] = got[c] + 1 /\ pipe'[c] = Tail(pipe[c])
        /\ \A d \in Proc : d # c => got'[d] = got[d] /\ pipe'[d] = pipe[d]
    BY <1>0, <1>1, <1>2 DEF TypeOK
  <1>7. /\ \A q \in Proc : q # p => mem'[q] = mem[q]
        /\ \A q \in Proc : q # c + got[c] => mem'[p][q] = mem[p][q]
        /\ mem'[p][c + got[c]] = e
    <2>1. c + got[c] \in Proc
      BY <1>2, <1>3 DEF Proc
    <2>2. mem \in [Proc -> [Proc -> Nat]]
      BY <1>0 DEF TypeOK
    <2> QED
      BY <1>1, <2>1, <2>2 DEF e
  <1>8. /\ at'[p] = IF got[c] + 1 = r THEN "wait" ELSE "read"
        /\ \A q \in Proc : q # p => at'[q] = at[q]
        /\ \A d \in Proc : d # c => rfd'[d] = rfd[d]
        /\ got[c] + 1 # r => rfd'[c] = rfd[c]
    BY <1>0, <1>1, <1>2, <1>6 DEF TypeOK, ReadEnds, c
  <1>9. \A d \in Proc : Sent(d)' = Sent(d)
    <2>1. (got[c] + 1) + (Len(pipe[c]) - 1) = got[c] + Len(pipe[c])
      <3> DEFINE g == got[c]
                 l == Len(pipe[c])
      <3>1. g \in Nat /\ l \in Nat
        BY <1>2
      <3> HIDE DEF g, l
      <3>2. (g + 1) + (l - 1) = g + l
        BY <3>1
      <3> QED
        BY <3>2 DEF g, l
    <2>2. got'[c] + Len(pipe'[c]) = got[c] + Len(pipe[c])
      BY <1>5, <1>6, <2>1
    <2> QED
      BY <1>6, <2>2 DEF Sent
  <1>10. \A q \in Proc : /\ Pending(q)' = Pending(q) /\ Calls(q)' = Calls(q)
                         /\ \A i : ChildOf(q, i)' = ChildOf(q, i) /\ Share(q, i)' = Share(q, i)
                         /\ n(q)' = n(q) /\ (Alive(q)' <=> Alive(q))
    <2> TAKE q \in Proc
    <2>1. stack'[q] = stack[q] /\ (at'[q] \in {"read", "wait"} <=> at[q] \in {"read", "wait"})
      BY <1>1, <1>8
    <2>2. Alive(q)' <=> Alive(q)
      BY <1>1, <1>8 DEF Alive
    <2> QED
      BY <2>1, <2>2, PendingSame
  <1>11. TypeOK'
    <2>1. mem' \in [Proc -> [Proc -> Nat]]
      BY <1>0, <1>1, <1>5 DEF TypeOK, e
    <2>2. pipe' \in [Proc -> Seq(Nat)] /\ \A d \in Proc : Len(pipe'[d]) <= Cap
      <3>1. pipe' \in [Proc -> Seq(Nat)]
        BY <1>0, <1>1, <1>5 DEF TypeOK
      <3>2. Len(pipe'[c]) <= Cap
        <4>1. Len(pipe[c]) <= Cap
          BY <1>0, <1>2 DEF TypeOK
        <4>2. Len(pipe'[c]) = Len(pipe[c]) - 1
          BY <1>5, <1>6
        <4> QED
          BY <1>2, <4>1, <4>2, FsortAssumption
      <3> QED
        BY <1>0, <1>6, <3>1, <3>2 DEF TypeOK
    <2>3. got' \in [Proc -> 0..N]
      <3>1. got[c] + 1 \in 0..N
        BY <1>2, <1>3
      <3> QED
        BY <1>0, <1>1, <3>1 DEF TypeOK
    <2>4. at' \in [Proc -> {"none", "call", "read", "wait", "write",
                            "exit0", "exit1", "killed", "reaped"}]
      <3> DEFINE A == {"none", "call", "read", "wait", "write", "exit0", "exit1", "killed", "reaped"}
      <3>1. at \in [Proc -> A] /\ "wait" \in A
        BY <1>0 DEF TypeOK
      <3>2. at' = at \/ at' = [at EXCEPT ![p] = "wait"]
        BY <1>1 DEF ReadEnds
      <3> HIDE DEF A
      <3>3. at' \in [Proc -> A]
        BY <3>1, <3>2
      <3> QED
        BY <3>3 DEF A
    <2>5. rfd' \in [Proc -> SUBSET Proc]
      <3>1. rfd \in [Proc -> SUBSET Proc] /\ rfd[c] \ {p} \in SUBSET Proc
        BY <1>0, <1>2 DEF TypeOK
      <3>2. rfd' = rfd \/ rfd' = [rfd EXCEPT ![c] = rfd[c] \ {p}]
        BY <1>1 DEF ReadEnds, c
      <3>3. CASE rfd' = [rfd EXCEPT ![c] = rfd[c] \ {p}]
        BY <3>1, <3>3
      <3> QED
        BY <3>1, <3>2, <3>3
    <2> QED
      BY <1>0, <1>1, <2>1, <2>2, <2>3, <2>4, <2>5 DEF TypeOK
  <1>12. Stacks'
    <2>1. at'[0] \notin {"none", "killed", "reaped"} /\ 0 \in Proc
      BY <1>0, <1>8, FsortAssumption DEF Stacks, Proc
    <2>2. \A q \in Proc : at'[q] = "write" => at[q] = "write"
      BY <1>8
    <2> QED
      BY <1>0, <1>1, <1>10, <2>1, <2>2 DEF Stacks
  <1>13. Fresh'
    <2> SUFFICES ASSUME NEW q \in Proc, at'[q] = "call", NEW d \in q + 1..q + n(q) - 1
                 PROVE  at'[d] = "none"
      BY <1>10 DEF Fresh
    <2>1. q # p /\ at[q] = "call"
      BY <1>8
    <2>2. at[d] = "none" /\ d \in Proc
      <3>1. q \in Nat /\ N \in Nat /\ n(q) \in 1..N /\ q + n(q) <= N
        BY <1>0, <2>1, CallFacts DEF Alive
      <3> QED
        BY <3>1, <1>0, <2>1 DEF Fresh, Proc
    <2> QED
      BY <1>1, <1>8, <2>2
  <1>14. Families'
    <2> SUFFICES ASSUME NEW q \in Proc, NEW i \in Pending(q), NEW d, d = ChildOf(q, i)
                 PROVE  /\ stack[q][i].n > 1
                        /\ parent[d] = q
                        /\ at'[d] \notin {"none", "reaped"}
                        /\ stack[d] # <<>> => stack[d][Len(stack[d])].n = Share(q, i)
                        /\ Sent(d)' <= Share(q, i)
                        /\ at'[d] \in {"exit0", "exit1"} => Sent(d)' = Share(q, i)
                        /\ i > 1 => got'[d] = 0
                        /\ i > 1 \/ at'[q] = "read" => q \in rfd'[d] /\ got'[d] < Share(q, i)
                        /\ i = 1 /\ at'[q] = "wait" =>
                               got'[d] = Share(q, i) \/ (stack[q][i].err /\ ~Alive(d)' /\ kills > 0)
      BY <1>1, <1>10 DEF Families
    <2>1. /\ stack[q][i].n > 1
          /\ parent[d] = q
          /\ at[d] \notin {"none", "reaped"}
          /\ stack[d] # <<>> => stack[d][Len(stack[d])].n = Share(q, i)
          /\ Sent(d) <= Share(q, i)
          /\ at[d] \in {"exit0", "exit1"} => Sent(d) = Share(q, i)
          /\ i > 1 => got[d] = 0
          /\ i > 1 \/ at[q] = "read" => q \in rfd[d] /\ got[d] < Share(q, i)
          /\ i = 1 /\ at[q] = "wait" =>
                 got[d] = Share(q, i) \/ (stack[q][i].err /\ ~Alive(d) /\ kills > 0)
      BY <1>0 DEF Families
    <2>2. d \in Proc
      BY <1>0, ChildFacts
    <2>3. /\ at'[d] \notin {"none", "reaped"}
          /\ at'[d] \in {"exit0", "exit1"} => at[d] \in {"exit0", "exit1"}
      BY <1>8, <2>1, <2>2
    <2>4. CASE q = p /\ i = 1
      <3>1. d = c /\ Share(q, i) = r
        BY <1>2, <2>4
      <3>2. got[c] + 1 # r => got[c] + 1 < r
        <4> DEFINE g == got[c]
        <4>1. g \in Nat /\ r \in Nat /\ g < r
          BY <1>2, <1>3
        <4> HIDE DEF g
        <4>2. g + 1 # r => g + 1 < r
          BY <4>1
        <4> QED
          BY <4>2 DEF g
      <3>3. at'[p] = "read" => got[c] + 1 # r
        BY <1>8
      <3>4. at'[p] = "wait" => got[c] + 1 = r
        BY <1>8
      <3> QED
        BY <1>3, <1>6, <1>8, <1>9, <2>1, <2>2, <2>3, <2>4, <3>1, <3>2, <3>3, <3>4
    <2>5. CASE ~(q = p /\ i = 1)
      <3>1. d # c
        BY <1>0, <1>2, <2>5, OneParent
      <3>2. i \in Nat /\ i >= 1
        BY <1>0, ChildFacts, CallFacts DEF Calls
      <3>3. i = 1 => at'[q] = at[q]
        BY <1>8, <2>5
      <3> QED
        BY <1>6, <1>8, <1>9, <1>10, <2>1, <2>2, <2>3, <3>1, <3>2, <3>3
    <2> QED
      BY <2>4, <2>5
  <1>15. Owned'
    <2> SUFFICES ASSUME NEW d \in Proc \ {0}, at'[d] \notin {"none", "reaped"}
                 PROVE  \/ \E i \in Pending(parent[d])' : d = ChildOf(parent[d], i)'
                        \/ Forsaken(d)'
                        \/ kills > 0 /\ parent[d] # 0
      BY <1>1 DEF Owned, Pending, ChildOf
    <2>1. at[d] \notin {"none", "reaped"}
      BY <1>1, <1>8
    <2>2. parent[d] \in Proc
      BY <1>0 DEF TypeOK
    <2>3. Forsaken(d) => Forsaken(d)'
      <3>1. d = p => ~Forsaken(d)
        BY <1>1 DEF Forsaken, Alive
      <3> QED
        BY <1>1, <1>8, <1>9, <1>10, <3>1 DEF Forsaken
    <2> QED
      BY <1>0, <1>1, <1>10, <2>1, <2>2, <2>3 DEF Owned
  <1>16. Pipes'
    <2> SUFFICES ASSUME NEW d \in Proc
                 PROVE  /\ at'[d] \in {"none", "call", "read", "wait"} => pipe'[d] = <<>> /\ got'[d] = 0
                        /\ d + Sent(d)' <= N
                        /\ at'[d] = "write" => Sent(d)' <= n(d)
                        /\ Alive(d) /\ d # 0 => d \in wfd[d]
      BY <1>1, <1>10 DEF Pipes
    <2>1. /\ at[d] \in {"none", "call", "read", "wait"} => pipe[d] = <<>> /\ got[d] = 0
          /\ d + Sent(d) <= N
          /\ at[d] = "write" => Sent(d) <= n(d)
          /\ Alive(d) /\ d # 0 => d \in wfd[d]
      BY <1>0 DEF Pipes
    <2>2. CASE d = p
      BY <1>1, <1>2, <1>4, <1>6, <1>8, <1>9, <2>1, <2>2
    <2>3. CASE d # p
      BY <1>1, <1>6, <1>8, <1>9, <2>1, <2>3
    <2> QED
      BY <2>2, <2>3
  <1>17. Causes'
    <2>1. \A q \in Proc : at'[q] \in {"killed", "exit1"} => at'[q] = at[q]
      BY <1>8
    <2> QED
      BY <1>0, <1>1, <1>10, <2>1 DEF Causes
  <1>18. Contents'
    <2>1. /\ \A q \in Proc : /\ at[q] = "call" => \A j \in q..q + n(q) - 1 : mem[q][j] = input[j]
                             /\ at[q] \in {"read", "wait"} =>
                                    /\ Done(q, Left(q), stack[q][1].err)
                                    /\ \A j \in Child(q)..Child(q) + got[Child(q)] - 1 :
                                           mem[q][j] = mem[Child(q)][j]
                             /\ at[q] = "write" => Done(q, n(q), stack[q][1].err)
                             /\ \A k \in 1..Len(pipe[q]) : pipe[q][k] = mem[q][q + got[q] + k - 1]
          /\ at[0] \in {"exit0", "exit1"} => Done(0, N, at[0] = "exit1")
      BY <1>0 DEF Contents
    <2>2. \A q \in Proc : \A k, f : q # p /\ Done(q, k, f) => Done(q, k, f)'
      BY <1>1, <1>7, DoneSame
    <2>3. Done(p, Left(p), stack[p][1].err)'
      <3> DEFINE g == got[c]
                 h == Left(p)
      <3>0. g \in Nat /\ h \in 1..N /\ h + r = n(p) /\ c = p + h /\ r \in 1..N
        BY <1>2
      <3> HIDE DEF g, h
      <3>a. p \in Nat /\ c \in Nat /\ N \in Nat /\ c < N
        BY <1>2 DEF Proc
      <3>b. \A q \in p..p + h - 1 : q # c + g /\ q \in 0..N - 1
        BY <3>0, <3>a
      <3>1. \A q \in p..p + Left(p) - 1 : q # c + got[c] /\ q \in Proc
        BY <3>b DEF g, h, Proc
      <3>2. \A q \in p..p + Left(p) - 1 : mem'[p][q] = mem[p][q]
        BY <1>7, <3>1
      <3>3. Left(p)' = Left(p) /\ stack'[p] = stack[p]
        BY <1>1, <1>10 DEF Left
      <3>4. Done(p, Left(p), stack[p][1].err)
        BY <1>1, <2>1
      <3>5. ASSUME NEW k, NEW f, k = Left(p), f = stack[p][1].err
            PROVE  Done(p, k, f)'
        <4>1. Done(p, k, f) /\ \A q \in p..p + k - 1 : mem'[p][q] = mem[p][q]
          BY <3>2, <3>4, <3>5
        <4>2. input' = input /\ (kills' = 0 => kills = 0)
          BY <1>1
        <4> QED
          BY <4>1, <4>2, DonePart
      <3> QED
        BY <3>3, <3>5
    <2>4. mem[c][c + got[c]] = e
      <3> DEFINE g == got[c]
      <3>1. 1 \in 1..Len(pipe[c]) /\ g \in Nat
        BY <1>2, <1>5
      <3>2. pipe[c][1] = mem[c][c + g + 1 - 1]
        BY <1>2, <2>1, <3>1
      <3> HIDE DEF g
      <3>3. c + g + 1 - 1 = c + g
        BY <1>2, <3>1
      <3> QED
        BY <1>5, <3>2, <3>3 DEF g
    <2>5. \A q \in c..c + got'[c] - 1 : mem'[p][q] = mem'[c][q]
      <3> DEFINE g == got[c]
      <3>1. \A q \in c..c + g - 1 : mem[p][q] = mem[c][q]
        BY <1>1, <2>1 DEF c
      <3>2. /\ \A q \in Proc : q # c + g => mem'[p][q] = mem[p][q]
            /\ mem'[p][c + g] = mem[c][c + g] /\ mem'[c] = mem[c]
        BY <1>2, <1>7, <2>4
      <3>3. g \in Nat /\ g < r
        BY <1>2, <1>3
      <3> HIDE DEF g
      <3>4. \A q \in c..c + (g + 1) - 1 : q \in Proc /\ (q = c + g \/ (q # c + g /\ q \in c..c + g - 1))
        <4>1. c + g < N
          <5>1. c + r <= N
            BY <1>2 DEF r, Right
          <5> QED
            BY <1>2, <3>3, <5>1
        <4>2. c \in Nat /\ g \in Nat /\ N \in Nat
          BY <1>2, <3>3
        <4>3. \A q \in c..c + (g + 1) - 1 : q \in 0..N - 1 /\ (q # c + g => q \in c..c + g - 1)
          BY <4>1, <4>2
        <4> QED
          BY <4>3 DEF Proc
      <3>5. \A q \in c..c + (g + 1) - 1 : mem'[p][q] = mem'[c][q]
        BY <3>1, <3>2, <3>4
      <3> QED
        BY <1>6, <3>5 DEF g
    <2>6. ASSUME NEW q \in Proc, q # p, at[q] \in {"read", "wait"}
          PROVE  \A j \in Child(q)..Child(q) + got'[Child(q)] - 1 : mem'[q][j] = mem'[Child(q)][j]
      <3>1. 1 \in Pending(q) /\ Child(q) = ChildOf(q, 1) /\ Child(q) \in Proc /\ Child(q) \in Nat
        BY <1>0, <2>6, ReaderFacts
      <3>2. Child(q) # c
        BY <1>0, <1>2, <2>6, <3>1, OneParent
      <3>3. CASE Child(q) = p
        BY <1>4, <1>6, <3>1, <3>2, <3>3
      <3>4. CASE Child(q) # p
        BY <1>6, <1>7, <2>1, <2>6, <3>1, <3>2, <3>4
      <3> QED
        BY <3>3, <3>4
    <2>7. ASSUME NEW q \in Proc, NEW k \in 1..Len(pipe'[q])
          PROVE  pipe'[q][k] = mem'[q][q + got'[q] + k - 1]
      <3>1. CASE q = c
        <4> DEFINE g == got[c]
                   l == Len(pipe[c])
        <4>a. g \in Nat /\ l \in Nat /\ k \in 1..l - 1
          BY <1>2, <1>5, <1>6, <3>1
        <4> HIDE DEF g, l
        <4>b. k \in 1..l - 1 /\ k + 1 \in 1..l
          BY <4>a
        <4>c. c + g + (k + 1) - 1 = c + (g + 1) + k - 1 /\ c + (g + 1) + k - 1 # c + g
          <5>1. c \in Nat /\ g \in Nat /\ k \in Nat /\ k >= 1
            BY <1>2, <4>a
          <5> QED
            BY <5>1
        <4>1. k \in 1..Len(pipe[c]) - 1 /\ k + 1 \in 1..Len(pipe[c])
          BY <4>b DEF l
        <4>2. pipe'[q][k] = pipe[c][k + 1]
          BY <1>5, <1>6, <3>1, <4>1
        <4>3. pipe[c][k + 1] = mem[c][c + got[c] + (k + 1) - 1]
          BY <1>2, <2>1, <4>1
        <4>4. c + got[c] + (k + 1) - 1 = c + got'[c] + k - 1
          BY <1>6, <4>c DEF g
        <4> QED
          BY <1>2, <1>7, <3>1, <4>2, <4>3, <4>4
      <3>2. CASE q = p
        BY <1>2, <1>4, <1>6, <3>2
      <3>3. CASE q # p /\ q # c
        BY <1>6, <1>7, <2>1, <3>3
      <3> QED
        BY <3>1, <3>2, <3>3
    <2>8. ASSUME NEW q \in Proc, NEW i \in Pending(q)', NEW d, d = ChildOf(q, i)',
                 at'[d] \in {"exit0", "exit1"}
          PROVE  Done(d, Share(q, i), at[d] = "exit1")'
      <3>1. i \in Pending(q) /\ d = ChildOf(q, i) /\ Share(q, i)' = Share(q, i)
        BY <1>10, <2>8
      <3>2. d \in Proc
        BY <1>0, <3>1, ChildFacts
      <3>3. d # p /\ at'[d] = at[d]
        BY <1>8, <2>8, <3>2
      <3>4. Done(d, Share(q, i), at[d] = "exit1")
        BY <1>0, <2>8, <3>1, <3>3 DEF Contents
      <3> QED
        BY <2>2, <3>1, <3>2, <3>3, <3>4
    <2>9. at'[0] \in {"exit0", "exit1"} => Done(0, N, at[0] = "exit1")'
      <3>1. 0 \in Proc
        BY FsortAssumption DEF Proc
      <3> QED
        BY <1>8, <2>1, <2>2, <3>1
    <2>10. ASSUME NEW q \in Proc
           PROVE  /\ at'[q] = "call" => \A j \in (q..q + n(q) - 1)' : mem'[q][j] = input'[j]
                  /\ at'[q] \in {"read", "wait"} =>
                         /\ Done(q, Left(q), stack[q][1].err)'
                         /\ \A j \in (Child(q)..Child(q) + got[Child(q)] - 1)' :
                                mem'[q][j] = (mem[Child(q)][j])'
                  /\ at'[q] = "write" => Done(q, n(q), stack[q][1].err)'
      <3>1. n(q)' = n(q) /\ Left(q)' = Left(q) /\ Child(q)' = Child(q) /\ stack'[q] = stack[q]
        BY <1>1, <1>10 DEF Left, Child
      <3>2. CASE q = p
        BY <1>8, <2>3, <2>5, <3>1, <3>2 DEF c
      <3>3. CASE q # p
        <4>1. at'[q] = at[q] /\ mem'[q] = mem[q]
          BY <1>7, <1>8, <3>3
        <4>2. at[q] = "call" => \A j \in (q..q + n(q) - 1)' : mem'[q][j] = input'[j]
          BY <1>1, <2>1, <3>1, <4>1
        <4>3. at[q] \in {"read", "wait"} => Done(q, Left(q), stack[q][1].err)'
          BY <2>1, <2>2, <3>1, <3>3
        <4>4. at[q] = "write" => Done(q, n(q), stack[q][1].err)'
          BY <2>1, <2>2, <3>1, <3>3
        <4> QED
          BY <2>6, <3>1, <3>3, <4>1, <4>2, <4>3, <4>4
      <3> QED
        BY <3>2, <3>3
    <2> QED
      BY <2>7, <2>8, <2>9, <2>10 DEF Contents
  <1> QED
    BY <1>11, <1>12, <1>13, <1>14, <1>15, <1>16, <1>17, <1>18 DEF IInv

\* The error of the innermost call is set.
LEMMA SetErr ==
    ASSUME NEW s \in Seq([n : 1..N, err : BOOLEAN]), s # <<>>, NEW e \in BOOLEAN,
           NEW t, t = [s EXCEPT ![1] = [s[1] EXCEPT !.err = e]]
    PROVE  /\ t \in Seq([n : 1..N, err : BOOLEAN]) /\ Len(t) = Len(s) /\ t # <<>>
           /\ \A i \in 1..Len(s) : t[i].n = s[i].n
           /\ \A i \in 1..Len(s) : i # 1 => t[i] = s[i]
           /\ t[1].err = e
  <1> DEFINE R == [n : 1..N, err : BOOLEAN]
  <1>1. s[1] \in R /\ 1 \in 1..Len(s) /\ Len(s) \in Nat
    <2> HIDE DEF R
    <2>1. s \in Seq(R)
      BY DEF R
    <2> QED
      BY <2>1
  <1> DEFINE f == [s[1] EXCEPT !.err = e]
  <1>2. f \in R /\ f.n = s[1].n /\ f.err = e
    BY <1>1
  <1> HIDE DEF R, f
  <1>3. s \in Seq(R) /\ t = [s EXCEPT ![1] = f]
    BY DEF R, f
  <1>4. t \in Seq(R) /\ Len(t) = Len(s) /\ t[1] = f /\ \A i \in 1..Len(s) : i # 1 => t[i] = s[i]
    BY <1>1, <1>2, <1>3
  <1>5. t # <<>>
    BY <1>1, <1>4
  <1> QED
    BY <1>2, <1>4, <1>5 DEF R

\* What is pending of q is a matter of the parts its calls sort.
LEMMA PendingLike ==
    ASSUME NEW q \in Proc, Len(stack'[q]) = Len(stack[q]),
           \A i \in Calls(q) : stack'[q][i].n = stack[q][i].n,
           at'[q] \in {"read", "wait"} <=> at[q] \in {"read", "wait"}
    PROVE  /\ Pending(q)' = Pending(q) /\ Calls(q)' = Calls(q)
           /\ \A i \in Calls(q) : ChildOf(q, i)' = ChildOf(q, i) /\ Share(q, i)' = Share(q, i)
           /\ 1 \in Calls(q) => n(q)' = n(q)
  BY DEF Pending, Calls, ChildOf, Share, n

\* The parent reads end of file.
LEMMA ReadEofInv ==
    ASSUME IInv, NEW p \in Proc, ReadEof(p)
    PROVE  IInv'
  <1>0. TypeOK /\ Stacks /\ Fresh /\ Families /\ Owned /\ Pipes /\ Causes /\ Contents
    BY DEF IInv
  <1> DEFINE c == Child(p)
             r == Right(p)
  <1>1. /\ at[p] = "read" /\ pipe[c] = <<>> /\ wfd[c] = {}
        /\ stack' = [stack EXCEPT ![p] = [stack[p] EXCEPT ![1] = [stack[p][1] EXCEPT !.err = TRUE]]]
        /\ at' = [at EXCEPT ![p] = "wait"]
        /\ rfd' = [rfd EXCEPT ![c] = rfd[c] \ {p}]
        /\ UNCHANGED <<input, mem, pipe, got, wfd, kills, noFork, abandoned, parent>>
    BY DEF ReadEof, ReadEnds
  <1>2. /\ 1 \in Pending(p) /\ c = ChildOf(p, 1) /\ r = Share(p, 1)
        /\ c \in Proc /\ c \in Nat /\ p < c /\ p \in Nat /\ c # p /\ c # 0
        /\ got[c] \in Nat
    BY <1>0, <1>1, ReaderFacts
  <1> HIDE DEF c, r
  \* The child has not ended by itself: it would have written all of its half.
  <1>3. ~Alive(c) /\ kills > 0
    <2>1. ~Alive(c)
      BY <1>0, <1>1, <1>2 DEF Pipes
    <2>2. got[c] < r
      BY <1>0, <1>1, <1>2 DEF Families
    <2>3. at[c] \in {"exit0", "exit1"} => Sent(c) = r
      BY <1>0, <1>2 DEF Families
    <2>4. at[c] \notin {"none", "reaped"}
      BY <1>0, <1>2 DEF Families
    <2>5. Sent(c) = got[c]
      BY <1>1, <1>2 DEF Sent
    <2>6. r \in Nat
      BY <1>0, <1>2, ChildFacts
    <2>7. at[c] \notin {"exit0", "exit1"}
      BY <1>2, <2>2, <2>3, <2>5, <2>6
    <2>8. at[c] = "killed"
      BY <1>0, <1>2, <2>1, <2>4, <2>7 DEF TypeOK, Alive
    <2> QED
      BY <1>0, <1>2, <2>1, <2>8 DEF Causes
  <1>4. /\ stack'[p] \in Seq([n : 1..N, err : BOOLEAN]) /\ Len(stack'[p]) = Len(stack[p])
        /\ stack'[p] # <<>>
        /\ \A i \in Calls(p) : stack'[p][i].n = stack[p][i].n
        /\ \A i \in Calls(p) : i # 1 => stack'[p][i] = stack[p][i]
        /\ stack'[p][1].err = TRUE
    <2>1. stack[p] \in Seq([n : 1..N, err : BOOLEAN]) /\ stack[p] # <<>>
      BY <1>0, <1>1 DEF TypeOK, Stacks, Alive
    <2>2. stack'[p] = [stack[p] EXCEPT ![1] = [stack[p][1] EXCEPT !.err = TRUE]]
      BY <1>0, <1>1 DEF TypeOK
    <2> QED
      BY <2>1, <2>2, SetErr DEF Calls
  <1>5. \A q \in Proc : q # p => stack'[q] = stack[q]
    BY <1>0, <1>1 DEF TypeOK
  <1>6. /\ at'[p] = "wait" /\ \A q \in Proc : q # p => at'[q] = at[q]
        /\ \A d \in Proc : d # c => rfd'[d] = rfd[d]
    BY <1>0, <1>1, <1>2 DEF TypeOK
  <1>7. \A q \in Proc : /\ Pending(q)' = Pending(q) /\ Calls(q)' = Calls(q)
                        /\ \A i \in Calls(q) : /\ ChildOf(q, i)' = ChildOf(q, i)
                                               /\ Share(q, i)' = Share(q, i)
                                               /\ stack'[q][i].n = stack[q][i].n
                        /\ Alive(q)' <=> Alive(q)
                        /\ Alive(q) => n(q)' = n(q)
                        /\ Len(stack'[q]) = Len(stack[q])
    <2> TAKE q \in Proc
    <2>1. Len(stack'[q]) = Len(stack[q]) /\ \A i \in Calls(q) : stack'[q][i].n = stack[q][i].n
      BY <1>4, <1>5
    <2>2. at'[q] \in {"read", "wait"} <=> at[q] \in {"read", "wait"}
      BY <1>1, <1>6
    <2>3. Alive(q)' <=> Alive(q)
      BY <1>1, <1>6 DEF Alive
    <2>4. Alive(q) => 1 \in Calls(q)
      BY <1>0, CallFacts
    <2> QED
      BY <2>1, <2>2, <2>3, <2>4, PendingLike
  <1>8. \A q \in Proc : \A i \in Pending(q) : i \in Calls(q)
    BY DEF Pending
  <1>9. \A d : Sent(d)' = Sent(d)
    BY <1>1 DEF Sent
  <1>10. TypeOK'
    <2>1. at' \in [Proc -> {"none", "call", "read", "wait", "write",
                            "exit0", "exit1", "killed", "reaped"}]
      BY <1>0, <1>1 DEF TypeOK
    <2>2. stack' \in [Proc -> Seq([n : 1..N, err : BOOLEAN])]
      <3> DEFINE S == Seq([n : 1..N, err : BOOLEAN])
      <3>1. stack \in [Proc -> S] /\ stack'[p] \in S
        BY <1>0, <1>4 DEF TypeOK
      <3> HIDE DEF S
      <3>2. stack' \in [Proc -> S]
        BY <1>1, <3>1
      <3> QED
        BY <3>2 DEF S
    <2>3. rfd' \in [Proc -> SUBSET Proc]
      <3>1. rfd \in [Proc -> SUBSET Proc] /\ rfd[c] \ {p} \in SUBSET Proc
        BY <1>0, <1>2 DEF TypeOK
      <3> QED
        BY <1>1, <3>1
    <2> QED
      BY <1>0, <1>1, <2>1, <2>2, <2>3 DEF TypeOK
  <1>11. Stacks'
    <2>1. ASSUME NEW q \in Proc
          PROVE  /\ Alive(q)' <=> stack'[q] # <<>>
                 /\ \A i \in Calls(q)' : q + stack'[q][i].n <= N
                 /\ \A i \in Calls(q)' : i > 1 => stack'[q][i - 1].n = stack'[q][i].n \div 2
                 /\ \A i, j \in Calls(q)' : i < j => stack'[q][i].n <= stack'[q][j].n \div 2
                 /\ at'[q] = "write" => q # 0 /\ Len(stack'[q]) = 1
      <3>1. Alive(q)' <=> stack'[q] # <<>>
        <4>1. CASE q = p
          BY <1>1, <1>4, <1>7, <4>1 DEF Alive
        <4>2. CASE q # p
          BY <1>0, <1>5, <1>7, <4>2 DEF Stacks
        <4> QED
          BY <4>1, <4>2
      <3>2. \A i \in Calls(q)' : q + stack'[q][i].n <= N
        BY <1>0, <1>7 DEF Stacks
      <3>3. ASSUME NEW i \in Calls(q)', i > 1 PROVE stack'[q][i - 1].n = stack'[q][i].n \div 2
        <4>1. i \in Calls(q) /\ i - 1 \in Calls(q)
          BY <1>0, <1>7, <3>3, CallFacts DEF Calls
        <4> QED
          BY <1>0, <1>7, <3>3, <4>1 DEF Stacks
      <3>4. \A i, j \in Calls(q)' : i < j => stack'[q][i].n <= stack'[q][j].n \div 2
        BY <1>0, <1>7 DEF Stacks
      <3>5. at'[q] = "write" => q # 0 /\ Len(stack'[q]) = 1
        BY <1>0, <1>6, <1>7 DEF Stacks
      <3> QED
        BY <3>1, <3>2, <3>3, <3>4, <3>5
    <2>2. at'[0] \notin {"none", "killed", "reaped"} /\ 0 \in Proc
      BY <1>0, <1>6, FsortAssumption DEF Stacks, Proc
    <2>3. stack'[0] # <<>> => stack'[0][Len(stack'[0])].n = N
      <3>1. Alive(0)' <=> stack'[0] # <<>>
        BY <2>1, <2>2
      <3>2. Alive(0) => Len(stack[0]) \in Calls(0) /\ stack[0][Len(stack[0])].n = N
        BY <1>0, <2>2, CallFacts DEF Calls, Stacks
      <3> QED
        BY <1>7, <2>2, <3>1, <3>2
    <2> QED
      BY <2>1, <2>2, <2>3 DEF Stacks
  <1>12. Fresh'
    <2> SUFFICES ASSUME NEW q \in Proc, at'[q] = "call", NEW d \in (q + 1..q + n(q) - 1)'
                 PROVE  at'[d] = "none"
      BY DEF Fresh
    <2>1. q # p /\ at[q] = "call" /\ n(q)' = n(q)
      BY <1>6, <1>7 DEF Alive
    <2>2. at[d] = "none" /\ d \in Proc
      <3>1. q \in Nat /\ N \in Nat /\ n(q) \in 1..N /\ q + n(q) <= N
        BY <1>0, <2>1, CallFacts DEF Alive
      <3> QED
        BY <3>1, <1>0, <2>1 DEF Fresh, Proc
    <2> QED
      BY <1>1, <1>6, <2>2
  <1>13. Families'
    <2> SUFFICES ASSUME NEW q \in Proc, NEW i \in Pending(q), NEW d, d = ChildOf(q, i)
                 PROVE  /\ stack'[q][i].n > 1
                        /\ parent[d] = q
                        /\ at'[d] \notin {"none", "reaped"}
                        /\ stack'[d] # <<>> => stack'[d][Len(stack'[d])].n = Share(q, i)
                        /\ Sent(d)' <= Share(q, i)
                        /\ at'[d] \in {"exit0", "exit1"} => Sent(d)' = Share(q, i)
                        /\ i > 1 => got[d] = 0
                        /\ i > 1 \/ at'[q] = "read" => q \in rfd'[d] /\ got[d] < Share(q, i)
                        /\ i = 1 /\ at'[q] = "wait" =>
                               got[d] = Share(q, i) \/ (stack'[q][i].err /\ ~Alive(d)' /\ kills > 0)
      BY <1>1, <1>7, <1>8 DEF Families
    <2>1. /\ stack[q][i].n > 1
          /\ parent[d] = q
          /\ at[d] \notin {"none", "reaped"}
          /\ stack[d] # <<>> => stack[d][Len(stack[d])].n = Share(q, i)
          /\ Sent(d) <= Share(q, i)
          /\ at[d] \in {"exit0", "exit1"} => Sent(d) = Share(q, i)
          /\ i > 1 => got[d] = 0
          /\ i > 1 \/ at[q] = "read" => q \in rfd[d] /\ got[d] < Share(q, i)
          /\ i = 1 /\ at[q] = "wait" =>
                 got[d] = Share(q, i) \/ (stack[q][i].err /\ ~Alive(d) /\ kills > 0)
      BY <1>0 DEF Families
    <2>2. d \in Proc /\ i \in Nat /\ i \in Calls(q)
      BY <1>0, ChildFacts
    <2>3. /\ at'[d] \notin {"none", "reaped"}
          /\ at'[d] \in {"exit0", "exit1"} => at[d] \in {"exit0", "exit1"}
      BY <1>6, <2>1, <2>2
    <2>4. stack'[d] # <<>> => stack'[d][Len(stack'[d])].n = Share(q, i)
      <3>1. CASE d = p
        <4>1. Len(stack[p]) \in Calls(p) /\ stack[p] # <<>>
          BY <1>0, <1>1, CallFacts DEF Calls, Alive, Stacks
        <4> QED
          BY <1>4, <2>1, <3>1, <4>1
      <3>2. CASE d # p
        BY <1>5, <2>1, <2>2, <3>2
      <3> QED
        BY <3>1, <3>2
    <2>5. stack'[q][i].n > 1
      BY <1>7, <2>1, <2>2
    <2>6. CASE q = p /\ i = 1
      <3>1. d = c
        BY <1>2, <2>6
      <3> QED
        BY <1>1, <1>3, <1>4, <1>6, <1>7, <1>9, <2>1, <2>2, <2>3, <2>4, <2>5, <2>6, <3>1
    <2>7. CASE ~(q = p /\ i = 1)
      <3>1. d # c
        BY <1>0, <1>2, <2>7, OneParent
      <3>2. i \in Nat /\ i >= 1
        BY <1>0, <2>2, CallFacts DEF Calls
      <3>3. i = 1 => at'[q] = at[q] /\ stack'[q] = stack[q]
        BY <1>5, <1>6, <2>7
      <3> QED
        BY <1>6, <1>7, <1>9, <2>1, <2>2, <2>3, <2>4, <2>5, <3>1, <3>2, <3>3
    <2> QED
      BY <2>6, <2>7
  <1>14. Owned'
    <2> SUFFICES ASSUME NEW d \in Proc \ {0}, at'[d] \notin {"none", "reaped"}
                 PROVE  \/ \E i \in Pending(parent[d])' : d = ChildOf(parent[d], i)'
                        \/ Forsaken(d)'
                        \/ kills > 0 /\ parent[d] # 0
      BY <1>1 DEF Owned, Pending, ChildOf
    <2>1. at[d] \notin {"none", "reaped"}
      BY <1>1, <1>6
    <2>2. parent[d] \in Proc
      BY <1>0 DEF TypeOK
    <2>3. Forsaken(d) => Forsaken(d)'
      <3>1. d = p => ~Forsaken(d)
        BY <1>1 DEF Forsaken, Alive
      <3> QED
        BY <1>1, <1>6, <1>7, <1>9, <3>1 DEF Forsaken
    <2> QED
      BY <1>0, <1>1, <1>7, <1>8, <2>1, <2>2, <2>3 DEF Owned
  <1>15. Pipes'
    <2> SUFFICES ASSUME NEW d \in Proc
                 PROVE  /\ at'[d] \in {"none", "call", "read", "wait"} => pipe[d] = <<>> /\ got[d] = 0
                        /\ d + Sent(d) <= N
                        /\ at'[d] = "write" => Sent(d) <= n(d)'
                        /\ Alive(d)' /\ d # 0 => d \in wfd[d]
      BY <1>1, <1>9 DEF Pipes
    <2> QED
      BY <1>0, <1>1, <1>6, <1>7 DEF Pipes, Alive
  <1>16. Causes'
    <2>1. \A q \in Proc : at'[q] = "killed" => kills > 0
      BY <1>3
    <2> QED
      BY <1>1, <1>3, <2>1 DEF Causes
  <1>17. Contents'
    <2>1. \A q, k, f : Done(q, k, f)' = Done(q, k, f)
      BY <1>1 DEF Done
    <2>2. \A k : Done(p, k, TRUE)
      <3>1. kills # 0
        BY <1>0, <1>3 DEF TypeOK
      <3> QED
        BY <3>1 DEF Done
    <2>3. ASSUME NEW q \in Proc
           PROVE  /\ at'[q] = "call" => \A j \in (q..q + n(q) - 1)' : mem[q][j] = input[j]
                  /\ at'[q] \in {"read", "wait"} =>
                         /\ Done(q, Left(q)', stack'[q][1].err)
                         /\ \A j \in (Child(q)..Child(q) + got[Child(q)] - 1)' :
                                mem[q][j] = mem[Child(q)'][j]
                  /\ at'[q] = "write" => Done(q, n(q)', stack'[q][1].err)
      <3>1. Alive(q) => n(q)' = n(q) /\ Left(q)' = Left(q) /\ Child(q)' = Child(q)
        BY <1>7 DEF Left, Child
      <3>2. CASE q = p
        <4>1. Child(p)' = Child(p) /\ got' = got
          BY <1>1, <3>1, <3>2 DEF Alive
        <4>2. \A j \in Child(p)..Child(p) + got[Child(p)] - 1 : mem[p][j] = mem[Child(p)][j]
          BY <1>0, <1>1 DEF Contents
        <4>3. stack'[p][1].err = TRUE /\ at'[p] = "wait"
          BY <1>4, <1>6
        <4> QED
          BY <2>2, <3>2, <4>1, <4>2, <4>3
      <3>3. CASE q # p
        <4>1. at'[q] = at[q] /\ stack'[q] = stack[q] /\ got' = got
          BY <1>1, <1>5, <1>6, <3>3
        <4> QED
          BY <1>0, <3>1, <4>1 DEF Contents, Alive
      <3> QED
        BY <3>2, <3>3
    <2>4. ASSUME NEW q \in Proc, NEW i \in Pending(q)', NEW d, d = ChildOf(q, i)',
                 at'[d] \in {"exit0", "exit1"}
          PROVE  Done(d, Share(q, i)', at'[d] = "exit1")
      <3>1. i \in Pending(q) /\ d = ChildOf(q, i) /\ Share(q, i)' = Share(q, i)
        BY <1>7, <1>8, <2>4
      <3>2. d \in Proc
        BY <1>0, <3>1, ChildFacts
      <3>3. at'[d] = at[d]
        BY <1>6, <2>4, <3>2
      <3> QED
        BY <1>0, <2>4, <3>1, <3>3 DEF Contents
    <2>5. at'[0] \in {"exit0", "exit1"} => Done(0, N, at'[0] = "exit1")
      <3>1. 0 \in Proc
        BY FsortAssumption DEF Proc
      <3> QED
        BY <1>0, <1>6, <3>1 DEF Contents
    <2>6. \A q \in Proc : \A k \in 1..Len(pipe[q]) : pipe[q][k] = mem[q][q + got[q] + k - 1]
      BY <1>0 DEF Contents
    <2> QED
      BY <1>1, <2>1, <2>3, <2>4, <2>5, <2>6 DEF Contents
  <1> QED
    BY <1>10, <1>11, <1>12, <1>13, <1>14, <1>15, <1>16, <1>17 DEF IInv

-----------------------------------------------------------------------------
(* A call returns.                                                         *)

\* Without its first element, a sequence of calls is one of calls.
LEMMA TailFacts ==
    ASSUME NEW s \in Seq([n : 1..N, err : BOOLEAN]), s # <<>>
    PROVE  /\ Tail(s) \in Seq([n : 1..N, err : BOOLEAN]) /\ Len(Tail(s)) = Len(s) - 1
           /\ \A i \in 1..Len(s) - 1 : Tail(s)[i] = s[i + 1]
           /\ Len(s) \in Nat /\ Len(s) >= 1
           /\ Tail(s) = <<>> <=> Len(s) = 1
           /\ s[1].err \in BOOLEAN
  <1> DEFINE R == [n : 1..N, err : BOOLEAN]
  <1>1. s \in Seq(R)
    OBVIOUS
  <1>2. \A f \in R : f.err \in BOOLEAN
    OBVIOUS
  <1> HIDE DEF R
  <1>3. /\ Tail(s) \in Seq(R) /\ Len(Tail(s)) = Len(s) - 1
        /\ \A i \in 1..Len(s) - 1 : Tail(s)[i] = s[i + 1]
        /\ Len(s) \in Nat /\ Len(s) >= 1 /\ s[1] \in R
    BY <1>1
  <1>4. Tail(s) = <<>> <=> Len(s) = 1
    <2> DEFINE u == Tail(s)
    <2>1. u \in Seq(R) /\ Len(u) = Len(s) - 1
      BY <1>3
    <2> HIDE DEF u
    <2>2. u = <<>> <=> Len(u) = 0
      BY <2>1, EmptySeq
    <2> QED
      BY <1>3, <2>1, <2>2 DEF u
  <1> QED
    BY <1>2, <1>3, <1>4 DEF R

\* The calls of p after the innermost one has returned e: its other calls, or the
\* child's code, or nothing.
LEMMA ReturnFacts ==
    ASSUME TypeOK, Stacks, NEW p \in Proc, NEW e \in BOOLEAN,
           NEW a \in [Proc -> {"none", "call", "read", "wait", "write",
                               "exit0", "exit1", "killed", "reaped"}],
           Alive(p), Return(p, e, a)
    PROVE  /\ stack' \in [Proc -> Seq([n : 1..N, err : BOOLEAN])]
           /\ at' \in [Proc -> {"none", "call", "read", "wait", "write",
                             "exit0", "exit1", "killed", "reaped"}]
           /\ \A q \in Proc : q # p => stack'[q] = stack[q] /\ at'[q] = a[q]
           /\ \/ /\ Len(stack[p]) > 1 /\ at'[p] = "read"
                 /\ Len(stack'[p]) = Len(stack[p]) - 1
                 /\ \A i \in 1..Len(stack[p]) - 1 : stack'[p][i].n = stack[p][i + 1].n
                 /\ \A i \in 1..Len(stack[p]) - 1 : i # 1 => stack'[p][i].err = stack[p][i + 1].err
                 /\ stack'[p][1].err = (stack[p][2].err \/ e)
              \/ /\ Len(stack[p]) = 1 /\ p = 0 /\ stack'[p] = <<>>
                 /\ at'[p] = IF e THEN "exit1" ELSE "exit0"
              \/ /\ Len(stack[p]) = 1 /\ p # 0 /\ at'[p] = "write"
                 /\ Len(stack'[p]) = 1 /\ stack'[p][1].n = stack[p][1].n /\ stack'[p][1].err = e
  <1> DEFINE R == [n : 1..N, err : BOOLEAN]
             s == stack[p]
             t == Tail(s)
             St == {"none", "call", "read", "wait", "write",
                    "exit0", "exit1", "killed", "reaped"}
  <1>1. s \in Seq(R) /\ s # <<>>
    BY DEF TypeOK, Stacks
  <1>2. /\ t \in Seq(R) /\ Len(t) = Len(s) - 1 /\ \A i \in 1..Len(s) - 1 : t[i] = s[i + 1]
        /\ Len(s) \in Nat /\ Len(s) >= 1 /\ (t = <<>> <=> Len(s) = 1)
    BY <1>1, TailFacts
  <1>3. stack \in [Proc -> Seq(R)]
    BY DEF TypeOK
  <1>4. CASE t # <<>>
    <2> DEFINE b == t[1].err \/ e
               u == [t EXCEPT ![1] = [t[1] EXCEPT !.err = b]]
    <2>1. b \in BOOLEAN
      OBVIOUS
    <2>2. u \in Seq(R) /\ Len(u) = Len(t) /\ (\A i \in 1..Len(t) : u[i].n = t[i].n)
          /\ (\A i \in 1..Len(t) : i # 1 => u[i] = t[i]) /\ u[1].err = b
      <3> DEFINE f == [t[1] EXCEPT !.err = b]
      <3>1. t[1] \in R /\ 1 \in 1..Len(t) /\ Len(t) \in Nat
        <4> HIDE DEF t, R
        <4> QED
          BY <1>2, <1>4
      <3>2. f \in R /\ f.n = t[1].n /\ f.err = b
        <4> HIDE DEF t, b
        <4> QED
          BY <2>1, <3>1
      <3>3. u = [t EXCEPT ![1] = f]
        OBVIOUS
      <3> HIDE DEF t, b, u, R, f
      <3>4. u \in Seq(R) /\ Len(u) = Len(t) /\ u[1] = f /\ \A i \in 1..Len(t) : i # 1 => u[i] = t[i]
        BY <1>2, <3>1, <3>2, <3>3
      <3> QED
        BY <3>2, <3>4
    <2>3. at' = [a EXCEPT ![p] = "read"] /\ stack' = [stack EXCEPT ![p] = u]
      BY <1>4 DEF Return
    <2> HIDE DEF R, u
    <2>4. /\ stack' \in [Proc -> Seq(R)] /\ stack'[p] = u
          /\ \A q \in Proc : q # p => stack'[q] = stack[q]
      BY <1>3, <2>2, <2>3
    <2>5. /\ at' \in [Proc -> St] /\ at'[p] = "read" /\ \A q \in Proc : q # p => at'[q] = a[q]
      BY <2>3
    <2>6. Len(s) > 1 /\ 1 \in 1..Len(s) - 1 /\ 1 + 1 = 2
      BY <1>2, <1>4
    <2>7. u[1].err = (s[2].err \/ e)
      BY <1>2, <2>2, <2>6
    <2>8. \A i \in 1..Len(s) - 1 : u[i].n = s[i + 1].n /\ (i # 1 => u[i].err = s[i + 1].err)
      BY <1>2, <2>2
    <2>9. Len(u) = Len(s) - 1
      BY <1>2, <2>2
    <2> HIDE DEF t
    <2> QED
      BY <2>4, <2>5, <2>6, <2>7, <2>8, <2>9 DEF R
  <1>5. CASE t = <<>> /\ p = 0
    <2>1. at' = [a EXCEPT ![p] = IF e THEN "exit1" ELSE "exit0"] /\ stack' = [stack EXCEPT ![p] = <<>>]
      BY <1>5 DEF Return
    <2> HIDE DEF R
    <2>2. stack' \in [Proc -> Seq(R)] /\ stack'[p] = <<>> /\ \A q \in Proc : q # p => stack'[q] = stack[q]
      BY <1>3, <2>1
    <2>3. /\ at' \in [Proc -> St] /\ at'[p] = (IF e THEN "exit1" ELSE "exit0")
          /\ \A q \in Proc : q # p => at'[q] = a[q]
      BY <2>1
    <2> HIDE DEF t
    <2> QED
      BY <1>2, <1>5, <2>2, <2>3 DEF R
  <1>6. CASE t = <<>> /\ p # 0
    <2> DEFINE u == [s EXCEPT ![1] = [s[1] EXCEPT !.err = e]]
    <2>1. at' = [a EXCEPT ![p] = "write"] /\ stack' = [stack EXCEPT ![p] = u]
      BY <1>6 DEF Return
    <2>2. u \in Seq(R) /\ Len(u) = Len(s) /\ (\A i \in 1..Len(s) : u[i].n = s[i].n) /\ u[1].err = e
      <3> DEFINE f == [s[1] EXCEPT !.err = e]
      <3>1. s[1] \in R /\ 1 \in 1..Len(s) /\ Len(s) \in Nat
        <4> HIDE DEF s, R
        <4> QED
          BY <1>1
      <3>2. f \in R /\ f.n = s[1].n /\ f.err = e
        <4> HIDE DEF s
        <4> QED
          BY <3>1
      <3>3. u = [s EXCEPT ![1] = f]
        OBVIOUS
      <3> HIDE DEF s, u, R, f
      <3>4. u \in Seq(R) /\ Len(u) = Len(s) /\ u[1] = f /\ \A i \in 1..Len(s) : i # 1 => u[i] = s[i]
        BY <1>1, <3>1, <3>2, <3>3
      <3> QED
        BY <3>2, <3>4
    <2> HIDE DEF R, u
    <2>3. stack' \in [Proc -> Seq(R)] /\ stack'[p] = u /\ \A q \in Proc : q # p => stack'[q] = stack[q]
      BY <1>3, <2>1, <2>2
    <2>4. at' \in [Proc -> St] /\ at'[p] = "write" /\ \A q \in Proc : q # p => at'[q] = a[q]
      BY <2>1
    <2>5. u[1].n = s[1].n
      BY <1>2, <2>2
    <2> HIDE DEF t
    <2> QED
      BY <1>2, <1>6, <2>2, <2>3, <2>4, <2>5 DEF R
  <1> QED
    BY <1>4, <1>5, <1>6


\* The calls of p that were made before the innermost one are those it is left
\* with, each with the child it had.
LEMMA ReturnCalls ==
    ASSUME TypeOK, Stacks, NEW p \in Proc, NEW e \in BOOLEAN,
           NEW a \in [Proc -> {"none", "call", "read", "wait", "write",
                               "exit0", "exit1", "killed", "reaped"}],
           Alive(p), Return(p, e, a)
    PROVE  /\ \A i \in Pending(p)' :
                  /\ i \in Nat /\ i >= 1 /\ i + 1 \in Pending(p) /\ at'[p] = "read"
                  /\ ChildOf(p, i)' = ChildOf(p, i + 1) /\ Share(p, i)' = Share(p, i + 1)
                  /\ stack'[p][i].n = stack[p][i + 1].n
           /\ \A i \in Pending(p) : i > 1 => \E j \in Pending(p)' : ChildOf(p, j)' = ChildOf(p, i)
           /\ stack'[p] # <<>> => stack'[p][Len(stack'[p])].n = stack[p][Len(stack[p])].n
           /\ at'[p] \in {"read", "write", "exit0", "exit1"}
           /\ at'[p] \in {"exit0", "exit1"} => p = 0
           /\ Alive(p)' <=> stack'[p] # <<>>
           /\ \A i \in Calls(p)' : \E j \in Calls(p) : stack'[p][i].n = stack[p][j].n
           /\ \A i \in Calls(p)' : i > 1 => stack'[p][i - 1].n = stack'[p][i].n \div 2
           /\ \A i, j \in Calls(p)' : i < j => stack'[p][i].n <= stack'[p][j].n \div 2
           /\ at'[p] = "write" => p # 0 /\ Len(stack'[p]) = 1
  <1> DEFINE l == Len(stack[p])
  <1>1. /\ l \in Nat /\ l >= 1
        /\ \A i \in 1..l : i > 1 => stack[p][i - 1].n = stack[p][i].n \div 2
        /\ \A i, j \in 1..l : i < j => stack[p][i].n <= stack[p][j].n \div 2
    BY CallFacts DEF Stacks, Calls
  <1>2. CASE /\ Len(stack[p]) > 1 /\ at'[p] = "read"
             /\ Len(stack'[p]) = Len(stack[p]) - 1
             /\ \A i \in 1..Len(stack[p]) - 1 : stack'[p][i].n = stack[p][i + 1].n
    <2>1. Calls(p)' = 1..l - 1 /\ Pending(p)' = 1..l - 1 /\ Calls(p) = 1..l
      <3>1. Calls(p)' = 1..l - 1 /\ Calls(p) = 1..l
        BY <1>2 DEF Calls
      <3> QED
        BY <1>2, <3>1 DEF Pending
    <2>2. at'[p] = "read" /\ stack'[p] # <<>> /\ Len(stack'[p]) = l - 1 /\ l > 1
      BY <1>1, <1>2
    <2>3. \A i \in 1..l - 1 : stack'[p][i].n = stack[p][i + 1].n
      BY <1>2
    <2>4. \A i \in 1..l : i > 1 => i \in Pending(p)
      BY <2>1 DEF Pending
    <2> HIDE DEF l
    <2>5. \A i \in 1..l - 1 : i \in Nat /\ i >= 1 /\ i + 1 \in 1..l /\ i + 1 > 1
      BY <1>1
    <2>6. \A i \in 1..l - 1 : /\ ChildOf(p, i)' = ChildOf(p, i + 1) /\ Share(p, i)' = Share(p, i + 1)
                              /\ i + 1 \in Pending(p)
      BY <2>3, <2>4, <2>5 DEF ChildOf, Share
    <2>7. ASSUME NEW i \in Pending(p), i > 1
          PROVE  \E j \in Pending(p)' : ChildOf(p, j)' = ChildOf(p, i)
      <3>1. i \in 1..l
        BY <2>1 DEF Pending
      <3>2. i - 1 \in 1..l - 1 /\ (i - 1) + 1 = i
        BY <1>1, <2>7, <3>1
      <3>3. ChildOf(p, i - 1)' = ChildOf(p, i)
        BY <2>6, <3>2
      <3> QED
        BY <2>1, <3>2, <3>3
    <2>8. stack'[p][Len(stack'[p])].n = stack[p][l].n
      <3>1. l - 1 \in 1..l - 1 /\ (l - 1) + 1 = l
        BY <1>1, <2>2
      <3> QED
        BY <2>2, <2>3, <3>1
    <2>9. ASSUME NEW i \in 1..l - 1, i > 1 PROVE stack'[p][i - 1].n = stack'[p][i].n \div 2
      <3>1. i - 1 \in 1..l - 1 /\ (i - 1) + 1 = i /\ i + 1 \in 1..l /\ (i + 1) - 1 = i /\ i + 1 > 1
        BY <1>1, <2>9
      <3>2. stack'[p][i - 1].n = stack[p][i].n /\ stack'[p][i].n = stack[p][i + 1].n
        BY <2>3, <3>1
      <3>3. stack[p][i].n = stack[p][i + 1].n \div 2
        BY <1>1, <3>1
      <3> QED
        BY <3>2, <3>3
    <2>10. ASSUME NEW i \in 1..l - 1, NEW j \in 1..l - 1, i < j
           PROVE  stack'[p][i].n <= stack'[p][j].n \div 2
      <3>1. i + 1 \in 1..l /\ j + 1 \in 1..l /\ i + 1 < j + 1
        BY <1>1, <2>10
      <3> QED
        BY <1>1, <2>3, <3>1
    <2>11. Alive(p)'
      BY <2>2 DEF Alive
    <2> QED
      BY <2>1, <2>2, <2>3, <2>5, <2>6, <2>7, <2>8, <2>9, <2>10, <2>11 DEF l
  <1>3. CASE /\ Len(stack[p]) = 1 /\ p = 0 /\ stack'[p] = <<>>
             /\ at'[p] = IF e THEN "exit1" ELSE "exit0"
    <2>1. at'[p] \in {"exit0", "exit1"}
      BY <1>3
    <2>2. Calls(p)' = {} /\ Pending(p)' = {} /\ Calls(p) = {1}
      BY <1>3, <2>1 DEF Calls, Pending
    <2>3. \A i \in Pending(p) : ~(i > 1)
      BY <2>2 DEF Pending
    <2>4. ~Alive(p)'
      BY <2>1 DEF Alive
    <2> QED
      BY <1>3, <2>1, <2>2, <2>3, <2>4
  <1>4. CASE /\ Len(stack[p]) = 1 /\ p # 0 /\ at'[p] = "write"
             /\ Len(stack'[p]) = 1 /\ stack'[p][1].n = stack[p][1].n
    <2>1. Calls(p)' = {1} /\ Pending(p)' = {} /\ Calls(p) = {1}
      BY <1>4 DEF Calls, Pending
    <2>2. \A i \in Pending(p) : ~(i > 1)
      BY <2>1 DEF Pending
    <2>3. Alive(p)'
      BY <1>4 DEF Alive
    <2>4. stack'[p] # <<>>
      BY <1>4
    <2> QED
      BY <1>4, <2>1, <2>2, <2>3, <2>4
  <1> HIDE DEF l
  <1> QED
    BY <1>2, <1>3, <1>4, ReturnFacts


\* An innermost call that has done its part returns; if it waited for its child,
\* the child is reaped.
LEMMA ReturnInv ==
    ASSUME IInv, NEW p \in Proc, NEW e \in BOOLEAN, NEW a, Return(p, e, a),
           \/ at[p] = "call" /\ a = at
           \/ at[p] = "wait" /\ Ended(Child(p)) /\ a = [at EXCEPT ![Child(p)] = "reaped"]
           \/ at[p] = "wait" /\ a = at /\ Child(p) \in abandoned',
           mem' \in [Proc -> [Proc -> Nat]], \A q \in Proc : q # p => mem'[q] = mem[q],
           NEW k, k = n(p), Done(p, k, e)',
           UNCHANGED <<input, pipe, got, rfd, wfd, kills, parent>>,
           noFork' \in BOOLEAN, noFork => noFork', abandoned \subseteq abandoned', abandoned' \subseteq Proc,
           e => noFork' \/ abandoned' # {} \/ kills > 0
    PROVE  IInv'
  <1>0. TypeOK /\ Stacks /\ Fresh /\ Families /\ Owned /\ Pipes /\ Causes /\ Contents
    BY DEF IInv
  <1>1. Alive(p) /\ at[p] \in {"call", "wait"}
    BY DEF Alive
  <1>2. a \in [Proc -> {"none", "call", "read", "wait", "write",
                        "exit0", "exit1", "killed", "reaped"}]
    BY <1>0 DEF TypeOK
  <1>3. /\ stack' \in [Proc -> Seq([n : 1..N, err : BOOLEAN])]
        /\ at' \in [Proc -> {"none", "call", "read", "wait", "write",
                             "exit0", "exit1", "killed", "reaped"}]
        /\ \A q \in Proc : q # p => stack'[q] = stack[q] /\ at'[q] = a[q]
    BY <1>0, <1>1, <1>2, ReturnFacts
  <1>4. \/ /\ Len(stack[p]) > 1 /\ at'[p] = "read"
           /\ Len(stack'[p]) = Len(stack[p]) - 1
           /\ \A i \in 1..Len(stack[p]) - 1 : stack'[p][i].n = stack[p][i + 1].n
           /\ \A i \in 1..Len(stack[p]) - 1 : i # 1 => stack'[p][i].err = stack[p][i + 1].err
           /\ stack'[p][1].err = (stack[p][2].err \/ e)
        \/ /\ Len(stack[p]) = 1 /\ p = 0 /\ stack'[p] = <<>>
           /\ at'[p] = IF e THEN "exit1" ELSE "exit0"
        \/ /\ Len(stack[p]) = 1 /\ p # 0 /\ at'[p] = "write"
           /\ Len(stack'[p]) = 1 /\ stack'[p][1].n = stack[p][1].n /\ stack'[p][1].err = e
    BY <1>0, <1>1, <1>2, ReturnFacts
  <1>5. /\ \A i \in Pending(p)' :
               /\ i \in Nat /\ i >= 1 /\ i + 1 \in Pending(p) /\ at'[p] = "read"
               /\ ChildOf(p, i)' = ChildOf(p, i + 1) /\ Share(p, i)' = Share(p, i + 1)
               /\ stack'[p][i].n = stack[p][i + 1].n
        /\ \A i \in Pending(p) : i > 1 => \E j \in Pending(p)' : ChildOf(p, j)' = ChildOf(p, i)
        /\ stack'[p] # <<>> => stack'[p][Len(stack'[p])].n = stack[p][Len(stack[p])].n
        /\ at'[p] \in {"read", "write", "exit0", "exit1"}
        /\ at'[p] \in {"exit0", "exit1"} => p = 0
        /\ Alive(p)' <=> stack'[p] # <<>>
        /\ \A i \in Calls(p)' : \E j \in Calls(p) : stack'[p][i].n = stack[p][j].n
        /\ \A i \in Calls(p)' : i > 1 => stack'[p][i - 1].n = stack'[p][i].n \div 2
        /\ \A i, j \in Calls(p)' : i < j => stack'[p][i].n <= stack'[p][j].n \div 2
        /\ at'[p] = "write" => p # 0 /\ Len(stack'[p]) = 1
    BY <1>0, <1>1, <1>2, ReturnCalls
  <1>6. /\ pipe[p] = <<>> /\ got[p] = 0 /\ Sent(p) = 0
        /\ 1 \in Calls(p) /\ n(p) \in 1..N /\ p \in Nat /\ N \in Nat /\ p + n(p) <= N
    BY <1>0, <1>1, CallFacts DEF Pipes, Sent
  \* Where the others are.
  <1>7. \A q \in Proc : q # p => \/ at'[q] = at[q]
                                 \/ /\ q = Child(p) /\ at[p] = "wait" /\ at'[q] = "reaped"
                                    /\ Ended(q) /\ 1 \in Pending(p) /\ q = ChildOf(p, 1) /\ q # 0
    <2>1. CASE a = at
      BY <1>3, <2>1
    <2>2. CASE at[p] = "wait" /\ Ended(Child(p)) /\ a = [at EXCEPT ![Child(p)] = "reaped"]
      <3>1. Child(p) \in Proc /\ 1 \in Pending(p) /\ Child(p) = ChildOf(p, 1) /\ Child(p) # 0
        BY <1>0, <2>2, ReaderFacts
      <3> QED
        BY <1>0, <1>3, <2>2, <3>1 DEF TypeOK
    <2> QED
      BY <2>1, <2>2
  <1>8. \A q \in Proc : q # p => /\ at[q] = "none" => at'[q] = "none"
                                 /\ Alive(q) => at'[q] = at[q]
                                 /\ Alive(q)' <=> Alive(q)
                                 /\ at'[q] \in {"exit0", "exit1", "killed", "call", "read", "wait", "write"} =>
                                        at'[q] = at[q]
    BY <1>7 DEF Alive, Ended
  <1>9. \A q \in Proc : q # p =>
            /\ stack'[q] = stack[q]
            /\ Pending(q)' = Pending(q) /\ Calls(q)' = Calls(q)
            /\ \A i : ChildOf(q, i)' = ChildOf(q, i) /\ Share(q, i)' = Share(q, i)
            /\ n(q)' = n(q)
    <2> SUFFICES ASSUME NEW q \in Proc, q # p
                 PROVE  /\ stack'[q] = stack[q]
                        /\ Pending(q)' = Pending(q) /\ Calls(q)' = Calls(q)
                        /\ \A i : ChildOf(q, i)' = ChildOf(q, i) /\ Share(q, i)' = Share(q, i)
                        /\ n(q)' = n(q)
      OBVIOUS
    <2>1. stack'[q] = stack[q]
      BY <1>3
    <2>2. at'[q] \in {"read", "wait"} <=> at[q] \in {"read", "wait"}
      BY <1>8 DEF Alive
    <2> QED
      BY <2>1, <2>2, PendingSame
  <1>10. \A d : Sent(d)' = Sent(d)
    BY DEF Sent
  \* The children of the calls that are left.
  <1>11. ASSUME NEW q \in Proc, NEW i \in Pending(q), q # p \/ i > 1, NEW d, d = ChildOf(q, i)
         PROVE  /\ d \in Proc /\ d # 0
                /\ d # p => at'[d] = at[d] /\ stack'[d] = stack[d]
                /\ d = p => at'[d] \in {"read", "write"} /\ (stack'[d] # <<>> => stack[d] # <<>>)
                /\ stack'[d] # <<>> =>
                       stack[d] # <<>> /\ stack'[d][Len(stack'[d])].n = stack[d][Len(stack[d])].n
    <2>1. d \in Proc /\ d # 0
      BY <1>0, <1>11, ChildFacts
    <2>2. ~(1 \in Pending(p) /\ d = ChildOf(p, 1))
      BY <1>0, <1>11, OneParent
    <2>3. d # p => at'[d] = at[d] /\ stack'[d] = stack[d]
      BY <1>7, <1>9, <2>1, <2>2
    <2>4. stack[p] # <<>>
      BY <1>0, <1>1 DEF Stacks
    <2> QED
      BY <1>5, <2>1, <2>3, <2>4
  <1>12. TypeOK'
    BY <1>0, <1>3 DEF TypeOK
  <1>13. Stacks'
    <2>1. ASSUME NEW q \in Proc
          PROVE  /\ Alive(q)' <=> stack'[q] # <<>>
                 /\ \A i \in Calls(q)' : q + stack'[q][i].n <= N
                 /\ \A i \in Calls(q)' : i > 1 => stack'[q][i - 1].n = stack'[q][i].n \div 2
                 /\ \A i, j \in Calls(q)' : i < j => stack'[q][i].n <= stack'[q][j].n \div 2
                 /\ at'[q] = "write" => q # 0 /\ Len(stack'[q]) = 1
      <3>1. CASE q # p
        BY <1>0, <1>8, <1>9, <3>1 DEF Stacks
      <3>2. CASE q = p
        <4>1. \A i \in Calls(p)' : p + stack'[p][i].n <= N
          BY <1>0, <1>5 DEF Stacks
        <4> QED
          BY <1>5, <3>2, <4>1
      <3> QED
        BY <3>1, <3>2
    <2>2. 0 \in Proc
      BY FsortAssumption DEF Proc
    <2>3. at'[0] \notin {"none", "killed", "reaped"}
      <3>1. CASE p = 0
        BY <1>5, <3>1
      <3>2. CASE p # 0
        BY <1>0, <1>7, <2>2, <3>2 DEF Stacks
      <3> QED
        BY <3>1, <3>2
    <2>4. stack'[0] # <<>> => stack'[0][Len(stack'[0])].n = N
      <3>1. CASE p = 0
        <4>1. stack[0] # <<>>
          BY <1>0, <1>1, <3>1 DEF Stacks
        <4> QED
          BY <1>0, <1>5, <3>1, <4>1 DEF Stacks
      <3>2. CASE p # 0
        BY <1>0, <1>9, <2>2, <3>2 DEF Stacks
      <3> QED
        BY <3>1, <3>2
    <2> QED
      BY <2>1, <2>3, <2>4 DEF Stacks
  <1>14. Fresh'
    <2> SUFFICES ASSUME NEW q \in Proc, at'[q] = "call", NEW d \in (q + 1..q + n(q) - 1)'
                 PROVE  at'[d] = "none"
      BY DEF Fresh
    <2>1. q # p
      BY <1>5
    <2>2. at[q] = "call" /\ n(q)' = n(q)
      BY <1>8, <1>9, <2>1
    <2>3. at[d] = "none" /\ d \in Proc
      <3>1. q \in Nat /\ N \in Nat /\ n(q) \in 1..N /\ q + n(q) <= N
        BY <1>0, <2>2, CallFacts DEF Alive
      <3> QED
        BY <3>1, <1>0, <2>2 DEF Fresh, Proc
    <2>4. d # p
      BY <1>1, <2>3
    <2> QED
      BY <1>8, <2>3, <2>4
  <1>15. Families'
    <2> SUFFICES ASSUME NEW q \in Proc, NEW j \in Pending(q)', NEW d, d = ChildOf(q, j)'
                 PROVE  /\ stack'[q][j].n > 1
                        /\ parent[d] = q
                        /\ at'[d] \notin {"none", "reaped"}
                        /\ stack'[d] # <<>> => stack'[d][Len(stack'[d])].n = Share(q, j)'
                        /\ Sent(d) <= Share(q, j)'
                        /\ at'[d] \in {"exit0", "exit1"} => Sent(d) = Share(q, j)'
                        /\ j > 1 => got[d] = 0
                        /\ j > 1 \/ at'[q] = "read" => q \in rfd[d] /\ got[d] < Share(q, j)'
                        /\ j = 1 /\ at'[q] = "wait" =>
                               got[d] = Share(q, j)' \/ (stack'[q][j].err /\ ~Alive(d)' /\ kills > 0)
      BY <1>10 DEF Families
    <2>0. ASSUME NEW i \in Pending(q), d = ChildOf(q, i)
          PROVE  /\ stack[q][i].n > 1
                 /\ parent[d] = q
                 /\ at[d] \notin {"none", "reaped"}
                 /\ stack[d] # <<>> => stack[d][Len(stack[d])].n = Share(q, i)
                 /\ Sent(d) <= Share(q, i)
                 /\ at[d] \in {"exit0", "exit1"} => Sent(d) = Share(q, i)
                 /\ i > 1 => got[d] = 0
                 /\ i > 1 \/ at[q] = "read" => q \in rfd[d] /\ got[d] < Share(q, i)
                 /\ i = 1 /\ at[q] = "wait" =>
                        got[d] = Share(q, i) \/ (stack[q][i].err /\ ~Alive(d) /\ kills > 0)
      BY <1>0, <2>0 DEF Families
    <2>1. CASE q # p
      <3>1. j \in Pending(q) /\ d = ChildOf(q, j) /\ Share(q, j)' = Share(q, j) /\ stack'[q] = stack[q]
        BY <1>9, <2>1
      <3>2. /\ d \in Proc
            /\ d # p => at'[d] = at[d]
            /\ d = p => at'[d] \in {"read", "write"}
            /\ stack'[d] # <<>> =>
                   stack[d] # <<>> /\ stack'[d][Len(stack'[d])].n = stack[d][Len(stack[d])].n
        BY <1>11, <2>1, <3>1
      <3>3. at'[q] \in {"read", "wait"} => at'[q] = at[q]
        BY <1>8, <2>1
      <3>4. ~Alive(d) => ~Alive(d)'
        BY <1>1, <1>8, <3>2
      <3>5. at'[d] \notin {"none", "reaped"} /\ (at'[d] \in {"exit0", "exit1"} => at[d] = at'[d])
        BY <2>0, <3>1, <3>2
      <3> QED
        BY <2>0, <3>1, <3>2, <3>3, <3>4, <3>5
    <2>2. CASE q = p
      <3> DEFINE i == j + 1
      <3>1. /\ j \in Nat /\ i > 1 /\ i \in Pending(p) /\ d = ChildOf(p, i) /\ at'[p] = "read"
            /\ Share(p, j)' = Share(p, i) /\ stack'[p][j].n = stack[p][i].n
        BY <1>5, <2>2
      <3> HIDE DEF i
      <3>2. /\ d \in Proc
            /\ d # p => at'[d] = at[d]
            /\ stack'[d] # <<>> =>
                   stack[d] # <<>> /\ stack'[d][Len(stack'[d])].n = stack[d][Len(stack[d])].n
        BY <1>11, <3>1
      <3>3. d # p
        BY <1>0, <3>1, ChildFacts
      <3> QED
        BY <2>0, <2>2, <3>1, <3>2, <3>3
    <2> QED
      BY <2>1, <2>2
  <1>16. Owned'
    <2> SUFFICES ASSUME NEW d \in Proc \ {0}, at'[d] \notin {"none", "reaped"}
                 PROVE  \/ \E i \in Pending(parent[d])' : d = ChildOf(parent[d], i)'
                        \/ Forsaken(d)'
                        \/ kills > 0 /\ parent[d] # 0
      BY DEF Owned, Pending, ChildOf
    <2>1. at[d] \notin {"none", "reaped"}
      BY <1>1, <1>7, <1>8
    <2>2. parent[d] \in Proc
      BY <1>0 DEF TypeOK
    <2>3. ASSUME NEW i \in Pending(parent[d]), d = ChildOf(parent[d], i)
          PROVE  \/ \E j \in Pending(parent[d])' : d = ChildOf(parent[d], j)'
                 \/ Forsaken(d)'
      <3>1. CASE parent[d] # p
        BY <1>9, <2>2, <2>3, <3>1
      \* waitpid has failed.
      <3>3. CASE parent[d] = p /\ i = 1 /\ a = at
        <4>1. at[p] = "wait"
          BY <1>1, <2>3, <3>3 DEF Pending
        <4>2. d = Child(p) /\ d # p
          BY <1>0, <2>3, <3>3, <4>1, ReaderFacts
        <4>3. d \in abandoned'
          <5>1. ASSUME Ended(d) PROVE a # [at EXCEPT ![d] = "reaped"]
            BY <1>0, <3>3, <4>2, <5>1 DEF TypeOK, Ended
          <5> QED
            BY <3>3, <4>1, <4>2, <5>1
        <4>4. at'[d] = at[d] /\ n(d)' = n(d) /\ (Alive(d)' <=> Alive(d))
          BY <1>3, <1>8, <1>9, <3>3, <4>2
        <4>5. Alive(d) => at[d] = "write" /\ Sent(d) = n(d)
          BY <1>0, <4>1, <4>2, SentAll
        <4> QED
          BY <1>10, <4>3, <4>4, <4>5 DEF Forsaken
      <3>2. CASE parent[d] = p /\ ~(i = 1 /\ a = at)
        <4>1. i > 1
          <5>1. i \in Nat /\ i >= 1
            BY <1>0, <2>2, <2>3, ChildFacts, CallFacts DEF Calls
          <5>2. i # 1
            <6>1. ASSUME i = 1 PROVE FALSE
              <7>1. at[p] = "wait"
                BY <1>1, <2>3, <3>2, <6>1 DEF Pending
              <7>2. a = [at EXCEPT ![Child(p)] = "reaped"]
                BY <3>2, <6>1, <7>1
              <7>3. d = Child(p) /\ d # p
                BY <1>0, <2>3, <3>2, <6>1, <7>1, ReaderFacts
              <7>4. at'[d] = "reaped"
                BY <1>0, <1>3, <7>2, <7>3 DEF TypeOK
              <7> QED
                BY <7>4
            <6> QED
              BY <6>1
          <5> QED
            BY <5>1, <5>2
        <4> QED
          BY <1>5, <2>3, <3>2, <4>1
      <3> QED
        BY <3>1, <3>2, <3>3
    <2>4. CASE Forsaken(d)
      <3>1. d # p
        BY <1>1, <2>4 DEF Forsaken
      <3> QED
        BY <1>7, <1>8, <1>9, <1>10, <2>4, <3>1 DEF Forsaken
    <2> QED
      BY <1>0, <2>1, <2>3, <2>4 DEF Owned
  <1>17. Pipes'
    <2> SUFFICES ASSUME NEW d \in Proc
                 PROVE  /\ at'[d] \in {"none", "call", "read", "wait"} => pipe[d] = <<>> /\ got[d] = 0
                        /\ d + Sent(d) <= N
                        /\ at'[d] = "write" => Sent(d) <= n(d)'
                        /\ Alive(d)' /\ d # 0 => d \in wfd[d]
      BY <1>10 DEF Pipes
    <2>1. CASE d = p
      <3>1. at'[p] = "write" => n(p)' = n(p)
        BY <1>4 DEF n
      <3> QED
        BY <1>0, <1>1, <1>6, <2>1, <3>1 DEF Pipes
    <2>2. CASE d # p
      <3>1. at'[d] = "none" => at[d] = "none"
        BY <1>7, <2>2
      <3> QED
        BY <1>0, <1>8, <1>9, <2>2, <3>1 DEF Pipes
    <2> QED
      BY <2>1, <2>2
  <1>18. Causes'
    <2>1. \A q \in Proc : at'[q] = "killed" => kills > 0
      BY <1>0, <1>5, <1>8 DEF Causes
    <2>2. CASE noFork' \/ abandoned' # {} \/ kills > 0
      BY <2>1, <2>2 DEF Causes
    <2>3. CASE ~noFork' /\ abandoned' = {} /\ ~(kills > 0)
      <3>1. \A q \in Proc : at[q] # "exit1" /\ \A i \in Calls(q) : ~stack[q][i].err
        BY <1>0, <2>3 DEF Causes
      <3>2. ~e
        BY <2>3
      <3>3. \A q \in Proc : q # p => at'[q] # "exit1" /\ \A i \in Calls(q)' : ~stack'[q][i].err
        BY <1>8, <1>9, <3>1
      <3>4. at'[p] # "exit1"
        BY <1>4, <3>2
      <3>5. \A i \in Calls(p)' : ~stack'[p][i].err
        <4> DEFINE l == Len(stack[p])
        <4>1. l \in Nat
          BY <1>0, CallFacts
        <4>2. \A i \in 1..l : ~stack[p][i].err
          BY <3>1 DEF Calls
        <4>3. CASE /\ l > 1
                   /\ Len(stack'[p]) = l - 1
                   /\ \A i \in 1..l - 1 : i # 1 => stack'[p][i].err = stack[p][i + 1].err
                   /\ stack'[p][1].err = (stack[p][2].err \/ e)
          <5> HIDE DEF l
          <5>1. Calls(p)' = 1..l - 1 /\ 2 \in 1..l /\ \A i \in 1..l - 1 : i + 1 \in 1..l
            BY <4>1, <4>3 DEF Calls
          <5>2. ~stack'[p][1].err
            BY <3>2, <4>2, <4>3, <5>1
          <5>3. \A i \in 1..l - 1 : i # 1 => ~stack'[p][i].err
            BY <4>2, <4>3, <5>1
          <5> QED
            BY <5>1, <5>2, <5>3
        <4>4. CASE stack'[p] = <<>>
          BY <4>4 DEF Calls
        <4>5. CASE Len(stack'[p]) = 1 /\ stack'[p][1].err = e
          BY <3>2, <4>5 DEF Calls
        <4> QED
          BY <1>4, <4>3, <4>4, <4>5
      <3> QED
        BY <2>1, <3>3, <3>4, <3>5 DEF Causes
    <2> QED
      BY <2>2, <2>3
  <1>19. Contents'
    <2>1. \A q \in Proc : \A l, f : q # p /\ Done(q, l, f) => Done(q, l, f)'
      BY DoneSame
    <2>2. \A f : (e => f) => Done(p, k, f)'
      BY DEF Done
    <2>3. ASSUME at'[p] = "read"
          PROVE  /\ Left(p)' = k /\ Done(p, k, stack[p][1].err)'
                 /\ got[Child(p)'] = 0 /\ Child(p)' \in Nat
      <3>1. 1 \in 1..Len(stack[p]) - 1 /\ Len(stack[p]) > 1 /\ Len(stack[p]) \in Nat
        BY <1>0, <1>4, <2>3, CallFacts
      <3>2. stack'[p][1].n = stack[p][1 + 1].n /\ stack'[p][1].err = (stack[p][2].err \/ e)
        BY <1>4, <2>3, <3>1
      <3>3. 1 \in Calls(p) /\ 2 \in Calls(p) /\ 2 \in Pending(p)
        BY <3>1 DEF Calls, Pending
      <3>4. stack[p][2 - 1].n = stack[p][2].n \div 2
        BY <1>0, <3>3 DEF Stacks
      <3>5. Left(p)' = k
        BY <3>2, <3>4 DEF Left, n
      <3>6. Child(p)' = ChildOf(p, 2)
        BY <3>2 DEF Child, Left, n, ChildOf
      <3>7. got[ChildOf(p, 2)] = 0
        BY <1>0, <3>3 DEF Families
      <3>8. ChildOf(p, 2) \in Nat
        BY <1>0, <3>3, ChildFacts
      <3>9. e => stack'[p][1].err
        BY <3>2
      <3>10. ASSUME NEW f, f = stack'[p][1].err PROVE Done(p, k, f)'
        <4>1. e => f
          BY <3>9, <3>10
        <4> QED
          BY <2>2, <4>1
      <3> QED
        BY <3>5, <3>6, <3>7, <3>8, <3>10
    <2>4. ASSUME NEW q \in Proc
          PROVE  /\ at'[q] = "call" => \A j \in (q..q + n(q) - 1)' : mem'[q][j] = input[j]
                 /\ at'[q] \in {"read", "wait"} =>
                        /\ Done(q, Left(q), stack[q][1].err)'
                        /\ \A j \in (Child(q)..Child(q) + got[Child(q)] - 1)' :
                               mem'[q][j] = mem'[Child(q)'][j]
                 /\ at'[q] = "write" => Done(q, n(q), stack[q][1].err)'
      <3>1. CASE q = p
        <4>1. at'[p] = "read" => \A j \in (Child(p)..Child(p) + got[Child(p)] - 1)' : FALSE
          <5> SUFFICES ASSUME at'[p] = "read", NEW j \in (Child(p)..Child(p) + got[Child(p)] - 1)'
                       PROVE  FALSE
            OBVIOUS
          <5> DEFINE c == Child(p)'
          <5>1. c \in Nat /\ got[c] = 0 /\ got' = got
            BY <2>3
          <5> HIDE DEF c
          <5>2. j \in c..c + 0 - 1
            BY <5>1 DEF c
          <5> QED
            BY <5>1, <5>2
        <4>2. at'[p] = "write" => Done(p, n(p), stack[p][1].err)'
          <5>1. at'[p] = "write" => n(p)' = k /\ stack'[p][1].err = e
            BY <1>4 DEF n
          <5> QED
            BY <5>1
        <4>3. at'[p] = "read" => Done(p, Left(p), stack[p][1].err)'
          BY <2>3
        <4>4. at'[p] # "call" /\ at'[p] # "wait"
          BY <1>5
        <4> QED
          BY <3>1, <4>1, <4>2, <4>3, <4>4
      <3>2. CASE q # p
        <4>1. /\ n(q)' = n(q) /\ Left(q)' = Left(q) /\ Child(q)' = Child(q)
              /\ stack'[q] = stack[q] /\ mem'[q] = mem[q]
          BY <1>9, <3>2 DEF Left, Child
        <4>2. at'[q] = "call" => \A j \in (q..q + n(q) - 1)' : mem'[q][j] = input[j]
          <5>1. at'[q] = "call" => at[q] = "call"
            BY <1>8, <3>2
          <5>2. at[q] = "call" => \A j \in q..q + n(q) - 1 : mem[q][j] = input[j]
            BY <1>0 DEF Contents
          <5> QED
            BY <4>1, <5>1, <5>2
        <4>3. ASSUME at'[q] \in {"read", "wait"}
              PROVE  /\ Done(q, Left(q), stack[q][1].err)'
                     /\ \A j \in (Child(q)..Child(q) + got[Child(q)] - 1)' :
                            mem'[q][j] = mem'[Child(q)'][j]
          <5>1. at[q] \in {"read", "wait"}
            BY <1>8, <3>2, <4>3
          <5>2. /\ Done(q, Left(q), stack[q][1].err)
                /\ \A j \in Child(q)..Child(q) + got[Child(q)] - 1 : mem[q][j] = mem[Child(q)][j]
            BY <1>0, <5>1 DEF Contents
          <5>3. Done(q, Left(q), stack[q][1].err)'
            BY <2>1, <3>2, <4>1, <5>2
          <5>4. Child(q) \in Proc /\ Child(q) \in Nat
            BY <1>0, <5>1, ReaderFacts
          <5>5. CASE Child(q) = p
            <6>1. \A j \in Child(q)..Child(q) + got[Child(q)] - 1 : FALSE
              BY <1>6, <5>4, <5>5
            <6> QED
              BY <4>1, <5>3, <6>1
          <5>6. CASE Child(q) # p
            BY <4>1, <5>2, <5>3, <5>4, <5>6
          <5> QED
            BY <5>5, <5>6
        <4>4. at'[q] = "write" => Done(q, n(q), stack[q][1].err)'
          <5>1. at'[q] = "write" => Done(q, n(q), stack[q][1].err)
            BY <1>0, <1>8, <3>2 DEF Contents
          <5> QED
            BY <2>1, <3>2, <4>1, <5>1
        <4> QED
          BY <4>2, <4>3, <4>4
      <3> QED
        BY <3>1, <3>2
    <2>5. ASSUME NEW q \in Proc, NEW l \in 1..Len(pipe[q])
          PROVE  pipe[q][l] = mem'[q][q + got[q] + l - 1]
      BY <1>0, <1>6, <2>5 DEF Contents
    <2>6. ASSUME NEW q \in Proc, NEW j \in Pending(q)', NEW d, d = ChildOf(q, j)',
                 at'[d] \in {"exit0", "exit1"}
          PROVE  Done(d, Share(q, j), at[d] = "exit1")'
      <3>1. CASE q # p
        <4>1. j \in Pending(q) /\ d = ChildOf(q, j) /\ Share(q, j)' = Share(q, j)
          BY <1>9, <2>6, <3>1
        <4>2. d \in Proc /\ d # p /\ at'[d] = at[d]
          BY <1>11, <2>6, <3>1, <4>1
        <4>3. Done(d, Share(q, j), at[d] = "exit1")
          BY <1>0, <2>6, <4>1, <4>2 DEF Contents
        <4> QED
          BY <2>1, <4>1, <4>2, <4>3
      <3>2. CASE q = p
        <4> DEFINE i == j + 1
        <4>1. i > 1 /\ i \in Pending(p) /\ d = ChildOf(p, i) /\ Share(p, j)' = Share(p, i)
          BY <1>5, <2>6, <3>2
        <4> HIDE DEF i
        <4>2. d \in Proc /\ d # p /\ at'[d] = at[d]
          BY <1>11, <2>6, <4>1
        <4>3. Done(d, Share(p, i), at[d] = "exit1")
          BY <1>0, <2>6, <4>1, <4>2 DEF Contents
        <4> QED
          BY <2>1, <3>2, <4>1, <4>2, <4>3
      <3> QED
        BY <3>1, <3>2
    <2>7. ASSUME at'[0] \in {"exit0", "exit1"} PROVE Done(0, N, at[0] = "exit1")'
      <3>0. 0 \in Proc
        BY FsortAssumption DEF Proc
      <3>1. CASE p = 0
        <4>1. Len(stack[p]) = 1 /\ at'[0] = IF e THEN "exit1" ELSE "exit0"
          BY <1>4, <2>7, <3>1
        <4>2. k = N
          BY <1>0, <1>1, <3>0, <3>1, <4>1 DEF Stacks, n
        <4>3. (at'[0] = "exit1") = e
          BY <4>1
        <4> QED
          BY <3>1, <4>2, <4>3
      <3>2. CASE p # 0
        <4>1. at'[0] = at[0]
          BY <1>7, <3>0, <3>2
        <4>2. Done(0, N, at[0] = "exit1")
          BY <1>0, <2>7, <4>1 DEF Contents
        <4> QED
          BY <2>1, <3>0, <3>2, <4>1, <4>2
      <3> QED
        BY <3>1, <3>2
    <2> QED
      BY <2>4, <2>5, <2>6, <2>7 DEF Contents
  <1> QED
    BY <1>12, <1>13, <1>14, <1>15, <1>16, <1>17, <1>18, <1>19 DEF IInv


\* outer sorts the part of a call that has just been made.
LEMMA SortsPart ==
    ASSUME IInv, NEW p \in Proc, at[p] = "call", SortsHere(p), input' = input,
           NEW k, k = n(p)
    PROVE  /\ mem' \in [Proc -> [Proc -> Nat]] /\ \A q \in Proc : q # p => mem'[q] = mem[q]
           /\ Done(p, k, FALSE)'
  <1> DEFINE a == mem[p]
             b == Put(a, p, Outer[Part(a, p, k)])
             S == p..p + k - 1
  <1>1. TypeOK /\ Stacks /\ Contents
    BY DEF IInv
  <1>2. p \in Nat /\ k \in Nat /\ p + k <= N /\ a \in [Proc -> Nat]
    <2>1. n(p) \in 1..N /\ p + n(p) <= N /\ p \in Nat /\ N \in Nat
      BY <1>1, CallFacts DEF Alive
    <2>2. k \in Nat
      BY <2>1
    <2> QED
      BY <1>1, <2>1, <2>2 DEF TypeOK
  <1>3. mem' = [mem EXCEPT ![p] = b]
    BY DEF SortsHere
  <1> HIDE DEF b
  <1>4. Rearranged(a, b, p, k) /\ SortedOn(S, b)
    <2> HIDE DEF a
    <2> QED
      BY <1>2, OuterPart DEF b
  <1>5. mem'[p] = b /\ mem' \in [Proc -> [Proc -> Nat]] /\ \A q \in Proc : q # p => mem'[q] = mem[q]
    BY <1>1, <1>3, <1>4 DEF TypeOK, Rearranged
  <1>6. SameOn(S, b, input)
    <2>1. SameOn(S, b, a)
      BY <1>4 DEF Rearranged
    <2>2. \A q \in S : a[q] = input[q]
      BY <1>1 DEF Contents
    <2>3. SameOn(S, a, input)
      BY <2>2, SameEqual
    <2> HIDE DEF S, a
    <2> QED
      BY <2>1, <2>3, SameTransitive
  <1> QED
    BY <1>4, <1>5, <1>6 DEF Done

\* A call for at most one element returns at once.
LEMMA CallSmallInv ==
    ASSUME IInv, NEW p \in Proc, CallSmall(p)
    PROVE  IInv'
  <1> SUFFICES ASSUME NEW k, k = n(p)
               PROVE  IInv'
    OBVIOUS
  <1>1. /\ at[p] = "call" /\ SortsHere(p) /\ Return(p, FALSE, at)
        /\ UNCHANGED <<input, pipe, got, rfd, wfd, kills, noFork, abandoned, parent>>
    BY DEF CallSmall
  <1>2. /\ mem' \in [Proc -> [Proc -> Nat]] /\ \A q \in Proc : q # p => mem'[q] = mem[q]
        /\ Done(p, k, FALSE)'
    BY <1>1, SortsPart
  <1>3. noFork' \in BOOLEAN /\ (noFork => noFork') /\ abandoned' \subseteq Proc
    BY <1>1 DEF IInv, TypeOK
  <1> QED
    BY <1>1, <1>2, <1>3, ReturnInv

\* pipe fails: the part is sorted without children.
LEMMA PipeFailsInv ==
    ASSUME IInv, NEW p \in Proc, PipeFails(p)
    PROVE  IInv'
  <1> SUFFICES ASSUME NEW k, k = n(p)
               PROVE  IInv'
    OBVIOUS
  <1>1. /\ at[p] = "call" /\ SortsHere(p) /\ Return(p, FALSE, at)
        /\ UNCHANGED <<input, pipe, got, rfd, wfd, kills, noFork, abandoned, parent>>
    BY DEF PipeFails
  <1>2. /\ mem' \in [Proc -> [Proc -> Nat]] /\ \A q \in Proc : q # p => mem'[q] = mem[q]
        /\ Done(p, k, FALSE)'
    BY <1>1, SortsPart
  <1>3. noFork' \in BOOLEAN /\ (noFork => noFork') /\ abandoned' \subseteq Proc
    BY <1>1 DEF IInv, TypeOK
  <1> QED
    BY <1>1, <1>2, <1>3, ReturnInv

\* fork fails: the part is given up.
LEMMA ForkFailsInv ==
    ASSUME IInv, NEW p \in Proc, ForkFails(p)
    PROVE  IInv'
  <1> SUFFICES ASSUME NEW k, k = n(p)
               PROVE  IInv'
    OBVIOUS
  <1>1. /\ at[p] = "call" /\ Return(p, TRUE, at) /\ noFork' = TRUE
        /\ UNCHANGED <<input, mem, pipe, got, rfd, wfd, kills, abandoned, parent>>
    BY DEF ForkFails
  <1>2. mem' \in [Proc -> [Proc -> Nat]] /\ \A q \in Proc : q # p => mem'[q] = mem[q]
    BY <1>1 DEF IInv, TypeOK
  <1>4. abandoned' \subseteq Proc
    BY <1>1 DEF IInv, TypeOK
  \* The part is as it was.
  <1>3. Done(p, k, TRUE)'
    <2> DEFINE S == p..p + k - 1
    <2>1. \A q \in S : mem[p][q] = input[q]
      BY <1>1 DEF IInv, Contents
    <2>2. SameOn(S, mem[p], input)
      BY <2>1, SameEqual
    <2>3. mem'[p] = mem[p] /\ input' = input
      BY <1>1
    <2> QED
      BY <2>2, <2>3 DEF Done
  <1> QED
    BY <1>1, <1>2, <1>3, <1>4, ReturnInv

\* The parent has waited for a child and takes its exit status, or has waited in vain:
\* its result then is an error (e).
LEMMA WaitInv ==
    ASSUME IInv, NEW p \in Proc, Wait(p) \/ WaitFails(p)
    PROVE  IInv'
  <1> DEFINE c == Child(p)
             r == Right(p)
             l == Left(p)
  <1> SUFFICES ASSUME NEW k, k = n(p), NEW e, NEW w,
                      \/ /\ Ended(c) /\ e = (stack[p][1].err \/ ~Succeeded(c))
                         /\ w = [at EXCEPT ![c] = "reaped"] /\ abandoned' = abandoned
                      \/ e = TRUE /\ w = at /\ abandoned' = abandoned \cup {c},
                      at[p] = "wait", Return(p, e, w),
                      NEW s \in Merged(p), mem' = [mem EXCEPT ![p] = Put(mem[p], p, s)]
               PROVE  IInv'
    <2>1. CASE Wait(p)
      BY <2>1 DEF Wait
    <2>2. CASE WaitFails(p)
      BY <2>2 DEF WaitFails
    <2> QED
      BY <2>1, <2>2
  <1>0. TypeOK /\ Stacks /\ Fresh /\ Families /\ Owned /\ Pipes /\ Causes /\ Contents
    BY DEF IInv
  <1>1. /\ at[p] = "wait" /\ Return(p, e, w)
        /\ UNCHANGED <<input, pipe, got, rfd, wfd, kills, noFork, parent>>
    BY DEF Wait, WaitFails
  <1>2. /\ 1 \in Pending(p) /\ c = ChildOf(p, 1) /\ r = Share(p, 1)
        /\ c \in Proc /\ c \in Nat /\ p \in Nat /\ k \in Nat /\ r \in Nat /\ l \in 0..k /\ k - l = r
        /\ c = p + l /\ p + k <= N /\ 1 \in Calls(p)
        /\ stack[p][1].err \in BOOLEAN
    <2>1. /\ 1 \in Pending(p) /\ c = ChildOf(p, 1) /\ r = Share(p, 1)
          /\ c \in Proc /\ c \in Nat /\ p \in Nat
          /\ n(p) \in 2..N /\ l \in 1..N /\ r \in 1..N /\ N \in Nat
          /\ l + r = n(p) /\ c = p + l /\ p + n(p) <= N
      BY <1>0, <1>1, ReaderFacts
    <2>2. 1 \in Calls(p) /\ stack[p][1].err \in BOOLEAN
      BY <1>0, <1>1, CallFacts DEF Alive
    <2> HIDE DEF c, l, r
    <2>3. k \in Nat /\ r \in Nat /\ l \in 0..k /\ k - l = r
      BY <2>1
    <2> QED
      BY <2>1, <2>2, <2>3
  <1> DEFINE a == mem[p]
             b == Put(a, p, s)
             S == p..p + k - 1
             L == p..p + l - 1
             H == c..c + r - 1
  <1>3. a \in [Proc -> Nat]
    BY <1>0 DEF TypeOK
  <1>4. /\ Rearranged(a, b, p, k)
        /\ SortedOn(L, a) /\ SortedOn(H, a) => SortedOn(S, b)
    <2>1. PICK x, y : x = Part(a, p, l) /\ y = Part(a, c, r) /\ s \in {Merge(x, y), Outer[x \o y]}
      BY DEF Merged
    <2> HIDE DEF a, b, c, l, r
    <2>2. x = Part(a, p, l) /\ y = Part(a, p + l, k - l)
      BY <1>2, <2>1
    <2>3. p + l..p + k - 1 = H
      <3>1. /\ p \in Nat /\ k \in Nat /\ r \in Nat /\ l \in 0..k /\ k - l = r
            /\ c = p + l
        BY <1>2
      <3>2. p + k - 1 = c + r - 1
        BY <3>1
      <3> QED
        BY <3>1, <3>2
    <2>4. /\ Rearranged(a, Put(a, p, s), p, k)
          /\ SortedOn(p..p + l - 1, a) /\ SortedOn(p + l..p + k - 1, a) =>
                 SortedOn(p..p + k - 1, Put(a, p, s))
      BY <1>2, <1>3, <2>1, <2>2, MergePart
    <2> QED
      BY <2>3, <2>4 DEF b
  <1>5. mem'[p] = b /\ mem' \in [Proc -> [Proc -> Nat]] /\ \A q \in Proc : q # p => mem'[q] = mem[q]
    <2> HIDE DEF b
    <2>1. mem' = [mem EXCEPT ![p] = b]
      BY DEF b
    <2> QED
      BY <1>0, <1>4, <2>1 DEF TypeOK, Rearranged
  \* An error has its cause: the child's or an earlier one's.
  <1>6. e => noFork \/ abandoned' # {} \/ kills > 0
    <2> SUFFICES ASSUME ~(noFork \/ abandoned' # {} \/ kills > 0) PROVE ~e
      OBVIOUS
    <2>1. Ended(c) /\ e = (stack[p][1].err \/ ~Succeeded(c)) /\ abandoned = {}
      OBVIOUS
    <2>2. ~stack[p][1].err /\ at[c] # "exit1" /\ at[c] # "killed"
      BY <1>0, <1>2, <2>1 DEF Causes
    <2> QED
      BY <2>1, <2>2 DEF Ended, Succeeded
  \* The latter half, if it was read whole.
  <1>7. kills = 0 \/ ~e => /\ SameOn(H, a, input)
                           /\ ~e => SortedOn(H, a)
    <2> SUFFICES ASSUME kills = 0 \/ ~e
                 PROVE  SameOn(H, a, input) /\ (~e => SortedOn(H, a))
      OBVIOUS
    <2>1. \/ at[c] \in {"exit0", "exit1"} /\ (~e => at[c] = "exit0")
          \/ Alive(c) /\ e = TRUE
      <3>1. kills = 0 => at[c] # "killed"
        BY <1>0, <1>2 DEF Causes
      <3>2. ~e => at[c] = "exit0"
        BY DEF Succeeded
      <3>3. at[c] \notin {"none", "reaped"}
        BY <1>0, <1>2 DEF Families
      <3>4. at[c] \in {"exit0", "exit1", "killed"} \/ Alive(c)
        BY <1>0, <1>2, <3>3 DEF TypeOK, Alive
      <3>5. Ended(c) \/ e = TRUE
        OBVIOUS
      <3>6. Ended(c) => ~Alive(c)
        BY DEF Ended, Alive
      <3> QED
        BY <3>1, <3>2, <3>4, <3>5, <3>6
    <2>2. got[c] = r
      <3>1. got[c] = r \/ (stack[p][1].err /\ kills > 0)
        BY <1>0, <1>1, <1>2 DEF Families
      <3>2. ~e => ~stack[p][1].err
        OBVIOUS
      <3> QED
        BY <3>1, <3>2
    <2>3. \A q \in H : a[q] = mem[c][q]
      BY <1>0, <1>1, <2>2 DEF Contents
    <2>4. \E f \in BOOLEAN : Done(c, r, f) /\ (~e => ~f)
      <3>1. CASE at[c] \in {"exit0", "exit1"} /\ (~e => at[c] = "exit0")
        <4>1. Done(c, r, at[c] = "exit1")
          BY <1>0, <1>2, <3>1 DEF Contents
        <4>2. (at[c] = "exit1") \in BOOLEAN /\ (~e => ~(at[c] = "exit1"))
          BY <3>1
        <4> HIDE DEF c, r
        <4> QED
          BY <4>1, <4>2
      <3>2. CASE Alive(c) /\ e = TRUE
        <4> DEFINE f == stack[c][1].err
        <4>1. at[c] = "write" /\ n(c) = r
          BY <1>0, <1>1, <3>2, SentAll
        <4>2. f \in BOOLEAN
          BY <1>0, <1>2, <3>2, CallFacts
        <4>3. Done(c, r, f)
          BY <1>0, <1>2, <4>1 DEF Contents
        <4> HIDE DEF f
        <4> QED
          BY <3>2, <4>2, <4>3
      <3> QED
        BY <2>1, <3>1, <3>2
    <2>5. SameOn(H, mem[c], input) /\ (~e => SortedOn(H, mem[c]))
      BY <2>4 DEF Done
    <2>6. SameOn(H, a, mem[c])
      BY <2>3, SameEqual
    <2>7. SameOn(H, a, input)
      <3> HIDE DEF H, a
      <3> QED
        BY <2>5, <2>6, SameTransitive
    <2>8. SortedOn(H, mem[c]) => SortedOn(H, a)
      BY <2>3 DEF SortedOn
    <2> QED
      BY <2>5, <2>7, <2>8
  \* The former half.
  <1>8. (kills = 0 \/ ~e => SameOn(L, a, input)) /\ (~e => SortedOn(L, a))
    <2>1. Done(p, l, stack[p][1].err)
      BY <1>0, <1>1 DEF Contents
    <2> QED
      BY <2>1 DEF Done
  <1>9. Done(p, k, e)'
    <2>1. SameOn(S, b, a)
      BY <1>4 DEF Rearranged
    <2>2. SameOn(L, a, input) /\ SameOn(H, a, input) => SameOn(S, a, input)
      <3> DEFINE m == c - 1
                 hi == p + k - 1
      <3> HIDE DEF c, l, r, a
      <3>1. /\ p \in Int /\ m \in Int /\ hi \in Int /\ p <= m + 1
            /\ p + l - 1 = m /\ c = m + 1 /\ c + r - 1 = hi
        BY <1>2
      <3>2. r > 0
        BY <1>0, <1>2, ChildFacts DEF r
      <3>3. m <= hi
        BY <1>2, <3>1, <3>2
      <3>4. L = p..m /\ H = m + 1..hi /\ S = p..hi
        BY <3>1
      <3> HIDE DEF m, hi, L, H, S
      <3> QED
        BY <3>1, <3>3, <3>4, SameUnion
    <2> HIDE DEF S, L, H, a, b
    <2>3. kills = 0 \/ ~e => SameOn(S, b, input)
      BY <1>7, <1>8, <2>1, <2>2, SameTransitive
    <2>4. ~e => SortedOn(S, b)
      BY <1>4, <1>7, <1>8
    <2>5. mem'[p] = b /\ input' = input /\ kills' = kills
      BY <1>1, <1>5
    <2> QED
      BY <2>3, <2>4, <2>5 DEF Done, S
  <1>10. e \in BOOLEAN
    OBVIOUS
  <1>11. /\ noFork' \in BOOLEAN /\ (noFork => noFork')
         /\ abandoned \subseteq abandoned' /\ abandoned' \subseteq Proc
         /\ (e => noFork' \/ abandoned' # {} \/ kills > 0)
    BY <1>0, <1>1, <1>2, <1>6 DEF TypeOK
  <1>12. \/ at[p] = "wait" /\ Ended(Child(p)) /\ w = [at EXCEPT ![Child(p)] = "reaped"]
         \/ at[p] = "wait" /\ w = at /\ Child(p) \in abandoned'
    OBVIOUS
  <1> HIDE DEF a, b, S, L, H, l, r
  <1> QED
    BY <1>1, <1>5, <1>9, <1>10, <1>11, <1>12, ReturnInv


-----------------------------------------------------------------------------
(* A child is forked.                                                      *)

\* A sequence with an element put before it.
LEMMA Prepend ==
    ASSUME NEW R, NEW s \in Seq(R), NEW x \in R, NEW t, t = <<x>> \o s
    PROVE  /\ t \in Seq(R) /\ Len(t) = Len(s) + 1 /\ t[1] = x
           /\ \A i \in 1..Len(s) : t[i + 1] = s[i]
  OBVIOUS

\* The calls of the parent and of its child, and who has which end of a pipe.
LEMMA ForkFacts ==
    ASSUME IInv, NEW p \in Proc, Fork(p), NEW c, c = Child(p), NEW r, r = Right(p)
    PROVE  /\ c \in Proc /\ c \in Nat /\ p < c /\ p \in Nat /\ c # 0
           /\ n(p) \in 2..N /\ Left(p) \in 1..N /\ r \in 1..N /\ N \in Nat
           /\ Left(p) + r = n(p) /\ c = p + Left(p) /\ p + n(p) <= N
           /\ at[c] = "none" /\ stack[c] = <<>> /\ pipe[c] = <<>> /\ got[c] = 0
           /\ at' = [at EXCEPT ![c] = "call"]
           /\ \A q \in Proc : q # p /\ q # c => stack'[q] = stack[q]
           /\ stack' \in [Proc -> Seq([n : 1..N, err : BOOLEAN])]
           /\ stack[p] # <<>> /\ Len(stack[p]) \in Nat /\ Len(stack'[p]) = Len(stack[p]) + 1
           /\ stack'[p][1].n = Left(p) /\ ~stack'[p][1].err
           /\ \A i \in 1..Len(stack[p]) : stack'[p][i + 1] = stack[p][i]
           /\ Len(stack'[c]) = 1 /\ stack'[c][1].n = r /\ ~stack'[c][1].err
           /\ mem' = [mem EXCEPT ![c] = mem[p]] /\ parent' = [parent EXCEPT ![c] = p]
           /\ rfd' \in [Proc -> SUBSET Proc] /\ wfd' \in [Proc -> SUBSET Proc]
           /\ \A d \in Proc : d # c => rfd[d] \subseteq rfd'[d] /\ wfd[d] \subseteq wfd'[d]
           /\ p \in rfd'[c] /\ c \in wfd'[c]
           /\ UNCHANGED <<input, pipe, got, kills, noFork, abandoned>>
  <1>0. TypeOK /\ Stacks /\ Fresh /\ Pipes
    BY DEF IInv
  <1>1. at[p] = "call" /\ n(p) > 1
    BY DEF Fork, WantsChild
  <1>2. /\ p \in Nat /\ N \in Nat /\ n(p) \in 1..N /\ p + n(p) <= N
        /\ Len(stack[p]) \in Nat /\ stack[p] # <<>>
    BY <1>0, <1>1, CallFacts DEF Alive, Stacks
  <1>3. /\ n(p) \in 2..N /\ Left(p) \in 1..N /\ r \in 1..N
        /\ Left(p) + r = n(p) /\ c = p + Left(p)
        /\ c \in Nat /\ c \in p + 1..p + n(p) - 1 /\ c < N
    <2> DEFINE k == n(p)
    <2>1. k \in 2..N /\ p + k <= N
      BY <1>1, <1>2
    <2> HIDE DEF k
    <2> DEFINE l == k \div 2
    <2>2. l \in 1..N /\ k - l \in 1..N /\ l + (k - l) = k /\ l < k
      BY <1>2, <2>1
    <2> HIDE DEF l
    <2>3. p + l \in Nat /\ p + l \in p + 1..p + k - 1 /\ p + l < N
      BY <1>2, <2>1, <2>2
    <2>4. Left(p) = l /\ r = k - l /\ c = p + l /\ n(p) = k
      BY DEF Left, Right, Child, k, l
    <2> QED
      BY <2>1, <2>2, <2>3, <2>4
  <1>4. c \in Proc /\ p < c /\ c # 0 /\ c # p
    BY <1>2, <1>3 DEF Proc
  <1>5. at[c] = "none"
    BY <1>0, <1>1, <1>3 DEF Fresh
  <1>6. stack[c] = <<>> /\ pipe[c] = <<>> /\ got[c] = 0
    BY <1>0, <1>4, <1>5 DEF Stacks, Pipes, Alive
  <1> DEFINE Inherited(fd) == [d \in Proc |-> IF p \in fd[d] THEN fd[d] \cup {c} ELSE fd[d]]
             R == [n : 1..N, err : BOOLEAN]
             x == [n |-> Left(p), err |-> FALSE]
             y == [n |-> r, err |-> FALSE]
  <1>7. /\ at' = [at EXCEPT ![c] = "call"]
        /\ stack' = [stack EXCEPT ![c] = <<y>>, ![p] = <<x>> \o @]
        /\ mem' = [mem EXCEPT ![c] = mem[p]] /\ parent' = [parent EXCEPT ![c] = p]
        /\ rfd' = [Inherited(rfd) EXCEPT ![c] = {p}]
        /\ wfd' = [Inherited(wfd) EXCEPT ![c] = {c}]
        /\ UNCHANGED <<input, pipe, got, kills, noFork, abandoned>>
    BY DEF Fork
  <1>8. x \in R /\ y \in R
    BY <1>3
  <1>9. /\ stack' \in [Proc -> Seq(R)] /\ stack'[c] = <<y>> /\ stack'[p] = <<x>> \o stack[p]
        /\ \A q \in Proc : q # p /\ q # c => stack'[q] = stack[q]
    <2>1. stack \in [Proc -> Seq(R)]
      BY <1>0 DEF TypeOK
    <2> HIDE DEF R, x, y
    <2>2. <<y>> \in Seq(R) /\ <<x>> \o stack[p] \in Seq(R)
      BY <1>8, <2>1
    <2> QED
      BY <1>4, <1>7, <2>1, <2>2
  <1>10. /\ Len(stack'[p]) = Len(stack[p]) + 1 /\ stack'[p][1] = x
         /\ \A i \in 1..Len(stack[p]) : stack'[p][i + 1] = stack[p][i]
    <2>1. stack[p] \in Seq(R)
      BY <1>0 DEF TypeOK
    <2> HIDE DEF R, x
    <2> QED
      BY <1>8, <1>9, <2>1, Prepend
  <1>11. Len(stack'[c]) = 1 /\ stack'[c][1] = y
    <2> HIDE DEF y
    <2> QED
      BY <1>9
  <1>12. ASSUME NEW fd \in [Proc -> SUBSET Proc], NEW f \in SUBSET Proc,
                NEW g, g = [Inherited(fd) EXCEPT ![c] = f]
         PROVE  /\ g \in [Proc -> SUBSET Proc] /\ g[c] = f
                /\ \A d \in Proc : d # c => fd[d] \subseteq g[d]
    <2>1. Inherited(fd) \in [Proc -> SUBSET Proc]
      BY <1>4, <1>12
    <2>2. \A d \in Proc : fd[d] \subseteq Inherited(fd)[d]
      OBVIOUS
    <2> HIDE DEF Inherited
    <2> QED
      BY <1>4, <1>12, <2>1, <2>2
  <1>13. /\ rfd' \in [Proc -> SUBSET Proc] /\ rfd'[c] = {p}
         /\ \A d \in Proc : d # c => rfd[d] \subseteq rfd'[d]
    <2>1. rfd \in [Proc -> SUBSET Proc] /\ {p} \in SUBSET Proc
      BY <1>0 DEF TypeOK
    <2> HIDE DEF Inherited
    <2>2. rfd' \in [Proc -> SUBSET Proc] /\ rfd'[c] = {p}
      <3>1. rfd' = [Inherited(rfd) EXCEPT ![c] = {p}]
        BY <1>7
      <3>2. rfd' \in [Proc -> SUBSET Proc]
        BY <1>12, <2>1, <3>1, ZenonT(20)
      <3>3. rfd'[c] = {p}
        BY <1>12, <2>1, <3>1, ZenonT(20)
      <3> QED
        BY <3>2, <3>3
    <2>3. ASSUME NEW d \in Proc, d # c PROVE rfd[d] \subseteq rfd'[d]
      BY <1>7, <1>12, <2>1, <2>3
    <2> QED
      BY <2>2, <2>3
  <1>14. /\ wfd' \in [Proc -> SUBSET Proc] /\ wfd'[c] = {c}
         /\ \A d \in Proc : d # c => wfd[d] \subseteq wfd'[d]
    <2>1. wfd \in [Proc -> SUBSET Proc] /\ {c} \in SUBSET Proc
      BY <1>0, <1>4 DEF TypeOK
    <2> HIDE DEF Inherited
    <2>2. wfd' \in [Proc -> SUBSET Proc] /\ wfd'[c] = {c}
      <3>1. wfd' = [Inherited(wfd) EXCEPT ![c] = {c}]
        BY <1>7
      <3>2. wfd' \in [Proc -> SUBSET Proc]
        BY <1>12, <2>1, <3>1, ZenonT(20)
      <3>3. wfd'[c] = {c}
        BY <1>12, <2>1, <3>1, ZenonT(20)
      <3> QED
        BY <3>2, <3>3
    <2>3. ASSUME NEW d \in Proc, d # c PROVE wfd[d] \subseteq wfd'[d]
      BY <1>7, <1>12, <2>1, <2>3
    <2> QED
      BY <2>2, <2>3
  <1>15. x.n = Left(p) /\ ~x.err /\ y.n = r /\ ~y.err
    OBVIOUS
  <1>16. /\ stack'[p][1].n = Left(p) /\ ~stack'[p][1].err
         /\ stack'[c][1].n = r /\ ~stack'[c][1].err
    <2> HIDE DEF x, y
    <2> QED
      BY <1>10, <1>11, <1>15
  <1>17. /\ stack' \in [Proc -> Seq([n : 1..N, err : BOOLEAN])]
         /\ at' = [at EXCEPT ![c] = "call"]
         /\ mem' = [mem EXCEPT ![c] = mem[p]] /\ parent' = [parent EXCEPT ![c] = p]
         /\ UNCHANGED <<input, pipe, got, kills, noFork, abandoned>>
    BY <1>7, <1>9
  <1>18. p \in rfd'[c] /\ c \in wfd'[c]
    BY <1>13, <1>14
  <1> HIDE DEF Inherited, R, x, y
  <1> QED
    BY <1>2, <1>3, <1>4, <1>5, <1>6, <1>9, <1>10, <1>11, <1>13, <1>14, <1>16, <1>17, <1>18


\* A child is forked, with what it inherits.
LEMMA ForkInv ==
    ASSUME IInv, NEW p \in Proc, Fork(p)
    PROVE  IInv'
  <1> SUFFICES ASSUME NEW c, c = Child(p), NEW r, r = Right(p)
               PROVE  IInv'
    OBVIOUS
  <1>0. TypeOK /\ Stacks /\ Fresh /\ Families /\ Owned /\ Pipes /\ Causes /\ Contents
    BY DEF IInv
  <1>1. /\ c \in Proc /\ c \in Nat /\ p < c /\ p \in Nat /\ c # 0
        /\ n(p) \in 2..N /\ Left(p) \in 1..N /\ r \in 1..N /\ N \in Nat
        /\ Left(p) + r = n(p) /\ c = p + Left(p) /\ p + n(p) <= N
    BY ForkFacts
  <1>2. /\ at[c] = "none" /\ stack[c] = <<>> /\ pipe[c] = <<>> /\ got[c] = 0
        /\ at' = [at EXCEPT ![c] = "call"]
        /\ \A q \in Proc : q # p /\ q # c => stack'[q] = stack[q]
        /\ stack' \in [Proc -> Seq([n : 1..N, err : BOOLEAN])]
        /\ stack[p] # <<>> /\ Len(stack[p]) \in Nat /\ Len(stack'[p]) = Len(stack[p]) + 1
        /\ stack'[p][1].n = Left(p) /\ ~stack'[p][1].err
        /\ \A i \in 1..Len(stack[p]) : stack'[p][i + 1] = stack[p][i]
        /\ Len(stack'[c]) = 1 /\ stack'[c][1].n = r /\ ~stack'[c][1].err
    <2>1. at[c] = "none" /\ stack[c] = <<>> /\ pipe[c] = <<>> /\ got[c] = 0
      BY ForkFacts
    <2>2. at' = [at EXCEPT ![c] = "call"]
      BY ForkFacts
    <2>3. ASSUME NEW q \in Proc, q # p, q # c PROVE stack'[q] = stack[q]
      BY <2>3, ForkFacts
    <2>4. stack' \in [Proc -> Seq([n : 1..N, err : BOOLEAN])]
      BY ForkFacts
    <2>5. stack[p] # <<>> /\ Len(stack[p]) \in Nat /\ Len(stack'[p]) = Len(stack[p]) + 1
      BY ForkFacts
    <2>6. ASSUME NEW i \in 1..Len(stack[p]) PROVE stack'[p][i + 1] = stack[p][i]
      BY ForkFacts
    <2>7. stack'[p][1].n = Left(p) /\ ~stack'[p][1].err
      BY ForkFacts
    <2>8. Len(stack'[c]) = 1
      BY ForkFacts
    <2>9. stack'[c][1].n = r /\ ~stack'[c][1].err
      BY ForkFacts
    <2> QED
      BY <2>1, <2>2, <2>3, <2>4, <2>5, <2>6, <2>7, <2>8, <2>9
  <1>3. /\ mem' = [mem EXCEPT ![c] = mem[p]] /\ parent' = [parent EXCEPT ![c] = p]
        /\ rfd' \in [Proc -> SUBSET Proc] /\ wfd' \in [Proc -> SUBSET Proc]
        /\ \A d \in Proc : d # c => rfd[d] \subseteq rfd'[d] /\ wfd[d] \subseteq wfd'[d]
        /\ p \in rfd'[c] /\ c \in wfd'[c]
        /\ UNCHANGED <<input, pipe, got, kills, noFork, abandoned>>
    <2>1. mem' = [mem EXCEPT ![c] = mem[p]] /\ parent' = [parent EXCEPT ![c] = p]
      BY ForkFacts
    <2>2. rfd' \in [Proc -> SUBSET Proc] /\ wfd' \in [Proc -> SUBSET Proc]
      BY ForkFacts
    <2>3. ASSUME NEW d \in Proc, d # c PROVE rfd[d] \subseteq rfd'[d] /\ wfd[d] \subseteq wfd'[d]
      <3>1. rfd[d] \subseteq rfd'[d]
        BY <2>3, ForkFacts
      <3>2. wfd[d] \subseteq wfd'[d]
        BY <2>3, ForkFacts
      <3> QED
        BY <3>1, <3>2
    <2>4. p \in rfd'[c] /\ c \in wfd'[c]
      BY ForkFacts
    <2>5. UNCHANGED <<input, pipe, got, kills, noFork, abandoned>>
      BY ForkFacts
    <2> QED
      BY <2>1, <2>2, <2>3, <2>4, <2>5
  <1>4. at[p] = "call"
    BY DEF Fork
  <1>5. c # p /\ Left(p) = n(p) \div 2 /\ n(p) = stack[p][1].n
    BY <1>1 DEF Left, n
  <1>6. /\ at'[c] = "call" /\ at'[p] = "call" /\ \A q \in Proc : q # c => at'[q] = at[q]
        /\ mem'[c] = mem[p] /\ \A q \in Proc : q # c => mem'[q] = mem[q]
        /\ parent'[c] = p /\ \A q \in Proc : q # c => parent'[q] = parent[q]
    BY <1>0, <1>1, <1>2, <1>3, <1>4, <1>5 DEF TypeOK
  <1>7. \A d : Sent(d)' = Sent(d)
    BY <1>3 DEF Sent
  <1>8. Sent(c) = 0
    BY <1>2 DEF Sent
  \* The calls of the parent ...
  <1> DEFINE l == Len(stack[p])
  <1>9. /\ l \in Nat /\ l >= 1 /\ Calls(p) = 1..l /\ Calls(p)' = 1..l + 1
        /\ Pending(p)' = 2..l + 1 /\ \A j \in Pending(p) : j \in 2..l
    <2>1. l \in Nat /\ l >= 1
      BY <1>0, <1>2, <1>4, CallFacts DEF Alive, Calls
    <2>2. Calls(p) = 1..l /\ Calls(p)' = 1..l + 1
      BY <1>2 DEF Calls
    <2> HIDE DEF l
    <2>3. Pending(p)' = 2..l + 1 /\ Pending(p) = {i \in 1..l : i > 1}
      BY <1>4, <1>6, <2>1, <2>2 DEF Pending
    <2> QED
      BY <2>1, <2>2, <2>3
  <1>10. /\ \A i \in 1..l : stack'[p][i + 1] = stack[p][i]
         /\ stack'[p][1].n = Left(p) /\ ~stack'[p][1].err
         /\ stack'[c][1].n = r /\ ~stack'[c][1].err
    BY <1>2
  <1> HIDE DEF l
  <1>11. /\ \A i \in 1..l : /\ i \in Calls(p) /\ i + 1 \in Pending(p)'
                            /\ ChildOf(p, i + 1)' = ChildOf(p, i)
                            /\ Share(p, i + 1)' = Share(p, i)
         /\ 2 \in Pending(p)' /\ ChildOf(p, 2)' = c /\ Share(p, 2)' = r
         /\ \A i \in Pending(p)' : i = 2 \/ \E j \in Pending(p) : i = j + 1
    <2>1. \A i \in 1..l : i + 1 \in 2..l + 1
      BY <1>9
    <2>2. \A i \in 1..l : ChildOf(p, i + 1)' = ChildOf(p, i) /\ Share(p, i + 1)' = Share(p, i)
      BY <1>10 DEF ChildOf, Share
    <2>3. 1 \in 1..l /\ 1 + 1 = 2
      BY <1>9
    <2>4. ChildOf(p, 1) = c /\ Share(p, 1) = r
      BY DEF ChildOf, Share, Child, Right, Left, n
    <2>5. ASSUME NEW i \in 2..l + 1, i # 2 PROVE \E j \in Pending(p) : i = j + 1
      <3>1. i - 1 \in 1..l /\ i - 1 > 1 /\ i = (i - 1) + 1
        BY <1>9, <2>5
      <3>2. i - 1 \in Pending(p)
        BY <1>9, <3>1 DEF Pending
      <3> QED
        BY <3>1, <3>2
    <2>6. ChildOf(p, 2)' = c /\ Share(p, 2)' = r
      BY <2>2, <2>3, <2>4
    <2> QED
      BY <1>9, <2>1, <2>2, <2>3, <2>5, <2>6
  \* ... of the child, and of the others.
  <1>12. Calls(c)' = {1} /\ Pending(c)' = {} /\ Pending(c) = {} /\ n(c)' = r /\ n(p)' = Left(p)
    BY <1>2, <1>6, <1>10 DEF Calls, Pending, n
  <1>13. \A q \in Proc : q # p /\ q # c =>
             /\ Pending(q)' = Pending(q) /\ Calls(q)' = Calls(q)
             /\ \A i : ChildOf(q, i)' = ChildOf(q, i) /\ Share(q, i)' = Share(q, i)
             /\ n(q)' = n(q) /\ (Alive(q)' <=> Alive(q))
    BY <1>2, <1>6, PendingSame DEF Alive
  <1>14. Alive(p) /\ Alive(p)' /\ Alive(c)' /\ stack'[p] # <<>> /\ stack'[c] # <<>>
    <2>1. Len(stack'[p]) # 0 /\ Len(stack'[c]) # 0
      BY <1>2, <1>9 DEF l
    <2>2. stack'[p] # <<>> /\ stack'[c] # <<>>
      BY <2>1
    <2> QED
      BY <1>4, <1>6, <2>2 DEF Alive
  <1>15. stack'[p][Len(stack'[p])].n = stack[p][Len(stack[p])].n
    <2>1. l \in 1..l /\ Len(stack'[p]) = l + 1 /\ l = Len(stack[p])
      BY <1>2, <1>9 DEF l
    <2> QED
      BY <1>10, <2>1
  <1>16. \A q \in Proc : q # c /\ stack'[q] # <<>> =>
             stack[q] # <<>> /\ stack'[q][Len(stack'[q])].n = stack[q][Len(stack[q])].n
    BY <1>2, <1>15
  <1>17. TypeOK'
    <2>1. at' \in [Proc -> {"none", "call", "read", "wait", "write",
                            "exit0", "exit1", "killed", "reaped"}]
      BY <1>0, <1>2 DEF TypeOK
    <2>2. mem' \in [Proc -> [Proc -> Nat]]
      BY <1>0, <1>1, <1>3 DEF TypeOK
    <2>3. parent' \in [Proc -> Proc]
      BY <1>0, <1>1, <1>3 DEF TypeOK
    <2> QED
      BY <1>0, <1>2, <1>3, <2>1, <2>2, <2>3 DEF TypeOK
  <1>18. Stacks'
    <2>1. ASSUME NEW q \in Proc
          PROVE  /\ Alive(q)' <=> stack'[q] # <<>>
                 /\ \A i \in Calls(q)' : q + stack'[q][i].n <= N
                 /\ \A i \in Calls(q)' : i > 1 => stack'[q][i - 1].n = stack'[q][i].n \div 2
                 /\ \A i, j \in Calls(q)' : i < j => stack'[q][i].n <= stack'[q][j].n \div 2
                 /\ at'[q] = "write" => q # 0 /\ Len(stack'[q]) = 1
      <3>1. CASE q # p /\ q # c
        <4>1. stack'[q] = stack[q] /\ at'[q] = at[q]
          BY <1>2, <1>6, <3>1
        <4>2. Calls(q)' = Calls(q) /\ (Alive(q)' <=> Alive(q))
          BY <1>13, <3>1
        <4> QED
          BY <1>0, <4>1, <4>2 DEF Stacks
      <3>2. CASE q = c
        <4>1. c + r <= N
          <5> DEFINE h == Left(p)
                     k == n(p)
          <5>1. p \in Nat /\ h \in 1..N /\ r \in 1..N /\ N \in Nat /\ k \in 2..N /\ h + r = k
                /\ c = p + h /\ p + k <= N
            BY <1>1
          <5> HIDE DEF h, k
          <5> QED
            BY <5>1
        <4>2. \A i \in Calls(c)' : i = 1
          BY <1>12
        <4>3. \A i, j \in Calls(c)' : ~(i < j) /\ ~(i > 1)
          BY <4>2
        <4>4. \A i \in Calls(c)' : c + stack'[c][i].n <= N
          BY <1>10, <4>1, <4>2
        <4> QED
          BY <1>6, <1>14, <3>2, <4>3, <4>4
      <3>3. CASE q = p
        <4>0. /\ \A i \in 1..l : p + stack[p][i].n <= N /\ stack[p][i].n \in 1..N
              /\ \A i \in 1..l : i > 1 => stack[p][i - 1].n = stack[p][i].n \div 2
              /\ \A i, j \in 1..l : i < j => stack[p][i].n <= stack[p][j].n \div 2
          BY <1>0, <1>9, CallFacts DEF Stacks
        <4> DEFINE t == stack'[p]
                   s == stack[p]
        <4>1. /\ t[1].n = s[1].n \div 2 /\ \A i \in 1..l : t[i + 1].n = s[i].n
              /\ 1 \in 1..l /\ l \in Nat /\ Calls(p)' = 1..l + 1
          BY <1>5, <1>9, <1>10
        <4>1a. /\ \A i \in 1..l : p + s[i].n <= N /\ s[i].n \in 1..N
               /\ \A i \in 1..l : i > 1 => s[i - 1].n = s[i].n \div 2
               /\ \A i, j \in 1..l : i < j => s[i].n <= s[j].n \div 2
          BY <4>0
        <4> HIDE DEF t, s
        <4>2. \A i \in 1..l + 1 : i = 1 \/ (i - 1 \in 1..l /\ (i - 1) + 1 = i)
          BY <4>1
        <4>3. \A i \in 1..l + 1 : i # 1 => t[i].n = s[i - 1].n
          BY <4>1, <4>2
        <4>4. s[1].n \div 2 <= s[1].n /\ s[1].n \div 2 \in Nat
          <5> DEFINE k == s[1].n
          <5>1. k \in 1..N
            BY <4>1, <4>1a
          <5> HIDE DEF k
          <5>2. k \div 2 <= k /\ k \div 2 \in Nat
            BY <1>1, <5>1
          <5> QED
            BY <5>2 DEF k
        <4>5. ASSUME NEW i \in 1..l + 1 PROVE p + t[i].n <= N
          <5>1. CASE i = 1
            <6> DEFINE k == s[1].n
                       h == t[1].n
            <6>1. k \in 1..N /\ p + k <= N /\ h <= k /\ h \in Nat
              BY <4>1, <4>1a, <4>4
            <6> HIDE DEF k, h
            <6>2. p + h <= N
              BY <1>1, <6>1
            <6> QED
              BY <5>1, <6>2 DEF h
          <5>2. CASE i # 1
            BY <4>1a, <4>2, <4>3, <5>2
          <5> QED
            BY <5>1, <5>2
        <4>6. ASSUME NEW i \in 1..l + 1, i > 1 PROVE t[i - 1].n = t[i].n \div 2
          <5>1. CASE i = 2
            <6>1. i - 1 = 1 /\ i # 1
              BY <5>1
            <6> QED
              BY <4>1, <4>3, <6>1
          <5>2. CASE i # 2
            <6>1. i - 1 \in 1..l + 1 /\ i - 1 # 1 /\ i - 1 > 1 /\ i - 1 \in 1..l /\ i # 1
              BY <4>1, <4>6, <5>2
            <6>2. t[i - 1].n = s[(i - 1) - 1].n /\ t[i].n = s[i - 1].n
              BY <4>3, <6>1
            <6> QED
              BY <4>1a, <6>1, <6>2
          <5> QED
            BY <5>1, <5>2
        <4>7. ASSUME NEW i \in 1..l + 1, NEW j \in 1..l + 1, i < j PROVE t[i].n <= t[j].n \div 2
          <5>1. j # 1 /\ j - 1 \in 1..l /\ t[j].n = s[j - 1].n
            BY <4>1, <4>2, <4>3, <4>7
          <5>2. CASE i = 1
            <6>1. CASE j - 1 = 1
              <7>1. t[1].n = t[j].n \div 2 /\ t[1].n \in Nat
                BY <4>1, <4>4, <5>1, <6>1
              <7> QED
                BY <5>2, <7>1
            <6>2. CASE j - 1 # 1
              <7>1. s[1].n <= s[j - 1].n \div 2
                <8>1. 1 < j - 1
                  BY <5>1, <6>2
                <8> QED
                  BY <4>1, <4>1a, <5>1, <8>1
              <7> DEFINE h == t[1].n
                         k == s[1].n
                         m == s[j - 1].n
              <7>2. h <= k /\ h \in Nat /\ k \in 1..N /\ m \in 1..N /\ k <= m \div 2
                BY <4>1, <4>1a, <4>4, <5>1, <7>1
              <7> HIDE DEF h, k, m
              <7>3. h <= m \div 2
                BY <1>1, <7>2
              <7> QED
                BY <5>1, <5>2, <7>3 DEF h, m
            <6> QED
              BY <6>1, <6>2
          <5>3. CASE i # 1
            <6>1. i - 1 \in 1..l /\ t[i].n = s[i - 1].n /\ i - 1 < j - 1
              BY <4>1, <4>2, <4>3, <4>7, <5>3
            <6> QED
              BY <4>1a, <5>1, <6>1
          <5> QED
            BY <5>2, <5>3
        <4> QED
          BY <1>6, <1>14, <3>3, <4>1, <4>5, <4>6, <4>7 DEF t
      <3> QED
        BY <3>1, <3>2, <3>3
    <2>2. 0 \in Proc
      BY FsortAssumption DEF Proc
    <2>3. at'[0] \notin {"none", "killed", "reaped"}
      BY <1>0, <1>1, <1>6, <2>2 DEF Stacks
    <2>4. stack'[0] # <<>> => stack'[0][Len(stack'[0])].n = N
      BY <1>0, <1>1, <1>16, <2>2 DEF Stacks
    <2> QED
      BY <2>1, <2>3, <2>4 DEF Stacks
  <1>19. Fresh'
    <2> SUFFICES ASSUME NEW q \in Proc, at'[q] = "call", NEW d \in (q + 1..q + n(q) - 1)'
                 PROVE  at'[d] = "none"
      BY DEF Fresh
    <2> DEFINE h == Left(p)
               k == n(p)
    <2>1. /\ p \in Nat /\ c \in Nat /\ h \in 1..N /\ r \in 1..N /\ N \in Nat /\ k \in 2..N /\ h + r = k
          /\ c = p + h /\ p + k <= N
      BY <1>1
    <2>2. \A x \in p + 1..p + k - 1 : at[x] = "none"
      BY <1>0, <1>4 DEF Fresh
    <2>2a. n(p)' = h
      BY <1>12
    <2> HIDE DEF h, k
    <2>3. CASE q = p
      <3>1. d \in p + 1..p + h - 1
        BY <2>2a, <2>3
      <3>2. d \in p + 1..p + k - 1 /\ d # c /\ d \in 0..N - 1
        BY <2>1, <3>1
      <3> QED
        BY <1>6, <2>2, <3>2 DEF Proc
    <2>4. CASE q = c
      <3>1. d \in c + 1..c + r - 1
        BY <1>12, <2>4
      <3>2. d \in p + 1..p + k - 1 /\ d # c /\ d \in 0..N - 1
        BY <2>1, <3>1
      <3> QED
        BY <1>6, <2>2, <3>2 DEF Proc
    <2>5. CASE q # p /\ q # c
      <3>1. at[q] = "call" /\ n(q)' = n(q)
        BY <1>6, <1>13, <2>5
      <3>2. q \in Nat /\ n(q) \in 1..N /\ q + n(q) <= N
        BY <1>0, <3>1, CallFacts DEF Alive
      <3> DEFINE m == n(q)
      <3>3. \A x \in q + 1..q + m - 1 : at[x] = "none"
        BY <1>0, <3>1 DEF Fresh
      <3>4. d \in q + 1..q + m - 1
        BY <3>1
      <3>5. m \in 1..N /\ q + m <= N
        BY <3>2
      <3> HIDE DEF m
      <3>6. p \notin q + 1..q + m - 1 /\ q \notin p + 1..p + k - 1
        BY <1>4, <2>2, <3>1, <3>3
      <3>7. d # c /\ d \in 0..N - 1
        BY <2>1, <2>5, <3>2, <3>4, <3>5, <3>6
      <3> QED
        BY <1>6, <3>3, <3>4, <3>7 DEF Proc
    <2> QED
      BY <2>3, <2>4, <2>5
  <1>20. \A q \in Proc : \A i \in Pending(q) : ChildOf(q, i) \in Proc /\ ChildOf(q, i) # c
    <2> TAKE q \in Proc
    <2> TAKE i \in Pending(q)
    <2>1. ChildOf(q, i) \in Proc
      BY <1>0, ChildFacts
    <2>2. at[ChildOf(q, i)] # "none"
      BY <1>0 DEF Families
    <2> QED
      BY <1>2, <2>1, <2>2
  <1>21. Families'
    <2> SUFFICES ASSUME NEW q \in Proc, NEW j \in Pending(q)', NEW d, d = ChildOf(q, j)'
                 PROVE  /\ stack'[q][j].n > 1
                        /\ parent'[d] = q
                        /\ at'[d] \notin {"none", "reaped"}
                        /\ stack'[d] # <<>> => stack'[d][Len(stack'[d])].n = Share(q, j)'
                        /\ Sent(d) <= Share(q, j)'
                        /\ at'[d] \in {"exit0", "exit1"} => Sent(d) = Share(q, j)'
                        /\ j > 1 => got[d] = 0
                        /\ j > 1 \/ at'[q] = "read" => q \in rfd'[d] /\ got[d] < Share(q, j)'
                        /\ j = 1 /\ at'[q] = "wait" =>
                               got[d] = Share(q, j)' \/ (stack'[q][j].err /\ ~Alive(d)' /\ kills > 0)
      BY <1>3, <1>7 DEF Families
    <2>1. CASE q = p /\ j = 2
      <3>1. d = c /\ Share(q, j)' = r
        BY <1>11, <2>1
      <3>2. stack'[p][2].n > 1
        <4>1. 1 \in 1..l /\ 1 + 1 = 2
          BY <1>9
        <4>2. stack'[p][2] = stack[p][1]
          BY <1>10, <4>1
        <4> QED
          BY <1>1, <1>5, <4>2
      <3>3. stack'[c][Len(stack'[c])].n = r
        BY <1>2
      <3>4. 0 <= r /\ 0 < r
        BY <1>1
      <3> QED
        BY <1>2, <1>3, <1>6, <1>8, <2>1, <3>1, <3>2, <3>3, <3>4
    <2>2. ASSUME NEW i \in Pending(q), d = ChildOf(q, i), Share(q, j)' = Share(q, i),
                 stack'[q][j] = stack[q][i], at'[q] = at[q],
                 i = j \/ (i > 1 /\ j > 1 /\ at[q] = "call")
          PROVE  /\ stack'[q][j].n > 1
                 /\ parent'[d] = q
                 /\ at'[d] \notin {"none", "reaped"}
                 /\ stack'[d] # <<>> => stack'[d][Len(stack'[d])].n = Share(q, j)'
                 /\ Sent(d) <= Share(q, j)'
                 /\ at'[d] \in {"exit0", "exit1"} => Sent(d) = Share(q, j)'
                 /\ j > 1 => got[d] = 0
                 /\ j > 1 \/ at'[q] = "read" => q \in rfd'[d] /\ got[d] < Share(q, j)'
                 /\ j = 1 /\ at'[q] = "wait" =>
                        got[d] = Share(q, j)' \/ (stack'[q][j].err /\ ~Alive(d)' /\ kills > 0)
      <3>1. /\ stack[q][i].n > 1
            /\ parent[d] = q
            /\ at[d] \notin {"none", "reaped"}
            /\ stack[d] # <<>> => stack[d][Len(stack[d])].n = Share(q, i)
            /\ Sent(d) <= Share(q, i)
            /\ at[d] \in {"exit0", "exit1"} => Sent(d) = Share(q, i)
            /\ i > 1 => got[d] = 0
            /\ i > 1 \/ at[q] = "read" => q \in rfd[d] /\ got[d] < Share(q, i)
            /\ i = 1 /\ at[q] = "wait" =>
                   got[d] = Share(q, i) \/ (stack[q][i].err /\ ~Alive(d) /\ kills > 0)
        BY <1>0, <2>2 DEF Families
      <3>2. d \in Proc /\ d # c
        BY <1>20, <2>2
      <3>3. /\ at'[d] = at[d] /\ parent'[d] = parent[d]
            /\ stack'[d] # <<>> =>
                   stack[d] # <<>> /\ stack'[d][Len(stack'[d])].n = stack[d][Len(stack[d])].n
            /\ q \in rfd[d] => q \in rfd'[d]
        BY <1>3, <1>6, <1>16, <3>2
      <3>4. ~Alive(d) => ~Alive(d)'
        BY <3>3 DEF Alive
      <3> QED
        BY <2>2, <3>1, <3>3, <3>4
    <2>3. CASE q = p /\ j # 2
      <3>1. PICK i \in Pending(p) : j = i + 1
        BY <1>11, <2>3
      <3>2. i \in 1..l /\ i > 1 /\ j > 1
        BY <1>9, <3>1
      <3>3. d = ChildOf(p, i) /\ Share(p, j)' = Share(p, i) /\ stack'[p][j] = stack[p][i]
        BY <1>10, <1>11, <2>3, <3>1, <3>2
      <3> QED
        BY <1>4, <1>6, <2>2, <2>3, <3>2, <3>3
    <2>4. CASE q # p
      <3>1. q # c
        BY <1>12
      <3>2. /\ j \in Pending(q) /\ d = ChildOf(q, j) /\ Share(q, j)' = Share(q, j)
            /\ stack'[q] = stack[q] /\ at'[q] = at[q]
        BY <1>2, <1>6, <1>13, <2>4, <3>1
      <3> QED
        BY <2>2, <3>2
    <2> QED
      BY <2>1, <2>3, <2>4
  <1>22. Owned'
    <2> SUFFICES ASSUME NEW d \in Proc \ {0}, at'[d] \notin {"none", "reaped"},
                        NEW q, q = parent'[d]
                 PROVE  \/ \E i \in Pending(q)' : d = ChildOf(q, i)'
                        \/ Forsaken(d)'
                        \/ kills > 0 /\ q # 0
      BY <1>3 DEF Owned, Pending, ChildOf
    <2>1. CASE d = c
      BY <1>6, <1>11, <2>1
    <2>2. CASE d # c
      <3>1. at[d] \notin {"none", "reaped"} /\ q = parent[d] /\ q \in Proc
        BY <1>0, <1>6, <2>2 DEF TypeOK
      <3>2. \/ \E i \in Pending(q) : d = ChildOf(q, i)
            \/ Forsaken(d)
            \/ kills > 0 /\ q # 0
        BY <1>0, <3>1 DEF Owned
      <3>3. ASSUME NEW i \in Pending(q), d = ChildOf(q, i)
            PROVE  \E j \in Pending(q)' : d = ChildOf(q, j)'
        <4>1. CASE q = p
          <5>1. i \in 1..l
            BY <1>9, <3>3, <4>1
          <5> QED
            BY <1>11, <3>3, <4>1, <5>1
        <4>2. CASE q # p
          BY <1>12, <1>13, <3>1, <3>3, <4>2
        <4> QED
          BY <4>1, <4>2
      <3>4. Forsaken(d) => Forsaken(d)'
        <4>1. d = p => ~Forsaken(d)
          BY <1>0, <1>1 DEF Forsaken, Fork, Alive
        <4> QED
          BY <1>2, <1>3, <1>6, <1>13, <2>2, <4>1 DEF Forsaken, Alive, Sent, n
      <3> QED
        BY <3>2, <3>3, <3>4
    <2> QED
      BY <2>1, <2>2
  <1>23. Pipes'
    <2> SUFFICES ASSUME NEW d \in Proc
                 PROVE  /\ at'[d] \in {"none", "call", "read", "wait"} => pipe[d] = <<>> /\ got[d] = 0
                        /\ d + Sent(d) <= N
                        /\ at'[d] = "write" => Sent(d) <= n(d)'
                        /\ Alive(d)' /\ d # 0 => d \in wfd'[d]
      BY <1>3, <1>7 DEF Pipes
    <2>0. /\ at[d] \in {"none", "call", "read", "wait"} => pipe[d] = <<>> /\ got[d] = 0
          /\ d + Sent(d) <= N
          /\ at[d] = "write" => Sent(d) <= n(d)
          /\ Alive(d) /\ d # 0 => d \in wfd[d]
      BY <1>0 DEF Pipes
    <2>1. CASE d = c
      BY <1>2, <1>3, <1>6, <2>0, <2>1
    <2>2. CASE d = p
      BY <1>3, <1>4, <1>5, <1>6, <1>14, <2>0, <2>2
    <2>3. CASE d # p /\ d # c
      BY <1>3, <1>6, <1>13, <2>0, <2>3
    <2> QED
      BY <2>1, <2>2, <2>3
  <1>24. Causes'
    <2>1. \A q \in Proc : at'[q] \in {"killed", "exit1"} => at'[q] = at[q]
      BY <1>6
    <2>2. CASE noFork \/ abandoned # {} \/ kills > 0
      BY <1>0, <1>3, <2>1, <2>2 DEF Causes
    <2>3. CASE ~(noFork \/ abandoned # {} \/ kills > 0)
      <3>1. \A q \in Proc : at[q] # "exit1" /\ \A i \in Calls(q) : ~stack[q][i].err
        BY <1>0, <2>3 DEF Causes
      <3>2. \A i \in Calls(p)' : ~stack'[p][i].err
        <4> TAKE i \in Calls(p)'
        <4>1. i \in 1..l + 1
          BY <1>9
        <4>2. CASE i = 1
          BY <1>10, <4>2
        <4>3. CASE i # 1
          <5>1. i - 1 \in 1..l /\ (i - 1) + 1 = i
            BY <1>9, <4>1, <4>3
          <5>2. stack'[p][i] = stack[p][i - 1]
            BY <1>10, <5>1
          <5> QED
            BY <1>9, <3>1, <5>1, <5>2
        <4> QED
          BY <4>2, <4>3
      <3>3. \A i \in Calls(c)' : ~stack'[c][i].err
        BY <1>10, <1>12
      <3>4. \A q \in Proc : q # p /\ q # c => \A i \in Calls(q)' : ~stack'[q][i].err
        BY <1>2, <1>13, <3>1
      <3> QED
        BY <1>0, <1>3, <2>1, <3>1, <3>2, <3>3, <3>4 DEF Causes
    <2> QED
      BY <2>2, <2>3
  <1>25. Contents'
    <2>1. \A q \in Proc : \A k, f : q # c /\ Done(q, k, f) => Done(q, k, f)'
      BY <1>3, <1>6, DoneSame
    <2>2. \A j \in p..p + n(p) - 1 : mem[p][j] = input[j]
      BY <1>0, <1>4 DEF Contents
    <2>3. ASSUME NEW q \in Proc
          PROVE  /\ at'[q] = "call" => \A j \in (q..q + n(q) - 1)' : mem'[q][j] = input[j]
                 /\ at'[q] \in {"read", "wait"} =>
                        /\ Done(q, Left(q), stack[q][1].err)'
                        /\ \A j \in (Child(q)..Child(q) + got[Child(q)] - 1)' :
                               mem'[q][j] = mem'[Child(q)'][j]
                 /\ at'[q] = "write" => Done(q, n(q), stack[q][1].err)'
      <3>1. CASE q = p \/ q = c
        <4> DEFINE h == Left(p)
                   k == n(p)
        <4>1. /\ p \in Nat /\ c \in Nat /\ h \in 1..N /\ r \in 1..N /\ N \in Nat /\ k \in 2..N
              /\ h + r = k /\ c = p + h
          BY <1>1
        <4>2. n(p)' = h /\ \A j \in p..p + k - 1 : mem[p][j] = input[j]
          BY <1>12, <2>2
        <4> HIDE DEF h, k
        <4>3. /\ \A j \in p..p + h - 1 : j \in p..p + k - 1
              /\ \A j \in c..c + r - 1 : j \in p..p + k - 1
          BY <4>1
        <4>4. \A j \in (p..p + n(p) - 1)' : mem'[p][j] = input[j]
          BY <1>5, <1>6, <4>2, <4>3
        <4>5. \A j \in (c..c + n(c) - 1)' : mem'[c][j] = input[j]
          BY <1>6, <1>12, <4>2, <4>3
        <4> QED
          BY <1>6, <3>1, <4>4, <4>5
      <3>2. CASE q # p /\ q # c
        <4>1. /\ n(q)' = n(q) /\ Left(q)' = Left(q) /\ Child(q)' = Child(q)
              /\ stack'[q] = stack[q] /\ mem'[q] = mem[q] /\ at'[q] = at[q] /\ got' = got
          BY <1>2, <1>3, <1>6, <1>13, <3>2 DEF Left, Child
        <4>2. at[q] = "call" => \A j \in (q..q + n(q) - 1)' : mem'[q][j] = input[j]
          <5>1. at[q] = "call" => \A j \in q..q + n(q) - 1 : mem[q][j] = input[j]
            BY <1>0 DEF Contents
          <5> QED
            BY <4>1, <5>1
        <4>3. ASSUME at[q] \in {"read", "wait"}
              PROVE  /\ Done(q, Left(q), stack[q][1].err)'
                     /\ \A j \in (Child(q)..Child(q) + got[Child(q)] - 1)' :
                            mem'[q][j] = mem'[Child(q)'][j]
          <5>1. /\ Done(q, Left(q), stack[q][1].err)
                /\ \A j \in Child(q)..Child(q) + got[Child(q)] - 1 : mem[q][j] = mem[Child(q)][j]
            BY <1>0, <4>3 DEF Contents
          <5>2. Done(q, Left(q), stack[q][1].err)'
            BY <2>1, <3>2, <4>1, <5>1
          <5>3. Child(q) \in Proc /\ Child(q) # c
            BY <1>0, <1>20, <4>3, ReaderFacts
          <5>4. mem'[Child(q)] = mem[Child(q)]
            BY <1>6, <5>3
          <5> QED
            BY <4>1, <5>1, <5>2, <5>4
        <4>4. at[q] = "write" => Done(q, n(q), stack[q][1].err)'
          <5>1. at[q] = "write" => Done(q, n(q), stack[q][1].err)
            BY <1>0 DEF Contents
          <5> QED
            BY <2>1, <3>2, <4>1, <5>1
        <4> QED
          BY <4>1, <4>2, <4>3, <4>4
      <3> QED
        BY <3>1, <3>2
    <2>4. ASSUME NEW q \in Proc, NEW k \in 1..Len(pipe[q])
          PROVE  pipe[q][k] = mem'[q][q + got[q] + k - 1]
      <3>1. pipe[q][k] = mem[q][q + got[q] + k - 1]
        BY <1>0, <2>4 DEF Contents
      <3>2. CASE q = c
        <4>1. Len(pipe[q]) = 0
          BY <1>2, <3>2
        <4> QED
          BY <2>4, <4>1
      <3> QED
        BY <1>6, <3>1, <3>2
    <2>5. ASSUME NEW q \in Proc, NEW j \in Pending(q)', NEW d, d = ChildOf(q, j)',
                 at'[d] \in {"exit0", "exit1"}
          PROVE  Done(d, Share(q, j), at[d] = "exit1")'
      <3>1. ASSUME NEW i \in Pending(q), d = ChildOf(q, i), Share(q, j)' = Share(q, i)
            PROVE  Done(d, Share(q, j), at[d] = "exit1")'
        <4>1. d \in Proc /\ d # c /\ at'[d] = at[d]
          BY <1>6, <1>20, <3>1
        <4>2. Done(d, Share(q, i), at[d] = "exit1")
          BY <1>0, <2>5, <3>1, <4>1 DEF Contents
        <4> QED
          BY <2>1, <3>1, <4>1, <4>2
      <3>2. CASE q = p
        <4>1. j # 2
          BY <1>6, <1>11, <2>5, <3>2
        <4>2. PICK i \in Pending(p) : j = i + 1
          BY <1>11, <2>5, <3>2, <4>1
        <4>3. i \in 1..l
          BY <1>9, <4>2
        <4>4. d = ChildOf(p, i) /\ Share(p, j)' = Share(p, i)
          BY <1>11, <2>5, <3>2, <4>2, <4>3
        <4> QED
          BY <3>1, <3>2, <4>4
      <3>3. CASE q # p
        <4>1. q # c
          BY <1>12
        <4> QED
          BY <1>13, <2>5, <3>1, <3>3, <4>1
      <3> QED
        BY <3>2, <3>3
    <2>6. at'[0] \in {"exit0", "exit1"} => Done(0, N, at[0] = "exit1")'
      <3>1. 0 \in Proc /\ at'[0] = at[0]
        BY <1>1, <1>6, FsortAssumption DEF Proc
      <3>2. at[0] \in {"exit0", "exit1"} => Done(0, N, at[0] = "exit1")
        BY <1>0 DEF Contents
      <3> QED
        BY <1>1, <2>1, <3>1, <3>2
    <2> QED
      BY <1>3, <2>3, <2>4, <2>5, <2>6 DEF Contents
  <1> QED
    BY <1>17, <1>18, <1>19, <1>21, <1>22, <1>23, <1>24, <1>25 DEF IInv


-----------------------------------------------------------------------------
(* The theorems.                                                           *)

\* It holds when the first fsort is called.
LEMMA InitInv ==
    ASSUME Init
    PROVE  IInv
  <1> DEFINE x == [n |-> N, err |-> FALSE]
             R == [n : 1..N, err : BOOLEAN]
  <1>1. N \in Nat /\ N >= 1 /\ 0 \in Proc /\ (\A p \in Proc : p \in Nat /\ p <= N) /\ MaxKills \in Nat /\ Cap \in Nat
    BY FsortAssumption DEF Proc
  <1>2. x \in R /\ x.n = N /\ ~x.err
    BY <1>1
  <1>3. /\ at \in [Proc -> {"none", "call", "read", "wait", "write",
                            "exit0", "exit1", "killed", "reaped"}]
        /\ at[0] = "call" /\ \A p \in Proc : p # 0 => at[p] = "none"
    BY <1>1 DEF Init
  <1>4. stack \in [Proc -> Seq(R)] /\ stack[0] = <<x>> /\ \A p \in Proc : p # 0 => stack[p] = <<>>
    <2> HIDE DEF x, R
    <2>1. stack = [p \in Proc |-> IF p = 0 THEN <<x>> ELSE <<>>]
      BY DEF Init, x
    <2> QED
      BY <1>1, <1>2, <2>1
  <1>5. Len(stack[0]) = 1 /\ stack[0][1] = x /\ stack[0] # <<>>
    <2> HIDE DEF x
    <2> QED
      BY <1>4
  <1>6. Calls(0) = {1} /\ stack[0][1].n = N /\ ~stack[0][1].err /\ n(0) = N
    BY <1>2, <1>5 DEF Calls, n
  <1>7. /\ \A p \in Proc : p # 0 => Calls(p) = {} /\ ~Alive(p)
        /\ \A p \in Proc : Pending(p) = {}
        /\ Alive(0)
    <2>1. \A p \in Proc : p # 0 => Calls(p) = {} /\ ~Alive(p)
      BY <1>3, <1>4 DEF Calls, Alive
    <2> QED
      BY <1>3, <1>6, <2>1 DEF Pending, Alive
  <1>8. \A p \in Proc : pipe[p] = <<>> /\ got[p] = 0 /\ Sent(p) = 0 /\ mem[p] = input
    BY DEF Init, Sent
  <1>9. TypeOK
    <2>1. input \in [Proc -> Nat] /\ input \in Inputs
      BY FsortAssumption DEF Init, Proc
    <2>2. mem \in [Proc -> [Proc -> Nat]]
      BY <2>1 DEF Init
    <2>3. pipe \in [Proc -> Seq(Nat)] /\ \A c \in Proc : Len(pipe[c]) <= Cap
      BY <1>1 DEF Init
    <2>4. got \in [Proc -> 0..N] /\ kills \in 0..MaxKills
      BY <1>1 DEF Init
    <2>5. rfd \in [Proc -> SUBSET Proc] /\ wfd \in [Proc -> SUBSET Proc]
      BY DEF Init
    <2>6. parent \in [Proc -> Proc] /\ noFork \in BOOLEAN /\ abandoned \subseteq Proc
      BY <1>1 DEF Init
    <2> QED
      BY <1>3, <1>4, <2>1, <2>2, <2>3, <2>4, <2>5, <2>6 DEF TypeOK
  <1>10. Stacks
    <2>1. ASSUME NEW p \in Proc
          PROVE  /\ Alive(p) <=> stack[p] # <<>>
                 /\ \A i \in Calls(p) : p + stack[p][i].n <= N
                 /\ \A i \in Calls(p) : i > 1 => stack[p][i - 1].n = stack[p][i].n \div 2
                 /\ \A i, j \in Calls(p) : i < j => stack[p][i].n <= stack[p][j].n \div 2
                 /\ at[p] = "write" => p # 0 /\ Len(stack[p]) = 1
      <3>1. CASE p = 0
        <4>1. \A i, j \in Calls(0) : i = 1 /\ j = 1 /\ ~(i < j) /\ ~(i > 1)
          BY <1>6
        <4>2. 0 + N <= N
          BY <1>1
        <4> QED
          BY <1>3, <1>5, <1>6, <1>7, <3>1, <4>1, <4>2
      <3>2. CASE p # 0
        BY <1>3, <1>4, <1>7, <3>2
      <3> QED
        BY <3>1, <3>2
    <2> QED
      BY <1>3, <1>5, <1>6, <2>1 DEF Stacks
  <1>11. Fresh
    <2> SUFFICES ASSUME NEW p \in Proc, at[p] = "call", NEW q \in p + 1..p + n(p) - 1
                 PROVE  at[q] = "none"
      BY DEF Fresh
    <2>1. p = 0
      BY <1>3
    <2>2. q \in 0..N - 1 /\ q # 0
      BY <1>1, <1>6, <2>1
    <2> QED
      BY <1>3, <2>2 DEF Proc
  <1>12. Families
    BY <1>7 DEF Families
  <1>13. Owned
    BY <1>3 DEF Owned
  <1>14. Pipes
    <2>1. \A c \in Proc : c + 0 <= N /\ at[c] # "write"
      BY <1>1, <1>3
    <2> QED
      BY <1>7, <1>8, <2>1 DEF Pipes
  <1>15. Causes
    <2>1. \A p \in Proc : at[p] # "killed" /\ at[p] # "exit1" /\ \A i \in Calls(p) : ~stack[p][i].err
      BY <1>3, <1>6, <1>7
    <2> QED
      BY <2>1 DEF Causes
  <1>16. Contents
    <2>1. \A p \in Proc : \A k \in 1..Len(pipe[p]) : FALSE
      BY <1>8
    <2>2. \A p \in Proc : at[p] \notin {"read", "wait", "write", "exit0", "exit1"}
      BY <1>3
    <2> QED
      BY <1>1, <1>7, <1>8, <2>1, <2>2 DEF Contents
  <1> HIDE DEF x, R
  <1> QED
    BY <1>9, <1>10, <1>11, <1>12, <1>13, <1>14, <1>15, <1>16 DEF IInv

\* Every step keeps it.
LEMMA NextInv ==
    ASSUME IInv, [Next]_vars
    PROVE  IInv'
  <1>1. ASSUME NEW p \in Proc, Step(p) PROVE IInv'
    BY <1>1, CallSmallInv, PipeFailsInv, ForkFailsInv, ForkInv, ReadInv, ReadEofInv, WaitInv,
       WriteInv, ExitInv, BrokenPipeInv DEF Step
  <1>2. ASSUME NEW p \in Proc, Kill(p) PROVE IInv'
    BY <1>2, KillInv
  <1>3. CASE UNCHANGED vars
    <2>1. UNCHANGED <<input, at, stack, mem, pipe, got, rfd, wfd, kills, parent, noFork, abandoned>>
      BY <1>3 DEF vars
    <2>2. TypeOK /\ Stacks /\ Fresh /\ Families /\ Owned /\ Pipes /\ Causes /\ Contents
      BY DEF IInv
    <2>3. TypeOK' /\ Fresh' /\ Pipes' /\ Causes'
      BY <2>1, <2>2 DEF TypeOK, Fresh, Pipes, Causes, Calls, Sent, Alive, n
    <2>4. Stacks'
      BY <2>1, <2>2 DEF Stacks, Calls, Alive
    <2>5. \A p : Pending(p)' = Pending(p) /\ \A i : ChildOf(p, i)' = ChildOf(p, i) /\ Share(p, i)' = Share(p, i)
      BY <2>1 DEF Pending, Calls, ChildOf, Share
    <2>6. Families'
      BY <2>1, <2>2, <2>5 DEF Families, Sent, Alive
    <2>7. Owned'
      BY <2>1, <2>2, <2>5 DEF Owned, Forsaken, Alive, Sent, n
    <2>8. Contents'
      <3>1. \A p, k, e : Done(p, k, e)' = Done(p, k, e)
        BY <2>1 DEF Done
      <3> QED
        BY <2>1, <2>2, <2>5, <3>1 DEF Contents, Left, Child, n
    <2> QED
      BY <2>3, <2>4, <2>6, <2>7, <2>8 DEF IInv
  <1> QED
    BY <1>1, <1>2, <1>3 DEF Next

\* Every reachable state satisfies the inductive invariant: the types, how the
\* calls of a process and its children belong together, and what is in the copies
\* of the array and in the pipes.
THEOREM Invariant == Spec => []IInv
  <1>1. Init => IInv
    BY InitInv
  <1>2. IInv /\ [Next]_vars => IInv'
    BY NextInv
  <1> QED
    BY <1>1, <1>2, PTL DEF Spec

\* fsort returns 0 only with the array sorted and its elements kept, whatever
\* failed, in whichever process.
THEOREM ZeroSorts == Spec => []ZeroIsSorted
  <1>1. IInv => ZeroIsSorted
    <2> SUFFICES ASSUME IInv, at[0] = "exit0"
                 PROVE  Sorted(mem[0]) /\ SameElements(mem[0], input)
      BY DEF ZeroIsSorted
    <2>1. Done(0, N, FALSE)
      BY DEF IInv, Contents
    <2>2. 0..0 + N - 1 = Proc
      BY FsortAssumption DEF Proc
    <2>3. SameOn(Proc, mem[0], input) /\ SortedOn(Proc, mem[0])
      BY <2>1, <2>2 DEF Done
    <2>4. \A i \in 0..N - 2 : i \in Proc /\ i + 1 \in Proc /\ i <= i + 1
      BY FsortAssumption DEF Proc
    <2> QED
      BY <2>3, <2>4 DEF Sorted, SameElements, SortedOn
  <1> QED
    BY <1>1, Invariant, PTL

\* As long as no process is killed, fsort loses and doubles no element even when
\* it returns 1.
THEOREM LosesNothing == Spec => []NothingLost
  <1>1. IInv => NothingLost
    <2> SUFFICES ASSUME IInv, at[0] \in {"exit0", "exit1"}, kills = 0
                 PROVE  SameElements(mem[0], input)
      BY DEF NothingLost
    <2>1. Done(0, N, at[0] = "exit1")
      BY DEF IInv, Contents
    <2>2. 0..0 + N - 1 = Proc
      BY FsortAssumption DEF Proc
    <2> QED
      BY <2>1, <2>2 DEF Done, SameElements
  <1> QED
    BY <1>1, Invariant, PTL

\* fsort returns 1 only if a fork or a waitpid failed or a process was killed: never
\* because a pipe could not be had, or pipes are small, or processes run in a certain
\* order.
THEOREM FailsWithCause == Spec => []OneHasCause
  <1>1. IInv => OneHasCause
    <2>1. 0 \in Proc
      BY FsortAssumption DEF Proc
    <2> QED
      BY <2>1 DEF IInv, Causes, OneHasCause
  <1> QED
    BY <1>1, Invariant, PTL

\* When fsort returns, none of its children is left but those for which waitpid
\* failed, and of all the others nobody at all unless a process was killed.
THEOREM ReapsAll == Spec => []NoneLeft
  <1>1. IInv => NoneLeft
    <2> SUFFICES ASSUME IInv, at[0] \in {"exit0", "exit1"}
                 PROVE  \A c \in Proc \ {0} : \/ at[c] \in {"none", "reaped"}
                                              \/ Forsaken(c)
                                              \/ kills > 0 /\ parent[c] # 0
      BY DEF NoneLeft
    <2> DEFINE Left0 == {c \in Proc \ {0} : at[c] \notin {"none", "reaped"} /\ ~Forsaken(c)}
    <2>1. TypeOK /\ Stacks /\ Families /\ Owned
      BY DEF IInv
    <2>2. ~Alive(0)
      BY DEF Alive
    \* The parent of a process that is left, other than by a waitpid that failed, is
    \* left itself.
    <2>3. ASSUME NEW c \in Left0
          PROVE  \/ kills > 0 /\ parent[c] # 0
                 \/ parent[c] \in Left0 /\ parent[c] < c
      <3>1. parent[c] \in Proc
        BY <2>1, <2>3 DEF TypeOK
      <3>2. ASSUME NEW i \in Pending(parent[c]), c = ChildOf(parent[c], i)
            PROVE  parent[c] \in Left0 /\ parent[c] < c
        <4>1. Alive(parent[c]) /\ parent[c] < c
          BY <2>1, <3>1, <3>2, ChildFacts
        <4>2. ~Forsaken(parent[c])
          <5>1. at[parent[c]] = "write" => Pending(parent[c]) = {}
            BY <2>1, <3>1 DEF Stacks, Pending, Calls
          <5> QED
            BY <3>2, <4>1, <5>1 DEF Forsaken
        <4> QED
          BY <2>2, <3>1, <4>1, <4>2 DEF Alive
      <3> QED
        BY <2>1, <2>3, <3>2 DEF Owned
    <2>4. CASE kills > 0
      BY <2>3, <2>4
    <2>5. CASE ~(kills > 0)
      <3>1. Left0 \subseteq Nat
        BY FsortAssumption DEF Proc
      <3>2. Left0 = {}
        <4> SUFFICES ASSUME Left0 # {} PROVE FALSE
          OBVIOUS
        <4>1. \A c \in Left0 : parent[c] \in Left0 /\ parent[c] < c
          BY <2>3, <2>5
        <4> HIDE DEF Left0
        <4>2. PICK c \in Left0 : \A d \in Left0 : c <= d
          BY <3>1, LeastNat
        <4>3. parent[c] \in Nat /\ c \in Nat /\ parent[c] < c /\ c <= parent[c]
          BY <3>1, <4>1, <4>2
        <4> QED
          BY <4>3
      <3> QED
        BY <3>2
    <2> QED
      BY <2>4, <2>5
  <1> QED
    BY <1>1, Invariant, PTL

=============================================================================
