------------------------------- MODULE Measures -------------------------------
(***************************************************************************)
(* Induction and recursion on a measure: what the proofs about functions    *)
(* that are defined by recursion (the sorting of fsort.c, the hash and the  *)
(* growth of dict.c) have in common.                                        *)
(***************************************************************************)
EXTENDS Integers, FiniteSetTheorems, TLAPS

\* Quotient and remainder, for a divisor that is a parameter.
LEMMA DivMod ==
    ASSUME NEW m \in Nat \ {0}, NEW a \in Nat
    PROVE  a = m * (a \div m) + (a % m) /\ a % m \in 0..(m - 1) /\ a \div m \in Nat
  OBVIOUS

\* They are unique: who finds such numbers has found them.
LEMMA DivModOf ==
    ASSUME NEW m \in Nat \ {0}, NEW q \in Nat, NEW r \in 0..(m - 1)
    PROVE  (m * q + r) \div m = q /\ (m * q + r) % m = r
  <1>1. (m * q + r) \div m = q
    OBVIOUS
  <1>2. (m * q + r) % m = r
    OBVIOUS
  <1> QED
    BY <1>1, <1>2

\* A set of natural numbers that is not empty has a least element.
LEMMA LeastNat ==
    ASSUME NEW T, T \subseteq Nat, T # {}
    PROVE  \E x \in T : \A y \in T : x <= y
  <1> DEFINE R == OpToRel(<, Nat)
  <1>1. IsWellFoundedOn(R, Nat)
    BY NatLessThanWellFounded
  <1>2. \A x, y \in Nat : y < x => <<y, x>> \in R
    BY DEF OpToRel
  <1> HIDE DEF R
  <1>3. PICK x \in T : \A y \in T : <<y, x>> \notin R
    BY <1>1, WFMin
  <1>4. ASSUME NEW y \in T PROVE x <= y
    <2>1. x \in Nat /\ y \in Nat
      OBVIOUS
    <2>2. ~(y < x)
      BY <1>2, <1>3, <2>1
    <2> QED
      BY <2>1, <2>2
  <1> QED
    BY <1>4

\* What F makes of a function at x depends only on what the function is at the
\* arguments of a lesser measure.
Descends(D, V, mu, F) ==
    /\ mu \in [D -> Nat]
    /\ F \in [[D -> V] -> [D -> V]]
    /\ \A g, h \in [D -> V], x \in D :
           (\A y \in D : mu[y] < mu[x] => g[y] = h[y]) => F[g][x] = F[h][x]

\* Such an F has a fixed point: a recursive definition of that form defines what
\* it says.
LEMMA Recursion ==
    ASSUME NEW D, NEW V, NEW mu, NEW F, Descends(D, V, mu, F), NEW g0 \in [D -> V]
    PROVE  \E g \in [D -> V] : g = F[g]
  <1> mu \in [D -> Nat] /\ F \in [[D -> V] -> [D -> V]]
    BY DEF Descends
  <1> \A g, h \in [D -> V], x \in D :
          (\A y \in D : mu[y] < mu[x] => g[y] = h[y]) => F[g][x] = F[h][x]
    BY DEF Descends
  <1> DEFINE Good(g, k) == \A x \in D : mu[x] < k => g[x] = F[g][x]
             H(k) == CHOOSE g \in [D -> V] : Good(g, k)
             G == [x \in D |-> H(mu[x] + 1)[x]]
  <1>1. \A k \in Nat : \E g \in [D -> V] : Good(g, k)
    <2> DEFINE T == {k \in Nat : ~ \E g \in [D -> V] : Good(g, k)}
    <2> SUFFICES ASSUME T # {} PROVE FALSE
      OBVIOUS
    <2>1. PICK k \in T : \A l \in T : k <= l
      <3> T \subseteq Nat
        OBVIOUS
      <3> HIDE DEF T
      <3> QED
        BY LeastNat
    <2>2. k # 0
      <3>1. Good(g0, 0)
        OBVIOUS
      <3> QED
        BY <3>1
    <2>3. k - 1 \in Nat /\ k - 1 \notin T
      BY <2>1, <2>2
    <2>4. PICK g \in [D -> V] : Good(g, k - 1)
      BY <2>3
    <2>5. F[g] \in [D -> V]
      OBVIOUS
    <2>6. Good(F[g], k)
      <3> SUFFICES ASSUME NEW x \in D, mu[x] < k PROVE F[g][x] = F[F[g]][x]
        OBVIOUS
      <3>1. ASSUME NEW y \in D, mu[y] < mu[x] PROVE g[y] = F[g][y]
        <4>1. mu[y] < k - 1
          BY <3>1, mu[x] \in Nat, mu[y] \in Nat, k \in Nat
        <4> QED
          BY <4>1, <2>4
      <3> HIDE DEF Good
      <3> QED
        BY <3>1, <2>5
    <2> QED
      BY <2>1, <2>5, <2>6
  <1>2. ASSUME NEW k \in Nat, NEW g \in [D -> V], NEW h \in [D -> V], Good(g, k), Good(h, k),
               NEW x \in D, mu[x] < k
        PROVE  g[x] = h[x]
    <2> DEFINE T == {mu[y] : y \in {z \in D : mu[z] < k /\ g[z] # h[z]}}
    <2> SUFFICES ASSUME g[x] # h[x] PROVE FALSE
      OBVIOUS
    <2> T # {}
      <3> x \in {z \in D : mu[z] < k /\ g[z] # h[z]}
        BY <1>2
      <3> mu[x] \in T
        OBVIOUS
      <3> HIDE DEF T
      <3> QED
        OBVIOUS
    <2>1. PICK l \in T : \A i \in T : l <= i
      <3> T \subseteq Nat
        OBVIOUS
      <3> HIDE DEF T
      <3> QED
        BY LeastNat
    <2>2. PICK y \in D : mu[y] = l /\ mu[y] < k /\ g[y] # h[y]
      BY <2>1
    <2>3. ASSUME NEW z \in D, mu[z] < mu[y] PROVE g[z] = h[z]
      <3>1. mu[z] < k /\ ~(mu[y] <= mu[z])
        BY <2>2, <2>3, mu[y] \in Nat, mu[z] \in Nat
      <3> QED
        BY <3>1, <2>1, <2>2
    <2>4. F[g][y] = F[h][y]
      BY <2>3
    <2> QED
      BY <2>2, <2>4, <1>2
  <1>3. \A k \in Nat : H(k) \in [D -> V] /\ Good(H(k), k)
    <2> HIDE DEF Good
    <2> QED
      BY <1>1
  <1>4. \A x \in D : mu[x] + 1 \in Nat
    OBVIOUS
  <1>5. G \in [D -> V]
    <2> HIDE DEF H
    <2> QED
      BY <1>3, <1>4
  <1>6. ASSUME NEW x \in D PROVE G[x] = F[G][x]
    <2> DEFINE h == H(mu[x] + 1)
    <2>1. h \in [D -> V] /\ Good(h, mu[x] + 1)
      <3> HIDE DEF H, Good
      <3> QED
        BY <1>3, <1>4
    <2>2. G[x] = h[x]
      OBVIOUS
    <2>3. h[x] = F[h][x]
      <3> HIDE DEF h
      <3> QED
        BY <2>1, mu[x] \in Nat
    <2>4. ASSUME NEW y \in D, mu[y] < mu[x] PROVE G[y] = h[y]
      <3> DEFINE e == H(mu[y] + 1)
      <3>1. e \in [D -> V] /\ Good(e, mu[y] + 1)
        <4> HIDE DEF H, Good
        <4> QED
          BY <1>3, <1>4
      <3>2. G[y] = e[y]
        OBVIOUS
      <3> HIDE DEF h, e
      <3>3. Good(h, mu[y] + 1)
        <4> SUFFICES ASSUME NEW z \in D, mu[z] < mu[y] + 1 PROVE h[z] = F[h][z]
          OBVIOUS
        <4> mu[z] < mu[x] + 1
          BY <2>4, mu[x] \in Nat, mu[y] \in Nat, mu[z] \in Nat
        <4> QED
          BY <2>1
      <3>4. mu[y] < mu[y] + 1 /\ mu[y] + 1 \in Nat
        BY mu[y] \in Nat
      <3> HIDE DEF Good
      <3> QED
        BY <3>1, <3>2, <3>3, <3>4, <2>1, <1>2
    <2> HIDE DEF G, h
    <2>5. F[h][x] = F[G][x]
      BY <2>1, <2>4, <1>5
    <2> QED
      BY <2>2, <2>3, <2>5
  <1>7. F[G] \in [D -> V]
    BY <1>5
  <1>8. G = F[G]
    <2> HIDE DEF G
    <2> QED
      BY <1>5, <1>6, <1>7
  <1> QED
    BY <1>5, <1>8

\* Induction up to n.
LEMMA Climb ==
    ASSUME NEW n \in Nat, NEW T, 0 \in T, \A k \in 0..n : k \in T /\ k < n => k + 1 \in T
    PROVE  \A k \in 0..n : k \in T
  <1> DEFINE Out == {k \in 0..n : k \notin T}
  <1> SUFFICES ASSUME Out # {} PROVE FALSE
    OBVIOUS
  <1>1. PICK k \in Out : \A l \in Out : k <= l
    <2> Out \subseteq Nat
      OBVIOUS
    <2> HIDE DEF Out
    <2> QED
      BY LeastNat
  <1>2. k # 0 /\ k \in 0..n /\ k \notin T
    OBVIOUS
  <1>3. k - 1 \in 0..n /\ k - 1 < n /\ ~(k <= k - 1) /\ (k - 1) + 1 = k
    BY <1>2
  <1>4. k - 1 \in T
    BY <1>1, <1>3
  <1> QED
    BY <1>2, <1>3, <1>4

\* S[k] makes of the value at k - 1 the one at k.
Iterates(g, n, b, S) == g[0] = b /\ \A k \in 1..n : g[k] = S[k][g[k - 1]]

\* Recursion over 0..n.
LEMMA Iterate ==
    ASSUME NEW n \in Nat, NEW V, NEW b \in V, NEW S \in [1..n -> [V -> V]]
    PROVE  \E g \in [0..n -> V] : Iterates(g, n, b, S)
  <1> DEFINE D == 0..n
             Body(g) == [k \in D |-> IF k = 0 THEN b ELSE S[k][g[k - 1]]]
             mu == [k \in D |-> k]
             F == [g \in [D -> V] |-> Body(g)]
             g0 == [k \in D |-> b]
  <1>1. \A k \in D : k # 0 => k \in 1..n /\ k - 1 \in D /\ k - 1 < k
    OBVIOUS
  <1>2. ASSUME NEW g \in [D -> V], NEW k \in D, k # 0 PROVE S[k][g[k - 1]] \in V
    <2>1. k \in 1..n /\ g[k - 1] \in V
      BY <1>1, <1>2
    <2>2. S[k] \in [V -> V]
      BY <2>1
    <2> QED
      BY <2>1, <2>2
  <1>3. ASSUME NEW g \in [D -> V] PROVE Body(g) \in [D -> V]
    <2> SUFFICES ASSUME NEW k \in D PROVE Body(g)[k] \in V
      OBVIOUS
    <2> HIDE DEF D
    <2> QED
      BY <1>2
  <1>4. mu \in [D -> Nat]
    OBVIOUS
  <1>5. F \in [[D -> V] -> [D -> V]]
    <2> HIDE DEF Body
    <2> QED
      BY <1>3
  <1>6. ASSUME NEW g \in [D -> V], NEW h \in [D -> V], NEW k \in D,
               \A l \in D : mu[l] < mu[k] => g[l] = h[l]
        PROVE  F[g][k] = F[h][k]
    <2>1. k # 0 => g[k - 1] = h[k - 1]
      BY <1>1, <1>6
    <2> HIDE DEF D
    <2> QED
      BY <2>1
  <1>7. g0 \in [D -> V]
    OBVIOUS
  <1>8. Descends(D, V, mu, F)
    <2> HIDE DEF D, mu, F
    <2> QED
      BY <1>4, <1>5, <1>6 DEF Descends
  <1>9. PICK g \in [D -> V] : g = F[g]
    <2> HIDE DEF D, mu, F, g0
    <2> QED
      BY <1>7, <1>8, Recursion
  <1>10. g = Body(g)
    <2> HIDE DEF Body
    <2> QED
      BY <1>9
  <1>11. ASSUME NEW k \in D PROVE g[k] = IF k = 0 THEN b ELSE S[k][g[k - 1]]
    <2> HIDE DEF D
    <2> QED
      BY <1>10, Zenon
  <1>12. 0 \in D /\ \A k \in 1..n : k \in D /\ k # 0
    OBVIOUS
  <1> QED
    <2> HIDE DEF D
    <2>1. g[0] = b /\ \A k \in 1..n : g[k] = S[k][g[k - 1]]
      BY <1>11, <1>12
    <2> QED
      BY <2>1 DEF D, Iterates
=============================================================================
