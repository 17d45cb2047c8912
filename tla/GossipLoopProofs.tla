--------------------------- MODULE GossipLoopProofs ---------------------------
(***************************************************************************)
(* The poll loop keeps its invariant, drops a live peer only through a      *)
(* stale entry of fds, and is a process of GossipNet, for any number of     *)
(* neighbours, whoever dials whom first, any lines and any behaviour of     *)
(* theirs.                                                                  *)
(***************************************************************************)
EXTENDS GossipLoop, Measures, SequenceTheorems

-----------------------------------------------------------------------------
(* Finite sets of natural numbers have a greatest element.                 *)

\* A finite set of natural numbers does not go beyond every natural number.
LEMMA Bounded ==
    ASSUME NEW S, S \subseteq Nat, IsFiniteSet(S)
    PROVE  \E b \in Nat : \A x \in S : x <= b
  <1> DEFINE Unb(R) == R \subseteq Nat /\ IsFiniteSet(R) /\ \A b \in Nat : \E x \in R : b < x
             T == {k \in Nat : \E R \in SUBSET S : Unb(R) /\ Cardinality(R) = k}
  <1>1. SUFFICES ASSUME \A b \in Nat : \E x \in S : b < x PROVE FALSE
    OBVIOUS
  <1>2. Cardinality(S) \in T
    <2>1. Cardinality(S) \in Nat
      BY FS_CardinalityType
    <2>2. Unb(S)
      BY <1>1
    <2> QED
      BY <2>1, <2>2
  <1>3. T \subseteq Nat
    OBVIOUS
  <1> HIDE DEF T
  <1>4. PICK k \in T : \A l \in T : k <= l
    BY <1>2, <1>3, LeastNat
  <1>5. PICK R \in SUBSET S : Unb(R) /\ Cardinality(R) = k
    BY <1>4 DEF T
  <1>6. PICK x \in R : 0 < x
    BY <1>5
  <1>7. Unb(R \ {x})
    <2>1. IsFiniteSet(R \ {x})
      BY <1>5, FS_RemoveElement
    <2>2. ASSUME NEW b \in Nat PROVE \E y \in R \ {x} : b < y
      <3>1. x \in Nat
        BY <1>5, <1>6
      <3>2. CASE b < x
        <4>1. PICK y \in R : x < y
          BY <1>5, <3>1
        <4> QED
          BY <4>1, <3>1, <3>2, <1>5
      <3>3. CASE ~(b < x)
        <4>1. PICK y \in R : b < y
          BY <1>5
        <4> QED
          BY <4>1, <3>3
      <3> QED
        BY <3>2, <3>3
    <2> QED
      BY <1>5, <2>1, <2>2
  <1>8. Cardinality(R \ {x}) = k - 1
    BY <1>5, <1>6, FS_RemoveElement
  <1>9. k - 1 \in T
    <2>1. k \in Nat /\ k - 1 \in Nat
      BY <1>5, <1>7, <1>8, FS_CardinalityType
    <2> QED
      BY <2>1, <1>7, <1>8 DEF T
  <1> QED
    BY <1>3, <1>4, <1>9

\* What Max of such a set is.
LEMMA MaxBounds ==
    ASSUME NEW S, S \subseteq Nat, IsFiniteSet(S), S # {}
    PROVE  Max(S) \in S /\ \A x \in S : x <= Max(S)
  <1>1. PICK b \in Nat : \A x \in S : x <= b
    BY Bounded
  <1> DEFINE T == {b - x : x \in S}
  <1>2. T \subseteq Nat /\ T # {}
    <2>1. ASSUME NEW x \in S PROVE b - x \in Nat
      BY <1>1, x \in Nat
    <2> QED
      BY <2>1
  <1>3. PICK d \in T : \A e \in T : d <= e
    <2> HIDE DEF T
    <2> QED
      BY <1>2, LeastNat
  <1>4. PICK x \in S : d = b - x
    BY <1>3
  <1>5. ASSUME NEW y \in S PROVE x >= y
    <2>1. b - x <= b - y
      BY <1>3, <1>4
    <2> QED
      BY <2>1, x \in Nat, y \in Nat, b \in Nat
  <1>6. \E z \in S : \A y \in S : z >= y
    BY <1>5
  <1>7. Max(S) \in S /\ \A y \in S : Max(S) >= y
    BY <1>6 DEF Max
  <1> QED
    BY <1>7

\* What is typed in one instance stays below the bound of the network.
LEMMA LinesBound ==
    ASSUME NEW p \in Plans, NEW n \in Node, NEW t \in Nat, t < p.pieces[n]
    PROVE  NetLines \in [Node -> Nat] /\ t < NetLines[n] * LineLen
  <1> DEFINE S(m) == {q.pieces[m] : q \in Plans}
  <1>1. ASSUME NEW m \in Node
        PROVE  Max(S(m) \cup {0}) \in Nat /\ \A q \in Plans : q.pieces[m] <= Max(S(m) \cup {0})
    <2>1. IsFiniteSet(Plans) /\ \A q \in Plans : q.pieces[m] \in Nat
      BY LoopAssumption
    <2>2. IsFiniteSet(S(m))
      <3> DEFINE f == [q \in Plans |-> q.pieces[m]]
      <3>1. f \in Surjection(Plans, S(m))
        BY DEF Surjection
      <3> HIDE DEF f, S
      <3> QED
        BY <2>1, <3>1, FS_Surjection
    <2>3. S(m) \subseteq Nat
      BY <2>1
    <2>4. \A q \in Plans : q.pieces[m] \in S(m)
      OBVIOUS
    <2> HIDE DEF S
    <2>5. IsFiniteSet(S(m) \cup {0})
      BY <2>2, FS_AddElement
    <2> DEFINE Z == S(m) \cup {0}
    <2>6. Z \subseteq Nat /\ IsFiniteSet(Z) /\ Z # {} /\ S(m) \subseteq Z
      BY <2>3, <2>5
    <2> HIDE DEF Z
    <2>7. Max(Z) \in Z /\ \A x \in Z : x <= Max(Z)
      BY <2>6, MaxBounds
    <2>8. Max(Z) \in Nat /\ \A q \in Plans : q.pieces[m] <= Max(Z)
      BY <2>4, <2>6, <2>7
    <2> QED
      BY <2>8 DEF Z
  <1>2. NetLines = [m \in Node |-> Max(S(m) \cup {0})]
    BY DEF NetLines
  <1> HIDE DEF S
  <1>3. NetLines \in [Node -> Nat]
    BY <1>1, <1>2
  <1>4. p.pieces[n] <= NetLines[n] /\ NetLines[n] \in Nat /\ p.pieces[n] \in Nat
    BY <1>1, <1>2, LoopAssumption
  <1>5. ASSUME NEW a \in Nat, NEW b \in Nat \ {0} PROVE a <= a * b
    <2>1. PICK c \in Nat : b = c + 1
      <3>1. b - 1 \in Nat /\ b = (b - 1) + 1
        BY <1>5
      <3> QED
        BY <3>1
    <2>2. a * (c + 1) = a * c + a /\ a * c \in Nat
      BY <2>1
    <2> QED
      BY <2>1, <2>2
  <1>6. NetLines[n] <= NetLines[n] * LineLen /\ NetLines[n] * LineLen \in Nat
    BY <1>4, <1>5, LoopAssumption
  <1> QED
    BY <1>3, <1>4, <1>6

-----------------------------------------------------------------------------
(* The peer array.                                                         *)

Peer == [fd : End, out : Seq(Piece)]

\* With one slot per end, the buffer of an end is that of its slot.
LEMMA OutAt ==
    ASSUME NEW d \in Seq(Peer), Distinct(d), NEW k \in 1..Len(d)
    PROVE  /\ d[k].fd \in EndsIn(d)
           /\ OutIn(d, d[k].fd) = d[k].out
           /\ d[k] \in Peer /\ d[k].fd \in End /\ d[k].out \in Seq(Piece)
  <1>1. d[k].fd \in EndsIn(d)
    BY DEF EndsIn
  <1> DEFINE l == CHOOSE x \in 1..Len(d) : d[x].fd = d[k].fd
  <1>2. l \in 1..Len(d) /\ d[l].fd = d[k].fd
    OBVIOUS
  <1> HIDE DEF l
  <1>3. l = k
    BY <1>2 DEF Distinct
  <1>4. d[k] \in Peer
    OBVIOUS
  <1> QED
    BY <1>1, <1>3, <1>4 DEF OutIn, l, Peer

\* The buffer of any end is a sequence of pieces, empty without a slot.
LEMMA OutType ==
    ASSUME NEW d \in Seq(Peer), Distinct(d), NEW c
    PROVE  /\ EndsIn(d) \subseteq End
           /\ OutIn(d, c) \in Seq(Piece)
           /\ c \notin EndsIn(d) => OutIn(d, c) = <<>>
  <1>1. ASSUME NEW x \in EndsIn(d) PROVE x \in End /\ OutIn(d, x) \in Seq(Piece)
    <2>1. PICK k \in 1..Len(d) : x = d[k].fd
      BY DEF EndsIn
    <2> QED
      BY <2>1, OutAt
  <1>2. c \notin EndsIn(d) => OutIn(d, c) = <<>>
    BY DEF OutIn
  <1>3. <<>> \in Seq(Piece)
    OBVIOUS
  <1> QED
    BY <1>1, <1>2, <1>3

\* accept: a new slot at the end, with an empty buffer.
LEMMA Appended ==
    ASSUME NEW d \in Seq(Peer), Distinct(d), NEW c \in End, c \notin EndsIn(d)
    PROVE  LET e == Append(d, [fd |-> c, out |-> <<>>]) IN
           /\ e \in Seq(Peer) /\ Distinct(e)
           /\ EndsIn(e) = EndsIn(d) \cup {c}
           /\ \A x \in End : OutIn(e, x) = OutIn(d, x)
  <1> DEFINE e == Append(d, [fd |-> c, out |-> <<>>])
  <1>1. e \in Seq(Peer)
    BY DEF Peer
  <1>2. Len(e) = Len(d) + 1 /\ e[Len(d) + 1] = [fd |-> c, out |-> <<>>]
        /\ \A k \in 1..Len(d) : e[k] = d[k]
    OBVIOUS
  <1>3. \A k \in 1..Len(d) : d[k].fd # c
    BY DEF EndsIn
  <1> HIDE DEF e
  <1>4. e[Len(d) + 1].fd = c /\ e[Len(d) + 1].out = <<>>
    BY <1>2
  <1>5. Distinct(e)
    BY <1>2, <1>3, <1>4 DEF Distinct
  <1>6. EndsIn(e) = EndsIn(d) \cup {c}
    BY <1>2, <1>4 DEF EndsIn
  <1>7. ASSUME NEW x \in End PROVE OutIn(e, x) = OutIn(d, x)
    <2>1. CASE x \in EndsIn(d)
      <3>1. PICK k \in 1..Len(d) : d[k].fd = x
        BY <2>1 DEF EndsIn
      <3>2. k \in 1..Len(e) /\ e[k] = d[k]
        BY <1>2
      <3> QED
        BY <3>1, <3>2, OutAt, <1>1, <1>5
    <2>2. CASE x = c
      <3>1. OutIn(e, c) = <<>>
        BY <1>1, <1>2, <1>4, <1>5, OutAt, Len(d) + 1 \in 1..Len(e)
      <3> QED
        BY <2>2, <3>1, OutType
    <2>3. CASE x \notin EndsIn(e)
      BY <2>3, <1>1, <1>5, <1>6, OutType
    <2> QED
      BY <2>1, <2>2, <2>3, <1>6
  <1> QED
    BY <1>1, <1>5, <1>6, <1>7 DEF e

\* An array with other buffers in the same slots.
LEMMA Rewritten ==
    ASSUME NEW d \in Seq(Peer), Distinct(d), NEW e \in Seq(Peer), Len(e) = Len(d),
           \A k \in 1..Len(d) : e[k].fd = d[k].fd
    PROVE  /\ Distinct(e)
           /\ EndsIn(e) = EndsIn(d)
           /\ \A k \in 1..Len(d) : OutIn(e, d[k].fd) = e[k].out
           /\ \A x \in End : x \notin EndsIn(d) => OutIn(e, x) = OutIn(d, x)
  <1>1. Distinct(e)
    BY DEF Distinct
  <1>2. EndsIn(e) = EndsIn(d)
    BY DEF EndsIn
  <1>3. \A k \in 1..Len(d) : OutIn(e, d[k].fd) = e[k].out
    BY <1>1, OutAt
  <1> QED
    BY <1>1, <1>2, <1>3 DEF OutIn

\* remove_peer: the last slot takes the place of the removed one.
LEMMA Removed ==
    ASSUME NEW d \in Seq(Peer), Distinct(d), NEW m \in 1..Len(d)
    PROVE  LET e == SubSeq([d EXCEPT ![m] = d[Len(d)]], 1, Len(d) - 1) IN
           /\ e \in Seq(Peer) /\ Distinct(e)
           /\ EndsIn(e) = EndsIn(d) \ {d[m].fd}
           /\ \A x \in End : x # d[m].fd => OutIn(e, x) = OutIn(d, x)
           /\ OutIn(e, d[m].fd) = <<>>
  <1> DEFINE f == [d EXCEPT ![m] = d[Len(d)]]
             e == SubSeq(f, 1, Len(d) - 1)
  <1>1. Len(d) \in Nat /\ Len(d) >= 1 /\ Len(d) \in 1..Len(d)
    OBVIOUS
  <1>2. f \in Seq(Peer) /\ Len(f) = Len(d)
    BY <1>1
  <1>3. \A k \in 1..Len(d) : f[k] = IF k = m THEN d[Len(d)] ELSE d[k]
    BY <1>1
  <1> HIDE DEF f
  <1>4. e \in Seq(Peer) /\ Len(e) = Len(d) - 1 /\ \A k \in 1..Len(e) : e[k] = f[k]
    BY <1>1, <1>2
  <1> HIDE DEF e
  <1>5. \A k \in 1..Len(e) : k \in 1..Len(d) /\ k # Len(d)
    BY <1>1, <1>4
  <1>6. \A k \in 1..Len(e) : e[k] = IF k = m THEN d[Len(d)] ELSE d[k]
    BY <1>3, <1>4, <1>5
  <1>7. Distinct(e)
    BY <1>1, <1>5, <1>6 DEF Distinct
  <1>8. ASSUME NEW k \in 1..Len(d), k # m
        PROVE  d[k].fd # d[m].fd /\ \E l \in 1..Len(e) : e[l] = d[k]
    <2>1. d[k].fd # d[m].fd
      BY <1>8 DEF Distinct
    <2>2. CASE k = Len(d)
      <3>1. m \in 1..Len(e)
        BY <2>2, <1>8, <1>4, <1>1
      <3> QED
        BY <2>1, <2>2, <3>1, <1>6
    <2>3. CASE k # Len(d)
      <3>1. k \in 1..Len(e)
        BY <2>3, <1>4, <1>1
      <3> QED
        BY <2>1, <1>8, <3>1, <1>6
    <2> QED
      BY <2>2, <2>3
  <1>9. \A k \in 1..Len(e) : \E l \in 1..Len(d) : l # m /\ e[k] = d[l]
    BY <1>1, <1>5, <1>6
  <1>10. EndsIn(e) = EndsIn(d) \ {d[m].fd}
    <2>1. ASSUME NEW x \in EndsIn(e) PROVE x \in EndsIn(d) /\ x # d[m].fd
      <3>1. PICK k \in 1..Len(e) : x = e[k].fd
        BY <2>1 DEF EndsIn
      <3>2. PICK l \in 1..Len(d) : l # m /\ e[k] = d[l]
        BY <1>9
      <3> QED
        BY <1>8, <3>1, <3>2 DEF EndsIn
    <2>2. ASSUME NEW x \in EndsIn(d), x # d[m].fd PROVE x \in EndsIn(e)
      <3>1. PICK k \in 1..Len(d) : x = d[k].fd
        BY <2>2 DEF EndsIn
      <3>2. PICK l \in 1..Len(e) : e[l] = d[k]
        BY <1>8, <2>2, <3>1
      <3> QED
        BY <3>1, <3>2 DEF EndsIn
    <2> QED
      BY <2>1, <2>2
  <1>11. ASSUME NEW x \in End, x # d[m].fd PROVE OutIn(e, x) = OutIn(d, x)
    <2>1. CASE x \in EndsIn(d)
      <3>1. PICK k \in 1..Len(d) : d[k].fd = x
        BY <2>1 DEF EndsIn
      <3>2. PICK l \in 1..Len(e) : e[l] = d[k]
        BY <1>8, <1>11, <3>1
      <3> QED
        BY <3>1, <3>2, OutAt, <1>4, <1>7
    <2>2. CASE x \notin EndsIn(d)
      BY <2>2, <1>10 DEF OutIn
    <2> QED
      BY <2>1, <2>2
  <1>12. OutIn(e, d[m].fd) = <<>>
    BY <1>10 DEF OutIn
  <1> QED
    BY <1>4, <1>7, <1>10, <1>11, <1>12 DEF e, f

-----------------------------------------------------------------------------
(* What the actions do to the peer array.                                  *)

\* send_peers: every buffer but the one at skip grows by ps.
LEMMA Sent ==
    ASSUME data \in Seq(Peer), Distinct(data), NEW skip \in 0..Len(data),
           NEW ps \in Seq(Piece), SendPeers(skip, ps)
    PROVE  /\ data' \in Seq(Peer) /\ Distinct(data')
           /\ Len(data') = Len(data) /\ \A k \in 1..Len(data) : data'[k].fd = data[k].fd
           /\ EndsIn(data') = EndsIn(data)
           /\ \A x \in End : OutIn(data', x) =
                 IF x \in EndsIn(data) /\ (skip = 0 \/ x # data[skip].fd)
                 THEN OutIn(data, x) \o ps ELSE OutIn(data, x)
  <1>1. \A k \in 1..Len(data) : data[k] \in Peer /\ data[k].out \in Seq(Piece)
    BY OutAt
  <1>2. \A k \in 1..Len(data) :
          /\ data'[k] = IF k = skip THEN data[k] ELSE [data[k] EXCEPT !.out = @ \o ps]
          /\ data'[k] \in Peer /\ data'[k].fd = data[k].fd
          /\ data'[k].out = IF k = skip THEN data[k].out ELSE data[k].out \o ps
    <2> SUFFICES ASSUME NEW k \in 1..Len(data)
                 PROVE  /\ data'[k] = IF k = skip THEN data[k] ELSE [data[k] EXCEPT !.out = @ \o ps]
                        /\ data'[k] \in Peer /\ data'[k].fd = data[k].fd
                        /\ data'[k].out = IF k = skip THEN data[k].out ELSE data[k].out \o ps
      OBVIOUS
    <2>1. data'[k] = IF k = skip THEN data[k] ELSE [data[k] EXCEPT !.out = @ \o ps]
      BY DEF SendPeers
    <2>2. data[k] \in [fd : End, out : Seq(Piece)] /\ data[k].out \o ps \in Seq(Piece)
      BY <1>1 DEF Peer
    <2> DEFINE o == data[k].out \o ps
    <2> HIDE DEF o
    <2>3. /\ [data[k] EXCEPT !.out = o] \in [fd : End, out : Seq(Piece)]
          /\ [data[k] EXCEPT !.out = o].fd = data[k].fd
          /\ [data[k] EXCEPT !.out = o].out = o
      BY <2>2 DEF o
    <2> QED
      BY <2>1, <2>2, <2>3 DEF o, Peer
  <1>3. data' \in Seq(Peer) /\ Len(data') = Len(data)
    <2>1. data' = [k \in 1..Len(data) |-> data'[k]]
      BY DEF SendPeers
    <2> QED
      BY <2>1, <1>2
  <1> DEFINE e == data'
  <1> HIDE DEF e
  <1>4. /\ Distinct(e) /\ EndsIn(e) = EndsIn(data)
        /\ \A k \in 1..Len(data) : OutIn(e, data[k].fd) = e[k].out
        /\ \A x \in End : x \notin EndsIn(data) => OutIn(e, x) = OutIn(data, x)
    <2>1. e \in Seq(Peer) /\ Len(e) = Len(data) /\ \A k \in 1..Len(data) : e[k].fd = data[k].fd
      BY <1>2, <1>3 DEF e
    <2> QED
      BY <2>1, Rewritten
  <1>5. ASSUME NEW x \in End, x \in EndsIn(data)
        PROVE  OutIn(e, x) = IF skip = 0 \/ x # data[skip].fd
                             THEN OutIn(data, x) \o ps ELSE OutIn(data, x)
    <2>1. PICK k \in 1..Len(data) : data[k].fd = x
      BY <1>5 DEF EndsIn
    <2>2. OutIn(data, x) = data[k].out /\ OutIn(e, x) = data'[k].out
      BY <2>1, <1>4, OutAt DEF e
    <2>3. k = skip <=> ~(skip = 0 \/ x # data[skip].fd)
      BY <2>1 DEF Distinct
    <2> QED
      BY <1>2, <2>2, <2>3
  <1> QED
    BY <1>2, <1>3, <1>4, <1>5 DEF e

\* write(): the first piece of one buffer is gone from it.
LEMMA Shortened ==
    ASSUME data \in Seq(Peer), Distinct(data), NEW m \in 1..Len(data), data[m].out # <<>>,
           data' = [data EXCEPT ![m].out = Tail(@)]
    PROVE  /\ data' \in Seq(Peer) /\ Distinct(data')
           /\ Len(data') = Len(data) /\ \A k \in 1..Len(data) : data'[k].fd = data[k].fd
           /\ EndsIn(data') = EndsIn(data)
           /\ \A x \in End : OutIn(data', x) =
                 IF x = data[m].fd THEN Tail(OutIn(data, x)) ELSE OutIn(data, x)
  <1>1. \A k \in 1..Len(data) : data[k] \in Peer /\ data[k].out \in Seq(Piece)
    BY OutAt
  <1> DEFINE o == Tail(data[m].out)
             r == [data[m] EXCEPT !.out = o]
  <1>a. data' = [data EXCEPT ![m] = r]
    OBVIOUS
  <1>b. r \in Peer /\ r.fd = data[m].fd /\ r.out = o
    <2>1. data[m] \in [fd : End, out : Seq(Piece)] /\ o \in Seq(Piece)
      BY <1>1 DEF Peer
    <2> HIDE DEF o
    <2> QED
      BY <2>1 DEF Peer
  <1> HIDE DEF o, r
  <1>2. \A k \in 1..Len(data) :
          /\ data'[k] = IF k = m THEN r ELSE data[k]
          /\ data'[k] \in Peer /\ data'[k].fd = data[k].fd
          /\ data'[k].out = IF k = m THEN Tail(data[k].out) ELSE data[k].out
    <2> SUFFICES ASSUME NEW k \in 1..Len(data)
                 PROVE  /\ data'[k] = IF k = m THEN r ELSE data[k]
                        /\ data'[k] \in Peer /\ data'[k].fd = data[k].fd
                        /\ data'[k].out = IF k = m THEN Tail(data[k].out) ELSE data[k].out
      OBVIOUS
    <2>1. data'[k] = IF k = m THEN r ELSE data[k]
      BY <1>a
    <2>2. data[k] \in Peer
      BY <1>1
    <2>3. CASE k = m
      BY <2>1, <2>3, <1>b DEF o
    <2>4. CASE k # m
      BY <2>1, <2>2, <2>4
    <2> QED
      BY <2>3, <2>4
  <1>3. data' \in Seq(Peer) /\ Len(data') = Len(data)
    BY <1>a, <1>b
  <1> DEFINE e == data'
  <1> HIDE DEF e
  <1>4. /\ Distinct(e) /\ EndsIn(e) = EndsIn(data)
        /\ \A k \in 1..Len(data) : OutIn(e, data[k].fd) = e[k].out
        /\ \A x \in End : x \notin EndsIn(data) => OutIn(e, x) = OutIn(data, x)
    <2>1. e \in Seq(Peer) /\ Len(e) = Len(data) /\ \A k \in 1..Len(data) : e[k].fd = data[k].fd
      BY <1>2, <1>3 DEF e
    <2> QED
      BY <2>1, Rewritten
  <1>5. ASSUME NEW x \in End, x \in EndsIn(data)
        PROVE  OutIn(e, x) = IF x = data[m].fd THEN Tail(OutIn(data, x)) ELSE OutIn(data, x)
    <2>1. PICK k \in 1..Len(data) : data[k].fd = x
      BY <1>5 DEF EndsIn
    <2>2. OutIn(data, x) = data[k].out /\ OutIn(e, x) = data'[k].out
      BY <2>1, <1>4, OutAt DEF e
    <2>3. k = m <=> x = data[m].fd
      BY <2>1 DEF Distinct
    <2> QED
      BY <1>2, <2>2, <2>3
  <1>6. data[m].fd \in EndsIn(data)
    BY OutAt
  <1> QED
    BY <1>2, <1>3, <1>4, <1>5, <1>6 DEF e

-----------------------------------------------------------------------------
(* The invariant, part by part.                                            *)

Entry == [fd : End \cup {Listener, Stdin}, revents : SUBSET Events]

LineTypes ==
    /\ log' \in [Node -> Seq(Piece)] /\ typed' \in [Node -> Nat] /\ input' \in Seq(Piece)

\* The pieces of a line are pieces, and as many as it has.
LEMMA LineIsText ==
    ASSUME NEW n \in Node, NEW k \in Nat, NEW len \in Nat
    PROVE  /\ Line(n, k, len) \in Seq(Piece)
           /\ Len(Line(n, k, len)) = len
           /\ \A x \in 1..len : Line(n, k, len)[x] = [src |-> n, no |-> k + x]
  <1>1. \A x \in 1..len : [src |-> n, no |-> k + x] \in Piece
    BY DEF Piece
  <1> QED
    BY <1>1 DEF Line

\* What is left of a stream when its end is closed.
LEMMA Cut ==
    ASSUME NEW s \in Seq(Piece), NEW k \in Int, 0 <= k, k <= Len(s)
    PROVE  SubSeq(s, 1, k) \in Seq(Piece) /\ Len(SubSeq(s, 1, k)) = k
  OBVIOUS

\* The two ends of a connection.
LEMMA BothEnds ==
    ASSUME NEW e \in End
    PROVE  /\ Far(e) \in End /\ Far(e) # e /\ Far(Far(e)) = e /\ Far(e).by = e.by
           /\ e.by \in Node /\ e.side \in {"dial", "accept"}
           /\ e.side = "dial" => Far(e) = AcceptEnd(e.by) /\ e = DialEnd(e.by)
           /\ e.side = "accept" => Far(e) = DialEnd(e.by) /\ e = AcceptEnd(e.by)
  BY DEF End, Far, DialEnd, AcceptEnd

LEMMA EndsOf ==
    ASSUME NEW n \in Node
    PROVE  /\ DialEnd(n) \in End /\ AcceptEnd(n) \in End /\ DialEnd(n) # AcceptEnd(n)
           /\ DialEnd(n).by = n /\ AcceptEnd(n).by = n
           /\ DialEnd(n).side = "dial" /\ AcceptEnd(n).side = "accept"
           /\ Far(DialEnd(n)) = AcceptEnd(n) /\ Far(AcceptEnd(n)) = DialEnd(n)
  BY DEF End, DialEnd, AcceptEnd, Far

\* What the proofs need of the types of the state.
LEMMA Basics ==
    ASSUME IInv
    PROVE  /\ Self \in Node /\ Self \notin Other /\ Other \subseteq Node /\ Other = Node \ {Self}
           /\ None \notin Node /\ SockBuf \in Nat \ {0} /\ LineLen \in Nat \ {0}
           /\ data \in Seq(Peer) /\ Distinct(data) /\ queue \in Seq(End)
           /\ sock \in [End -> Seq(Piece)] /\ outs \in [End -> Seq(Piece)]
           /\ Conns \subseteq End /\ ToSet(queue) \subseteq End
           /\ holds \subseteq End /\ hears \subseteq End
  <1>1. data \in Seq(Peer) /\ Distinct(data) /\ queue \in Seq(End)
    BY DEF IInv, TypeOK, Slots, Peer
  <1>2. Conns \subseteq End
    BY <1>1, OutType DEF Conns
  <1>3. ToSet(queue) \subseteq End
    BY <1>1 DEF ToSet
  <1> QED
    BY <1>1, <1>2, <1>3, LoopAssumption DEF IInv, TypeOK, Other

\* The peer that is served.
LEMMA Served ==
    ASSUME IInv, pc \in {"read", "write"}
    PROVE  /\ j \in 1..Len(data) /\ Fd \in End /\ Fd \in Conns /\ Far(Fd) \in End
           /\ data[j].out \in Seq(Piece) /\ OutOf(Fd) = data[j].out
  <1>1. j \in 1..Len(data)
    BY DEF IInv, TypeOK, Indices
  <1> QED
    BY <1>1, Basics, OutAt, BothEnds DEF Fd, Conns, OutOf

\* The slots keep their connections, whatever becomes of the buffers.
SameSlots ==
    /\ data' \in Seq(Peer) /\ Distinct(data')
    /\ Len(data') = Len(data) /\ \A k \in 1..Len(data) : data'[k].fd = data[k].fd
    /\ EndsIn(data') = EndsIn(data)

\* Text that is queued or written leaves the slots as they are.
LEMMA SlotsStay ==
    ASSUME IInv, ReadStdin \/ StdinEof \/ StdinHup \/ ReadPeer \/ WritePeer
    PROVE  SameSlots
  <1>1. data \in Seq(Peer) /\ Distinct(data)
    BY DEF IInv, TypeOK, Slots, Peer
  <1>2. ASSUME NEW ps \in Seq(Piece), SendLine(ps) PROVE SameSlots
    BY <1>1, <1>2, Sent, 0 \in 0..Len(data) DEF SendLine, SameSlots
  <1>3. CASE UNCHANGED data
    BY <1>1, <1>3 DEF SameSlots
  <1>4. CASE ReadStdin
    <2>1. CASE SendLine(Append(input, Head(pipe)))
      <3>1. Append(input, Head(pipe)) \in Seq(Piece)
        BY <1>4 DEF IInv, TypeOK, ReadStdin
      <3> QED
        BY <2>1, <3>1, <1>2
    <2> QED
      BY <1>3, <1>4, <2>1 DEF ReadStdin
  <1>5. CASE StdinEof \/ StdinHup
    <2>1. input \in Seq(Piece)
      BY DEF IInv, TypeOK
    <2> QED
      BY <1>2, <1>3, <1>5, <2>1 DEF StdinEof, StdinHup, HandleRemaining
  <1>6. CASE ReadPeer
    <2> DEFINE ps == <<Head(sock[Far(Fd)])>>
    <2>1. pc = "read" /\ sock[Far(Fd)] # <<>> /\ SendPeers(j, ps)
      BY <1>6 DEF ReadPeer, ReadPeerFrom
    <2>2. j \in 1..Len(data) /\ Far(Fd) \in End
      BY <2>1, Served
    <2>3. ps \in Seq(Piece)
      <3>1. sock[Far(Fd)] \in Seq(Piece)
        BY <2>2, Basics
      <3> QED
        BY <3>1, <2>1
    <2> HIDE DEF ps
    <2> QED
      BY <1>1, <2>1, <2>2, <2>3, Sent, j \in 0..Len(data) DEF SameSlots
  <1>7. CASE WritePeer
    <2>1. j \in 1..Len(data) /\ data[j].out # <<>> /\ data' = [data EXCEPT ![j].out = Tail(@)]
      BY <1>7 DEF IInv, TypeOK, Indices, WritePeer, Flushing
    <2> QED
      BY <1>1, <2>1, Shortened DEF SameSlots
  <1> QED
    BY <1>4, <1>5, <1>6, <1>7

\* What the others queue is text.
LEMMA SendsText ==
    ASSUME IInv, NEW c, NEW skip, NEW ps \in Seq(Piece), OtherSends(c, skip, ps)
    PROVE  outs' \in [End -> Seq(Piece)]
  BY Basics DEF OtherSends

\* The others close ends of theirs: what is kept of a stream is a first part.
LEMMA ClosesType ==
    ASSUME IInv, NEW es, OtherCloses(es)
    PROVE  /\ sock' \in [End -> Seq(Piece)] /\ outs' \in [End -> Seq(Piece)]
           /\ \A e \in End : Len(sock'[e]) <= Len(sock[e])
           /\ holds' \subseteq holds /\ hears' \subseteq hears
           /\ UNCHANGED <<loop, user, queue, reset, remote, typed, log, anc>>
  <1>1. PICK keep \in [holds \cap es -> 0..SockBuf] :
          /\ \A e \in holds \cap es : keep[e] <= Len(sock[e])
          /\ sock' = [e \in End |-> IF e \in holds \cap es THEN SubSeq(sock[e], 1, keep[e])
                                    ELSE sock[e]]
    BY DEF OtherCloses
  <1>2. ASSUME NEW e \in End PROVE sock'[e] \in Seq(Piece) /\ Len(sock'[e]) <= Len(sock[e])
    <2>1. sock[e] \in Seq(Piece)
      BY Basics
    <2>2. CASE e \in holds \cap es
      <3>1. keep[e] \in Int /\ 0 <= keep[e] /\ keep[e] <= Len(sock[e])
        BY <1>1, <2>2, Basics
      <3>2. sock'[e] = SubSeq(sock[e], 1, keep[e])
        BY <1>1, <2>2
      <3> QED
        BY <2>1, <3>1, <3>2, Cut
    <2>3. CASE e \notin holds \cap es
      BY <1>1, <2>1, <2>3
    <2> QED
      BY <2>2, <2>3
  <1>3. sock' \in [End -> Seq(Piece)]
    <2>1. sock' = [e \in End |-> sock'[e]]
      BY <1>1
    <2> QED
      BY <1>2, <2>1
  <1>4. outs' \in [End -> Seq(Piece)]
    BY Basics DEF OtherCloses
  <1> QED
    BY <1>2, <1>3, <1>4 DEF OtherCloses

\* So is what is kept of the loop's streams when it is left.
LEMMA StopsType ==
    ASSUME IInv, Shutdown
    PROVE  sock' \in [End -> Seq(Piece)] /\ \A e \in End : Len(sock'[e]) <= Len(sock[e])
  <1>1. PICK keep \in [Conns -> 0..SockBuf] :
          /\ \A e \in Conns : keep[e] <= Len(sock[e])
          /\ sock' = [e \in End |-> IF e \in Conns THEN SubSeq(sock[e], 1, keep[e]) ELSE sock[e]]
    BY DEF Shutdown
  <1>2. ASSUME NEW e \in End PROVE sock'[e] \in Seq(Piece) /\ Len(sock'[e]) <= Len(sock[e])
    <2>1. sock[e] \in Seq(Piece)
      BY Basics
    <2>2. CASE e \in Conns
      <3>1. keep[e] \in Int /\ 0 <= keep[e] /\ keep[e] <= Len(sock[e])
        BY <1>1, <2>2, Basics
      <3>2. sock'[e] = SubSeq(sock[e], 1, keep[e])
        BY <1>1, <2>2
      <3> QED
        BY <2>1, <3>1, <3>2, Cut
    <2>3. CASE e \notin Conns
      BY <1>1, <2>1, <2>3
    <2> QED
      BY <2>2, <2>3
  <1>3. sock' = [e \in End |-> sock'[e]]
    BY <1>1
  <1> QED
    BY <1>2, <1>3

Stops == TimesOut \/ StdoutFails

\* The types of the state.
LEMMA TypesKept ==
    ASSUME IInv, Next
    PROVE  TypeOK' /\ NetTypes'
  <1>a. UNCHANGED plan
    BY DEF Next
  <1>b. TypeOK /\ NetTypes
    BY DEF IInv
  <1>c. data \in Seq(Peer) /\ Distinct(data) /\ Self \in Node /\ Other \subseteq Node
    BY Basics
  <1>d. ASSUME NEW ps \in Seq(Piece), SendLine(ps) PROVE LineTypes
    <2>1. Len(ps) \in Nat /\ <<>> \in Seq(Piece)
      OBVIOUS
    <2>2. log' = [log EXCEPT ![Self] = @ \o ps] /\ typed' = [typed EXCEPT ![Self] = @ + Len(ps)]
          /\ input' = <<>>
      BY <1>d DEF SendLine
    <2> QED
      BY <1>b, <1>c, <2>1, <2>2 DEF NetTypes, LineTypes
  <1>e. ASSUME NEW c \in Node, NEW r \in Node, Joins(c, r)
        PROVE  remote' \in [Node -> Node \cup {None}] /\ anc' \in [Node -> SUBSET Node]
    <2>1. remote' = [remote EXCEPT ![c] = r]
          /\ anc' = [m \in Node |-> IF c \in anc[m] THEN anc[m] \cup anc[r] ELSE anc[m]]
      BY <1>e DEF Joins
    <2> QED
      BY <1>b, <2>1 DEF NetTypes
  <1>1. CASE Listen
    BY <1>1, <1>a, <1>b, <1>c DEF TypeOK, NetTypes, Listen, loop, user, conns, net
  <1>2. CASE StartAlone
    BY <1>2, <1>a, <1>b, <1>c DEF TypeOK, NetTypes, StartAlone, loop, user, conns, net
  <1>3. CASE StartFails
    BY <1>3, <1>a, <1>b, <1>c DEF TypeOK, NetTypes, StartFails, loop, user, conns, net
  <1>4. ASSUME NEW r \in Node, StartDial(r) PROVE TypeOK' /\ NetTypes'
    <2>1. Joins(Self, r) /\ pc' = "poll" /\ status' = [status EXCEPT ![Self] = "up"]
          /\ data' = <<[fd |-> DialEnd(Self), out |-> <<>>]>>
          /\ queue' = (IF r = Self THEN Append(queue, AcceptEnd(Self)) ELSE queue)
          /\ hears' = (IF r = Self THEN hears ELSE hears \cup {AcceptEnd(Self)})
          /\ UNCHANGED <<fds, i, j, revents, gone, stdinOpen, input, user,
                         sock, outs, holds, reset, typed, log>>
      BY <1>4 DEF StartDial
    <2>2. DialEnd(Self) \in End /\ AcceptEnd(Self) \in End
      BY <1>c, EndsOf
    <2>3. data' \in Seq([fd : End, out : Seq(Piece)])
      <3>1. [fd |-> DialEnd(Self), out |-> <<>>] \in [fd : End, out : Seq(Piece)]
        BY <2>2
      <3> DEFINE p == [fd |-> DialEnd(Self), out |-> <<>>]
      <3> HIDE DEF p
      <3>2. p \in [fd : End, out : Seq(Piece)] => <<p>> \in Seq([fd : End, out : Seq(Piece)])
        OBVIOUS
      <3> QED
        BY <2>1, <3>1, <3>2 DEF p
    <2>4. queue' \in Seq(End)
      BY <1>b, <2>1, <2>2 DEF TypeOK
    <2>5. hears' \subseteq End
      BY <1>b, <2>1, <2>2 DEF TypeOK
    <2>6. remote' \in [Node -> Node \cup {None}] /\ anc' \in [Node -> SUBSET Node]
      BY <1>c, <1>e, <2>1
    <2> QED
      BY <1>a, <1>b, <1>c, <2>1, <2>3, <2>4, <2>5, <2>6 DEF TypeOK, NetTypes, user
  <1>5. CASE Stops
    <2>1. Shutdown
      BY <1>5 DEF Stops, TimesOut, StdoutFails
    <2>2. sock' \in [End -> Seq(Piece)]
      BY <2>1, StopsType
    <2>3. /\ pc' = "done" /\ status' = [status EXCEPT ![Self] = "down"]
          /\ data' = <<>> /\ queue' = <<>>
          /\ UNCHANGED <<fds, i, j, revents, gone, stdinOpen, input, user, outs,
                         holds, hears, reset, remote, typed, log, anc>>
      BY <2>1 DEF Shutdown
    <2> QED
      BY <1>a, <1>b, <1>c, <2>2, <2>3 DEF TypeOK, NetTypes, user
  <1>6. CASE Poll
    <2>1. PICK s \in StdinEvents :
            fds' = (IF stdinOpen
                    THEN <<[fd |-> Listener, revents |-> IF queue # <<>> THEN {"POLLIN"} ELSE {}],
                           [fd |-> Stdin, revents |-> s]>>
                    ELSE <<[fd |-> Listener, revents |-> IF queue # <<>> THEN {"POLLIN"} ELSE {}]>>)
                   \o [k \in 1..Len(data) |-> [fd |-> data[k].fd, revents |-> PeerEvents(data[k])]]
      BY <1>6 DEF Poll
    <2>2. s \subseteq Events
      BY <1>b DEF TypeOK, StdinEvents, Events
    <2>3. [k \in 1..Len(data) |-> [fd |-> data[k].fd, revents |-> PeerEvents(data[k])]] \in Seq(Entry)
      <3>1. ASSUME NEW k \in 1..Len(data)
            PROVE  [fd |-> data[k].fd, revents |-> PeerEvents(data[k])] \in Entry
        BY <1>c, OutAt DEF PeerEvents, Entry
      <3> QED
        BY <3>1, <1>c
    <2>4. [fd |-> Listener, revents |-> IF queue # <<>> THEN {"POLLIN"} ELSE {}] \in Entry
          /\ [fd |-> Stdin, revents |-> s] \in Entry
      BY <2>2 DEF Entry, Events
    <2>5. fds' \in Seq(Entry)
      BY <2>1, <2>3, <2>4
    <2>6. pc' = "accept" /\ i' = 1
          /\ UNCHANGED <<data, j, revents, gone, stdinOpen, input, user, conns, net>>
      BY <1>6 DEF Poll
    <2> QED
      BY <1>a, <1>b, <2>5, <2>6 DEF TypeOK, NetTypes, Entry, loop, user, conns, net
  <1>7. CASE AcceptPeer
    <2>1. Head(queue) \in End /\ Tail(queue) \in Seq(End)
      BY <1>7, <1>b DEF TypeOK, AcceptPeer
    <2>2. [fd |-> Head(queue), out |-> <<>>] \in Peer
      BY <2>1 DEF Peer
    <2>3. data' \in Seq(Peer)
      BY <1>7, <1>c, <2>2 DEF AcceptPeer
    <2>4. queue' = Tail(queue)
          /\ UNCHANGED <<pc, fds, i, j, revents, gone, stdinOpen, input, user,
                         sock, outs, holds, hears, reset, net>>
      BY <1>7 DEF AcceptPeer
    <2> QED
      BY <1>a, <1>b, <2>1, <2>3, <2>4 DEF TypeOK, NetTypes, Peer, user, net
  <1>8. CASE AcceptDone
    <2>1. i' = i + 1 /\ pc' \in {"stdin", "serve"} /\ j' = 1
          /\ UNCHANGED <<data, fds, revents, gone, stdinOpen, input, user, conns, net>>
      BY <1>8 DEF AcceptDone
    <2> QED
      BY <1>a, <1>b, <2>1 DEF TypeOK, NetTypes, user, conns, net
  <1>9. CASE ReadStdin
    <2>1. Head(pipe) \in Piece /\ Tail(pipe) \in Seq(Piece) /\ Append(input, Head(pipe)) \in Seq(Piece)
      BY <1>9, <1>b DEF TypeOK, ReadStdin
    <2>2. LineTypes
      <3>1. CASE SendLine(Append(input, Head(pipe)))
        BY <3>1, <2>1, <1>d
      <3>2. CASE input' = Append(input, Head(pipe)) /\ UNCHANGED <<data, log, typed>>
        BY <3>2, <2>1, <1>b DEF TypeOK, NetTypes, LineTypes
      <3> QED
        BY <1>9, <3>1, <3>2 DEF ReadStdin
    <2>3. pipe' = Tail(pipe)
          /\ UNCHANGED <<pc, fds, i, j, revents, gone, stdinOpen, pipeOpen, conns, status, remote, anc>>
      BY <1>9 DEF ReadStdin
    <2>4. data' \in Seq(Peer)
      BY <1>9, SlotsStay DEF SameSlots
    <2> QED
      BY <1>a, <1>b, <2>1, <2>2, <2>3, <2>4 DEF TypeOK, NetTypes, LineTypes, Peer, conns
  <1>10. CASE StdinEof
    <2>1. LineTypes
      BY <1>10, <1>b, <1>d DEF StdinEof, HandleRemaining, TypeOK, NetTypes, LineTypes
    <2>2. pc' = "hup" /\ stdinOpen' \in BOOLEAN
          /\ UNCHANGED <<fds, i, j, revents, gone, user, conns, status, remote, anc>>
      BY <1>10, <1>b DEF StdinEof, TypeOK
    <2>3. data' \in Seq(Peer)
      BY <1>10, SlotsStay DEF SameSlots
    <2> QED
      BY <1>a, <1>b, <2>1, <2>2, <2>3 DEF TypeOK, NetTypes, LineTypes, Peer, user, conns
  <1>11. CASE StdinEmpty
    BY <1>11, <1>a, <1>b, <1>c DEF TypeOK, NetTypes, StdinEmpty, loop, user, conns, net
  <1>12. CASE StdinFails
    BY <1>12, <1>a, <1>b, <1>c DEF TypeOK, NetTypes, StdinFails, loop, user, conns, net
  <1>13. CASE StdinHup
    <2>1. LineTypes
      BY <1>13, <1>b, <1>d DEF StdinHup, HandleRemaining, TypeOK, NetTypes, LineTypes
    <2>2. pc' = "serve" /\ stdinOpen' \in BOOLEAN /\ i' = i + 1
          /\ UNCHANGED <<fds, j, revents, gone, user, conns, status, remote, anc>>
      BY <1>13, <1>b DEF StdinHup, TypeOK
    <2>3. data' \in Seq(Peer)
      BY <1>13, SlotsStay DEF SameSlots
    <2> QED
      BY <1>a, <1>b, <2>1, <2>2, <2>3 DEF TypeOK, NetTypes, LineTypes, Peer, user, conns
  <1>14. CASE NextPeer
    <2>1. revents' \subseteq Events
      <3>1. i \in Nat /\ i >= 1
        BY DEF IInv, TypeOK, Indices
      <3>2. CASE i <= Len(fds)
        <4>1. revents' = fds[i].revents
          BY <1>14, <3>2 DEF NextPeer
        <4>2. fds \in Seq(Entry)
          BY <1>b DEF TypeOK, Entry
        <4>3. fds[i] \in Entry
          BY <3>1, <3>2, <4>2
        <4> QED
          BY <4>1, <4>3 DEF Entry
      <3>3. CASE ~(i <= Len(fds))
        BY <1>14, <3>3 DEF NextPeer
      <3> QED
        BY <3>2, <3>3
    <2>2. gone' = FALSE /\ pc' = "read"
          /\ UNCHANGED <<data, fds, i, j, stdinOpen, input, user, conns, net>>
      BY <1>14 DEF NextPeer
    <2> QED
      BY <1>a, <1>b, <2>1, <2>2 DEF TypeOK, NetTypes, user, conns, net
  <1>15. CASE RoundDone
    BY <1>15, <1>a, <1>b, <1>c DEF TypeOK, NetTypes, RoundDone, loop, user, conns, net
  <1>16. CASE ReadPeer
    <2>1. Far(Fd) \in End /\ sock[Far(Fd)] # <<>>
      BY <1>16, Served DEF ReadPeer, ReadPeerFrom
    <2>2. Head(sock[Far(Fd)]) \in Piece /\ Tail(sock[Far(Fd)]) \in Seq(Piece)
      <3>1. sock[Far(Fd)] \in Seq(Piece)
        BY <1>b, <2>1 DEF TypeOK
      <3> QED
        BY <2>1, <3>1
    <2>3. data' \in Seq(Peer)
      BY <1>16, SlotsStay DEF SameSlots
    <2>4. /\ sock' = [sock EXCEPT ![Far(Fd)] = Tail(@)]
          /\ log' = [log EXCEPT ![Self] = Append(@, Head(sock[Far(Fd)]))]
          /\ UNCHANGED <<pc, fds, i, j, revents, gone, stdinOpen, input, user,
                         queue, outs, holds, hears, reset, status, remote, typed, anc>>
      BY <1>16 DEF ReadPeer, ReadPeerFrom
    <2>5. sock' \in [End -> Seq(Piece)]
      BY <1>b, <2>1, <2>2, <2>4 DEF TypeOK
    <2>6. log' \in [Node -> Seq(Piece)]
      BY <1>b, <1>c, <2>2, <2>4 DEF NetTypes
    <2> QED
      BY <1>a, <1>b, <2>3, <2>4, <2>5, <2>6 DEF TypeOK, NetTypes, Peer, user
  <1>17. CASE ReadDone
    BY <1>17, <1>a, <1>b, <1>c DEF TypeOK, NetTypes, ReadDone, loop, user, conns, net
  <1>18. CASE WritePeer
    <2>1. /\ sock' = [sock EXCEPT ![Fd] = Append(@, Head(data[j].out))] /\ data[j].out # <<>>
          /\ pc = "write" /\ UNCHANGED <<pc, fds, i, j, revents, gone, stdinOpen, input, user,
                                         queue, outs, holds, hears, reset, net>>
      BY <1>18 DEF WritePeer, Flushing
    <2>2. Fd \in End /\ Head(data[j].out) \in Piece
      BY <2>1, Served
    <2>3. data' \in Seq(Peer)
      BY <1>18, SlotsStay DEF SameSlots
    <2>4. sock' \in [End -> Seq(Piece)]
      BY <1>b, <2>1, <2>2 DEF TypeOK
    <2> QED
      BY <1>a, <1>b, <2>1, <2>3, <2>4 DEF TypeOK, NetTypes, Peer, user, net
  <1>19. CASE KeepPeer
    BY <1>19, <1>a, <1>b, <1>c DEF TypeOK, NetTypes, KeepPeer, WriteDone, loop, user, conns, net
  <1>20. CASE RemovePeer
    <2>1. pc = "write"
      BY <1>20 DEF RemovePeer, WriteDone
    <2>2. Fd \in End /\ j \in 1..Len(data)
      BY <2>1, Served
    <2>3. data' \in Seq(Peer)
      BY <1>20, <1>c, <2>2, Removed DEF RemovePeer
    <2>4. PICK k \in 0..Len(sock[Fd]) : sock' = [sock EXCEPT ![Fd] = SubSeq(@, 1, k)]
      BY <1>20 DEF RemovePeer
    <2>5. sock' \in [End -> Seq(Piece)]
      <3>1. sock[Fd] \in Seq(Piece)
        BY <1>b, <2>2 DEF TypeOK
      <3>2. SubSeq(sock[Fd], 1, k) \in Seq(Piece)
        BY <3>1, Cut
      <3> QED
        BY <1>b, <2>2, <2>4, <3>2 DEF TypeOK
    <2>6. /\ pc' = "serve" /\ revents' = {} /\ gone' = FALSE
          /\ UNCHANGED <<fds, i, j, stdinOpen, input, user,
                         queue, outs, holds, hears, reset, net>>
      BY <1>20 DEF RemovePeer
    <2> QED
      BY <1>a, <1>b, <2>3, <2>5, <2>6 DEF TypeOK, NetTypes, Peer, user, net
  <1>21. CASE UserTypes
    <2>1. typed[Self] + Len(input) + Len(pipe) + 1 \in Nat
      BY <1>b, <1>c DEF TypeOK, NetTypes
    <2>2. [src |-> Self, no |-> typed[Self] + Len(input) + Len(pipe) + 1] \in Piece
      BY <2>1, <1>c DEF Piece
    <2>3. pipe' \in Seq(Piece) /\ UNCHANGED <<loop, pipeOpen, conns, net>>
      BY <1>21, <1>b, <2>2 DEF UserTypes, TypeOK
    <2> QED
      BY <1>a, <1>b, <2>3 DEF TypeOK, NetTypes, loop, conns, net
  <1>22. CASE UserEnds
    BY <1>22, <1>a, <1>b, <1>c DEF TypeOK, NetTypes, UserEnds, loop, user, conns, net
  <1>23. ASSUME NEW c \in Other, OtherListens(c) PROVE TypeOK' /\ NetTypes'
    BY <1>23, <1>a, <1>b, <1>c DEF TypeOK, NetTypes, OtherListens, loop, user, conns, net
  <1>24. ASSUME NEW c \in Other, OtherStarts(c) PROVE TypeOK' /\ NetTypes'
    BY <1>24, <1>a, <1>b, <1>c DEF TypeOK, NetTypes, OtherStarts, loop, user, conns, net
  <1>25. ASSUME NEW c \in Other, OtherDials(c) PROVE TypeOK' /\ NetTypes'
    <2>1. /\ Joins(c, Self) /\ status' = [status EXCEPT ![c] = "up"]
          /\ holds' = holds \cup {DialEnd(c)} /\ queue' = Append(queue, AcceptEnd(c))
          /\ UNCHANGED <<loop, user, sock, outs, hears, reset, typed, log>>
      BY <1>25 DEF OtherDials
    <2>2. DialEnd(c) \in End /\ AcceptEnd(c) \in End /\ c \in Node
      BY <1>c, EndsOf
    <2>3. queue' \in Seq(End) /\ holds' \subseteq End
      BY <1>b, <2>1, <2>2 DEF TypeOK
    <2>4. remote' \in [Node -> Node \cup {None}] /\ anc' \in [Node -> SUBSET Node]
      BY <1>c, <1>e, <2>1, <2>2
    <2> QED
      BY <1>a, <1>b, <2>1, <2>2, <2>3, <2>4 DEF TypeOK, NetTypes, loop, user
  <1>26. ASSUME NEW c \in Other, OtherTypes(c) PROVE TypeOK' /\ NetTypes'
    <2>1. PICK len \in 1..LineLen :
            /\ typed' = [typed EXCEPT ![c] = @ + len]
            /\ log' = [log EXCEPT ![c] = @ \o Line(c, typed[c], len)]
            /\ OtherSends(c, {}, Line(c, typed[c], len))
      BY <1>26 DEF OtherTypes
    <2>2. typed[c] \in Nat /\ len \in Nat /\ c \in Node
      BY <1>b, <1>c, Basics DEF NetTypes
    <2>3. Line(c, typed[c], len) \in Seq(Piece)
      BY <2>2, LineIsText
    <2>4. typed' \in [Node -> Nat] /\ log' \in [Node -> Seq(Piece)]
      BY <1>b, <2>1, <2>2, <2>3 DEF NetTypes
    <2>5. outs' \in [End -> Seq(Piece)]
      BY <2>1, <2>3, SendsText
    <2>6. UNCHANGED <<loop, user, queue, sock, holds, hears, reset, status, remote, anc>>
      BY <1>26 DEF OtherTypes
    <2> QED
      BY <1>a, <1>b, <2>4, <2>5, <2>6 DEF TypeOK, NetTypes, loop, user
  <1>27. ASSUME NEW c \in Other, OtherExits(c) PROVE TypeOK' /\ NetTypes'
    <2>1. OtherCloses({e \in holds \cup hears : At(e) = c}) /\ status' = [status EXCEPT ![c] = "down"]
      BY <1>27 DEF OtherExits
    <2> DEFINE es == {e \in holds \cup hears : At(e) = c}
    <2> HIDE DEF es
    <2>2. /\ sock' \in [End -> Seq(Piece)] /\ outs' \in [End -> Seq(Piece)]
          /\ holds' \subseteq holds /\ hears' \subseteq hears
          /\ UNCHANGED <<loop, user, queue, reset, remote, typed, log, anc>>
      BY <2>1, ClosesType DEF es
    <2>3. status' \in [Node -> {"off", "listening", "up", "down"}]
      BY <1>b, <1>c, <2>1 DEF NetTypes
    <2> QED
      BY <1>a, <1>b, <2>2, <2>3 DEF TypeOK, NetTypes, loop, user
  <1>28. ASSUME NEW e \in End, OtherAccepts(e) PROVE TypeOK' /\ NetTypes'
    BY <1>28, <1>a, <1>b, <1>c DEF TypeOK, NetTypes, OtherAccepts, loop, user, conns, net
  <1>29. ASSUME NEW e \in End, OtherWrites(e) PROVE TypeOK' /\ NetTypes'
    <2>1. /\ outs[e] # <<>> /\ sock' = [sock EXCEPT ![e] = Append(@, Head(outs[e]))]
          /\ outs' = [outs EXCEPT ![e] = Tail(@)]
          /\ UNCHANGED <<loop, user, queue, holds, hears, reset, net>>
      BY <1>29 DEF OtherWrites
    <2>2. outs[e] \in Seq(Piece)
      BY <1>b DEF TypeOK
    <2>3. Head(outs[e]) \in Piece /\ Tail(outs[e]) \in Seq(Piece)
      BY <2>1, <2>2
    <2>4. sock' \in [End -> Seq(Piece)] /\ outs' \in [End -> Seq(Piece)]
      BY <1>b, <2>1, <2>3 DEF TypeOK
    <2> QED
      BY <1>a, <1>b, <2>1, <2>4 DEF TypeOK, NetTypes, loop, user, net
  <1>30. ASSUME NEW e \in End, OtherReads(e) PROVE TypeOK' /\ NetTypes'
    <2>1. /\ e \in holds /\ sock[Far(e)] # <<>>
          /\ sock' = [sock EXCEPT ![Far(e)] = Tail(@)]
          /\ log' = [log EXCEPT ![At(e)] = Append(@, Head(sock[Far(e)]))]
          /\ OtherSends(At(e), {e}, <<Head(sock[Far(e)])>>)
          /\ UNCHANGED <<loop, user, queue, holds, hears, reset, status, remote, typed, anc>>
      BY <1>30 DEF OtherReads
    <2>2. Far(e) \in End
      BY BothEnds
    <2>3. sock[Far(e)] \in Seq(Piece)
      BY <1>b, <2>2 DEF TypeOK
    <2>4. Head(sock[Far(e)]) \in Piece /\ Tail(sock[Far(e)]) \in Seq(Piece)
      BY <2>1, <2>3
    <2>5. sock' \in [End -> Seq(Piece)]
      BY <1>b, <2>1, <2>2, <2>4 DEF TypeOK
    <2>6. outs' \in [End -> Seq(Piece)]
      <3> DEFINE ps == <<Head(sock[Far(e)])>>
      <3>1. ps \in Seq(Piece)
        BY <2>4
      <3>2. OtherSends(At(e), {e}, ps)
        BY <2>1
      <3> HIDE DEF ps
      <3> QED
        BY <3>1, <3>2, SendsText
    <2>7. log' \in [Node -> Seq(Piece)]
      <3>1. At(e) \in Node
        BY <1>c, <2>1 DEF IInv, Ends
      <3> QED
        BY <1>b, <2>1, <2>4, <3>1 DEF NetTypes
    <2> QED
      BY <1>a, <1>b, <2>1, <2>5, <2>6, <2>7 DEF TypeOK, NetTypes, loop, user
  <1>31. ASSUME NEW e \in End, OtherDrops(e) PROVE TypeOK' /\ NetTypes'
    <2>1. OtherCloses({e}) /\ UNCHANGED status
      BY <1>31 DEF OtherDrops
    <2>2. /\ sock' \in [End -> Seq(Piece)] /\ outs' \in [End -> Seq(Piece)]
          /\ holds' \subseteq holds /\ hears' \subseteq hears
          /\ UNCHANGED <<loop, user, queue, reset, remote, typed, log, anc>>
      BY <2>1, ClosesType
    <2> QED
      BY <1>a, <1>b, <2>1, <2>2 DEF TypeOK, NetTypes, loop, user
  <1>32. ASSUME NEW e \in End, Resets(e) PROVE TypeOK' /\ NetTypes'
    BY <1>32, <1>a, <1>b, <1>c DEF TypeOK, NetTypes, Resets, loop, user, conns, net
  <1> QED
    BY <1>1, <1>2, <1>3, <1>4, <1>5, <1>6, <1>7, <1>8, <1>9, <1>10, <1>11, <1>12, <1>13,
       <1>14, <1>15, <1>16, <1>17, <1>18, <1>19, <1>20, <1>21, <1>22, <1>23, <1>24, <1>25,
       <1>26, <1>27, <1>28, <1>29, <1>30, <1>31, <1>32
    DEF Stops, Next, LoopNext, OthersNext
-----------------------------------------------------------------------------
(* The ends: whose they are, and where.                                    *)

\* The listen queue gives up its first connection, and takes a new one.
LEMMA QueueTail ==
    ASSUME NEW S, NEW q \in Seq(S), q # <<>>, \A k, l \in 1..Len(q) : q[k] = q[l] => k = l
    PROVE  /\ \A k, l \in 1..Len(Tail(q)) : Tail(q)[k] = Tail(q)[l] => k = l
           /\ ToSet(Tail(q)) = ToSet(q) \ {Head(q)}
  <1>1. Len(Tail(q)) = Len(q) - 1 /\ Len(q) \in Nat /\ Len(q) >= 1 /\ Head(q) = q[1]
    OBVIOUS
  <1>2. \A k \in 1..Len(Tail(q)) : Tail(q)[k] = q[k + 1] /\ k + 1 \in 1..Len(q) /\ k + 1 # 1
    BY <1>1
  <1>3. \A k, l \in 1..Len(Tail(q)) : Tail(q)[k] = Tail(q)[l] => k = l
    BY <1>2
  <1>4. \A k \in 1..Len(q) : k # 1 => k - 1 \in 1..Len(Tail(q)) /\ Tail(q)[k - 1] = q[k]
    BY <1>1, <1>2
  <1>5. 1 \in 1..Len(q)
    BY <1>1
  <1>6. ASSUME NEW x \in ToSet(Tail(q)) PROVE x \in ToSet(q) /\ x # Head(q)
    BY <1>1, <1>2, <1>5 DEF ToSet
  <1>7. ASSUME NEW x \in ToSet(q), x # Head(q) PROVE x \in ToSet(Tail(q))
    <2>1. PICK k \in 1..Len(q) : x = q[k]
      BY DEF ToSet
    <2>2. k # 1
      BY <1>1, <1>7, <2>1
    <2>3. k - 1 \in 1..Len(Tail(q)) /\ Tail(q)[k - 1] = x
      BY <1>4, <2>1, <2>2
    <2>4. DOMAIN Tail(q) = 1..Len(Tail(q))
      OBVIOUS
    <2> QED
      BY <2>3, <2>4 DEF ToSet
  <1> QED
    BY <1>3, <1>6, <1>7

\* A process that dials comes last among those that wait.
LEMMA QueueAppend ==
    ASSUME NEW S, NEW q \in Seq(S), NEW c \in S, c \notin ToSet(q),
           \A k, l \in 1..Len(q) : q[k] = q[l] => k = l
    PROVE  /\ \A k, l \in 1..Len(Append(q, c)) : Append(q, c)[k] = Append(q, c)[l] => k = l
           /\ ToSet(Append(q, c)) = ToSet(q) \cup {c}
  <1> DEFINE r == Append(q, c)
  <1>1. Len(r) = Len(q) + 1 /\ Len(q) \in Nat /\ r[Len(q) + 1] = c /\ \A k \in 1..Len(q) : r[k] = q[k]
    OBVIOUS
  <1>2. \A k \in 1..Len(q) : q[k] # c
    BY DEF ToSet
  <1> HIDE DEF r
  <1>3. \A k, l \in 1..Len(r) : r[k] = r[l] => k = l
    BY <1>1, <1>2
  <1>4. ToSet(r) = ToSet(q) \cup {c}
    BY <1>1 DEF ToSet
  <1> QED
    BY <1>3, <1>4 DEF r

\* Steps that leave the connections as they are.
Quiet ==
    \/ Poll \/ AcceptDone \/ ReadStdin \/ StdinEof \/ StdinEmpty \/ StdinFails \/ StdinHup
    \/ NextPeer \/ RoundDone \/ ReadDone \/ KeepPeer \/ UserTypes \/ UserEnds

Still == SameSlots /\ UNCHANGED <<conns, status, remote, anc>>

LEMMA QuietSteps ==
    ASSUME IInv, Quiet
    PROVE  Still
  <1>1. CASE ReadStdin \/ StdinEof \/ StdinHup
    <2>1. SameSlots
      BY <1>1, SlotsStay
    <2>2. UNCHANGED <<conns, status, remote, anc>>
      BY <1>1 DEF ReadStdin, StdinEof, StdinHup
    <2> QED
      BY <2>1, <2>2 DEF Still
  <1>2. CASE ~(ReadStdin \/ StdinEof \/ StdinHup)
    <2>1. UNCHANGED data /\ UNCHANGED <<conns, status, remote, anc>>
      BY <1>2 DEF Quiet, Poll, AcceptDone, StdinEmpty, StdinFails, NextPeer, RoundDone, ReadDone,
                  KeepPeer, WriteDone, UserTypes, UserEnds, loop, net
    <2>2. SameSlots
      BY <2>1, Basics DEF SameSlots
    <2> QED
      BY <2>1, <2>2 DEF Still
  <1> QED
    BY <1>1, <1>2

\* What leaving the loop does.
LEMMA StopSteps ==
    ASSUME Stops
    PROVE  /\ pc \in {"poll", "read"} /\ pc' = "done" /\ Shutdown
           /\ data' = <<>> /\ queue' = <<>> /\ EndsIn(data') = {} /\ ToSet(queue') = {}
           /\ status' = [status EXCEPT ![Self] = "down"]
           /\ UNCHANGED <<outs, holds, hears, reset, remote, anc>>
  BY DEF Stops, TimesOut, StdoutFails, Shutdown, EndsIn, ToSet

\* A process that has not dialled has no connection of its own.
LEMMA Fresh ==
    ASSUME IInv, NEW e \in End, remote[e.by] = None
    PROVE  /\ e \notin Conns \cup ToSet(queue) /\ e \notin holds \cup hears
           /\ e \notin reset /\ sock[e] = <<>> /\ outs[e] = <<>>
  BY DEF IInv, Ends, Started, Judged

\* What a dial of n to r does to the ends.
LEMMA Dialled ==
    ASSUME IInv, NEW n \in Node, NEW r \in Node, Joins(n, r), remote[n] = None
    PROVE  /\ remote'[n] = r /\ \A m \in Node : m # n => remote'[m] = remote[m]
           /\ At(DialEnd(n))' = n /\ At(AcceptEnd(n))' = r
           /\ \A e \in End : e.by # n => At(e)' = At(e)
           /\ \A e \in End : remote[e.by] # None => e.by # n
  <1>1. remote \in [Node -> Node \cup {None}]
    BY DEF IInv, NetTypes
  <1>2. remote' = [remote EXCEPT ![n] = r]
    BY DEF Joins
  <1>3. remote'[n] = r /\ \A m \in Node : m # n => remote'[m] = remote[m]
    BY <1>1, <1>2
  <1>4. \A e \in End : e.by \in Node
    BY DEF End
  <1> QED
    BY <1>3, <1>4 DEF At, DialEnd, AcceptEnd

\* accept: the first of the queue becomes a peer.
LEMMA Accepted ==
    ASSUME IInv, AcceptPeer
    PROVE  /\ Head(queue) \in End /\ Head(queue) \in ToSet(queue)
           /\ Distinct(data') /\ EndsIn(data') = EndsIn(data) \cup {Head(queue)}
           /\ \A k, l \in 1..Len(queue') : queue'[k] = queue'[l] => k = l
           /\ ToSet(queue') = ToSet(queue) \ {Head(queue)}
           /\ pc = "accept"
           /\ UNCHANGED <<pc, i, j, revents, gone, stdinOpen, input, user, fds,
                          sock, outs, holds, hears, reset, status, remote, anc>>
           /\ \A e \in End : OutIn(data', e) = OutIn(data, e)
  <1>1. /\ queue # <<>> /\ queue' = Tail(queue) /\ pc = "accept"
        /\ data' = Append(data, [fd |-> Head(queue), out |-> <<>>])
        /\ UNCHANGED <<pc, i, j, revents, gone, stdinOpen, input, user, fds,
                       sock, outs, holds, hears, reset, status, remote, anc>>
    BY DEF AcceptPeer, net
  <1>2. queue \in Seq(End) /\ data \in Seq(Peer) /\ Distinct(data)
    BY Basics
  <1>3. Head(queue) \in ToSet(queue) /\ Head(queue) \in End
    BY <1>1, <1>2 DEF ToSet
  <1>4. Head(queue) \notin EndsIn(data)
    BY <1>3 DEF IInv, Slots, Conns
  <1>5. /\ Distinct(data') /\ EndsIn(data') = EndsIn(data) \cup {Head(queue)}
        /\ \A e \in End : OutIn(data', e) = OutIn(data, e)
    BY <1>1, <1>2, <1>3, <1>4, Appended
  <1>6. \A k, l \in 1..Len(queue) : queue[k] = queue[l] => k = l
    BY DEF IInv, Slots
  <1>7. /\ \A k, l \in 1..Len(queue') : queue'[k] = queue'[l] => k = l
        /\ ToSet(queue') = ToSet(queue) \ {Head(queue)}
    BY <1>1, <1>2, <1>6, QueueTail
  <1> QED
    BY <1>1, <1>3, <1>5, <1>7

\* connect_port: the state of the ends after the dial of Self.
LEMMA SelfDialled ==
    ASSUME IInv, NEW r \in Node, StartDial(r)
    PROVE  /\ pc = "listen" /\ pc' = "poll" /\ data = <<>> /\ remote[Self] = None
           /\ status[Self] = "listening" /\ status[r] \in {"listening", "up"}
           /\ status' = [status EXCEPT ![Self] = "up"] /\ Joins(Self, r)
           /\ data' = <<[fd |-> DialEnd(Self), out |-> <<>>]>>
           /\ EndsIn(data) = {} /\ EndsIn(data') = {DialEnd(Self)} /\ Distinct(data')
           /\ \A k, l \in 1..Len(queue') : queue'[k] = queue'[l] => k = l
           /\ ToSet(queue') = ToSet(queue) \cup {e \in {AcceptEnd(Self)} : r = Self}
           /\ hears' = hears \cup {e \in {AcceptEnd(Self)} : r # Self}
           /\ \A e \in End : OutIn(data', e) = <<>>
           /\ UNCHANGED <<fds, i, j, revents, gone, stdinOpen, input, user,
                          sock, outs, holds, reset, typed, log>>
  <1>1. /\ pc = "listen" /\ pc' = "poll" /\ status' = [status EXCEPT ![Self] = "up"]
        /\ status[r] \in {"listening", "up"} /\ Joins(Self, r)
        /\ data' = <<[fd |-> DialEnd(Self), out |-> <<>>]>>
        /\ queue' = (IF r = Self THEN Append(queue, AcceptEnd(Self)) ELSE queue)
        /\ hears' = (IF r = Self THEN hears ELSE hears \cup {AcceptEnd(Self)})
        /\ UNCHANGED <<fds, i, j, revents, gone, stdinOpen, input, user,
                       sock, outs, holds, reset, typed, log>>
    BY DEF StartDial
  <1>2. data = <<>> /\ status[Self] = "listening" /\ remote[Self] = None
    BY <1>1, Basics DEF IInv, Started
  <1>3. EndsIn(data) = {}
    BY <1>2 DEF EndsIn
  <1>4. DialEnd(Self) \in End /\ AcceptEnd(Self) \in End /\ AcceptEnd(Self).by = Self
    BY Basics, EndsOf
  <1>5. data' = Append(data, [fd |-> DialEnd(Self), out |-> <<>>])
    BY <1>1, <1>2
  <1>6. /\ Distinct(data') /\ EndsIn(data') = EndsIn(data) \cup {DialEnd(Self)}
        /\ \A e \in End : OutIn(data', e) = OutIn(data, e)
    BY <1>3, <1>4, <1>5, Basics, Appended
  <1>7. \A e \in End : OutIn(data, e) = <<>>
    BY <1>3 DEF OutIn
  <1>8. AcceptEnd(Self) \notin ToSet(queue)
    BY <1>2, <1>4, Fresh
  <1>9. queue \in Seq(End) /\ \A k, l \in 1..Len(queue) : queue[k] = queue[l] => k = l
    BY Basics DEF IInv, Slots
  <1>10. CASE r = Self
    <2>1. queue' = Append(queue, AcceptEnd(Self)) /\ hears' = hears
      BY <1>1, <1>10
    <2>2. /\ \A k, l \in 1..Len(queue') : queue'[k] = queue'[l] => k = l
          /\ ToSet(queue') = ToSet(queue) \cup {AcceptEnd(Self)}
      BY <1>4, <1>8, <1>9, <2>1, QueueAppend
    <2> QED
      BY <1>1, <1>2, <1>3, <1>6, <1>7, <1>10, <2>1, <2>2
  <1>11. CASE r # Self
    <2>1. queue' = queue /\ hears' = hears \cup {AcceptEnd(Self)}
      BY <1>1, <1>11
    <2> QED
      BY <1>1, <1>2, <1>3, <1>6, <1>7, <1>9, <1>11, <2>1
  <1> QED
    BY <1>10, <1>11

\* The dial of another process to Self.
LEMMA OtherDialled ==
    ASSUME IInv, NEW c \in Other, OtherDials(c)
    PROVE  /\ c \in Node /\ c # Self /\ Self \in Node
           /\ status[c] = "listening" /\ remote[c] = None /\ status[Self] \in {"listening", "up"}
           /\ status' = [status EXCEPT ![c] = "up"] /\ Joins(c, Self)
           /\ holds' = holds \cup {DialEnd(c)}
           /\ \A k, l \in 1..Len(queue') : queue'[k] = queue'[l] => k = l
           /\ ToSet(queue') = ToSet(queue) \cup {AcceptEnd(c)}
           /\ UNCHANGED <<loop, user, sock, outs, hears, reset, typed, log>>
  <1>1. /\ status[c] = "listening" /\ status[Self] \in {"listening", "up"}
        /\ status' = [status EXCEPT ![c] = "up"] /\ Joins(c, Self)
        /\ holds' = holds \cup {DialEnd(c)} /\ queue' = Append(queue, AcceptEnd(c))
        /\ UNCHANGED <<loop, user, sock, outs, hears, reset, typed, log>>
    BY DEF OtherDials
  <1>2. c \in Node /\ c # Self /\ Self \in Node
    BY Basics
  <1>3. remote[c] = None
    BY <1>1, <1>2 DEF IInv, Started
  <1>4. AcceptEnd(c) \in End /\ AcceptEnd(c).by = c
    BY <1>2, EndsOf
  <1>5. AcceptEnd(c) \notin ToSet(queue)
    BY <1>3, <1>4, Fresh
  <1>6. queue \in Seq(End) /\ \A k, l \in 1..Len(queue) : queue[k] = queue[l] => k = l
    BY Basics DEF IInv, Slots
  <1>7. /\ \A k, l \in 1..Len(queue') : queue'[k] = queue'[l] => k = l
        /\ ToSet(queue') = ToSet(queue) \cup {AcceptEnd(c)}
    BY <1>1, <1>4, <1>5, <1>6, QueueAppend
  <1> QED
    BY <1>1, <1>2, <1>3, <1>7

\* remove_peer leaves one peer less.
LEMMA PeerRemoved ==
    ASSUME IInv, RemovePeer
    PROVE  /\ pc = "write" /\ pc' = "serve" /\ Fd \in End /\ Fd \in Conns
           /\ Distinct(data') /\ EndsIn(data') = EndsIn(data) \ {Fd}
           /\ \A e \in End : e # Fd => OutIn(data', e) = OutIn(data, e)
           /\ \E k \in 0..Len(sock[Fd]) : sock' = [sock EXCEPT ![Fd] = SubSeq(@, 1, k)]
           /\ UNCHANGED <<queue, outs, holds, hears, reset, net>>
  <1>1. pc = "write"
    BY DEF RemovePeer, WriteDone
  <1>2. Fd \in End /\ Fd \in Conns /\ j \in 1..Len(data)
    BY <1>1, Served
  <1>3. /\ Distinct(data') /\ EndsIn(data') = EndsIn(data) \ {data[j].fd}
        /\ \A e \in End : e # data[j].fd => OutIn(data', e) = OutIn(data, e)
    BY <1>2, Basics, Removed DEF RemovePeer
  <1> QED
    BY <1>1, <1>2, <1>3 DEF RemovePeer, Fd

\* One end, one slot or place in a queue: nothing the loop or the others do
\* makes a second one.
LEMMA SlotsKept ==
    ASSUME IInv, Next
    PROVE  Slots'
  <1>a. Slots
    BY DEF IInv
  <1>b. /\ sock \in [End -> Seq(Piece)] /\ SockBuf \in Nat
        /\ \A e \in End : Len(sock[e]) <= SockBuf /\ Len(sock[e]) \in Nat /\ sock[e] \in Seq(Piece)
    BY Basics DEF IInv, Slots
  <1>c. ASSUME NEW es, OtherCloses(es) PROVE Slots'
    <2>1. /\ \A e \in End : Len(sock'[e]) <= Len(sock[e]) /\ Len(sock'[e]) \in Nat
          /\ holds' \subseteq holds /\ hears' \subseteq hears /\ UNCHANGED <<data, queue>>
      BY <1>c, ClosesType DEF loop
    <2>2. \A e \in End : Len(sock'[e]) <= SockBuf
      BY <1>b, <2>1
    <2> QED
      BY <1>a, <2>1, <2>2 DEF Slots, Conns
  <1>1. CASE Listen
    BY <1>1, <1>a DEF Slots, Conns, Listen, loop, conns
  <1>2. CASE StartAlone
    BY <1>2, <1>a DEF Slots, Conns, StartAlone, loop, conns
  <1>3. CASE StartFails
    BY <1>3, <1>a DEF Slots, Conns, StartFails, ToSet
  <1>4. ASSUME NEW r \in Node, StartDial(r) PROVE Slots'
    <2>1. /\ EndsIn(data') = {DialEnd(Self)} /\ Distinct(data') /\ remote[Self] = None
          /\ \A k, l \in 1..Len(queue') : queue'[k] = queue'[l] => k = l
          /\ ToSet(queue') = ToSet(queue) \cup {e \in {AcceptEnd(Self)} : r = Self}
          /\ hears' = hears \cup {e \in {AcceptEnd(Self)} : r # Self}
          /\ UNCHANGED <<sock, holds>>
      BY <1>4, SelfDialled
    <2>2. /\ DialEnd(Self) \in End /\ DialEnd(Self).by = Self /\ DialEnd(Self) # AcceptEnd(Self)
          /\ AcceptEnd(Self) \in End /\ AcceptEnd(Self).by = Self
      BY Basics, EndsOf
    <2>3. DialEnd(Self) \notin ToSet(queue) /\ AcceptEnd(Self) \notin holds
      BY <2>1, <2>2, Fresh
    <2> QED
      BY <1>a, <2>1, <2>2, <2>3 DEF Slots, Conns
  <1>5. CASE Stops
    <2>1. data' = <<>> /\ queue' = <<>> /\ EndsIn(data') = {} /\ UNCHANGED <<holds, hears>> /\ Shutdown
      BY <1>5, StopSteps
    <2>2. \A e \in End : Len(sock'[e]) <= Len(sock[e]) /\ Len(sock'[e]) \in Nat
      BY <2>1, StopsType
    <2>3. \A e \in End : Len(sock'[e]) <= SockBuf
      BY <1>b, <2>2
    <2> QED
      BY <1>a, <2>1, <2>3 DEF Slots, Distinct, ToSet, Conns
  <1>6. CASE Quiet
    BY <1>6, <1>a, QuietSteps DEF Slots, Conns, Still, SameSlots, conns
  <1>7. CASE AcceptPeer
    <2>1. /\ Distinct(data') /\ EndsIn(data') = EndsIn(data) \cup {Head(queue)}
          /\ \A k, l \in 1..Len(queue') : queue'[k] = queue'[l] => k = l
          /\ ToSet(queue') = ToSet(queue) \ {Head(queue)} /\ UNCHANGED <<sock, holds, hears>>
      BY <1>7, Accepted
    <2> QED
      BY <1>a, <2>1 DEF Slots, Conns
  <1>8. CASE ReadPeer
    <2>1. /\ sock' = [sock EXCEPT ![Far(Fd)] = Tail(@)] /\ sock[Far(Fd)] # <<>> /\ pc = "read"
          /\ UNCHANGED <<queue, holds, hears>>
      BY <1>8 DEF ReadPeer, ReadPeerFrom
    <2>2. Distinct(data') /\ EndsIn(data') = EndsIn(data)
      BY <1>8, SlotsStay DEF SameSlots
    <2>3. Far(Fd) \in End
      BY <2>1, Served
    <2>4. Len(Tail(sock[Far(Fd)])) <= SockBuf
      <3>1. Len(Tail(sock[Far(Fd)])) = Len(sock[Far(Fd)]) - 1
        BY <1>b, <2>1, <2>3
      <3> QED
        BY <1>b, <2>3, <3>1
    <2>5. \A e \in End : Len(sock'[e]) <= SockBuf
      BY <1>b, <2>1, <2>3, <2>4
    <2> QED
      BY <1>a, <2>1, <2>2, <2>5 DEF Slots, Conns
  <1>9. CASE WritePeer
    <2>1. /\ sock' = [sock EXCEPT ![Fd] = Append(@, Head(data[j].out))] /\ Len(sock[Fd]) < SockBuf
          /\ pc = "write" /\ UNCHANGED <<queue, holds, hears>> /\ data[j].out # <<>>
      BY <1>9 DEF WritePeer, Flushing
    <2>2. Distinct(data') /\ EndsIn(data') = EndsIn(data)
      BY <1>9, SlotsStay DEF SameSlots
    <2>3. Fd \in End /\ Head(data[j].out) \in Piece
      BY <2>1, Served
    <2>4. Len(Append(sock[Fd], Head(data[j].out))) <= SockBuf
      <3>1. Len(Append(sock[Fd], Head(data[j].out))) = Len(sock[Fd]) + 1
        BY <1>b, <2>3
      <3> QED
        BY <1>b, <2>1, <2>3, <3>1
    <2>5. \A e \in End : Len(sock'[e]) <= SockBuf
      BY <1>b, <2>1, <2>3, <2>4
    <2> QED
      BY <1>a, <2>1, <2>2, <2>5 DEF Slots, Conns
  <1>10. CASE RemovePeer
    <2>1. /\ Distinct(data') /\ EndsIn(data') = EndsIn(data) \ {Fd} /\ Fd \in End
          /\ \E k \in 0..Len(sock[Fd]) : sock' = [sock EXCEPT ![Fd] = SubSeq(@, 1, k)]
          /\ UNCHANGED <<queue, holds, hears>>
      BY <1>10, PeerRemoved
    <2>2. PICK k \in 0..Len(sock[Fd]) : sock' = [sock EXCEPT ![Fd] = SubSeq(@, 1, k)]
      BY <2>1
    <2>3. Len(SubSeq(sock[Fd], 1, k)) = k
      BY <1>b, <2>1, Cut
    <2>4. k <= SockBuf
      BY <1>b, <2>1
    <2>5. \A e \in End : Len(sock'[e]) <= SockBuf
      BY <1>b, <2>1, <2>2, <2>3, <2>4
    <2> QED
      BY <1>a, <2>1, <2>5 DEF Slots, Conns
  <1>11. ASSUME NEW c \in Other, OtherListens(c) PROVE Slots'
    BY <1>11, <1>a DEF Slots, Conns, OtherListens, loop, conns
  <1>12. ASSUME NEW c \in Other, OtherStarts(c) PROVE Slots'
    BY <1>12, <1>a DEF Slots, Conns, OtherStarts, loop, conns
  <1>13. ASSUME NEW c \in Other, OtherDials(c) PROVE Slots'
    <2>1. /\ remote[c] = None /\ holds' = holds \cup {DialEnd(c)} /\ c \in Node
          /\ \A k, l \in 1..Len(queue') : queue'[k] = queue'[l] => k = l
          /\ ToSet(queue') = ToSet(queue) \cup {AcceptEnd(c)} /\ UNCHANGED <<data, sock, hears>>
      BY <1>13, OtherDialled DEF loop
    <2>2. /\ DialEnd(c) \in End /\ DialEnd(c).by = c
          /\ AcceptEnd(c) \in End /\ AcceptEnd(c).by = c
      BY <2>1, EndsOf
    <2>3. AcceptEnd(c) \notin Conns /\ DialEnd(c) \notin hears
      BY <2>1, <2>2, Fresh
    <2> QED
      BY <1>a, <2>1, <2>3 DEF Slots, Conns
  <1>14. ASSUME NEW c \in Other, OtherTypes(c) PROVE Slots'
    BY <1>14, <1>a DEF Slots, Conns, OtherTypes, loop, conns
  <1>15. ASSUME NEW c \in Other, OtherExits(c) PROVE Slots'
    BY <1>15, <1>c DEF OtherExits
  <1>16. ASSUME NEW e \in End, OtherAccepts(e) PROVE Slots'
    BY <1>16, <1>a DEF Slots, Conns, OtherAccepts, loop, conns
  <1>17. ASSUME NEW e \in End, OtherWrites(e) PROVE Slots'
    <2>1. /\ sock' = [sock EXCEPT ![e] = Append(@, Head(outs[e]))] /\ Len(sock[e]) < SockBuf
          /\ outs[e] # <<>> /\ UNCHANGED <<data, queue, holds, hears>>
      BY <1>17 DEF OtherWrites, loop
    <2>2. Head(outs[e]) \in Piece
      <3>1. outs[e] \in Seq(Piece)
        BY Basics
      <3> QED
        BY <2>1, <3>1
    <2>3. Len(Append(sock[e], Head(outs[e]))) <= SockBuf
      <3>1. Len(Append(sock[e], Head(outs[e]))) = Len(sock[e]) + 1
        BY <1>b, <2>2
      <3> QED
        BY <1>b, <2>1, <3>1
    <2>4. \A x \in End : Len(sock'[x]) <= SockBuf
      BY <1>b, <2>1, <2>3
    <2> QED
      BY <1>a, <2>1, <2>4 DEF Slots, Conns
  <1>18. ASSUME NEW e \in End, OtherReads(e) PROVE Slots'
    <2>1. /\ sock' = [sock EXCEPT ![Far(e)] = Tail(@)] /\ sock[Far(e)] # <<>>
          /\ UNCHANGED <<data, queue, holds, hears>>
      BY <1>18 DEF OtherReads, loop
    <2>2. Far(e) \in End
      BY BothEnds
    <2>3. Len(Tail(sock[Far(e)])) <= SockBuf
      <3>1. Len(Tail(sock[Far(e)])) = Len(sock[Far(e)]) - 1
        BY <1>b, <2>1, <2>2
      <3> QED
        BY <1>b, <2>2, <3>1
    <2>4. \A x \in End : Len(sock'[x]) <= SockBuf
      BY <1>b, <2>1, <2>2, <2>3
    <2> QED
      BY <1>a, <2>1, <2>4 DEF Slots, Conns
  <1>19. ASSUME NEW e \in End, OtherDrops(e) PROVE Slots'
    BY <1>19, <1>c DEF OtherDrops
  <1>20. ASSUME NEW e \in End, Resets(e) PROVE Slots'
    BY <1>20, <1>a DEF Slots, Conns, Resets, loop, conns
  <1> QED
    BY <1>1, <1>2, <1>3, <1>4, <1>5, <1>6, <1>7, <1>8, <1>9, <1>10, <1>11, <1>12, <1>13,
       <1>14, <1>15, <1>16, <1>17, <1>18, <1>19, <1>20
    DEF Quiet, Stops, Next, LoopNext, OthersNext

\* Only the ends of a connection that exists are written, read or cut.
LEMMA SilentKept ==
    ASSUME IInv, Next, NEW x \in End, remote'[x.by] = None
    PROVE  remote[x.by] = None /\ sock'[x] = sock[x] /\ outs'[x] = outs[x]
  <1>a. x.by \in Node /\ remote \in [Node -> Node \cup {None}] /\ None \notin Node
    BY Basics, BothEnds DEF IInv, NetTypes
  <1>b. /\ remote[x.by] = None =>
             /\ x \notin Conns /\ Far(x) \notin Conns
             /\ x \notin holds /\ Far(x) \notin holds
    BY Fresh, BothEnds
  <1>c. /\ sock \in [End -> Seq(Piece)] /\ outs \in [End -> Seq(Piece)]
    BY Basics
  <1>d. ASSUME NEW es, OtherCloses(es)
        PROVE  remote[x.by] = None /\ sock'[x] = sock[x] /\ outs'[x] = outs[x]
    <2>1. UNCHANGED remote
      BY <1>d DEF OtherCloses
    <2>2. x \notin holds
      BY <1>b, <2>1
    <2> QED
      BY <1>d, <2>1, <2>2 DEF OtherCloses
  <1>1. CASE Listen
    BY <1>1 DEF Listen, conns, net
  <1>2. CASE StartAlone
    BY <1>2 DEF StartAlone, conns, net
  <1>3. CASE StartFails
    BY <1>3 DEF StartFails, conns, net
  <1>4. ASSUME NEW r \in Node, StartDial(r) PROVE remote[x.by] = None /\ sock'[x] = sock[x] /\ outs'[x] = outs[x]
    <2>1. Joins(Self, r) /\ remote[Self] = None /\ UNCHANGED <<sock, outs>>
      BY <1>4, SelfDialled
    <2>2. remote'[Self] = r /\ \A m \in Node : m # Self => remote'[m] = remote[m]
      BY <2>1, Basics, Dialled
    <2> QED
      BY <1>a, <2>1, <2>2
  <1>5. CASE Stops
    <2>1. Shutdown /\ UNCHANGED <<outs, remote>>
      BY <1>5, StopSteps
    <2>2. x \notin Conns
      BY <1>b, <2>1
    <2> QED
      BY <2>1, <2>2 DEF Shutdown
  <1>6. CASE Quiet
    BY <1>6, QuietSteps DEF Still, conns
  <1>7. CASE AcceptPeer
    BY <1>7 DEF AcceptPeer, conns, net
  <1>8. CASE ReadPeer
    <2>1. pc = "read" /\ sock' = [sock EXCEPT ![Far(Fd)] = Tail(@)] /\ UNCHANGED <<outs, remote>>
      BY <1>8 DEF ReadPeer, ReadPeerFrom
    <2>2. Fd \in End /\ Fd \in Conns
      BY <2>1, Served
    <2>3. Far(Fd) # x
      BY <1>b, <2>1, <2>2, BothEnds
    <2> QED
      BY <1>c, <2>1, <2>3
  <1>9. CASE WritePeer
    <2>1. /\ pc = "write" /\ sock' = [sock EXCEPT ![Fd] = Append(@, Head(data[j].out))]
          /\ UNCHANGED <<outs, remote>>
      BY <1>9 DEF WritePeer, net
    <2>2. Fd \in End /\ Fd \in Conns
      BY <2>1, Served
    <2>3. Fd # x
      BY <1>b, <2>1, <2>2
    <2> QED
      BY <1>c, <2>1, <2>3
  <1>10. CASE RemovePeer
    <2>1. /\ Fd \in Conns /\ \E k \in 0..Len(sock[Fd]) : sock' = [sock EXCEPT ![Fd] = SubSeq(@, 1, k)]
          /\ UNCHANGED <<outs, remote>>
      BY <1>10, PeerRemoved DEF net
    <2>2. Fd # x
      BY <1>b, <2>1
    <2> QED
      BY <1>c, <2>1, <2>2
  <1>11. ASSUME NEW c \in Other, OtherListens(c) PROVE remote[x.by] = None /\ sock'[x] = sock[x] /\ outs'[x] = outs[x]
    BY <1>11 DEF OtherListens, conns, net
  <1>12. ASSUME NEW c \in Other, OtherStarts(c) PROVE remote[x.by] = None /\ sock'[x] = sock[x] /\ outs'[x] = outs[x]
    BY <1>12 DEF OtherStarts, conns, net
  <1>13. ASSUME NEW c \in Other, OtherDials(c) PROVE remote[x.by] = None /\ sock'[x] = sock[x] /\ outs'[x] = outs[x]
    <2>1. Joins(c, Self) /\ remote[c] = None /\ c \in Node /\ UNCHANGED <<sock, outs>>
      BY <1>13, OtherDialled
    <2>2. remote'[c] = Self /\ \A m \in Node : m # c => remote'[m] = remote[m]
      BY <2>1, Basics, Dialled
    <2> QED
      BY <1>a, <2>1, <2>2, Basics
  <1>14. ASSUME NEW c \in Other, OtherTypes(c) PROVE remote[x.by] = None /\ sock'[x] = sock[x] /\ outs'[x] = outs[x]
    <2>1. UNCHANGED <<sock, remote>> /\ \E ps : OtherSends(c, {}, ps)
      BY <1>14 DEF OtherTypes
    <2> QED
      BY <1>b, <2>1 DEF OtherSends
  <1>15. ASSUME NEW c \in Other, OtherExits(c) PROVE remote[x.by] = None /\ sock'[x] = sock[x] /\ outs'[x] = outs[x]
    BY <1>15, <1>d DEF OtherExits
  <1>16. ASSUME NEW e \in End, OtherAccepts(e) PROVE remote[x.by] = None /\ sock'[x] = sock[x] /\ outs'[x] = outs[x]
    BY <1>16 DEF OtherAccepts, conns, net
  <1>17. ASSUME NEW e \in End, OtherWrites(e) PROVE remote[x.by] = None /\ sock'[x] = sock[x] /\ outs'[x] = outs[x]
    <2>1. /\ e \in holds /\ sock' = [sock EXCEPT ![e] = Append(@, Head(outs[e]))]
          /\ outs' = [outs EXCEPT ![e] = Tail(@)] /\ UNCHANGED remote
      BY <1>17 DEF OtherWrites, net
    <2>2. e # x
      BY <1>b, <2>1
    <2> QED
      BY <1>c, <2>1, <2>2
  <1>18. ASSUME NEW e \in End, OtherReads(e) PROVE remote[x.by] = None /\ sock'[x] = sock[x] /\ outs'[x] = outs[x]
    <2>1. /\ e \in holds /\ sock' = [sock EXCEPT ![Far(e)] = Tail(@)] /\ UNCHANGED remote
          /\ OtherSends(At(e), {e}, <<Head(sock[Far(e)])>>)
      BY <1>18 DEF OtherReads
    <2>2. Far(e) # x /\ x \notin holds
      BY <1>b, <2>1, BothEnds
    <2> QED
      BY <1>c, <2>1, <2>2 DEF OtherSends
  <1>19. ASSUME NEW e \in End, OtherDrops(e) PROVE remote[x.by] = None /\ sock'[x] = sock[x] /\ outs'[x] = outs[x]
    BY <1>19, <1>d DEF OtherDrops
  <1>20. ASSUME NEW e \in End, Resets(e) PROVE remote[x.by] = None /\ sock'[x] = sock[x] /\ outs'[x] = outs[x]
    BY <1>20 DEF Resets, conns, net
  <1> QED
    BY <1>1, <1>2, <1>3, <1>4, <1>5, <1>6, <1>7, <1>8, <1>9, <1>10, <1>11, <1>12, <1>13,
       <1>14, <1>15, <1>16, <1>17, <1>18, <1>19, <1>20
    DEF Quiet, Stops, Next, LoopNext, OthersNext

\* Whose ends they are: nobody is connected who has not dialled.
LEMMA EndsKept ==
    ASSUME IInv, Next
    PROVE  Ends'
  <1>a. Ends
    BY DEF IInv
  <1>b. /\ status \in [Node -> {"off", "listening", "up", "down"}]
        /\ Self \in Node /\ Self \notin Other /\ Other \subseteq Node /\ Other = Node \ {Self}
        /\ Conns \subseteq End /\ ToSet(queue) \subseteq End /\ holds \subseteq End
        /\ hears \subseteq End /\ None \notin Node
    BY Basics DEF IInv, NetTypes
  <1>c. Started
    BY DEF IInv
  <1>1. CASE Listen
    <2>1. /\ status' = [status EXCEPT ![Self] = status'[Self]]
          /\ UNCHANGED <<data, queue, holds, hears, remote>>
      BY <1>1, <1>b DEF Listen, conns
    <2>2. \A c \in Other : status'[c] = status[c]
      BY <1>b, <2>1
    <2> QED
      BY <1>a, <2>1, <2>2 DEF Ends, Conns, At
  <1>2. CASE StartAlone
    <2>1. /\ status' = [status EXCEPT ![Self] = status'[Self]]
          /\ UNCHANGED <<data, queue, holds, hears, remote>>
      BY <1>2, <1>b DEF StartAlone, conns
    <2>2. \A c \in Other : status'[c] = status[c]
      BY <1>b, <2>1
    <2> QED
      BY <1>a, <2>1, <2>2 DEF Ends, Conns, At
  <1>3. CASE StartFails
    <2>1. /\ status' = [status EXCEPT ![Self] = "down"] /\ queue' = <<>>
          /\ UNCHANGED <<data, holds, hears, remote>>
      BY <1>3 DEF StartFails
    <2>2. \A c \in Other : status'[c] = status[c]
      BY <1>b, <2>1
    <2>3. ToSet(queue') = {}
      BY <2>1 DEF ToSet
    <2> QED
      BY <1>a, <2>1, <2>2, <2>3 DEF Ends, Conns, At
  <1>4. ASSUME NEW r \in Node, StartDial(r) PROVE Ends'
    <2>1. /\ EndsIn(data') = {DialEnd(Self)} /\ Joins(Self, r) /\ remote[Self] = None
          /\ EndsIn(data) = {} /\ status[r] \in {"listening", "up"}
          /\ status' = [status EXCEPT ![Self] = "up"]
          /\ ToSet(queue') = ToSet(queue) \cup {e \in {AcceptEnd(Self)} : r = Self}
          /\ hears' = hears \cup {e \in {AcceptEnd(Self)} : r # Self}
          /\ UNCHANGED holds
      BY <1>4, SelfDialled
    <2>2. /\ DialEnd(Self).by = Self /\ AcceptEnd(Self).by = Self /\ AcceptEnd(Self).side = "accept"
      BY <1>b, EndsOf
    <2>3. /\ remote'[Self] = r /\ \A m \in Node : m # Self => remote'[m] = remote[m]
          /\ At(DialEnd(Self))' = Self /\ At(AcceptEnd(Self))' = r
          /\ \A e \in End : e.by # Self => At(e)' = At(e)
          /\ \A e \in End : remote[e.by] # None => e.by # Self
      BY <1>b, <2>1, Dialled
    <2>4. status'[Self] = "up" /\ \A c \in Other : status'[c] = status[c]
      BY <1>b, <2>1
    <2>5. \A e \in ToSet(queue) \cup holds \cup hears : e \in End /\ remote[e.by] # None
      BY <1>a, <1>b DEF Ends
    <2>6. \A e \in ToSet(queue) \cup holds \cup hears : remote'[e.by] # None /\ At(e)' = At(e)
      BY <1>b, <2>3, <2>5 DEF End
    <2>7. \A e \in ToSet(queue') \cup Conns' : remote'[e.by] # None /\ At(e)' = Self
      BY <1>a, <1>b, <2>1, <2>2, <2>3, <2>6 DEF Ends, Conns
    <2>8. \A e \in holds' \cup hears' :
             /\ remote'[e.by] # None /\ At(e)' \in Other
             /\ status'[At(e)'] = "up" \/ (status'[At(e)'] = "listening" /\ e \in hears')
      <3>1. ASSUME NEW e \in holds \cup hears
            PROVE  /\ remote'[e.by] # None /\ At(e)' \in Other
                   /\ status'[At(e)'] = "up" \/ (status'[At(e)'] = "listening" /\ e \in hears)
        <4>1. At(e) \in Other /\ (status[At(e)] = "up" \/ (status[At(e)] = "listening" /\ e \in hears))
          BY <1>a DEF Ends
        <4>2. At(e)' = At(e) /\ remote'[e.by] # None
          BY <2>6
        <4>3. status'[At(e)] = status[At(e)]
          BY <2>4, <4>1
        <4> QED
          BY <4>1, <4>2, <4>3
      <3>2. ASSUME r # Self
            PROVE  /\ remote'[AcceptEnd(Self).by] # None /\ At(AcceptEnd(Self))' \in Other
                   /\ status'[At(AcceptEnd(Self))'] \in {"listening", "up"}
        BY <1>b, <2>1, <2>2, <2>3, <2>4, <3>2
      <3> QED
        BY <2>1, <3>1, <3>2
    <2>9. \A e \in ToSet(queue') \cup hears' : e.side = "accept"
      BY <1>a, <2>1, <2>2 DEF Ends
    <2>10. \A c \in Other : remote'[c] \in {None, Self}
      BY <1>a, <1>b, <2>3 DEF Ends
    <2> QED
      BY <2>7, <2>8, <2>9, <2>10 DEF Ends
  <1>5. CASE Stops
    <2>1. /\ status' = [status EXCEPT ![Self] = "down"] /\ EndsIn(data') = {} /\ ToSet(queue') = {}
          /\ UNCHANGED <<holds, hears, remote>>
      BY <1>5, StopSteps
    <2>2. \A c \in Other : status'[c] = status[c]
      BY <1>b, <2>1
    <2> QED
      BY <1>a, <2>1, <2>2 DEF Ends, Conns, At
  <1>6. CASE Quiet
    BY <1>6, <1>a, QuietSteps DEF Ends, Conns, At, Still, SameSlots, conns
  <1>7. CASE AcceptPeer
    <2>1. /\ EndsIn(data') = EndsIn(data) \cup {Head(queue)} /\ Head(queue) \in ToSet(queue)
          /\ ToSet(queue') = ToSet(queue) \ {Head(queue)} /\ UNCHANGED <<holds, hears, status, remote>>
      BY <1>7, Accepted
    <2> QED
      BY <1>a, <2>1 DEF Ends, Conns, At
  <1>8. CASE ReadPeer
    <2>1. EndsIn(data') = EndsIn(data) /\ UNCHANGED <<queue, holds, hears, status, remote>>
      BY <1>8, SlotsStay DEF SameSlots, ReadPeer, ReadPeerFrom
    <2> QED
      BY <1>a, <2>1 DEF Ends, Conns, At
  <1>9. CASE WritePeer
    <2>1. EndsIn(data') = EndsIn(data) /\ UNCHANGED <<queue, holds, hears, status, remote>>
      BY <1>9, SlotsStay DEF SameSlots, WritePeer, net
    <2> QED
      BY <1>a, <2>1 DEF Ends, Conns, At
  <1>10. CASE RemovePeer
    <2>1. EndsIn(data') \subseteq EndsIn(data) /\ UNCHANGED <<queue, holds, hears, status, remote>>
      BY <1>10, PeerRemoved DEF net
    <2> QED
      BY <1>a, <2>1 DEF Ends, Conns, At
  <1>11. ASSUME NEW c \in Other, OtherListens(c) PROVE Ends'
    <2>1. /\ status[c] \in {"off", "listening"} /\ status' = [status EXCEPT ![c] = status'[c]]
          /\ status[c] = "off" => status'[c] = "listening"
          /\ status[c] = "listening" => status'[c] = "up"
          /\ UNCHANGED <<data, queue, holds, hears, remote>>
      BY <1>11, <1>b DEF OtherListens, loop, conns
    <2>2. ASSUME NEW e \in holds \cup hears
          PROVE  status'[At(e)] = "up" \/ (status'[At(e)] = "listening" /\ e \in hears)
      <3>1. At(e) \in Other /\ (status[At(e)] = "up" \/ (status[At(e)] = "listening" /\ e \in hears))
        BY <1>a DEF Ends
      <3>2. CASE At(e) = c
        BY <2>1, <3>1, <3>2
      <3>3. CASE At(e) # c
        <4>1. status'[At(e)] = status[At(e)]
          BY <1>b, <2>1, <3>1, <3>3
        <4> QED
          BY <3>1, <4>1
      <3> QED
        BY <3>2, <3>3
    <2> QED
      BY <1>a, <2>1, <2>2 DEF Ends, Conns, At
  <1>12. ASSUME NEW c \in Other, OtherStarts(c) PROVE Ends'
    <2>1. /\ status[c] \in {"off", "listening"} /\ status' = [status EXCEPT ![c] = status'[c]]
          /\ status[c] = "off" => status'[c] = "listening"
          /\ status[c] = "listening" => status'[c] = "up"
          /\ UNCHANGED <<data, queue, holds, hears, remote>>
      BY <1>12, <1>b DEF OtherStarts, loop, conns
    <2>2. ASSUME NEW e \in holds \cup hears
          PROVE  status'[At(e)] = "up" \/ (status'[At(e)] = "listening" /\ e \in hears)
      <3>1. At(e) \in Other /\ (status[At(e)] = "up" \/ (status[At(e)] = "listening" /\ e \in hears))
        BY <1>a DEF Ends
      <3>2. CASE At(e) = c
        BY <2>1, <3>1, <3>2
      <3>3. CASE At(e) # c
        <4>1. status'[At(e)] = status[At(e)]
          BY <1>b, <2>1, <3>1, <3>3
        <4> QED
          BY <3>1, <4>1
      <3> QED
        BY <3>2, <3>3
    <2> QED
      BY <1>a, <2>1, <2>2 DEF Ends, Conns, At
  <1>13. ASSUME NEW c \in Other, OtherDials(c) PROVE Ends'
    <2>1. /\ Joins(c, Self) /\ remote[c] = None /\ c \in Node /\ UNCHANGED <<data, hears>>
          /\ status[c] = "listening" /\ status' = [status EXCEPT ![c] = "up"]
          /\ ToSet(queue') = ToSet(queue) \cup {AcceptEnd(c)} /\ holds' = holds \cup {DialEnd(c)}
      BY <1>13, OtherDialled DEF loop
    <2>2. DialEnd(c).by = c /\ AcceptEnd(c).by = c /\ AcceptEnd(c).side = "accept"
      BY <2>1, EndsOf
    <2>3. /\ remote'[c] = Self /\ \A m \in Node : m # c => remote'[m] = remote[m]
          /\ At(DialEnd(c))' = c /\ At(AcceptEnd(c))' = Self
          /\ \A e \in End : e.by # c => At(e)' = At(e)
          /\ \A e \in End : remote[e.by] # None => e.by # c
      BY <1>b, <2>1, Dialled
    <2>4. status'[c] = "up" /\ \A m \in Other : m # c => status'[m] = status[m]
      BY <1>b, <2>1
    <2>5. \A e \in Conns \cup ToSet(queue) \cup holds \cup hears : e \in End /\ remote[e.by] # None
      BY <1>a, <1>b DEF Ends
    <2>6. \A e \in Conns \cup ToSet(queue) \cup holds \cup hears :
             remote'[e.by] # None /\ At(e)' = At(e)
      BY <1>b, <2>3, <2>5 DEF End
    <2>7. \A e \in ToSet(queue') \cup Conns' : remote'[e.by] # None /\ At(e)' = Self
      BY <1>a, <1>b, <2>1, <2>2, <2>3, <2>6 DEF Ends, Conns
    <2>8. \A e \in holds' \cup hears' :
             /\ remote'[e.by] # None /\ At(e)' \in Other
             /\ status'[At(e)'] = "up" \/ (status'[At(e)'] = "listening" /\ e \in hears')
      <3>1. ASSUME NEW e \in holds \cup hears
            PROVE  /\ remote'[e.by] # None /\ At(e)' \in Other
                   /\ status'[At(e)'] = "up" \/ (status'[At(e)'] = "listening" /\ e \in hears)
        <4>1. At(e) \in Other /\ (status[At(e)] = "up" \/ (status[At(e)] = "listening" /\ e \in hears))
          BY <1>a DEF Ends
        <4>2. At(e)' = At(e) /\ remote'[e.by] # None
          BY <2>6
        <4>3. status'[At(e)] = "up" \/ status'[At(e)] = status[At(e)]
          BY <2>4, <4>1
        <4> QED
          BY <4>1, <4>2, <4>3
      <3>2. /\ remote'[DialEnd(c).by] # None /\ At(DialEnd(c))' \in Other
            /\ status'[At(DialEnd(c))'] = "up"
        BY <1>b, <2>2, <2>3, <2>4
      <3> QED
        BY <2>1, <3>1, <3>2
    <2>9. \A e \in ToSet(queue') \cup hears' : e.side = "accept"
      BY <1>a, <2>1, <2>2 DEF Ends
    <2>10. \A m \in Other : remote'[m] \in {None, Self}
      BY <1>a, <1>b, <2>3 DEF Ends
    <2> QED
      BY <2>7, <2>8, <2>9, <2>10 DEF Ends
  <1>14. ASSUME NEW c \in Other, OtherTypes(c) PROVE Ends'
    BY <1>14, <1>a, <1>b DEF Ends, Conns, At, OtherTypes, loop, conns, net
  <1>15. ASSUME NEW c \in Other, OtherExits(c) PROVE Ends'
    <2>1. /\ status' = [status EXCEPT ![c] = "down"]
          /\ holds' = holds \ {e \in holds \cup hears : At(e) = c}
          /\ hears' = hears \ {e \in holds \cup hears : At(e) = c}
          /\ UNCHANGED <<data, queue, remote>>
      BY <1>15 DEF OtherExits, OtherCloses, loop
    <2>2. ASSUME NEW e \in holds' \cup hears'
          PROVE  /\ remote[e.by] # None /\ At(e) \in Other
                 /\ status'[At(e)] = "up" \/ (status'[At(e)] = "listening" /\ e \in hears')
      <3>1. /\ At(e) \in Other /\ remote[e.by] # None
            /\ status[At(e)] = "up" \/ (status[At(e)] = "listening" /\ e \in hears)
        BY <1>a, <2>1 DEF Ends
      <3>2. At(e) # c
        BY <2>1
      <3>3. status'[At(e)] = status[At(e)]
        BY <1>b, <2>1, <3>1, <3>2
      <3>4. e \in hears => e \in hears'
        BY <2>1, <3>2
      <3> QED
        BY <3>1, <3>3, <3>4
    <2> QED
      BY <1>a, <2>1, <2>2 DEF Ends, Conns, At
  <1>16. ASSUME NEW e \in End, OtherAccepts(e) PROVE Ends'
    <2>1. /\ e \in hears /\ status[At(e)] = "up" /\ hears' = hears \ {e} /\ holds' = holds \cup {e}
          /\ UNCHANGED <<data, queue, status, remote>>
      BY <1>16 DEF OtherAccepts, loop, net
    <2> QED
      BY <1>a, <2>1 DEF Ends, Conns, At
  <1>17. ASSUME NEW e \in End, OtherWrites(e) PROVE Ends'
    BY <1>17, <1>a, <1>b DEF Ends, Conns, At, OtherWrites, loop, conns, net
  <1>18. ASSUME NEW e \in End, OtherReads(e) PROVE Ends'
    BY <1>18, <1>a, <1>b DEF Ends, Conns, At, OtherReads, loop, conns, net
  <1>19. ASSUME NEW e \in End, OtherDrops(e) PROVE Ends'
    <2>1. /\ e \in holds /\ holds' = holds \ {e} /\ hears' = hears \ {e}
          /\ UNCHANGED <<data, queue, status, remote>>
      BY <1>19 DEF OtherDrops, OtherCloses, loop
    <2>2. e \notin hears
      BY <2>1 DEF IInv, Slots
    <2> QED
      BY <1>a, <2>1, <2>2 DEF Ends, Conns, At
  <1>20. ASSUME NEW e \in End, Resets(e) PROVE Ends'
    BY <1>20, <1>a, <1>b DEF Ends, Conns, At, Resets, loop, conns, net
  <1> QED
    BY <1>1, <1>2, <1>3, <1>4, <1>5, <1>6, <1>7, <1>8, <1>9, <1>10, <1>11, <1>12, <1>13,
       <1>14, <1>15, <1>16, <1>17, <1>18, <1>19, <1>20
    DEF Quiet, Stops, Next, LoopNext, OthersNext


\* An out buffer is used by one who holds its end, and is freed with it.
LEMMA BuffersKept ==
    ASSUME IInv, Next
    PROVE  Buffers'
  <1>a. (\A e \in End : e \notin holds => outs[e] = <<>>) /\ outs \in [End -> Seq(Piece)]
    BY Basics DEF IInv, Buffers
  <1>b. ASSUME NEW es, OtherCloses(es) PROVE Buffers'
    BY <1>a, <1>b DEF OtherCloses, Buffers
  <1>1. CASE Listen
    <2>1. UNCHANGED <<outs, holds>>
      BY <1>1 DEF Listen, conns
    <2> QED
      BY <1>a, <2>1 DEF Buffers
  <1>2. CASE StartAlone
    <2>1. UNCHANGED <<outs, holds>>
      BY <1>2 DEF StartAlone, conns
    <2> QED
      BY <1>a, <2>1 DEF Buffers
  <1>3. CASE StartFails
    <2>1. UNCHANGED <<outs, holds>>
      BY <1>3 DEF StartFails, conns
    <2> QED
      BY <1>a, <2>1 DEF Buffers
  <1>4. ASSUME NEW r \in Node, StartDial(r) PROVE Buffers'
    <2>1. UNCHANGED <<outs, holds>>
      BY <1>4 DEF StartDial, conns
    <2> QED
      BY <1>a, <2>1 DEF Buffers
  <1>5. CASE Stops
    <2>1. UNCHANGED <<outs, holds>>
      BY <1>5, StopSteps
    <2> QED
      BY <1>a, <2>1 DEF Buffers
  <1>6. CASE Quiet
    <2>1. UNCHANGED <<outs, holds>>
      BY <1>6, QuietSteps DEF Still, conns
    <2> QED
      BY <1>a, <2>1 DEF Buffers
  <1>7. CASE AcceptPeer
    <2>1. UNCHANGED <<outs, holds>>
      BY <1>7 DEF AcceptPeer, conns
    <2> QED
      BY <1>a, <2>1 DEF Buffers
  <1>8. CASE ReadPeer
    <2>1. UNCHANGED <<outs, holds>>
      BY <1>8 DEF ReadPeer, ReadPeerFrom
    <2> QED
      BY <1>a, <2>1 DEF Buffers
  <1>9. CASE WritePeer
    <2>1. UNCHANGED <<outs, holds>>
      BY <1>9 DEF WritePeer, conns
    <2> QED
      BY <1>a, <2>1 DEF Buffers
  <1>10. CASE RemovePeer
    <2>1. UNCHANGED <<outs, holds>>
      BY <1>10 DEF RemovePeer, conns
    <2> QED
      BY <1>a, <2>1 DEF Buffers
  <1>11. ASSUME NEW c \in Other, OtherListens(c) PROVE Buffers'
    <2>1. UNCHANGED <<outs, holds>>
      BY <1>11 DEF OtherListens, conns
    <2> QED
      BY <1>a, <2>1 DEF Buffers
  <1>12. ASSUME NEW c \in Other, OtherStarts(c) PROVE Buffers'
    <2>1. UNCHANGED <<outs, holds>>
      BY <1>12 DEF OtherStarts, conns
    <2> QED
      BY <1>a, <2>1 DEF Buffers
  <1>13. ASSUME NEW c \in Other, OtherDials(c) PROVE Buffers'
    BY <1>13, <1>a DEF Buffers, OtherDials
  <1>14. ASSUME NEW c \in Other, OtherTypes(c) PROVE Buffers'
    <2>1. PICK ps : OtherSends(c, {}, ps)
      BY <1>14 DEF OtherTypes
    <2>2. UNCHANGED holds
      BY <1>14 DEF OtherTypes
    <2> QED
      BY <1>a, <2>1, <2>2 DEF Buffers, OtherSends
  <1>15. ASSUME NEW c \in Other, OtherExits(c) PROVE Buffers'
    BY <1>15, <1>b DEF OtherExits
  <1>16. ASSUME NEW e \in End, OtherAccepts(e) PROVE Buffers'
    BY <1>16, <1>a DEF Buffers, OtherAccepts
  <1>17. ASSUME NEW e \in End, OtherWrites(e) PROVE Buffers'
    <2>1. e \in holds /\ outs' = [outs EXCEPT ![e] = Tail(@)] /\ UNCHANGED holds
      BY <1>17 DEF OtherWrites
    <2> QED
      BY <1>a, <2>1 DEF Buffers
  <1>18. ASSUME NEW e \in End, OtherReads(e) PROVE Buffers'
    <2>1. PICK ps : OtherSends(At(e), {e}, ps)
      BY <1>18 DEF OtherReads
    <2>2. UNCHANGED holds
      BY <1>18 DEF OtherReads
    <2> QED
      BY <1>a, <2>1, <2>2 DEF Buffers, OtherSends
  <1>19. ASSUME NEW e \in End, OtherDrops(e) PROVE Buffers'
    BY <1>19, <1>b DEF OtherDrops
  <1>20. ASSUME NEW e \in End, Resets(e) PROVE Buffers'
    <2>1. UNCHANGED <<outs, holds>>
      BY <1>20 DEF Resets, conns
    <2> QED
      BY <1>a, <2>1 DEF Buffers
  <1> QED
    BY <1>1, <1>2, <1>3, <1>4, <1>5, <1>6, <1>7, <1>8, <1>9, <1>10, <1>11, <1>12, <1>13,
       <1>14, <1>15, <1>16, <1>17, <1>18, <1>19, <1>20
    DEF Quiet, Stops, Next, LoopNext, OthersNext
\* Nobody has dialled before it listens, and main is where its status says.
LEMMA StartedKept ==
    ASSUME IInv, Next
    PROVE  Started'
  <1>a. Started
    BY DEF IInv
  <1>b. /\ status \in [Node -> {"off", "listening", "up", "down"}]
        /\ remote \in [Node -> Node \cup {None}]
        /\ Self \in Node /\ Self \notin Other /\ Other \subseteq Node /\ Other = Node \ {Self}
        /\ None \notin Node
    BY Basics DEF IInv, NetTypes
  <1>c. \A e \in End : remote'[e.by] = None => sock'[e] = <<>> /\ outs'[e] = <<>>
    BY <1>a, SilentKept DEF Started
  <1>1. CASE Listen
    <2>1. /\ pc \in {"off", "listen"} /\ UNCHANGED <<data, queue, remote>>
          /\ \/ pc = "off" /\ pc' = "listen" /\ status' = [status EXCEPT ![Self] = "listening"]
             \/ pc = "listen" /\ pc' = "poll" /\ status' = [status EXCEPT ![Self] = "up"]
      BY <1>1 DEF Listen, conns
    <2>2. \A m \in Node : m # Self => status'[m] = status[m]
      BY <1>b, <2>1
    <2>3. status'[Self] = (IF pc = "off" THEN "listening" ELSE "up")
      BY <1>b, <2>1
    <2> QED
      BY <1>a, <1>b, <1>c, <2>1, <2>2, <2>3 DEF Started
  <1>2. CASE StartAlone
    <2>1. /\ pc \in {"off", "listen"} /\ UNCHANGED <<data, queue, remote>>
          /\ \/ pc = "off" /\ pc' = "listen" /\ status' = [status EXCEPT ![Self] = "listening"]
             \/ pc = "listen" /\ pc' = "poll" /\ status' = [status EXCEPT ![Self] = "up"]
      BY <1>2 DEF StartAlone, conns
    <2>2. \A m \in Node : m # Self => status'[m] = status[m]
      BY <1>b, <2>1
    <2>3. status'[Self] = (IF pc = "off" THEN "listening" ELSE "up")
      BY <1>b, <2>1
    <2> QED
      BY <1>a, <1>b, <1>c, <2>1, <2>2, <2>3 DEF Started
  <1>3. CASE StartFails
    <2>1. /\ pc = "listen" /\ pc' = "done" /\ status' = [status EXCEPT ![Self] = "down"]
          /\ queue' = <<>> /\ UNCHANGED <<data, remote>>
      BY <1>3 DEF StartFails
    <2>2. status'[Self] = "down" /\ \A m \in Node : m # Self => status'[m] = status[m]
      BY <1>b, <2>1
    <2> QED
      BY <1>a, <1>b, <1>c, <2>1, <2>2 DEF Started
  <1>4. ASSUME NEW r \in Node, StartDial(r) PROVE Started'
    <2>1. /\ pc = "listen" /\ pc' = "poll" /\ status' = [status EXCEPT ![Self] = "up"]
          /\ remote[Self] = None /\ Joins(Self, r)
      BY <1>4, SelfDialled
    <2>2. remote'[Self] = r /\ \A m \in Node : m # Self => remote'[m] = remote[m]
      BY <1>b, <2>1, Dialled
    <2>3. status'[Self] = "up" /\ \A m \in Node : m # Self => status'[m] = status[m]
      BY <1>b, <2>1
    <2> QED
      BY <1>a, <1>b, <1>c, <2>1, <2>2, <2>3 DEF Started
  <1>5. CASE Stops
    <2>1. /\ pc \in {"poll", "read"} /\ pc' = "done" /\ status' = [status EXCEPT ![Self] = "down"]
          /\ data' = <<>> /\ queue' = <<>> /\ UNCHANGED remote
      BY <1>5, StopSteps
    <2>2. status'[Self] = "down" /\ \A m \in Node : m # Self => status'[m] = status[m]
      BY <1>b, <2>1
    <2> QED
      BY <1>a, <1>b, <1>c, <2>1, <2>2 DEF Started
  <1>6. CASE Quiet
    <2>1. UNCHANGED <<queue, status, remote>> /\ SameSlots
      BY <1>6, QuietSteps DEF Still, conns
    <2>2. CASE UserTypes \/ UserEnds
      BY <1>a, <1>c, <2>1, <2>2 DEF Started, UserTypes, UserEnds, loop
    <2>3. CASE ~(UserTypes \/ UserEnds)
      <3>1. /\ pc \notin {"off", "listen", "done"} /\ pc' \notin {"off", "listen", "done"}
        BY <1>6, <2>3 DEF Quiet, Poll, AcceptDone, ReadStdin, StdinEof, StdinEmpty, StdinFails,
                         StdinHup, NextPeer, RoundDone, ReadDone, KeepPeer, WriteDone
      <3> QED
        BY <1>a, <1>c, <2>1, <3>1 DEF Started
    <2> QED
      BY <2>2, <2>3
  <1>7. CASE AcceptPeer
    <2>1. pc = "accept" /\ UNCHANGED <<pc, status, remote>>
      BY <1>7, Accepted
    <2> QED
      BY <1>a, <1>c, <2>1 DEF Started
  <1>8. CASE ReadPeer
    <2>1. pc = "read" /\ UNCHANGED <<pc, status, remote>>
      BY <1>8 DEF ReadPeer, ReadPeerFrom
    <2> QED
      BY <1>a, <1>c, <2>1 DEF Started
  <1>9. CASE WritePeer
    <2>1. pc = "write" /\ UNCHANGED <<pc, status, remote>>
      BY <1>9 DEF WritePeer, net
    <2> QED
      BY <1>a, <1>c, <2>1 DEF Started
  <1>10. CASE RemovePeer
    <2>1. pc = "write" /\ pc' = "serve" /\ UNCHANGED <<status, remote>>
      BY <1>10, PeerRemoved DEF net
    <2> QED
      BY <1>a, <1>c, <2>1 DEF Started
  <1>11. ASSUME NEW c \in Other, OtherListens(c) PROVE Started'
    <2>1. /\ status[c] \in {"off", "listening"} /\ status' = [status EXCEPT ![c] = status'[c]]
          /\ UNCHANGED <<pc, data, queue, remote>>
      BY <1>11, <1>b DEF OtherListens, loop, conns
    <2>2. status'[Self] = status[Self] /\ \A m \in Node : m # c => status'[m] = status[m]
      BY <1>b, <2>1
    <2> QED
      BY <1>a, <1>b, <1>c, <2>1, <2>2 DEF Started
  <1>12. ASSUME NEW c \in Other, OtherStarts(c) PROVE Started'
    <2>1. /\ status[c] \in {"off", "listening"} /\ status' = [status EXCEPT ![c] = status'[c]]
          /\ UNCHANGED <<pc, data, queue, remote>>
      BY <1>12, <1>b DEF OtherStarts, loop, conns
    <2>2. status'[Self] = status[Self] /\ \A m \in Node : m # c => status'[m] = status[m]
      BY <1>b, <2>1
    <2> QED
      BY <1>a, <1>b, <1>c, <2>1, <2>2 DEF Started
  <1>13. ASSUME NEW c \in Other, OtherDials(c) PROVE Started'
    <2>1. /\ c \in Node /\ c # Self /\ status[Self] \in {"listening", "up"} /\ UNCHANGED <<pc, data>>
          /\ status' = [status EXCEPT ![c] = "up"] /\ Joins(c, Self) /\ remote[c] = None
      BY <1>13, OtherDialled DEF loop
    <2>2. \A m \in Node : m # c => remote'[m] = remote[m]
      BY <1>b, <2>1, Dialled
    <2>3. status'[c] = "up" /\ \A m \in Node : m # c => status'[m] = status[m]
      BY <1>b, <2>1
    <2> QED
      BY <1>a, <1>b, <1>c, <2>1, <2>2, <2>3 DEF Started
  <1>14. ASSUME NEW c \in Other, OtherTypes(c) PROVE Started'
    BY <1>14, <1>a, <1>b, <1>c DEF Started, OtherTypes, loop, conns, net
  <1>15. ASSUME NEW c \in Other, OtherExits(c) PROVE Started'
    <2>1. /\ status' = [status EXCEPT ![c] = "down"] /\ UNCHANGED <<pc, data, queue, remote>>
      BY <1>15 DEF OtherExits, OtherCloses, loop
    <2>2. status'[c] = "down" /\ \A m \in Node : m # c => status'[m] = status[m]
      BY <1>b, <2>1
    <2> QED
      BY <1>a, <1>b, <1>c, <2>1, <2>2 DEF Started
  <1>16. ASSUME NEW e \in End, OtherAccepts(e) PROVE Started'
    BY <1>16, <1>a, <1>b, <1>c DEF Started, OtherAccepts, loop, conns, net
  <1>17. ASSUME NEW e \in End, OtherWrites(e) PROVE Started'
    BY <1>17, <1>a, <1>b, <1>c DEF Started, OtherWrites, loop, conns, net
  <1>18. ASSUME NEW e \in End, OtherReads(e) PROVE Started'
    BY <1>18, <1>a, <1>b, <1>c DEF Started, OtherReads, loop, conns, net
  <1>19. ASSUME NEW e \in End, OtherDrops(e) PROVE Started'
    BY <1>19, <1>a, <1>c DEF Started, OtherDrops, OtherCloses, loop
  <1>20. ASSUME NEW e \in End, Resets(e) PROVE Started'
    BY <1>20, <1>a, <1>b, <1>c DEF Started, Resets, loop, conns, net
  <1> QED
    BY <1>1, <1>2, <1>3, <1>4, <1>5, <1>6, <1>7, <1>8, <1>9, <1>10, <1>11, <1>12, <1>13,
       <1>14, <1>15, <1>16, <1>17, <1>18, <1>19, <1>20
    DEF Quiet, Stops, Next, LoopNext, OthersNext

\* The indices are in range where the code uses them.
LEMMA IndicesKept ==
    ASSUME IInv, Next
    PROVE  Indices'
  <1>b. Indices
    BY DEF IInv
  <1>c. i \in Nat /\ j \in Nat /\ stdinOpen \in BOOLEAN
    BY DEF IInv, TypeOK
  <1>1. CASE Listen
    BY <1>1, <1>b, <1>c DEF Indices, Listen, loop
  <1>2. CASE StartAlone
    BY <1>2, <1>b, <1>c DEF Indices, StartAlone, loop
  <1>3. CASE StartFails
    BY <1>3, <1>b, <1>c DEF Indices, StartFails, loop
  <1>4. ASSUME NEW r \in Node, StartDial(r) PROVE Indices'
    BY <1>4, <1>b, <1>c DEF Indices, StartDial, loop
  <1>5. CASE Stops
    BY <1>5, <1>b, <1>c DEF Indices, Stops, TimesOut, StdoutFails, Shutdown
  <1>6. CASE Poll
    BY <1>6, <1>b, <1>c DEF Indices, Poll, loop
  <1>7. CASE AcceptPeer
    BY <1>7, <1>b, <1>c DEF Indices, AcceptPeer, loop
  <1>8. CASE AcceptDone
    <2>1. /\ i' = i + 1 /\ j' = 1 /\ pc' = IF stdinOpen THEN "stdin" ELSE "serve"
          /\ UNCHANGED <<data, stdinOpen>>
      BY <1>8 DEF AcceptDone, WriteDone
    <2> QED
      BY <1>b, <1>c, <2>1 DEF Indices
  <1>9. CASE ReadStdin
    <2>1. pc = "stdin" /\ UNCHANGED <<pc, i, j, stdinOpen>>
      BY <1>9 DEF ReadStdin
    <2>2. Len(data') = Len(data)
      BY <1>9, SlotsStay DEF SameSlots
    <2> QED
      BY <1>b, <2>1, <2>2 DEF Indices
  <1>10. CASE StdinEof
    BY <1>10, <1>b, <1>c DEF Indices, StdinEof, HandleRemaining, SendLine, loop
  <1>11. CASE StdinEmpty
    BY <1>11, <1>b, <1>c DEF Indices, StdinEmpty, loop
  <1>12. CASE StdinFails
    BY <1>12, <1>b, <1>c DEF Indices, StdinFails, loop
  <1>13. CASE StdinHup
    <2>1. i' = i + 1 /\ pc' = "serve" /\ UNCHANGED j
      BY <1>13 DEF StdinHup
    <2> QED
      BY <1>b, <1>c, <2>1 DEF Indices
  <1>14. CASE NextPeer
    <2>1. /\ pc = "serve" /\ pc' = "read" /\ j <= Len(data) /\ UNCHANGED <<i, j>>
          /\ UNCHANGED <<data, stdinOpen>>
      BY <1>14 DEF NextPeer, WriteDone
    <2> QED
      BY <1>b, <1>c, <2>1 DEF Indices
  <1>15. CASE RoundDone
    BY <1>15, <1>b, <1>c DEF Indices, RoundDone, loop
  <1>16. CASE ReadPeer
    <2>1. pc = "read" /\ UNCHANGED <<pc, i, j, stdinOpen>>
      BY <1>16 DEF ReadPeer, ReadPeerFrom
    <2>2. Len(data') = Len(data)
      BY <1>16, SlotsStay DEF SameSlots
    <2> QED
      BY <1>b, <2>1, <2>2 DEF Indices
  <1>17. CASE ReadDone
    BY <1>17, <1>b, <1>c DEF Indices, ReadDone, loop
  <1>18. CASE WritePeer
    <2>1. pc = "write" /\ UNCHANGED <<pc, i, j, stdinOpen>>
      BY <1>18 DEF WritePeer
    <2>2. Len(data') = Len(data)
      BY <1>18, SlotsStay DEF SameSlots
    <2> QED
      BY <1>b, <2>1, <2>2 DEF Indices
  <1>19. CASE KeepPeer
    <2>1. /\ j' = j + 1 /\ i' = i + 1 /\ pc = "write" /\ pc' = "serve"
          /\ UNCHANGED <<data, stdinOpen>>
      BY <1>19 DEF KeepPeer, WriteDone
    <2> QED
      BY <1>b, <1>c, <2>1 DEF Indices
  <1>20. CASE RemovePeer
    BY <1>20, <1>b, <1>c DEF Indices, RemovePeer, WriteDone, loop
  <1>21. CASE UserTypes
    BY <1>21, <1>b, <1>c DEF Indices, UserTypes, loop
  <1>22. CASE UserEnds
    BY <1>22, <1>b, <1>c DEF Indices, UserEnds, loop
  <1>23. ASSUME NEW c \in Other, OtherListens(c) PROVE Indices'
    BY <1>23, <1>b, <1>c DEF Indices, OtherListens, loop
  <1>24. ASSUME NEW c \in Other, OtherStarts(c) PROVE Indices'
    BY <1>24, <1>b, <1>c DEF Indices, OtherStarts, loop
  <1>25. ASSUME NEW c \in Other, OtherDials(c) PROVE Indices'
    BY <1>25, <1>b, <1>c DEF Indices, OtherDials, loop
  <1>26. ASSUME NEW c \in Other, OtherTypes(c) PROVE Indices'
    BY <1>26, <1>b, <1>c DEF Indices, OtherTypes, loop
  <1>27. ASSUME NEW c \in Other, OtherExits(c) PROVE Indices'
    BY <1>27, <1>b, <1>c DEF Indices, OtherExits, OtherCloses, loop
  <1>28. ASSUME NEW e \in End, OtherAccepts(e) PROVE Indices'
    BY <1>28, <1>b, <1>c DEF Indices, OtherAccepts, loop
  <1>29. ASSUME NEW e \in End, OtherWrites(e) PROVE Indices'
    BY <1>29, <1>b, <1>c DEF Indices, OtherWrites, loop
  <1>30. ASSUME NEW e \in End, OtherReads(e) PROVE Indices'
    BY <1>30, <1>b, <1>c DEF Indices, OtherReads, loop
  <1>31. ASSUME NEW e \in End, OtherDrops(e) PROVE Indices'
    BY <1>31, <1>b, <1>c DEF Indices, OtherDrops, OtherCloses, loop
  <1>32. ASSUME NEW e \in End, Resets(e) PROVE Indices'
    BY <1>32, <1>b, <1>c DEF Indices, Resets, loop
  <1> QED
    BY <1>1, <1>2, <1>3, <1>4, <1>5, <1>6, <1>7, <1>8, <1>9, <1>10, <1>11, <1>12, <1>13,
       <1>14, <1>15, <1>16, <1>17, <1>18, <1>19, <1>20, <1>21, <1>22, <1>23, <1>24, <1>25,
       <1>26, <1>27, <1>28, <1>29, <1>30, <1>31, <1>32
    DEF Stops, Next, LoopNext, OthersNext

\* An end that is closed stays closed: each process dials once.
LEMMA ClosedStays ==
    ASSUME IInv, Next, NEW x \in End, remote[x.by] # None, Closed(x)
    PROVE  remote'[x.by] # None /\ Closed(x)'
  <1>a. x \notin Conns /\ x \notin ToSet(queue) /\ x \notin holds /\ x \notin hears
    BY DEF Closed
  <1>b. x.by \in Node
    BY BothEnds
  <1>1. CASE Listen
    BY <1>1, <1>a DEF Closed, Conns, Listen, loop, conns, net
  <1>2. CASE StartAlone
    BY <1>2, <1>a DEF Closed, Conns, StartAlone, loop, conns, net
  <1>3. CASE StartFails
    BY <1>3, <1>a DEF Closed, Conns, StartFails, ToSet
  <1>4. ASSUME NEW r \in Node, StartDial(r) PROVE remote'[x.by] # None /\ Closed(x)'
    <2>1. /\ EndsIn(data') = {DialEnd(Self)} /\ remote[Self] = None /\ Joins(Self, r)
          /\ ToSet(queue') = ToSet(queue) \cup {e \in {AcceptEnd(Self)} : r = Self}
          /\ hears' = hears \cup {e \in {AcceptEnd(Self)} : r # Self}
          /\ UNCHANGED holds
      BY <1>4, SelfDialled
    <2>2. DialEnd(Self).by = Self /\ AcceptEnd(Self).by = Self
      BY Basics, EndsOf
    <2>3. x.by # Self /\ remote'[x.by] = remote[x.by]
      BY <1>b, <2>1, Basics, Dialled
    <2> QED
      BY <1>a, <2>1, <2>2, <2>3 DEF Closed, Conns
  <1>5. CASE Stops
    BY <1>5, <1>a, StopSteps DEF Closed, Conns
  <1>6. CASE Quiet
    BY <1>6, <1>a, QuietSteps DEF Closed, Conns, Still, SameSlots, conns
  <1>7. CASE AcceptPeer
    BY <1>7, <1>a, Accepted DEF Closed, Conns
  <1>8. CASE ReadPeer
    BY <1>8, <1>a, SlotsStay DEF SameSlots, Closed, Conns, ReadPeer, ReadPeerFrom
  <1>9. CASE WritePeer
    BY <1>9, <1>a, SlotsStay DEF SameSlots, Closed, Conns, WritePeer, net
  <1>10. CASE RemovePeer
    BY <1>10, <1>a, PeerRemoved DEF Closed, Conns, net
  <1>11. ASSUME NEW c \in Other, OtherListens(c) PROVE remote'[x.by] # None /\ Closed(x)'
    BY <1>11, <1>a DEF Closed, Conns, OtherListens, loop, conns, net
  <1>12. ASSUME NEW c \in Other, OtherStarts(c) PROVE remote'[x.by] # None /\ Closed(x)'
    BY <1>12, <1>a DEF Closed, Conns, OtherStarts, loop, conns, net
  <1>13. ASSUME NEW c \in Other, OtherDials(c) PROVE remote'[x.by] # None /\ Closed(x)'
    <2>1. /\ holds' = holds \cup {DialEnd(c)} /\ remote[c] = None /\ Joins(c, Self) /\ c \in Node
          /\ ToSet(queue') = ToSet(queue) \cup {AcceptEnd(c)} /\ UNCHANGED <<data, hears>>
      BY <1>13, OtherDialled DEF loop
    <2>2. DialEnd(c).by = c /\ AcceptEnd(c).by = c
      BY <2>1, EndsOf
    <2>3. x.by # c /\ remote'[x.by] = remote[x.by]
      BY <1>b, <2>1, Basics, Dialled
    <2> QED
      BY <1>a, <2>1, <2>2, <2>3 DEF Closed, Conns
  <1>14. ASSUME NEW c \in Other, OtherTypes(c) PROVE remote'[x.by] # None /\ Closed(x)'
    BY <1>14, <1>a DEF Closed, Conns, OtherTypes, loop, conns, net
  <1>15. ASSUME NEW c \in Other, OtherExits(c) PROVE remote'[x.by] # None /\ Closed(x)'
    BY <1>15, <1>a DEF Closed, Conns, OtherExits, OtherCloses, loop
  <1>16. ASSUME NEW e \in End, OtherAccepts(e) PROVE remote'[x.by] # None /\ Closed(x)'
    BY <1>16, <1>a DEF Closed, Conns, OtherAccepts, loop, conns, net
  <1>17. ASSUME NEW e \in End, OtherWrites(e) PROVE remote'[x.by] # None /\ Closed(x)'
    BY <1>17, <1>a DEF Closed, Conns, OtherWrites, loop, conns, net
  <1>18. ASSUME NEW e \in End, OtherReads(e) PROVE remote'[x.by] # None /\ Closed(x)'
    BY <1>18, <1>a DEF Closed, Conns, OtherReads, loop, conns, net
  <1>19. ASSUME NEW e \in End, OtherDrops(e) PROVE remote'[x.by] # None /\ Closed(x)'
    BY <1>19, <1>a DEF Closed, Conns, OtherDrops, OtherCloses, loop
  <1>20. ASSUME NEW e \in End, Resets(e) PROVE remote'[x.by] # None /\ Closed(x)'
    BY <1>20, <1>a DEF Closed, Conns, Resets, loop, conns, net
  <1> QED
    BY <1>1, <1>2, <1>3, <1>4, <1>5, <1>6, <1>7, <1>8, <1>9, <1>10, <1>11, <1>12, <1>13,
       <1>14, <1>15, <1>16, <1>17, <1>18, <1>19, <1>20
    DEF Quiet, Stops, Next, LoopNext, OthersNext

\* What poll said of a connection stays true, and so does what the loop made of it.
LEMMA JudgedKept ==
    ASSUME IInv, Next
    PROVE  Judged'
  <1>b. Judged
    BY DEF IInv
  <1>c. i \in Nat /\ j \in Nat
    BY DEF IInv, TypeOK
  <1>d. data \in Seq(Peer) /\ Distinct(data)
    BY Basics
  <1>e. \A x \in End : remote[x.by] # None /\ Closed(Far(x)) =>
           remote'[x.by] # None /\ Closed(Far(x))'
    <2> SUFFICES ASSUME NEW x \in End, remote[x.by] # None, Closed(Far(x))
                 PROVE  remote'[x.by] # None /\ Closed(Far(x))'
      OBVIOUS
    <2>1. Far(x) \in End /\ Far(x).by = x.by
      BY BothEnds
    <2> QED
      BY <2>1, ClosedStays
  <1>g. ASSUME pc \in {"read", "write"}, data'[j'].fd = data[j].fd, Closed(Far(data[j].fd))
        PROVE  Closed(Far(data[j].fd))'
    <2>1. PICK f \in End : f = data[j].fd /\ f \in Conns
      BY <1>g, Served DEF Fd
    <2>2. remote[f.by] # None
      BY <2>1 DEF IInv, Ends
    <2>3. Closed(Far(f))'
      BY <1>e, <1>g, <2>1, <2>2
    <2> QED
      BY <1>g, <2>1, <2>3 DEF Far, Closed
  <1>f. \A x \in reset : x \in End /\ remote'[x.by] # None /\ Closed(Far(x))'
    BY <1>b, <1>e DEF Judged, IInv, TypeOK
  <1>1. CASE Listen
    BY <1>1, <1>b, <1>f DEF Judged, Listen, loop, conns
  <1>2. CASE StartAlone
    BY <1>2, <1>b, <1>f DEF Judged, StartAlone, loop, conns
  <1>3. CASE StartFails
    BY <1>3, <1>b, <1>f DEF Judged, StartFails, loop, conns
  <1>4. ASSUME NEW r \in Node, StartDial(r) PROVE Judged'
    <2>1. pc' = "poll" /\ UNCHANGED <<fds, reset>>
      BY <1>4 DEF StartDial
    <2> QED
      BY <1>b, <1>f, <2>1 DEF Judged
  <1>5. CASE Stops
    BY <1>5, <1>b, <1>f DEF Judged, Stops, TimesOut, StdoutFails, Shutdown
  <1>6. CASE Poll
    <2>1. PICK s \in StdinEvents :
            fds' = (IF stdinOpen
                    THEN <<[fd |-> Listener, revents |-> IF queue # <<>> THEN {"POLLIN"} ELSE {}],
                           [fd |-> Stdin, revents |-> s]>>
                    ELSE <<[fd |-> Listener, revents |-> IF queue # <<>> THEN {"POLLIN"} ELSE {}]>>)
                   \o [k \in 1..Len(data) |-> [fd |-> data[k].fd, revents |-> PeerEvents(data[k])]]
      BY <1>6 DEF Poll
    <2> DEFINE p == [k \in 1..Len(data) |-> [fd |-> data[k].fd, revents |-> PeerEvents(data[k])]]
               l == [fd |-> Listener, revents |-> IF queue # <<>> THEN {"POLLIN"} ELSE {}]
               t == [fd |-> Stdin, revents |-> s]
               h == IF stdinOpen THEN <<l, t>> ELSE <<l>>
    <2>2. \A k \in 1..Len(p) : "POLLHUP" \in p[k].revents => p[k].fd \in reset
      <3>1. \A k \in 1..Len(p) : p[k] = [fd |-> data[k].fd, revents |-> PeerEvents(data[k])]
        OBVIOUS
      <3> QED
        BY <3>1 DEF PeerEvents
    <2>3. \A k \in 1..Len(h) : h[k].fd \notin End
      <3>1. Listener \notin End /\ Stdin \notin End
        BY LoopAssumption
      <3>2. CASE stdinOpen
        <4>1. Len(h) = 2 /\ h[1] = l /\ h[2] = t
          BY <3>2
        <4> QED
          BY <3>1, <4>1
      <3>3. CASE ~stdinOpen
        <4>1. Len(h) = 1 /\ h[1] = l
          BY <3>3
        <4> QED
          BY <3>1, <4>1
      <3> QED
        BY <3>2, <3>3
    <2>4. p \in Seq(Entry) /\ h \in Seq(Entry)
      <3>1. ASSUME NEW k \in 1..Len(data)
            PROVE  [fd |-> data[k].fd, revents |-> PeerEvents(data[k])] \in Entry
        BY <1>d, OutAt DEF PeerEvents, Entry
      <3>2. l \in Entry /\ t \in Entry
        BY DEF Entry, Events, StdinEvents, IInv, TypeOK
      <3> QED
        BY <3>1, <3>2, <1>d
    <2>5. fds' = h \o p
      BY <2>1
    <2> HIDE DEF h, p
    <2>6. \A k \in 1..Len(fds') : "POLLHUP" \in fds'[k].revents /\ fds'[k].fd \in End => fds'[k].fd \in reset
      <3> SUFFICES ASSUME NEW k \in 1..Len(fds'), "POLLHUP" \in fds'[k].revents, fds'[k].fd \in End
                   PROVE  fds'[k].fd \in reset
        OBVIOUS
      <3>1. CASE k <= Len(h)
        <4>1. fds'[k] = h[k] /\ k \in 1..Len(h)
          BY <2>4, <2>5, <3>1
        <4> QED
          BY <2>3, <4>1
      <3>2. CASE k > Len(h)
        <4>1. fds'[k] = p[k - Len(h)] /\ k - Len(h) \in 1..Len(p)
          BY <2>4, <2>5, <3>2
        <4> QED
          BY <2>2, <4>1
      <3> QED
        BY <2>4, <3>1, <3>2
    <2>7. pc' = "accept" /\ UNCHANGED reset
      BY <1>6 DEF Poll, conns
    <2> QED
      BY <1>f, <2>6, <2>7 DEF Judged
  <1>7. CASE AcceptPeer
    BY <1>7, <1>b, <1>f DEF Judged, AcceptPeer, loop, conns
  <1>8. CASE AcceptDone
    BY <1>8, <1>b, <1>f DEF Judged, AcceptDone, loop, conns
  <1>9. CASE ReadStdin
    BY <1>9, <1>b, <1>f DEF Judged, ReadStdin, loop, conns
  <1>10. CASE StdinEof
    BY <1>10, <1>b, <1>f DEF Judged, StdinEof, loop, conns
  <1>11. CASE StdinEmpty
    BY <1>11, <1>b, <1>f DEF Judged, StdinEmpty, loop, conns
  <1>12. CASE StdinFails
    BY <1>12, <1>b, <1>f DEF Judged, StdinFails, loop, conns
  <1>13. CASE StdinHup
    BY <1>13, <1>b, <1>f DEF Judged, StdinHup, loop, conns
  <1>14. CASE NextPeer
    BY <1>14, <1>b, <1>f DEF Judged, NextPeer, loop, conns
  <1>15. CASE RoundDone
    BY <1>15, <1>b, <1>f DEF Judged, RoundDone, loop, conns
  <1>16. CASE ReadPeer
    <2>1. pc = "read" /\ UNCHANGED <<pc, fds, i, revents, reset>>
      BY <1>16 DEF ReadPeer, ReadPeerFrom
    <2> QED
      BY <1>b, <1>f, <2>1 DEF Judged
  <1>17. CASE ReadDone
    <2>1. /\ gone' => Closed(Far(Fd)) \/ Fd \in reset
          /\ pc = "read" /\ pc' = "write" /\ UNCHANGED <<data, fds, i, j, revents, reset>>
      BY <1>17 DEF ReadDone, conns
    <2>2. gone' => Closed(Far(data[j].fd))
      BY <1>b, <2>1 DEF Judged, Fd
    <2>5. gone' => Closed(Far(data[j].fd))'
      BY <1>g, <2>1, <2>2
    <2> QED
      BY <1>b, <1>f, <2>1, <2>5 DEF Judged
  <1>18. CASE WritePeer
    <2>1. pc = "write" /\ UNCHANGED <<pc, fds, i, j, revents, gone, reset>>
      BY <1>18 DEF WritePeer
    <2>2. \A k \in 1..Len(data) : data'[k].fd = data[k].fd
      BY <1>18, SlotsStay DEF SameSlots
    <2>3. j \in 1..Len(data)
      BY <2>1, Served
    <2>4. gone => Closed(Far(data[j].fd))
      BY <1>b, <2>1 DEF Judged
    <2>6. gone => Closed(Far(data[j].fd))'
      BY <1>g, <2>1, <2>2, <2>3, <2>4
    <2> QED
      BY <1>b, <1>f, <2>1, <2>6 DEF Judged
  <1>19. CASE KeepPeer
    <2>1. pc' = "serve" /\ UNCHANGED <<fds, reset>>
      BY <1>19 DEF KeepPeer, conns
    <2> QED
      BY <1>b, <1>f, <2>1 DEF Judged
  <1>20. CASE RemovePeer
    <2>1. pc' = "serve" /\ UNCHANGED <<fds, reset>>
      BY <1>20 DEF RemovePeer, conns
    <2> QED
      BY <1>b, <1>f, <2>1 DEF Judged
  <1>21. CASE UserTypes
    <2>1. UNCHANGED loop /\ UNCHANGED reset
      BY <1>21 DEF UserTypes, conns
    <2>2. \A x \in reset' : remote'[x.by] # None /\ Closed(Far(x))'
      BY <1>f, <2>1
    <2>3. ASSUME pc = "write", gone PROVE Closed(Far(data[j].fd))'
      BY <1>b, <1>g, <2>1, <2>3 DEF Judged, loop
    <2> QED
      BY <1>b, <2>1, <2>2, <2>3 DEF Judged, loop
  <1>22. CASE UserEnds
    <2>1. UNCHANGED loop /\ UNCHANGED reset
      BY <1>22 DEF UserEnds, conns
    <2>2. \A x \in reset' : remote'[x.by] # None /\ Closed(Far(x))'
      BY <1>f, <2>1
    <2>3. ASSUME pc = "write", gone PROVE Closed(Far(data[j].fd))'
      BY <1>b, <1>g, <2>1, <2>3 DEF Judged, loop
    <2> QED
      BY <1>b, <2>1, <2>2, <2>3 DEF Judged, loop
  <1>23. ASSUME NEW c \in Other, OtherListens(c) PROVE Judged'
    <2>1. UNCHANGED loop /\ UNCHANGED reset
      BY <1>23 DEF OtherListens, conns
    <2>2. \A x \in reset' : remote'[x.by] # None /\ Closed(Far(x))'
      BY <1>f, <2>1
    <2>3. ASSUME pc = "write", gone PROVE Closed(Far(data[j].fd))'
      BY <1>b, <1>g, <2>1, <2>3 DEF Judged, loop
    <2> QED
      BY <1>b, <2>1, <2>2, <2>3 DEF Judged, loop
  <1>24. ASSUME NEW c \in Other, OtherStarts(c) PROVE Judged'
    <2>1. UNCHANGED loop /\ UNCHANGED reset
      BY <1>24 DEF OtherStarts, conns
    <2>2. \A x \in reset' : remote'[x.by] # None /\ Closed(Far(x))'
      BY <1>f, <2>1
    <2>3. ASSUME pc = "write", gone PROVE Closed(Far(data[j].fd))'
      BY <1>b, <1>g, <2>1, <2>3 DEF Judged, loop
    <2> QED
      BY <1>b, <2>1, <2>2, <2>3 DEF Judged, loop
  <1>25. ASSUME NEW c \in Other, OtherDials(c) PROVE Judged'
    <2>1. UNCHANGED loop /\ UNCHANGED reset
      BY <1>25 DEF OtherDials, conns
    <2>2. \A x \in reset' : remote'[x.by] # None /\ Closed(Far(x))'
      BY <1>f, <2>1
    <2>3. ASSUME pc = "write", gone PROVE Closed(Far(data[j].fd))'
      BY <1>b, <1>g, <2>1, <2>3 DEF Judged, loop
    <2> QED
      BY <1>b, <2>1, <2>2, <2>3 DEF Judged, loop
  <1>26. ASSUME NEW c \in Other, OtherTypes(c) PROVE Judged'
    <2>1. UNCHANGED loop /\ UNCHANGED reset
      BY <1>26 DEF OtherTypes, conns
    <2>2. \A x \in reset' : remote'[x.by] # None /\ Closed(Far(x))'
      BY <1>f, <2>1
    <2>3. ASSUME pc = "write", gone PROVE Closed(Far(data[j].fd))'
      BY <1>b, <1>g, <2>1, <2>3 DEF Judged, loop
    <2> QED
      BY <1>b, <2>1, <2>2, <2>3 DEF Judged, loop
  <1>27. ASSUME NEW c \in Other, OtherExits(c) PROVE Judged'
    <2>1. UNCHANGED loop /\ UNCHANGED reset
      BY <1>27 DEF OtherExits, OtherCloses, conns
    <2>2. \A x \in reset' : remote'[x.by] # None /\ Closed(Far(x))'
      BY <1>f, <2>1
    <2>3. ASSUME pc = "write", gone PROVE Closed(Far(data[j].fd))'
      BY <1>b, <1>g, <2>1, <2>3 DEF Judged, loop
    <2> QED
      BY <1>b, <2>1, <2>2, <2>3 DEF Judged, loop
  <1>28. ASSUME NEW e \in End, OtherAccepts(e) PROVE Judged'
    <2>1. UNCHANGED loop /\ UNCHANGED reset
      BY <1>28 DEF OtherAccepts, conns
    <2>2. \A x \in reset' : remote'[x.by] # None /\ Closed(Far(x))'
      BY <1>f, <2>1
    <2>3. ASSUME pc = "write", gone PROVE Closed(Far(data[j].fd))'
      BY <1>b, <1>g, <2>1, <2>3 DEF Judged, loop
    <2> QED
      BY <1>b, <2>1, <2>2, <2>3 DEF Judged, loop
  <1>29. ASSUME NEW e \in End, OtherWrites(e) PROVE Judged'
    <2>1. UNCHANGED loop /\ UNCHANGED reset
      BY <1>29 DEF OtherWrites, conns
    <2>2. \A x \in reset' : remote'[x.by] # None /\ Closed(Far(x))'
      BY <1>f, <2>1
    <2>3. ASSUME pc = "write", gone PROVE Closed(Far(data[j].fd))'
      BY <1>b, <1>g, <2>1, <2>3 DEF Judged, loop
    <2> QED
      BY <1>b, <2>1, <2>2, <2>3 DEF Judged, loop
  <1>30. ASSUME NEW e \in End, OtherReads(e) PROVE Judged'
    <2>1. UNCHANGED loop /\ UNCHANGED reset
      BY <1>30 DEF OtherReads, conns
    <2>2. \A x \in reset' : remote'[x.by] # None /\ Closed(Far(x))'
      BY <1>f, <2>1
    <2>3. ASSUME pc = "write", gone PROVE Closed(Far(data[j].fd))'
      BY <1>b, <1>g, <2>1, <2>3 DEF Judged, loop
    <2> QED
      BY <1>b, <2>1, <2>2, <2>3 DEF Judged, loop
  <1>31. ASSUME NEW e \in End, OtherDrops(e) PROVE Judged'
    <2>1. UNCHANGED loop /\ UNCHANGED reset
      BY <1>31 DEF OtherDrops, OtherCloses, conns
    <2>2. \A x \in reset' : remote'[x.by] # None /\ Closed(Far(x))'
      BY <1>f, <2>1
    <2>3. ASSUME pc = "write", gone PROVE Closed(Far(data[j].fd))'
      BY <1>b, <1>g, <2>1, <2>3 DEF Judged, loop
    <2> QED
      BY <1>b, <2>1, <2>2, <2>3 DEF Judged, loop
  <1>32. ASSUME NEW e \in End, Resets(e) PROVE Judged'
    <2>1. UNCHANGED loop /\ (reset' = reset \cup {e} /\ e \in Conns \cup ToSet(queue) /\ Closed(Far(e)))
      BY <1>32 DEF Resets
    <2>2. \A x \in reset' : remote'[x.by] # None /\ Closed(Far(x))'
      <3>1. remote[e.by] # None
        BY <2>1 DEF IInv, Ends
      <3>2. remote'[e.by] # None /\ Closed(Far(e))'
        BY <1>e, <2>1, <3>1
      <3> QED
        BY <1>f, <2>1, <3>2
    <2>3. ASSUME pc = "write", gone PROVE Closed(Far(data[j].fd))'
      BY <1>b, <1>g, <2>1, <2>3 DEF Judged, loop
    <2> QED
      BY <1>b, <2>1, <2>2, <2>3 DEF Judged, loop
  <1> QED
    BY <1>1, <1>2, <1>3, <1>4, <1>5, <1>6, <1>7, <1>8, <1>9, <1>10, <1>11, <1>12, <1>13,
       <1>14, <1>15, <1>16, <1>17, <1>18, <1>19, <1>20, <1>21, <1>22, <1>23, <1>24, <1>25,
       <1>26, <1>27, <1>28, <1>29, <1>30, <1>31, <1>32
    DEF Stops, Next, LoopNext, OthersNext

\* After a number of whole lines, one more line ends a line again.
LEMMA WholeLines ==
    ASSUME NEW m \in Nat \ {0}, NEW a \in Nat, a % m = 0
    PROVE  (a + m) % m = 0
  <1> DEFINE q == a \div m
  <1>1. a = m * q + (a % m) /\ q \in Nat
    BY DivMod
  <1> HIDE DEF q
  <1>2. a = m * q
    <2>1. m * q \in Int
      BY <1>1
    <2> QED
      BY <1>1, <2>1
  <1>3. a + m = m * (q + 1) + 0
    BY <1>1, <1>2
  <1>4. q + 1 \in Nat /\ 0 \in 0..(m - 1)
    BY <1>1
  <1> QED
    BY <1>3, <1>4, DivModOf

\* The piece that is read next is the next of its line.
LEMMA TypedLine ==
    ASSUME IInv, pc = "stdin", pipe # <<>>
    PROVE  LET ps == Append(input, Head(pipe)) IN
           /\ Len(input) + 1 \in 1..LineLen /\ Len(ps) = Len(input) + 1
           /\ ps = Line(Self, typed[Self], Len(input) + 1)
           /\ typed[Self] % LineLen = 0 /\ typed[Self] < plan.pieces[Self]
           /\ Head(pipe).no = typed[Self] + (Len(input) + 1)
  <1> DEFINE ps == Append(input, Head(pipe))
  <1>1. /\ input \in Seq(Piece) /\ pipe \in Seq(Piece) /\ Len(input) \in Nat /\ typed[Self] \in Nat
        /\ Self \in Node /\ LineLen \in Nat /\ plan.pieces[Self] \in Nat
    BY LoopAssumption DEF IInv, TypeOK, NetTypes
  <1>2. /\ \A k \in 1..Len(input) : input[k] = [src |-> Self, no |-> typed[Self] + k]
        /\ \A k \in 1..Len(pipe) : pipe[k] = [src |-> Self, no |-> typed[Self] + Len(input) + k]
        /\ typed[Self] + Len(input) + Len(pipe) <= plan.pieces[Self]
        /\ Len(input) < LineLen /\ typed[Self] % LineLen = 0
    BY DEF IInv, Typing, Indices
  <1>3. Len(pipe) \in Nat /\ Len(pipe) >= 1 /\ 1 \in 1..Len(pipe) /\ Head(pipe) = pipe[1]
    BY <1>1
  <1>4. Head(pipe) = [src |-> Self, no |-> typed[Self] + (Len(input) + 1)]
    <2>1. Head(pipe) = [src |-> Self, no |-> typed[Self] + Len(input) + 1]
      BY <1>2, <1>3
    <2>2. typed[Self] + Len(input) + 1 = typed[Self] + (Len(input) + 1)
      BY <1>1
    <2> QED
      BY <2>1, <2>2
  <1>5. Len(ps) = Len(input) + 1 /\ ps \in Seq(Piece) /\ ps[Len(input) + 1] = Head(pipe)
        /\ \A k \in 1..Len(input) : ps[k] = input[k]
    BY <1>1, <1>3
  <1>6. \A k \in 1..(Len(input) + 1) : ps[k] = [src |-> Self, no |-> typed[Self] + k]
    <2>1. \A k \in 1..(Len(input) + 1) : k \in 1..Len(input) \/ k = Len(input) + 1
      BY <1>1
    <2> HIDE DEF ps
    <2> QED
      BY <1>2, <1>4, <1>5, <2>1
  <1>7. ps = Line(Self, typed[Self], Len(input) + 1)
    <2> HIDE DEF ps
    <2>1. Len(input) + 1 \in Nat
      BY <1>1
    <2>2. ps = [k \in 1..(Len(input) + 1) |-> ps[k]]
      BY <1>5
    <2> QED
      BY <1>6, <2>2 DEF Line
  <1>8. Len(input) + 1 \in 1..LineLen /\ typed[Self] < plan.pieces[Self]
    BY <1>1, <1>2, <1>3
  <1> QED
    BY <1>2, <1>4, <1>5, <1>7, <1>8

\* What is left of a line at its end is a line, too.
LEMMA RestLine ==
    ASSUME IInv, input # <<>>
    PROVE  /\ Len(input) \in 1..LineLen
           /\ input = Line(Self, typed[Self], Len(input))
           /\ typed[Self] % LineLen = 0 /\ typed[Self] < plan.pieces[Self]
  <1>1. /\ input \in Seq(Piece) /\ pipe \in Seq(Piece) /\ Len(input) \in Nat /\ typed[Self] \in Nat
        /\ Len(pipe) \in Nat /\ LineLen \in Nat /\ plan.pieces[Self] \in Nat
    BY LoopAssumption DEF IInv, TypeOK, NetTypes
  <1>2. /\ \A k \in 1..Len(input) : input[k] = [src |-> Self, no |-> typed[Self] + k]
        /\ typed[Self] + Len(input) + Len(pipe) <= plan.pieces[Self]
        /\ Len(input) < LineLen /\ typed[Self] % LineLen = 0
    BY DEF IInv, Typing
  <1>3. Len(input) >= 1
    BY <1>1
  <1>4. input = [k \in 1..Len(input) |-> input[k]]
    BY <1>1
  <1>5. input = Line(Self, typed[Self], Len(input))
    BY <1>2, <1>4 DEF Line
  <1> QED
    BY <1>1, <1>2, <1>3, <1>5

\* What is typed is numbered on, and whole lines go out.
LEMMA TypingKept ==
    ASSUME IInv, Next
    PROVE  Typing'
  <1>a. UNCHANGED plan
    BY DEF Next
  <1>b. Typing
    BY DEF IInv
  <1>c. /\ input \in Seq(Piece) /\ pipe \in Seq(Piece) /\ Len(input) \in Nat /\ Len(pipe) \in Nat
        /\ typed \in [Node -> Nat] /\ typed[Self] \in Nat /\ Self \in Node /\ LineLen \in Nat \ {0}
        /\ plan.pieces[Self] \in Nat /\ stdinOpen \in BOOLEAN
    BY LoopAssumption DEF IInv, TypeOK, NetTypes
  <1>d. ASSUME HandleRemaining, stdinOpen' = FALSE, UNCHANGED pipe PROVE Typing'
    <2>1. CASE input # <<>>
      <3>1. typed'[Self] = typed[Self] + Len(input) /\ input' = <<>>
        BY <1>c, <1>d, <2>1 DEF HandleRemaining, SendLine
      <3>2. Len(input') = 0 /\ typed'[Self] \in Nat /\ 0 < LineLen
        BY <1>c, <3>1
      <3>3. \A k \in 1..Len(pipe) : pipe[k] = [src |-> Self, no |-> typed'[Self] + Len(input') + k]
        BY <1>b, <3>1, <3>2 DEF Typing
      <3>4. typed'[Self] + Len(input') + Len(pipe) <= plan.pieces[Self]
        BY <1>b, <3>1, <3>2 DEF Typing
      <3>5. \A k \in 1..Len(input') : input'[k] = [src |-> Self, no |-> typed'[Self] + k]
        BY <3>2
      <3> QED
        BY <1>a, <1>d, <3>1, <3>2, <3>3, <3>4, <3>5 DEF Typing
    <2>2. CASE input = <<>>
      <3>1. UNCHANGED <<typed, input>>
        BY <1>d, <2>2 DEF HandleRemaining
      <3> QED
        BY <1>a, <1>b, <1>d, <2>2, <3>1 DEF Typing
    <2> QED
      BY <2>1, <2>2
  <1>1. CASE Listen
    <2>1. UNCHANGED <<typed, input, pipe, stdinOpen>>
      BY <1>1 DEF Listen, loop, user, net
    <2> QED
      BY <1>a, <1>b, <2>1 DEF Typing
  <1>2. CASE StartAlone
    <2>1. UNCHANGED <<typed, input, pipe, stdinOpen>>
      BY <1>2 DEF StartAlone, loop, user, net
    <2> QED
      BY <1>a, <1>b, <2>1 DEF Typing
  <1>3. CASE StartFails
    <2>1. UNCHANGED <<typed, input, pipe, stdinOpen>>
      BY <1>3 DEF StartFails, loop, user, net
    <2> QED
      BY <1>a, <1>b, <2>1 DEF Typing
  <1>4. ASSUME NEW r \in Node, StartDial(r) PROVE Typing'
    <2>1. UNCHANGED <<typed, input, pipe, stdinOpen>>
      BY <1>4 DEF StartDial, user
    <2> QED
      BY <1>a, <1>b, <2>1 DEF Typing
  <1>5. CASE Stops
    <2>1. UNCHANGED <<typed, input, pipe, stdinOpen>>
      BY <1>5 DEF Stops, TimesOut, StdoutFails, Shutdown, user
    <2> QED
      BY <1>a, <1>b, <2>1 DEF Typing
  <1>6. CASE Poll
    <2>1. UNCHANGED <<typed, input, pipe, stdinOpen>>
      BY <1>6 DEF Poll, loop, user, net
    <2> QED
      BY <1>a, <1>b, <2>1 DEF Typing
  <1>7. CASE AcceptPeer
    <2>1. UNCHANGED <<typed, input, pipe, stdinOpen>>
      BY <1>7 DEF AcceptPeer, loop, user, net
    <2> QED
      BY <1>a, <1>b, <2>1 DEF Typing
  <1>8. CASE AcceptDone
    <2>1. UNCHANGED <<typed, input, pipe, stdinOpen>>
      BY <1>8 DEF AcceptDone, loop, user, net
    <2> QED
      BY <1>a, <1>b, <2>1 DEF Typing
  <1>9. CASE ReadStdin
    <2>1. /\ pc = "stdin" /\ pipe # <<>> /\ pipe' = Tail(pipe) /\ UNCHANGED stdinOpen
          /\ \/ EndsLine(Head(pipe)) /\ SendLine(Append(input, Head(pipe)))
             \/ /\ ~EndsLine(Head(pipe))
                /\ input' = Append(input, Head(pipe)) /\ UNCHANGED typed
      BY <1>9 DEF ReadStdin
    <2> DEFINE ps == Append(input, Head(pipe))
    <2>2. /\ Len(input) + 1 \in 1..LineLen /\ Len(ps) = Len(input) + 1
          /\ ps = Line(Self, typed[Self], Len(input) + 1)
          /\ typed[Self] % LineLen = 0 /\ Head(pipe).no = typed[Self] + (Len(input) + 1)
      BY <2>1, TypedLine
    <2>3. /\ Len(pipe') = Len(pipe) - 1 /\ Len(pipe) >= 1
          /\ \A k \in 1..Len(pipe') : pipe'[k] = pipe[k + 1] /\ k + 1 \in 1..Len(pipe)
      BY <1>c, <2>1
    <2>4. \A k \in 1..Len(pipe') :
             pipe'[k] = [src |-> Self, no |-> (typed[Self] + (Len(input) + 1)) + k]
      <3> SUFFICES ASSUME NEW k \in 1..Len(pipe')
                   PROVE  pipe'[k] = [src |-> Self, no |-> (typed[Self] + (Len(input) + 1)) + k]
        OBVIOUS
      <3>1. pipe'[k] = [src |-> Self, no |-> typed[Self] + Len(input) + (k + 1)]
        BY <1>b, <2>3 DEF Typing
      <3>2. typed[Self] + Len(input) + (k + 1) = (typed[Self] + (Len(input) + 1)) + k
        BY <1>c, k \in Nat
      <3> QED
        BY <3>1, <3>2
    <2>5. typed[Self] + (Len(input) + 1) + Len(pipe') <= plan.pieces[Self]
      <3>1. typed[Self] + Len(input) + Len(pipe) <= plan.pieces[Self]
        BY <1>b DEF Typing
      <3> QED
        BY <1>c, <2>3, <3>1
    <2>6. CASE EndsLine(Head(pipe)) /\ SendLine(ps)
      <3>1. typed'[Self] = typed[Self] + (Len(input) + 1) /\ input' = <<>>
        BY <1>c, <2>2, <2>6 DEF SendLine
      <3>2. typed'[Self] % LineLen = 0
        BY <2>2, <2>6, <3>1 DEF EndsLine
      <3>3. Len(input') = 0 /\ 0 < LineLen /\ typed'[Self] \in Nat
        BY <1>c, <3>1
      <3>4. \A k \in 1..Len(pipe') : pipe'[k] = [src |-> Self, no |-> typed'[Self] + Len(input') + k]
        BY <2>4, <3>1, <3>3
      <3>5. typed'[Self] + Len(input') + Len(pipe') <= plan'.pieces[Self]
        BY <1>a, <1>c, <2>5, <3>1, <3>3
      <3>6. \A k \in 1..Len(input') : input'[k] = [src |-> Self, no |-> typed'[Self] + k]
        BY <3>3
      <3> QED
        BY <3>2, <3>3, <3>4, <3>5, <3>6 DEF Typing
    <2>7. CASE ~EndsLine(Head(pipe)) /\ input' = ps /\ UNCHANGED typed
      <3>1. Len(input) + 1 < LineLen
        <4>1. Len(input) + 1 # LineLen
          BY <1>c, <2>2, <2>7, WholeLines DEF EndsLine
        <4> QED
          BY <1>c, <2>2, <4>1
      <3>2. \A k \in 1..Len(ps) : ps[k] = [src |-> Self, no |-> typed[Self] + k]
        <4>1. Len(input) + 1 \in Nat
          BY <1>c
        <4>2. \A k \in 1..(Len(input) + 1) : Line(Self, typed[Self], Len(input) + 1)[k]
                                               = [src |-> Self, no |-> typed[Self] + k]
          BY DEF Line
        <4> HIDE DEF ps
        <4> QED
          BY <2>2, <4>2
      <3> QED
        BY <1>a, <1>c, <2>2, <2>4, <2>5, <2>7, <3>1, <3>2 DEF Typing
    <2> QED
      BY <2>1, <2>6, <2>7
  <1>10. CASE StdinEof
    <2>1. CASE HandleRemaining /\ stdinOpen' = FALSE /\ UNCHANGED pipe
      BY <1>d, <2>1
    <2>2. CASE UNCHANGED <<typed, input, pipe, stdinOpen>>
      BY <1>a, <1>b, <2>2 DEF Typing
    <2> QED
      BY <1>10, <2>1, <2>2 DEF StdinEof, user
  <1>11. CASE StdinEmpty
    <2>1. UNCHANGED <<typed, input, pipe, stdinOpen>>
      BY <1>11 DEF StdinEmpty, loop, user, net
    <2> QED
      BY <1>a, <1>b, <2>1 DEF Typing
  <1>12. CASE StdinFails
    <2>1. stdinOpen' = FALSE /\ UNCHANGED <<typed, input, pipe>>
      BY <1>12 DEF StdinFails, user, net
    <2> QED
      BY <1>a, <1>b, <2>1 DEF Typing
  <1>13. CASE StdinHup
    <2>1. CASE HandleRemaining /\ stdinOpen' = FALSE /\ UNCHANGED pipe
      BY <1>d, <2>1
    <2>2. CASE UNCHANGED <<typed, input, pipe, stdinOpen>>
      BY <1>a, <1>b, <2>2 DEF Typing
    <2> QED
      BY <1>13, <2>1, <2>2 DEF StdinHup, user
  <1>14. CASE NextPeer
    <2>1. UNCHANGED <<typed, input, pipe, stdinOpen>>
      BY <1>14 DEF NextPeer, loop, user, net
    <2> QED
      BY <1>a, <1>b, <2>1 DEF Typing
  <1>15. CASE RoundDone
    <2>1. UNCHANGED <<typed, input, pipe, stdinOpen>>
      BY <1>15 DEF RoundDone, loop, user, net
    <2> QED
      BY <1>a, <1>b, <2>1 DEF Typing
  <1>16. CASE ReadPeer
    <2>1. UNCHANGED <<typed, input, pipe, stdinOpen>>
      BY <1>16 DEF ReadPeer, ReadPeerFrom, user
    <2> QED
      BY <1>a, <1>b, <2>1 DEF Typing
  <1>17. CASE ReadDone
    <2>1. UNCHANGED <<typed, input, pipe, stdinOpen>>
      BY <1>17 DEF ReadDone, loop, user, net
    <2> QED
      BY <1>a, <1>b, <2>1 DEF Typing
  <1>18. CASE WritePeer
    <2>1. UNCHANGED <<typed, input, pipe, stdinOpen>>
      BY <1>18 DEF WritePeer, loop, user, net
    <2> QED
      BY <1>a, <1>b, <2>1 DEF Typing
  <1>19. CASE KeepPeer
    <2>1. UNCHANGED <<typed, input, pipe, stdinOpen>>
      BY <1>19 DEF KeepPeer, WriteDone, user, net
    <2> QED
      BY <1>a, <1>b, <2>1 DEF Typing
  <1>20. CASE RemovePeer
    <2>1. UNCHANGED <<typed, input, pipe, stdinOpen>>
      BY <1>20 DEF RemovePeer, WriteDone, user, net
    <2> QED
      BY <1>a, <1>b, <2>1 DEF Typing
  <1>21. CASE UserTypes
    <2> DEFINE n == typed[Self] + Len(input) + Len(pipe)
               p == [src |-> Self, no |-> n + 1]
    <2>1. n < plan.pieces[Self] /\ pipe' = Append(pipe, p) /\ UNCHANGED <<typed, input, stdinOpen>>
      BY <1>21 DEF UserTypes, loop, net
    <2>2. Len(pipe') = Len(pipe) + 1 /\ n + 1 <= plan.pieces[Self] /\ n + 1 \in Nat
      BY <1>c, <2>1
    <2>3. \A k \in 1..Len(pipe') : pipe'[k] = [src |-> Self, no |-> typed[Self] + Len(input) + k]
      <3>1. \A k \in 1..Len(pipe) : pipe'[k] = pipe[k]
        BY <1>c, <2>1
      <3>2. pipe'[Len(pipe) + 1] = p
        BY <1>c, <2>1
      <3>3. p = [src |-> Self, no |-> typed[Self] + Len(input) + (Len(pipe) + 1)]
        BY <1>c
      <3> HIDE DEF p
      <3>4. \A k \in 1..Len(pipe') : k \in 1..Len(pipe) \/ k = Len(pipe) + 1
        BY <1>c, <2>2
      <3> QED
        BY <1>b, <3>1, <3>2, <3>3, <3>4 DEF Typing
    <2>4. typed[Self] + Len(input) + Len(pipe') <= plan.pieces[Self]
      BY <1>c, <2>2
    <2> QED
      BY <1>a, <1>b, <2>1, <2>3, <2>4 DEF Typing
  <1>22. CASE UserEnds
    <2>1. UNCHANGED <<typed, input, pipe, stdinOpen>>
      BY <1>22 DEF UserEnds, loop, user, net
    <2> QED
      BY <1>a, <1>b, <2>1 DEF Typing
  <1>23. ASSUME NEW c \in Other, OtherListens(c) PROVE Typing'
    <2>1. UNCHANGED <<typed, input, pipe, stdinOpen>>
      BY <1>23 DEF OtherListens, loop, user, net
    <2> QED
      BY <1>a, <1>b, <2>1 DEF Typing
  <1>24. ASSUME NEW c \in Other, OtherStarts(c) PROVE Typing'
    <2>1. UNCHANGED <<typed, input, pipe, stdinOpen>>
      BY <1>24 DEF OtherStarts, loop, user, net
    <2> QED
      BY <1>a, <1>b, <2>1 DEF Typing
  <1>25. ASSUME NEW c \in Other, OtherDials(c) PROVE Typing'
    <2>1. UNCHANGED <<typed, input, pipe, stdinOpen>>
      BY <1>25 DEF OtherDials, loop, user, net
    <2> QED
      BY <1>a, <1>b, <2>1 DEF Typing
  <1>26. ASSUME NEW c \in Other, OtherTypes(c) PROVE Typing'
    <2>1. typed'[Self] = typed[Self] /\ UNCHANGED <<input, pipe, stdinOpen>>
      BY <1>26, <1>c DEF OtherTypes, loop, user, Other
    <2> QED
      BY <1>a, <1>b, <2>1 DEF Typing
  <1>27. ASSUME NEW c \in Other, OtherExits(c) PROVE Typing'
    <2>1. UNCHANGED <<typed, input, pipe, stdinOpen>>
      BY <1>27 DEF OtherExits, OtherCloses, loop, user
    <2> QED
      BY <1>a, <1>b, <2>1 DEF Typing
  <1>28. ASSUME NEW e \in End, OtherAccepts(e) PROVE Typing'
    <2>1. UNCHANGED <<typed, input, pipe, stdinOpen>>
      BY <1>28 DEF OtherAccepts, loop, user, net
    <2> QED
      BY <1>a, <1>b, <2>1 DEF Typing
  <1>29. ASSUME NEW e \in End, OtherWrites(e) PROVE Typing'
    <2>1. UNCHANGED <<typed, input, pipe, stdinOpen>>
      BY <1>29 DEF OtherWrites, loop, user, net
    <2> QED
      BY <1>a, <1>b, <2>1 DEF Typing
  <1>30. ASSUME NEW e \in End, OtherReads(e) PROVE Typing'
    <2>1. UNCHANGED <<typed, input, pipe, stdinOpen>>
      BY <1>30 DEF OtherReads, loop, user, net
    <2> QED
      BY <1>a, <1>b, <2>1 DEF Typing
  <1>31. ASSUME NEW e \in End, OtherDrops(e) PROVE Typing'
    <2>1. UNCHANGED <<typed, input, pipe, stdinOpen>>
      BY <1>31 DEF OtherDrops, OtherCloses, loop, user
    <2> QED
      BY <1>a, <1>b, <2>1 DEF Typing
  <1>32. ASSUME NEW e \in End, Resets(e) PROVE Typing'
    <2>1. UNCHANGED <<typed, input, pipe, stdinOpen>>
      BY <1>32 DEF Resets, loop, user, net
    <2> QED
      BY <1>a, <1>b, <2>1 DEF Typing
  <1> QED
    BY <1>1, <1>2, <1>3, <1>4, <1>5, <1>6, <1>7, <1>8, <1>9, <1>10, <1>11, <1>12, <1>13,
       <1>14, <1>15, <1>16, <1>17, <1>18, <1>19, <1>20, <1>21, <1>22, <1>23, <1>24, <1>25,
       <1>26, <1>27, <1>28, <1>29, <1>30, <1>31, <1>32
    DEF Stops, Next, LoopNext, OthersNext

-----------------------------------------------------------------------------
(* The theorems.                                                           *)

\* The invariant holds before the loop starts.
LEMMA InitKeeps == Init => IInv
  <1> SUFFICES ASSUME Init PROVE IInv
    OBVIOUS
  <1>1. Self \in Node /\ None \notin Node /\ Other \subseteq Node /\ LineLen \in Nat \ {0}
        /\ SockBuf \in Nat \ {0}
    BY LoopAssumption DEF Other
  <1>2. TypeOK
    <2>1. sock \in [End -> Seq(Piece)] /\ outs \in [End -> Seq(Piece)]
      BY DEF Init
    <2>2. /\ data \in Seq([fd : End, out : Seq(Piece)]) /\ queue \in Seq(End)
          /\ fds \in Seq([fd : End \cup {Listener, Stdin}, revents : SUBSET Events])
          /\ input \in Seq(Piece) /\ pipe \in Seq(Piece)
      BY DEF Init
    <2>3. /\ plan \in Plans /\ pc = "off" /\ i = 1 /\ j = 1 /\ revents = {} /\ gone = FALSE
          /\ stdinOpen = TRUE /\ pipeOpen = TRUE /\ holds = {} /\ hears = {} /\ reset = {}
      BY DEF Init
    <2> QED
      BY <2>1, <2>2, <2>3 DEF TypeOK
  <1>3. NetTypes
    BY <1>1 DEF Init, NetTypes
  <1>4. Conns = {} /\ ToSet(queue) = {}
    BY DEF Init, Conns, EndsIn, ToSet
  <1>5. Slots
    <2>1. \A e \in End : Len(sock[e]) <= SockBuf
      BY <1>1 DEF Init
    <2> QED
      BY <1>4, <2>1 DEF Init, Slots, Distinct
  <1>f. Buffers
    BY DEF Init, Buffers
  <1>e. Ends
    BY <1>1, <1>4 DEF Init, Ends
  <1>6. Started
    BY <1>1, BothEnds DEF Init, Started
  <1>7. Indices
    BY DEF Init, Indices
  <1>8. Typing
    <2>1. plan \in Plans /\ input = <<>> /\ pipe = <<>> /\ typed[Self] = 0
      BY <1>1 DEF Init
    <2>2. plan.pieces[Self] \in Nat
      BY <1>1, <2>1, LoopAssumption
    <2>3. 0 % LineLen = 0
      <3>1. LineLen * 0 + 0 = 0
        BY <1>1
      <3> QED
        BY <1>1, <3>1, DivModOf
    <2> QED
      BY <1>1, <2>1, <2>2, <2>3 DEF Typing
  <1>9. Judged
    BY DEF Init, Judged
  <1> QED
    BY <1>2, <1>3, <1>5, <1>6, <1>7, <1>8, <1>9, <1>e, <1>f DEF IInv

\* Every step keeps every part of the invariant.
LEMMA NextKeeps == IInv /\ [Next]_vars => IInv'
  <1> SUFFICES ASSUME IInv, [Next]_vars PROVE IInv'
    OBVIOUS
  <1>1. CASE Next
    BY <1>1, TypesKept, SlotsKept, BuffersKept, EndsKept, StartedKept, IndicesKept, TypingKept,
       JudgedKept DEF IInv
  <1>2. CASE UNCHANGED vars
    <2>1. UNCHANGED <<plan, pc, data, fds, i, j, revents, gone, stdinOpen, input, pipe, pipeOpen>>
          /\ UNCHANGED <<queue, sock, outs, holds, hears, reset, status, remote, typed, log, anc>>
      BY <1>2 DEF vars, loop, user, conns, net
    <2>2. TypeOK' /\ NetTypes'
      BY <2>1 DEF IInv, TypeOK, NetTypes
    <2>3. Slots' /\ Buffers' /\ Ends' /\ Started'
      BY <2>1 DEF IInv, Slots, Buffers, Ends, Started, Conns, At
    <2>4. Indices' /\ Typing' /\ Judged'
      BY <2>1 DEF IInv, Indices, Typing, Judged, Closed, Conns
    <2> QED
      BY <2>2, <2>3, <2>4 DEF IInv
  <1> QED
    BY <1>1, <1>2

\* The invariant holds throughout, for any number of neighbours, any plan
\* and whoever dials whom first.
THEOREM Invariant == Spec => []IInv
  BY InitKeeps, NextKeeps, PTL DEF Spec

\* The state of the loop keeps its type: no index leaves its array, no more is
\* read of a connection than has arrived.
THEOREM TypeCorrect == Spec => []TypeOK
  <1>1. IInv => TypeOK
    BY DEF IInv
  <1> QED
    BY <1>1, Invariant, PTL

-----------------------------------------------------------------------------
(* Only a stale entry of fds costs a live peer its connection.             *)

\* One step of the loop that drops a live peer judged it by an entry of another.
LEMMA StaleStep ==
    ASSUME IInv, Next, NEW p \in Conns \ Conns', status'[Self] = "up", ~Closed(Far(p))
    PROVE  i > Len(fds) \/ fds[i].fd # p
  <1>a. p \in Conns /\ p \notin Conns' /\ status'[Self] = "up" /\ ~Closed(Far(p))
    OBVIOUS
  <1>c. /\ status \in [Node -> {"off", "listening", "up", "down"}] /\ Self \in Node
        /\ i \in Nat /\ i >= 1 /\ Len(fds) \in Nat
    BY LoopAssumption DEF IInv, NetTypes, TypeOK, Indices
  <1>1. CASE Listen
    BY <1>1, <1>a DEF Conns, Listen, loop
  <1>2. CASE StartAlone
    BY <1>2, <1>a DEF Conns, StartAlone, loop
  <1>3. CASE StartFails
    BY <1>3, <1>a DEF Conns, StartFails, loop
  <1>4. ASSUME NEW r \in Node, StartDial(r) PROVE i > Len(fds) \/ fds[i].fd # p
    BY <1>4, <1>a, SelfDialled DEF Conns
  <1>5. CASE Stops
    BY <1>5, <1>a, <1>c, StopSteps
  <1>6. CASE Quiet
    BY <1>6, <1>a, QuietSteps DEF Conns, Still, SameSlots
  <1>7. CASE AcceptPeer
    BY <1>7, <1>a, Accepted DEF Conns
  <1>8. CASE ReadPeer
    BY <1>8, <1>a, SlotsStay DEF SameSlots, Conns
  <1>9. CASE WritePeer
    BY <1>9, <1>a, SlotsStay DEF SameSlots, Conns
  <1>10. CASE RemovePeer
    <2>1. /\ pc = "write" /\ EndsIn(data') = EndsIn(data) \ {Fd} /\ Fd \in End /\ MustRemove
      BY <1>10, PeerRemoved DEF RemovePeer
    <2>2. p = Fd
      BY <1>a, <2>1 DEF Conns
    <2> SUFFICES ASSUME i <= Len(fds), fds[i].fd = p PROVE FALSE
      BY <1>c
    <2>3. ~gone /\ Fd \notin reset
      BY <1>a, <2>1, <2>2 DEF IInv, Judged, Fd
    <2>4. "POLLHUP" \in fds[i].revents
      BY <2>1, <2>3 DEF MustRemove, IInv, Judged
    <2>5. i \in 1..Len(fds)
      BY <1>c
    <2> QED
      BY <2>1, <2>2, <2>3, <2>4, <2>5 DEF IInv, Judged
  <1>11. ASSUME NEW c \in Other, OtherListens(c) PROVE i > Len(fds) \/ fds[i].fd # p
    BY <1>11, <1>a DEF Conns, OtherListens, loop
  <1>12. ASSUME NEW c \in Other, OtherStarts(c) PROVE i > Len(fds) \/ fds[i].fd # p
    BY <1>12, <1>a DEF Conns, OtherStarts, loop
  <1>13. ASSUME NEW c \in Other, OtherDials(c) PROVE i > Len(fds) \/ fds[i].fd # p
    BY <1>13, <1>a DEF Conns, OtherDials, loop
  <1>14. ASSUME NEW c \in Other, OtherTypes(c) PROVE i > Len(fds) \/ fds[i].fd # p
    BY <1>14, <1>a DEF Conns, OtherTypes, loop
  <1>15. ASSUME NEW c \in Other, OtherExits(c) PROVE i > Len(fds) \/ fds[i].fd # p
    BY <1>15, <1>a DEF Conns, OtherExits, OtherCloses, loop
  <1>16. ASSUME NEW e \in End, OtherAccepts(e) PROVE i > Len(fds) \/ fds[i].fd # p
    BY <1>16, <1>a DEF Conns, OtherAccepts, loop
  <1>17. ASSUME NEW e \in End, OtherWrites(e) PROVE i > Len(fds) \/ fds[i].fd # p
    BY <1>17, <1>a DEF Conns, OtherWrites, loop
  <1>18. ASSUME NEW e \in End, OtherReads(e) PROVE i > Len(fds) \/ fds[i].fd # p
    BY <1>18, <1>a DEF Conns, OtherReads, loop
  <1>19. ASSUME NEW e \in End, OtherDrops(e) PROVE i > Len(fds) \/ fds[i].fd # p
    BY <1>19, <1>a DEF Conns, OtherDrops, OtherCloses, loop
  <1>20. ASSUME NEW e \in End, Resets(e) PROVE i > Len(fds) \/ fds[i].fd # p
    BY <1>20, <1>a DEF Conns, Resets, loop
  <1> QED
    BY <1>1, <1>2, <1>3, <1>4, <1>5, <1>6, <1>7, <1>8, <1>9, <1>10, <1>11, <1>12, <1>13,
       <1>14, <1>15, <1>16, <1>17, <1>18, <1>19, <1>20
    DEF Quiet, Stops, Next, LoopNext, OthersNext

\* A peer whose process still holds the connection is dropped only when the loop
\* judged it by an entry of fds that is not its own.
THEOREM OnlyStaleSlots == Spec => StaleSlotOnly
  <1>1. IInv /\ [Next]_vars =>
          [\A e \in Conns \ Conns' :
              status'[Self] = "up" /\ ~Closed(Far(e)) => i > Len(fds) \/ fds[i].fd # e]_vars
    <2> SUFFICES ASSUME IInv, Next, NEW e \in Conns \ Conns', status'[Self] = "up", ~Closed(Far(e))
                 PROVE  i > Len(fds) \/ fds[i].fd # e
      OBVIOUS
    <2> QED
      BY StaleStep
  <1> QED
    BY <1>1, Invariant, PTL DEF Spec, StaleSlotOnly


-----------------------------------------------------------------------------
(* The loop is a process of GossipNet.                                     *)

\* A step of the network, or none of it.
NetStep == [Net!Next]_(Net!vars)

\* What stands behind the socket of an end.
Waiting(e) == IF e \in Conns THEN OutOf(e) ELSE outs[e]

\* Moving the first item of a queue to the end of the one before it moves nothing.
LEMMA Passed ==
    ASSUME NEW S, NEW s \in Seq(S), NEW q \in Seq(S), q # <<>>
    PROVE  Append(s, Head(q)) \o Tail(q) = s \o q
  <1>1. Head(q) \in S /\ Tail(q) \in Seq(S) /\ Len(Tail(q)) = Len(q) - 1
        /\ (\A x \in 1..Len(Tail(q)) : Tail(q)[x] = q[x + 1])
    BY HeadTailProperties
  <1>2. Append(s, Head(q)) = s \o <<Head(q)>> /\ <<Head(q)>> \in Seq(S)
    BY <1>1, AppendIsConcat
  <1>3. Append(s, Head(q)) \o Tail(q) = s \o (<<Head(q)>> \o Tail(q))
    BY <1>1, <1>2, ConcatAssociative
  <1>4. <<Head(q)>> \o Tail(q) = q
    <2>1. <<Head(q)>> \o Tail(q) \in Seq(S) /\ Len(<<Head(q)>> \o Tail(q)) = Len(q)
      BY <1>1, <1>2, LenProperties
    <2>2. ASSUME NEW x \in 1..Len(q) PROVE (<<Head(q)>> \o Tail(q))[x] = q[x]
      BY <1>1, <1>2
    <2> QED
      BY <2>1, <2>2, SeqEqual
  <1> QED
    BY <1>3, <1>4

\* The first item of two queues in a row is that of the first one.
LEMMA FirstOfTwo ==
    ASSUME NEW S, NEW s \in Seq(S), NEW q \in Seq(S), s # <<>>
    PROVE  Head(s \o q) = Head(s) /\ Tail(s \o q) = Tail(s) \o q
  <1>1. /\ Head(s) = s[1] /\ Tail(s) \in Seq(S) /\ Len(Tail(s)) = Len(s) - 1 /\ Len(s) \in Nat \ {0}
        /\ \A x \in 1..Len(Tail(s)) : Tail(s)[x] = s[x + 1]
    BY HeadTailProperties, EmptySeq, LenProperties
  <1>2. /\ s \o q \in Seq(S) /\ Len(s \o q) = Len(s) + Len(q) /\ Len(q) \in Nat
        /\ \A x \in 1..Len(s \o q) : (s \o q)[x] = IF x <= Len(s) THEN s[x] ELSE q[x - Len(s)]
    BY ConcatProperties, LenProperties
  <1>3. s \o q # <<>>
    BY <1>1, <1>2
  <1>4. /\ Head(s \o q) = (s \o q)[1] /\ Tail(s \o q) \in Seq(S)
        /\ Len(Tail(s \o q)) = Len(s) + Len(q) - 1
        /\ \A x \in 1..Len(Tail(s \o q)) : Tail(s \o q)[x] = (s \o q)[x + 1]
    BY <1>2, <1>3, HeadTailProperties
  <1>5. /\ Tail(s) \o q \in Seq(S) /\ Len(Tail(s) \o q) = Len(s) - 1 + Len(q)
        /\ \A x \in 1..Len(Tail(s) \o q) :
              (Tail(s) \o q)[x] = IF x <= Len(s) - 1 THEN Tail(s)[x] ELSE q[x - (Len(s) - 1)]
    BY <1>1, <1>2, ConcatProperties
  <1>6. Tail(s \o q) = Tail(s) \o q
    <2>1. Len(Tail(s \o q)) = Len(Tail(s) \o q)
      BY <1>1, <1>2, <1>4, <1>5
    <2>2. ASSUME NEW x \in 1..Len(Tail(s \o q)) PROVE Tail(s \o q)[x] = (Tail(s) \o q)[x]
      <3>1. x \in Nat /\ x >= 1 /\ x <= Len(s) + Len(q) - 1
        BY <1>1, <1>2, <1>4
      <3>2. Tail(s \o q)[x] = IF x + 1 <= Len(s) THEN s[x + 1] ELSE q[x + 1 - Len(s)]
        BY <1>1, <1>2, <1>4, <3>1
      <3>3. (Tail(s) \o q)[x] = IF x <= Len(s) - 1 THEN s[x + 1] ELSE q[x - (Len(s) - 1)]
        BY <1>1, <1>5, <2>1, <3>1
      <3>4. x + 1 - Len(s) = x - (Len(s) - 1) /\ (x + 1 <= Len(s) <=> x <= Len(s) - 1)
        BY <1>1, <3>1
      <3> QED
        BY <3>2, <3>3, <3>4
    <2> QED
      BY <1>4, <1>5, <2>1, <2>2, SeqEqual
  <1> QED
    BY <1>1, <1>2, <1>4, <1>6

\* Concatenation of what was sent is associative.
LEMMA Regrouped == \A s, q, r \in Seq(Piece) : (s \o q) \o r = s \o (q \o r)
  <1> SUFFICES ASSUME NEW s \in Seq(Piece), NEW q \in Seq(Piece), NEW r \in Seq(Piece)
               PROVE  (s \o q) \o r = s \o (q \o r)
    OBVIOUS
  <1> QED
    BY ConcatAssociative

\* The network's state, read off the loop's.
LEMMA NetValues ==
    ASSUME IInv
    PROVE  /\ Net!End = End /\ NetPeers \subseteq End /\ NetBacklog \subseteq End
           /\ NetStream = [e \in End |-> sock[e] \o Waiting(e)] /\ NetStream \in [End -> Seq(Piece)]
           /\ \A e \in End : Waiting(e) \in Seq(Piece)
           /\ NetSent = [e \in End |-> Len(sock[e])] /\ NetSent \in [End -> Nat]
           /\ \A e \in End : sock[e] \in Seq(Piece) /\ Len(sock[e]) <= Len(NetStream[e])
  <1>1. Net!End = End
    BY DEF Net!End, End
  <1>2. NetPeers \subseteq End /\ NetBacklog \subseteq End
    BY Basics DEF NetPeers, NetBacklog
  <1>3. ASSUME NEW e \in End
        PROVE  /\ Waiting(e) \in Seq(Piece) /\ sock[e] \in Seq(Piece) /\ Len(sock[e]) \in Nat
               /\ sock[e] \o Waiting(e) \in Seq(Piece)
               /\ Len(sock[e]) <= Len(sock[e] \o Waiting(e))
    <2>1. OutOf(e) \in Seq(Piece) /\ outs[e] \in Seq(Piece) /\ sock[e] \in Seq(Piece)
      BY Basics, OutType DEF OutOf
    <2>2. Waiting(e) \in Seq(Piece)
      BY <2>1 DEF Waiting
    <2>3. Len(sock[e] \o Waiting(e)) = Len(sock[e]) + Len(Waiting(e))
          /\ Len(sock[e]) \in Nat /\ Len(Waiting(e)) \in Nat
      BY <2>1, <2>2, LenProperties, ConcatProperties
    <2> QED
      BY <2>1, <2>2, <2>3, ConcatProperties
  <1>4. NetStream = [e \in End |-> sock[e] \o Waiting(e)]
    BY DEF NetStream, Waiting
  <1>5. NetSent = [e \in End |-> Len(sock[e])]
    BY DEF NetSent
  <1> QED
    BY <1>1, <1>2, <1>3, <1>4, <1>5

\* Whose the network's ends are.
LEMMA WhoseEnds ==
    ASSUME IInv
    PROVE  /\ \A e \in End : Net!At(e) = At(e) /\ Net!Far(e) = Far(e)
           /\ Net!PeersOf(Self) = Conns
           /\ \A c \in Other : Net!PeersOf(c) = {e \in holds : At(e) = c}
           /\ {e \in NetBacklog : Net!At(e) # Self} = hears
           /\ \A c \in Other : {e \in NetBacklog : Net!At(e) # c} =
                                   ToSet(queue) \cup {e \in hears : At(e) # c}
           /\ Conns \cap holds = {} /\ ToSet(queue) \cap holds = {}
           /\ Conns \cap hears = {} /\ ToSet(queue) \cap hears = {}
           /\ ToSet(queue) \cap Conns = {} /\ holds \cap hears = {}
  <1>1. ASSUME NEW e PROVE Net!At(e) = At(e) /\ Net!Far(e) = Far(e)
    BY DEF Net!At, At, Net!Far, Far
  <1>2. /\ \A e \in Conns \cup ToSet(queue) : At(e) = Self
        /\ \A e \in holds \cup hears : At(e) \in Other
        /\ Self \notin Other
        /\ ToSet(queue) \cap Conns = {} /\ holds \cap hears = {}
    BY Basics DEF IInv, Ends, Slots
  <1> QED
    BY <1>1, <1>2 DEF Net!PeersOf, NetPeers, NetBacklog

\* Closed ends and rings are the same in both.
LEMMA SameJudgement ==
    /\ \A e : Net!Closed(e) <=> Closed(e)
    /\ Net!NoRing <=> NoRing
  BY DEF Net!Closed, Closed, NetPeers, NetBacklog, Net!NoRing, NoRing

\* The streams after a step, from what stands in the sockets and behind them.
LEMMA StreamIs ==
    /\ NetStream' = [e \in End |-> sock'[e] \o Waiting(e)']
    /\ NetSent' = [e \in End |-> Len(sock'[e])]
  BY DEF NetStream, NetSent, Waiting

\* What does not touch the text under way does not touch the network's.
LEMMA SameText ==
    ASSUME UNCHANGED <<data, sock, outs>>
    PROVE  NetStream' = NetStream /\ NetSent' = NetSent
  BY DEF NetStream, NetSent, OutOf, Conns

\* What moves neither connections nor text is no step of the network.
LEMMA Unmoved ==
    ASSUME UNCHANGED <<data, queue, sock, outs, holds, hears>>
    PROVE  UNCHANGED <<NetPeers, NetBacklog, NetStream, NetSent>>
  BY SameText DEF NetPeers, NetBacklog, Conns

\* Pieces that are queued behind the sockets of the ends in to are sent there.
LEMMA TextIsQueued ==
    ASSUME IInv, NEW to, NEW ps \in Seq(Piece), sock' = sock,
           \A e \in End : Waiting(e)' = IF e \in to THEN Waiting(e) \o ps ELSE Waiting(e)
    PROVE  Net!SendPeers(NetStream, to, ps) /\ NetSent' = NetSent
  <1>1. NetSent' = NetSent
    BY StreamIs, NetValues
  <1>2. ASSUME NEW e \in End
        PROVE  sock'[e] \o Waiting(e)' = IF e \in to THEN NetStream[e] \o ps ELSE NetStream[e]
    <2>1. sock[e] \in Seq(Piece) /\ Waiting(e) \in Seq(Piece) /\ NetStream[e] = sock[e] \o Waiting(e)
      BY NetValues
    <2>2. (sock[e] \o Waiting(e)) \o ps = sock[e] \o (Waiting(e) \o ps)
      BY <2>1, Regrouped
    <2>3. Waiting(e)' = IF e \in to THEN Waiting(e) \o ps ELSE Waiting(e)
      OBVIOUS
    <2>4. CASE e \in to
      BY <2>1, <2>2, <2>3, <2>4
    <2>5. CASE e \notin to
      BY <2>1, <2>3, <2>5
    <2> QED
      BY <2>4, <2>5
  <1>3. NetStream' = [e \in End |-> IF e \in to THEN NetStream[e] \o ps ELSE NetStream[e]]
    BY <1>2, StreamIs
  <1>4. Net!End = End
    BY NetValues
  <1> QED
    BY <1>1, <1>3, <1>4 DEF Net!SendPeers

\* A piece that is taken from the socket at far and queued at the ends in to is
\* read and passed on.
LEMMA PieceIsPassed ==
    ASSUME IInv, NEW far \in End, NEW to, sock[far] # <<>>,
           sock' = [sock EXCEPT ![far] = Tail(@)],
           \A e \in End : Waiting(e)' =
               IF e \in to THEN Waiting(e) \o <<Head(sock[far])>> ELSE Waiting(e)
    PROVE  /\ Net!SendPeers([NetStream EXCEPT ![far] = Tail(@)], to, <<Head(NetStream[far])>>)
           /\ NetSent' = [NetSent EXCEPT ![far] = @ - 1]
           /\ Head(NetStream[far]) = Head(sock[far]) /\ NetSent[far] > 0
  <1>1. /\ sock \in [End -> Seq(Piece)] /\ sock[far] \in Seq(Piece) /\ Waiting(far) \in Seq(Piece)
        /\ NetStream = [e \in End |-> sock[e] \o Waiting(e)]
        /\ NetStream[far] = sock[far] \o Waiting(far)
        /\ NetSent = [e \in End |-> Len(sock[e])]
    BY NetValues, Basics
  <1>2. /\ Head(sock[far]) \in Piece /\ Tail(sock[far]) \in Seq(Piece)
        /\ Len(Tail(sock[far])) = Len(sock[far]) - 1 /\ Len(sock[far]) \in Nat /\ Len(sock[far]) > 0
    BY <1>1, HeadTailProperties, EmptySeq, LenProperties
  <1>3. Head(NetStream[far]) = Head(sock[far]) /\ Tail(NetStream[far]) = Tail(sock[far]) \o Waiting(far)
    BY <1>1, FirstOfTwo
  <1>4. NetSent' = [NetSent EXCEPT ![far] = @ - 1]
    <2>1. ASSUME NEW e \in End PROVE Len(sock'[e]) = IF e = far THEN NetSent[e] - 1 ELSE NetSent[e]
      BY <1>1, <1>2
    <2>2. NetSent' = [e \in End |-> Len(sock'[e])] /\ DOMAIN NetSent = End
      BY <1>1, StreamIs
    <2> QED
      BY <2>1, <2>2
  <1> DEFINE s == [NetStream EXCEPT ![far] = Tail(@)]
             p == Head(sock[far])
  <1>5. \A e \in End : s[e] = sock'[e] \o Waiting(e)
    <2> SUFFICES ASSUME NEW e \in End PROVE s[e] = sock'[e] \o Waiting(e)
      OBVIOUS
    <2>1. CASE e = far
      <3>1. s[e] = Tail(NetStream[far]) /\ sock'[e] = Tail(sock[far])
        BY <1>1, <2>1
      <3> QED
        BY <1>3, <2>1, <3>1
    <2>2. CASE e # far
      BY <1>1, <2>2
    <2> QED
      BY <2>1, <2>2
  <1>6. \A e \in End : sock'[e] \in Seq(Piece) /\ Waiting(e) \in Seq(Piece)
    BY <1>1, <1>2, NetValues
  <1>7. p \in Piece /\ <<p>> \in Seq(Piece)
    BY <1>2
  <1> HIDE DEF s, p
  <1>8. ASSUME NEW e \in End
        PROVE  sock'[e] \o Waiting(e)' = IF e \in to THEN s[e] \o <<p>> ELSE s[e]
    <2>1. (sock'[e] \o Waiting(e)) \o <<p>> = sock'[e] \o (Waiting(e) \o <<p>>)
      <3>1. sock'[e] \in Seq(Piece) /\ Waiting(e) \in Seq(Piece) /\ <<p>> \in Seq(Piece)
        BY <1>6, <1>7
      <3> QED
        BY <3>1, Regrouped, Zenon
    <2>2. Waiting(e)' = IF e \in to THEN Waiting(e) \o <<p>> ELSE Waiting(e)
      BY DEF p
    <2>3. s[e] = sock'[e] \o Waiting(e)
      BY <1>5
    <2>4. CASE e \in to
      BY <2>1, <2>2, <2>3, <2>4
    <2>5. CASE e \notin to
      BY <2>2, <2>3, <2>5
    <2> QED
      BY <2>4, <2>5
  <1>9. NetStream' = [e \in End |-> IF e \in to THEN s[e] \o <<p>> ELSE s[e]]
    BY <1>8, StreamIs
  <1>10. Net!End = End /\ Head(NetStream[far]) = p
    BY <1>3, NetValues DEF p
  <1>11. Net!SendPeers(s, to, <<p>>)
    BY <1>9, <1>10 DEF Net!SendPeers
  <1>12. NetSent[far] > 0
    BY <1>1, <1>2
  <1> QED
    BY <1>4, <1>10, <1>11, <1>12 DEF s, p

\* The first piece that waits behind the socket of e moves into it.
LEMMA PieceMoves ==
    ASSUME IInv, NEW e \in End, e \in NetPeers, Waiting(e) # <<>>, Len(sock[e]) < SockBuf,
           sock' = [sock EXCEPT ![e] = Append(@, Head(Waiting(e)))],
           \A x \in End : Waiting(x)' = IF x = e THEN Tail(Waiting(x)) ELSE Waiting(x),
           NetPeers' = NetPeers, NetBacklog' = NetBacklog, UNCHANGED net
    PROVE  Net!WritePiece(e)
  <1>1. /\ sock \in [End -> Seq(Piece)] /\ sock[e] \in Seq(Piece) /\ Waiting(e) \in Seq(Piece)
        /\ NetStream = [x \in End |-> sock[x] \o Waiting(x)]
        /\ NetSent = [x \in End |-> Len(sock[x])]
    BY NetValues, Basics
  <1>2. Head(Waiting(e)) \in Piece /\ Len(Append(sock[e], Head(Waiting(e)))) = Len(sock[e]) + 1
    BY <1>1, HeadTailProperties, AppendProperties
  <1>3. Append(sock[e], Head(Waiting(e))) \o Tail(Waiting(e)) = sock[e] \o Waiting(e)
    BY <1>1, Passed
  <1>4. ASSUME NEW x \in End PROVE sock'[x] \o Waiting(x)' = sock[x] \o Waiting(x)
    <2>1. Waiting(x)' = IF x = e THEN Tail(Waiting(x)) ELSE Waiting(x)
      OBVIOUS
    <2>2. sock'[x] = IF x = e THEN Append(sock[e], Head(Waiting(e))) ELSE sock[x]
      BY <1>1
    <2>3. CASE x = e
      BY <1>3, <2>1, <2>2, <2>3
    <2>4. CASE x # e
      BY <2>1, <2>2, <2>4
    <2> QED
      BY <2>3, <2>4
  <1>5. NetStream' = NetStream
    BY <1>1, <1>4, StreamIs
  <1>6. NetSent' = [NetSent EXCEPT ![e] = @ + 1]
    <2>1. ASSUME NEW x \in End PROVE Len(sock'[x]) = IF x = e THEN NetSent[x] + 1 ELSE NetSent[x]
      BY <1>1, <1>2
    <2>2. NetSent' = [x \in End |-> Len(sock'[x])] /\ DOMAIN NetSent = End
      BY <1>1, StreamIs
    <2> QED
      BY <2>1, <2>2
  <1>7. NetSent[e] < Len(NetStream[e]) /\ NetSent[e] < SockBuf
    <2>1. Len(sock[e] \o Waiting(e)) = Len(sock[e]) + Len(Waiting(e)) /\ Len(Waiting(e)) > 0
          /\ Len(sock[e]) \in Nat /\ Len(Waiting(e)) \in Nat
      BY <1>1, ConcatProperties, LenProperties, EmptySeq
    <2> QED
      BY <1>1, <2>1
  <1> QED
    BY <1>5, <1>6, <1>7 DEF Net!WritePiece, net

\* When the ends es are closed, keep[e] pieces are left of what each had sent.
LEMMA TextIsCut ==
    ASSUME IInv, NEW es, es \subseteq End, NEW keep, \A e \in es : keep[e] \in Nat /\ keep[e] <= Len(sock[e]),
           \A e \in End : sock'[e] = IF e \in es THEN SubSeq(sock[e], 1, keep[e]) ELSE sock[e],
           \A e \in End : Waiting(e)' = IF e \in es THEN <<>> ELSE Waiting(e)
    PROVE  Net!Truncate(es, keep)
  <1>1. /\ NetStream = [x \in End |-> sock[x] \o Waiting(x)]
        /\ NetSent = [x \in End |-> Len(sock[x])] /\ Net!End = End
    BY NetValues
  <1>2. ASSUME NEW e \in End
        PROVE  /\ sock'[e] \o Waiting(e)' = IF e \in es THEN SubSeq(NetStream[e], 1, keep[e]) ELSE NetStream[e]
               /\ Len(sock'[e]) = IF e \in es THEN keep[e] ELSE NetSent[e]
    <2>1. /\ sock[e] \in Seq(Piece) /\ Waiting(e) \in Seq(Piece) /\ Len(sock[e]) \in Nat
          /\ sock[e] \o Waiting(e) \in Seq(Piece)
          /\ Len(sock[e] \o Waiting(e)) = Len(sock[e]) + Len(Waiting(e)) /\ Len(Waiting(e)) \in Nat
          /\ \A x \in 1..Len(sock[e]) : (sock[e] \o Waiting(e))[x] = sock[e][x]
      BY NetValues, ConcatProperties, LenProperties
    <2>2. CASE e \in es
      <3>1. /\ sock'[e] = SubSeq(sock[e], 1, keep[e]) /\ Waiting(e)' = <<>>
            /\ keep[e] \in Nat /\ keep[e] <= Len(sock[e])
        BY <2>2
      <3>2. SubSeq(sock[e], 1, keep[e]) \in Seq(Piece) /\ Len(SubSeq(sock[e], 1, keep[e])) = keep[e]
            /\ \A x \in 1..keep[e] : SubSeq(sock[e], 1, keep[e])[x] = sock[e][x]
        BY <2>1, <3>1
      <3>3. SubSeq(NetStream[e], 1, keep[e]) \in Seq(Piece) /\ Len(SubSeq(NetStream[e], 1, keep[e])) = keep[e]
            /\ \A x \in 1..keep[e] : SubSeq(NetStream[e], 1, keep[e])[x] = sock[e][x]
        <4>1. NetStream[e] = sock[e] \o Waiting(e) /\ keep[e] <= Len(NetStream[e]) /\ NetStream[e] \in Seq(Piece)
          BY <1>1, <2>1, <3>1
        <4>2. \A x \in 1..keep[e] : NetStream[e][x] = sock[e][x]
          BY <2>1, <3>1, <4>1
        <4> QED
          BY <3>1, <4>1, <4>2
      <3>4. SubSeq(NetStream[e], 1, keep[e]) = SubSeq(sock[e], 1, keep[e])
        BY <3>2, <3>3, SeqEqual
      <3>5. SubSeq(sock[e], 1, keep[e]) \o <<>> = SubSeq(sock[e], 1, keep[e])
        BY <3>2, ConcatEmptySeq
      <3> QED
        BY <2>2, <3>1, <3>2, <3>4, <3>5
    <2>3. CASE e \notin es
      <3>1. sock'[e] = sock[e] /\ Waiting(e)' = Waiting(e)
        BY <2>3
      <3> QED
        BY <1>1, <2>3, <3>1
    <2> QED
      BY <2>2, <2>3
  <1>3. /\ NetStream' = [e \in End |-> IF e \in es THEN SubSeq(NetStream[e], 1, keep[e]) ELSE NetStream[e]]
        /\ NetSent' = [e \in End |-> IF e \in es THEN keep[e] ELSE NetSent[e]]
    BY <1>2, StreamIs
  <1> QED
    BY <1>1, <1>3 DEF Net!Truncate

\* SendLine is TypeLine.
LEMMA LineGoesOut ==
    ASSUME IInv, NEW len \in 1..LineLen, SendLine(Line(Self, typed[Self], len)),
           status[Self] = "up", typed[Self] % LineLen = 0, typed[Self] < plan.pieces[Self],
           UNCHANGED <<conns, status, remote, anc>>
    PROVE  Net!TypeLine(Self)
  <1> DEFINE ps == Line(Self, typed[Self], len)
  <1>1. /\ typed[Self] \in Nat /\ len \in Nat /\ plan \in Plans /\ typed \in [Node -> Nat]
        /\ Self \in Node /\ data \in Seq(Peer) /\ Distinct(data)
    BY Basics DEF IInv, TypeOK, NetTypes
  <1>2. ps \in Seq(Piece) /\ Len(ps) = len
    BY <1>1, LineIsText
  <1>3. typed[Self] < NetLines[Self] * LineLen
    BY <1>1, LinesBound
  <1>4. SendPeers(0, ps) /\ log' = [log EXCEPT ![Self] = @ \o ps] /\ typed' = [typed EXCEPT ![Self] = @ + len]
    BY <1>2 DEF SendLine
  <1>5. ps = Net!Line(Self, typed[Self], len)
    BY DEF Line, Net!Line
  <1> HIDE DEF ps
  <1>6. /\ EndsIn(data') = EndsIn(data)
        /\ \A x \in End : OutIn(data', x) =
              IF x \in EndsIn(data) THEN OutIn(data, x) \o ps ELSE OutIn(data, x)
    BY <1>1, <1>2, <1>4, Sent, 0 \in 0..Len(data)
  <1>7. NetPeers' = NetPeers /\ NetBacklog' = NetBacklog
    BY <1>6 DEF NetPeers, NetBacklog, Conns, conns
  <1>8. \A e \in End : Waiting(e)' = IF e \in Conns THEN Waiting(e) \o ps ELSE Waiting(e)
    BY <1>6 DEF Waiting, OutOf, Conns, conns
  <1>9. Net!SendPeers(NetStream, Conns, ps) /\ NetSent' = NetSent
    BY <1>2, <1>8, TextIsQueued DEF conns
  <1>10. Net!PeersOf(Self) = Conns
    BY WhoseEnds
  <1> QED
    BY <1>3, <1>4, <1>5, <1>7, <1>9, <1>10 DEF Net!TypeLine

\* One read() of the loop is ReadPiece.
LEMMA PieceIsRead ==
    ASSUME IInv, ReadPeer
    PROVE  Net!ReadPiece(Fd) /\ Fd \in End
  <1> DEFINE p == Head(sock[Far(Fd)])
  <1>1. /\ pc = "read" /\ sock[Far(Fd)] # <<>> /\ (NoRing \/ Len(log[Self]) < RingMax)
        /\ sock' = [sock EXCEPT ![Far(Fd)] = Tail(@)]
        /\ log' = [log EXCEPT ![Self] = Append(@, p)] /\ SendPeers(j, <<p>>)
        /\ UNCHANGED <<queue, outs, holds, hears, reset, status, remote, typed, anc>>
    BY DEF ReadPeer, ReadPeerFrom
  <1>2. /\ j \in 1..Len(data) /\ Fd \in End /\ Fd \in Conns /\ Far(Fd) \in End
        /\ data \in Seq(Peer) /\ Distinct(data) /\ sock \in [End -> Seq(Piece)]
    BY <1>1, Served, Basics
  <1>3. p \in Piece /\ <<p>> \in Seq(Piece) /\ j \in 0..Len(data) /\ j # 0
    <2>1. sock[Far(Fd)] \in Seq(Piece) /\ sock[Far(Fd)] # <<>>
      BY <1>1, <1>2
    <2> QED
      BY <1>2, <2>1
  <1> HIDE DEF p
  <1>4. /\ EndsIn(data') = EndsIn(data)
        /\ \A x \in End : OutIn(data', x) =
              IF x \in EndsIn(data) /\ x # Fd THEN OutIn(data, x) \o <<p>> ELSE OutIn(data, x)
    BY <1>1, <1>2, <1>3, Sent DEF Fd
  <1>5. NetPeers' = NetPeers /\ NetBacklog' = NetBacklog
    BY <1>1, <1>4 DEF NetPeers, NetBacklog, Conns
  <1>6. \A e \in End : Waiting(e)' = IF e \in Conns \ {Fd} THEN Waiting(e) \o <<p>> ELSE Waiting(e)
    BY <1>1, <1>4 DEF Waiting, OutOf, Conns
  <1>7. PICK fd \in End : fd = Fd
    BY <1>2
  <1>8. PICK far \in End : far = Far(Fd)
    BY <1>2
  <1>9. PICK to : to = Conns \ {Fd}
    OBVIOUS
  <1>10. /\ Net!SendPeers([NetStream EXCEPT ![far] = Tail(@)], to, <<Head(NetStream[far])>>)
         /\ NetSent' = [NetSent EXCEPT ![far] = @ - 1]
         /\ Head(NetStream[far]) = Head(sock[far]) /\ NetSent[far] > 0
    <2>1. sock[far] # <<>> /\ sock' = [sock EXCEPT ![far] = Tail(@)]
      BY <1>1, <1>8
    <2>2. \A e \in End : Waiting(e)' = IF e \in to THEN Waiting(e) \o <<Head(sock[far])>> ELSE Waiting(e)
      BY <1>6, <1>8, <1>9 DEF p
    <2> QED
      BY <2>1, <2>2, PieceIsPassed
  <1>11. /\ Net!At(fd) = Self /\ Net!Far(fd) = far /\ Net!PeersOf(Self) = Conns
    BY <1>2, <1>7, <1>8, WhoseEnds DEF IInv, Ends
  <1>12. Net!CanRead(fd)
    <2>1. fd \in NetPeers
      BY <1>2, <1>7 DEF NetPeers
    <2>2. Net!NoRing \/ Len(log[Self]) < RingMax
      BY <1>1, SameJudgement
    <2> QED
      BY <1>10, <1>11, <2>1, <2>2 DEF Net!CanRead
  <1>13. Net!ReadPieceTo(fd, Net!PeersOf(Net!At(fd)) \ {fd})
    <2>1. Net!PeersOf(Net!At(fd)) \ {fd} = to
      BY <1>7, <1>9, <1>11
    <2>2. log' = [log EXCEPT ![Self] = Append(@, Head(NetStream[far]))]
      BY <1>1, <1>8, <1>10 DEF p
    <2>3. Net!ReadPieceTo(fd, to)
      BY <1>1, <1>5, <1>10, <1>11, <2>2 DEF Net!ReadPieceTo
    <2> QED
      BY <2>1, <2>3
  <1>14. Net!ReadPiece(fd)
    BY <1>12, <1>13 DEF Net!ReadPiece
  <1> QED
    BY <1>2, <1>7, <1>14

\* One write() of the loop is WritePiece.
LEMMA PieceIsWritten ==
    ASSUME IInv, WritePeer
    PROVE  \E e \in End : Net!WritePiece(e)
  <1> DEFINE o == data[j].out
  <1>1. /\ pc = "write" /\ o # <<>> /\ Len(sock[Fd]) < SockBuf
        /\ sock' = [sock EXCEPT ![Fd] = Append(@, Head(o))]
        /\ data' = [data EXCEPT ![j].out = Tail(@)]
        /\ UNCHANGED <<queue, outs, holds, hears, reset, net>>
    BY DEF WritePeer, Flushing
  <1>2. /\ j \in 1..Len(data) /\ Fd \in End /\ Fd \in Conns /\ Fd = data[j].fd
        /\ data \in Seq(Peer) /\ Distinct(data) /\ OutOf(Fd) = o
    BY <1>1, Served, Basics DEF Fd
  <1>3. /\ EndsIn(data') = EndsIn(data)
        /\ \A x \in End : OutIn(data', x) = IF x = Fd THEN Tail(OutIn(data, x)) ELSE OutIn(data, x)
    BY <1>1, <1>2, Shortened
  <1>4. NetPeers' = NetPeers /\ NetBacklog' = NetBacklog
    BY <1>1, <1>3 DEF NetPeers, NetBacklog, Conns
  <1>5. PICK e \in End : e = Fd
    BY <1>2
  <1>6. Waiting(e) = o /\ e \in NetPeers
    BY <1>2, <1>5 DEF Waiting, NetPeers
  <1>7. \A x \in End : Waiting(x)' = IF x = e THEN Tail(Waiting(x)) ELSE Waiting(x)
    BY <1>1, <1>2, <1>3, <1>5 DEF Waiting, OutOf, Conns
  <1>8. Net!WritePiece(e)
    <2>1. Waiting(e) # <<>> /\ Len(sock[e]) < SockBuf /\ UNCHANGED net
          /\ sock' = [sock EXCEPT ![e] = Append(@, Head(Waiting(e)))]
      BY <1>1, <1>5, <1>6
    <2> QED
      BY <1>4, <1>6, <1>7, <2>1, PieceMoves
  <1> QED
    BY <1>8

\* remove_peer is Drop.
LEMMA PeerIsDropped ==
    ASSUME IInv, RemovePeer
    PROVE  \E e \in End : Net!Drop(e)
  <1>1. /\ Fd \in End /\ Fd \in Conns /\ EndsIn(data') = EndsIn(data) \ {Fd}
        /\ \A e \in End : e # Fd => OutIn(data', e) = OutIn(data, e)
        /\ UNCHANGED <<queue, outs, holds, hears, reset, net>>
    BY PeerRemoved
  <1>2. PICK e \in End : e = Fd
    BY <1>1
  <1>3. PICK k \in 0..Len(sock[Fd]) : sock' = [sock EXCEPT ![Fd] = SubSeq(@, 1, k)]
    BY PeerRemoved
  <1>4. /\ sock \in [End -> Seq(Piece)] /\ Len(sock[e]) \in Nat /\ k \in Nat /\ k <= Len(sock[e])
    <2>1. sock \in [End -> Seq(Piece)] /\ sock[e] \in Seq(Piece)
      BY Basics
    <2>2. Len(sock[e]) \in Nat
      BY <2>1
    <2> QED
      BY <1>2, <1>3, <2>1, <2>2
  <1>5. e \notin holds /\ outs[e] = <<>>
    BY <1>1, <1>2, WhoseEnds DEF IInv, Buffers
  <1>6. \A x \in End : Waiting(x)' = IF x \in {e} THEN <<>> ELSE Waiting(x)
    BY <1>1, <1>2, <1>5 DEF Waiting, OutOf, Conns
  <1> DEFINE keep == [f \in {e} |-> k]
  <1>7. \A x \in End : sock'[x] = IF x \in {e} THEN SubSeq(sock[x], 1, keep[x]) ELSE sock[x]
    BY <1>2, <1>3, <1>4
  <1>8. Net!Truncate({e}, keep)
    <2>1. \A x \in {e} : keep[x] \in Nat /\ keep[x] <= Len(sock[x])
      BY <1>4
    <2> HIDE DEF keep
    <2> QED
      BY <1>6, <1>7, <2>1, TextIsCut, {e} \subseteq End
  <1>9. e \in NetPeers /\ NetPeers' = NetPeers \ {e} /\ NetBacklog' = NetBacklog
    BY <1>1, <1>2, <1>5 DEF NetPeers, NetBacklog, Conns
  <1>10. k \in 0..NetSent[e]
    BY <1>2, <1>3, NetValues
  <1>11. Net!Drop(e)
    BY <1>1, <1>8, <1>9, <1>10 DEF Net!Drop, net
  <1> QED
    BY <1>11

\* free_peers and the closed listener are Exit.
LEMMA LoopEnds ==
    ASSUME IInv, Stops
    PROVE  Net!Exit(Self)
  <1>1. /\ pc \in {"poll", "read"} /\ Shutdown
        /\ EndsIn(data') = {} /\ ToSet(queue') = {}
        /\ status' = [status EXCEPT ![Self] = "down"]
        /\ UNCHANGED <<outs, holds, hears, reset, remote, anc>>
    BY StopSteps
  <1>2. status[Self] = "up"
    <2>1. status[Self] \in {"off", "listening", "up", "down"}
      BY Basics DEF IInv, NetTypes
    <2> QED
      BY <1>1, <2>1 DEF IInv, Started
  <1>3. PICK es : es = Conns
    OBVIOUS
  <1>4. PICK keep \in [es -> 0..SockBuf] :
            /\ \A e \in es : keep[e] <= Len(sock[e])
            /\ sock' = [e \in End |-> IF e \in es THEN SubSeq(sock[e], 1, keep[e]) ELSE sock[e]]
    BY <1>1, <1>3 DEF Shutdown
  <1>5. UNCHANGED <<typed, log>>
    BY <1>1 DEF Shutdown
  <1>6. es \subseteq End /\ es \cap holds = {} /\ Net!PeersOf(Self) = es
    BY <1>3, WhoseEnds, Basics
  <1>7. \A e \in End : Waiting(e)' = IF e \in es THEN <<>> ELSE Waiting(e)
    BY <1>1, <1>3, <1>6 DEF Waiting, OutOf, Conns, IInv, Buffers
  <1>8. Net!Truncate(es, keep)
    <2>1. \A e \in es : keep[e] \in Nat /\ keep[e] <= Len(sock[e])
      BY <1>4, Basics
    <2>2. \A e \in End : sock'[e] = IF e \in es THEN SubSeq(sock[e], 1, keep[e]) ELSE sock[e]
      BY <1>4
    <2> QED
      BY <1>6, <1>7, <2>1, <2>2, TextIsCut
  <1>9. NetPeers' = NetPeers \ es
    BY <1>1, <1>3, <1>6 DEF NetPeers, Conns
  <1>10. NetBacklog' = {e \in NetBacklog : Net!At(e) # Self}
    BY <1>1, WhoseEnds DEF NetBacklog
  <1>11. \A e \in es : keep[e] <= NetSent[e]
    BY <1>4, <1>6, NetValues
  <1> QED
    BY <1>1, <1>2, <1>4, <1>5, <1>6, <1>8, <1>9, <1>10, <1>11 DEF Net!Exit

\* A dial of Self or to Self is StartDial.
LEMMA DialIsMade ==
    ASSUME IInv, NEW n \in Node, NEW r \in Node, status[n] = "listening",
           status[r] \in {"listening", "up"}, status' = [status EXCEPT ![n] = "up"], Joins(n, r),
           NetPeers' = NetPeers \cup {DialEnd(n)}, NetBacklog' = NetBacklog \cup {AcceptEnd(n)},
           sock' = sock, \A e \in End : Waiting(e)' = Waiting(e), UNCHANGED <<typed, log>>
    PROVE  Net!StartDial(n, r)
  <1>1. NetStream' = NetStream /\ NetSent' = NetSent
    BY StreamIs, NetValues
  <1> QED
    BY <1>1 DEF Net!StartDial, Joins, DialEnd, AcceptEnd

\* The lines of another process.
LEMMA FarTypes ==
    ASSUME IInv, NEW c \in Other, OtherTypes(c)
    PROVE  Net!TypeLine(c)
  <1>1. /\ status[c] = "up" /\ typed[c] % LineLen = 0
        /\ UNCHANGED <<loop, user, queue, sock, holds, hears, reset, status, remote, anc>>
    BY DEF OtherTypes
  <1>2. PICK len \in 1..LineLen :
            /\ typed[c] + len <= plan.pieces[c]
            /\ typed' = [typed EXCEPT ![c] = @ + len]
            /\ log' = [log EXCEPT ![c] = @ \o Line(c, typed[c], len)]
            /\ OtherSends(c, {}, Line(c, typed[c], len))
    BY DEF OtherTypes
  <1>3. /\ c \in Node /\ typed[c] \in Nat /\ len \in Nat \ {0} /\ plan \in Plans /\ LineLen \in Nat
        /\ plan.pieces[c] \in Nat
    <2>1. c \in Node /\ typed[c] \in Nat /\ plan \in Plans /\ LineLen \in Nat
      BY Basics DEF IInv, TypeOK, NetTypes
    <2>2. plan.pieces[c] \in Nat
      BY <2>1, LoopAssumption
    <2> QED
      BY <1>2, <2>1, <2>2
  <1>4. PICK ps : ps = Line(c, typed[c], len)
    OBVIOUS
  <1>5. ps \in Seq(Piece) /\ ps = Net!Line(c, typed[c], len)
    BY <1>3, <1>4, LineIsText DEF Line, Net!Line
  <1>6. typed[c] < NetLines[c] * LineLen
    <2>1. typed[c] < plan.pieces[c]
      BY <1>2, <1>3
    <2> QED
      BY <1>3, <2>1, LinesBound
  <1>7. PICK to : to = {e \in holds : At(e) = c}
    OBVIOUS
  <1>8. \A e \in End : Waiting(e)' = IF e \in to THEN Waiting(e) \o ps ELSE Waiting(e)
    <2>1. outs' = [e \in End |-> IF e \in to THEN outs[e] \o ps ELSE outs[e]]
      BY <1>2, <1>4, <1>7 DEF OtherSends
    <2>2. to \cap Conns = {} /\ UNCHANGED data
      BY <1>1, <1>7, WhoseEnds DEF loop
    <2> QED
      BY <2>1, <2>2 DEF Waiting, OutOf, Conns
  <1>9. Net!SendPeers(NetStream, to, ps) /\ NetSent' = NetSent
    BY <1>1, <1>5, <1>8, TextIsQueued
  <1>10. NetPeers' = NetPeers /\ NetBacklog' = NetBacklog
    BY <1>1 DEF NetPeers, NetBacklog, Conns, loop
  <1>11. Net!PeersOf(c) = to
    BY <1>7, WhoseEnds
  <1> QED
    BY <1>1, <1>2, <1>4, <1>5, <1>6, <1>9, <1>10, <1>11 DEF Net!TypeLine

\* A write() of another process.
LEMMA FarWrites ==
    ASSUME IInv, NEW e \in End, OtherWrites(e)
    PROVE  Net!WritePiece(e)
  <1>1. /\ e \in holds /\ outs[e] # <<>> /\ Len(sock[e]) < SockBuf
        /\ sock' = [sock EXCEPT ![e] = Append(@, Head(outs[e]))]
        /\ outs' = [outs EXCEPT ![e] = Tail(@)]
        /\ UNCHANGED <<data, queue, holds, hears, reset, net>>
    BY DEF OtherWrites, loop
  <1>2. e \notin Conns /\ outs \in [End -> Seq(Piece)]
    BY <1>1, WhoseEnds, Basics
  <1>3. Waiting(e) = outs[e] /\ e \in NetPeers
    BY <1>1, <1>2 DEF Waiting, NetPeers
  <1>4. \A x \in End : Waiting(x)' = IF x = e THEN Tail(Waiting(x)) ELSE Waiting(x)
    BY <1>1, <1>2 DEF Waiting, OutOf, Conns
  <1>5. NetPeers' = NetPeers /\ NetBacklog' = NetBacklog
    BY <1>1 DEF NetPeers, NetBacklog, Conns
  <1>6. sock' = [sock EXCEPT ![e] = Append(@, Head(Waiting(e)))] /\ Waiting(e) # <<>>
        /\ Len(sock[e]) < SockBuf /\ UNCHANGED net
    BY <1>1, <1>3
  <1> QED
    BY <1>3, <1>4, <1>5, <1>6, PieceMoves

\* A read() of another process.
LEMMA FarReads ==
    ASSUME IInv, NEW e \in End, OtherReads(e)
    PROVE  Net!ReadPiece(e)
  <1>1. PICK far : far = Far(e)
    OBVIOUS
  <1>2. PICK c : c = At(e)
    OBVIOUS
  <1>3. /\ e \in holds /\ sock[far] # <<>> /\ (NoRing \/ Len(log[c]) < RingMax)
        /\ sock' = [sock EXCEPT ![far] = Tail(@)]
        /\ log' = [log EXCEPT ![c] = Append(@, Head(sock[far]))]
        /\ OtherSends(c, {e}, <<Head(sock[far])>>)
        /\ UNCHANGED <<data, queue, holds, hears, reset, status, remote, typed, anc>>
    BY <1>1, <1>2 DEF OtherReads, loop
  <1>4. far \in End /\ c \in Other
    BY <1>1, <1>2, <1>3, BothEnds DEF IInv, Ends
  <1>5. PICK to : to = {x \in holds : At(x) = c} \ {e}
    OBVIOUS
  <1>6. \A x \in End : Waiting(x)' =
            IF x \in to THEN Waiting(x) \o <<Head(sock[far])>> ELSE Waiting(x)
    <2>1. outs' = [x \in End |-> IF x \in to THEN outs[x] \o <<Head(sock[far])>> ELSE outs[x]]
      BY <1>3, <1>5 DEF OtherSends
    <2>2. to \cap Conns = {} /\ UNCHANGED data
      BY <1>3, <1>5, WhoseEnds
    <2> QED
      BY <2>1, <2>2 DEF Waiting, OutOf, Conns
  <1>7. /\ Net!SendPeers([NetStream EXCEPT ![far] = Tail(@)], to, <<Head(NetStream[far])>>)
        /\ NetSent' = [NetSent EXCEPT ![far] = @ - 1]
        /\ Head(NetStream[far]) = Head(sock[far]) /\ NetSent[far] > 0
    BY <1>3, <1>4, <1>6, PieceIsPassed
  <1>8. Net!At(e) = c /\ Net!Far(e) = far /\ Net!PeersOf(c) = {x \in holds : At(x) = c}
    BY <1>1, <1>2, <1>4, WhoseEnds
  <1>9. NetPeers' = NetPeers /\ NetBacklog' = NetBacklog
    BY <1>3 DEF NetPeers, NetBacklog, Conns
  <1>10. Net!CanRead(e)
    <2>1. e \in NetPeers
      BY <1>3 DEF NetPeers
    <2>2. Net!NoRing \/ Len(log[c]) < RingMax
      BY <1>3, SameJudgement
    <2> QED
      BY <1>7, <1>8, <2>1, <2>2 DEF Net!CanRead
  <1>11. Net!ReadPieceTo(e, Net!PeersOf(Net!At(e)) \ {e})
    <2>1. Net!PeersOf(Net!At(e)) \ {e} = to
      BY <1>5, <1>8
    <2>2. Net!ReadPieceTo(e, to)
      BY <1>3, <1>7, <1>8, <1>9 DEF Net!ReadPieceTo
    <2> QED
      BY <2>1, <2>2
  <1> QED
    BY <1>10, <1>11 DEF Net!ReadPiece

\* Ends that other processes close are taken from the network with their text.
LEMMA FarCloses ==
    ASSUME IInv, NEW es, OtherCloses(es)
    PROVE  /\ NetPeers' = NetPeers \ (es \cap holds) /\ NetBacklog' = NetBacklog \ (es \cap hears)
           /\ \E keep \in [es \cap holds -> 0..SockBuf] :
                 /\ \A e \in es \cap holds : keep[e] <= NetSent[e]
                 /\ Net!Truncate(es \cap holds, keep)
           /\ UNCHANGED <<remote, typed, log, anc>>
  <1>1. /\ holds' = holds \ es /\ hears' = hears \ es
        /\ outs' = [e \in End |-> IF e \in holds \cap es THEN <<>> ELSE outs[e]]
        /\ UNCHANGED <<data, queue, reset, remote, typed, log, anc>>
    BY DEF OtherCloses, loop
  <1>2. PICK cut : cut = es \cap holds
    OBVIOUS
  <1>3. PICK keep \in [cut -> 0..SockBuf] :
            /\ \A e \in cut : keep[e] <= Len(sock[e])
            /\ sock' = [e \in End |-> IF e \in cut THEN SubSeq(sock[e], 1, keep[e]) ELSE sock[e]]
    <2>1. holds \cap es = cut
      BY <1>2
    <2> QED
      BY <2>1 DEF OtherCloses
  <1>4. cut \subseteq End /\ cut \cap Conns = {} /\ ToSet(queue) \cap hears = {} /\ Conns \cap holds = {}
    BY <1>2, Basics, WhoseEnds
  <1>5. \A e \in End : Waiting(e)' = IF e \in cut THEN <<>> ELSE Waiting(e)
    <2>1. outs' = [e \in End |-> IF e \in cut THEN <<>> ELSE outs[e]]
      BY <1>1, <1>2
    <2> QED
      BY <1>1, <1>4, <2>1 DEF Waiting, OutOf, Conns
  <1>6. Net!Truncate(cut, keep)
    <2>1. \A e \in cut : keep[e] \in Nat /\ keep[e] <= Len(sock[e])
      BY <1>3, Basics
    <2>2. \A e \in End : sock'[e] = IF e \in cut THEN SubSeq(sock[e], 1, keep[e]) ELSE sock[e]
      BY <1>3
    <2> QED
      BY <1>4, <1>5, <2>1, <2>2, TextIsCut
  <1>7. \A e \in cut : keep[e] <= NetSent[e]
    BY <1>3, <1>4, NetValues
  <1>8. NetPeers' = NetPeers \ cut
    BY <1>1, <1>2, <1>4 DEF NetPeers, Conns
  <1>9. NetBacklog' = NetBacklog \ (es \cap hears)
    BY <1>1, <1>4 DEF NetBacklog
  <1> QED
    BY <1>1, <1>2, <1>3, <1>6, <1>7, <1>8, <1>9

\* The end of another process, in its loop or before.
LEMMA FarExits ==
    ASSUME IInv, NEW c \in Other, OtherExits(c)
    PROVE  Net!Exit(c) \/ Net!StartFails(c)
  <1>1. PICK es : es = {e \in holds \cup hears : At(e) = c}
    OBVIOUS
  <1>2. /\ status[c] \in {"listening", "up"} /\ status' = [status EXCEPT ![c] = "down"]
        /\ OtherCloses(es)
    BY <1>1 DEF OtherExits
  <1>3. PICK cut : cut = es \cap holds
    OBVIOUS
  <1>4. /\ NetPeers' = NetPeers \ cut /\ NetBacklog' = NetBacklog \ (es \cap hears)
        /\ UNCHANGED <<remote, typed, log, anc>>
    BY <1>2, <1>3, FarCloses
  <1>5. PICK keep \in [cut -> 0..SockBuf] :
            (\A e \in cut : keep[e] <= NetSent[e]) /\ Net!Truncate(cut, keep)
    BY <1>2, <1>3, FarCloses
  <1>6. Net!PeersOf(c) = cut
    BY <1>1, <1>3, WhoseEnds
  <1>7. NetBacklog' = {e \in NetBacklog : Net!At(e) # c}
    <2>1. /\ {e \in NetBacklog : Net!At(e) # c} = ToSet(queue) \cup {e \in hears : At(e) # c}
          /\ ToSet(queue) \cap hears = {}
      BY WhoseEnds
    <2>2. es \cap hears = {e \in hears : At(e) = c}
      BY <1>1
    <2> QED
      BY <1>4, <2>1, <2>2 DEF NetBacklog
  <1>8. CASE status[c] = "up"
    BY <1>2, <1>4, <1>5, <1>6, <1>7, <1>8 DEF Net!Exit
  <1>9. CASE status[c] = "listening"
    <2>1. cut = {}
      <3>1. ASSUME NEW e \in holds, At(e) = c PROVE FALSE
        <4>1. e \notin hears /\ (status[At(e)] = "up" \/ (status[At(e)] = "listening" /\ e \in hears))
          BY WhoseEnds DEF IInv, Ends
        <4> QED
          BY <1>9, <3>1, <4>1
      <3> QED
        BY <1>1, <1>3, <3>1
    <2>2. NetPeers' = NetPeers
      BY <1>4, <2>1
    <2>3. NetStream' = NetStream /\ NetSent' = NetSent
      BY <1>5, <2>1, NetValues DEF Net!Truncate
    <2> QED
      BY <1>2, <1>4, <1>7, <1>9, <2>2, <2>3 DEF Net!StartFails
  <1> QED
    BY <1>2, <1>8, <1>9

\* Another process removes a peer.
LEMMA FarDrops ==
    ASSUME IInv, NEW e \in End, OtherDrops(e)
    PROVE  Net!Drop(e)
  <1>1. e \in holds /\ OtherCloses({e}) /\ UNCHANGED status
    BY DEF OtherDrops
  <1>2. /\ {e} \cap holds = {e} /\ {e} \cap hears = {}
    BY <1>1, WhoseEnds
  <1>3. /\ NetPeers' = NetPeers \ {e} /\ NetBacklog' = NetBacklog
        /\ UNCHANGED <<remote, typed, log, anc>>
    <2>1. /\ NetPeers' = NetPeers \ ({e} \cap holds) /\ NetBacklog' = NetBacklog \ ({e} \cap hears)
          /\ UNCHANGED <<remote, typed, log, anc>>
      BY <1>1, FarCloses
    <2> QED
      BY <1>2, <2>1
  <1>4. PICK keep \in [{e} -> 0..SockBuf] : keep[e] <= NetSent[e] /\ Net!Truncate({e}, keep)
    BY <1>1, <1>2, FarCloses
  <1>5. PICK k : k = keep[e]
    OBVIOUS
  <1>6. k \in 0..NetSent[e]
    <2>1. k \in Nat /\ k <= NetSent[e]
      BY <1>4, <1>5, Basics
    <2>2. NetSent[e] \in Nat
      BY NetValues
    <2> QED
      BY <2>1, <2>2
  <1>7. keep = [f \in {e} |-> k]
    BY <1>4, <1>5
  <1>8. e \in NetPeers
    BY <1>1 DEF NetPeers
  <1>9. Net!Truncate({e}, [f \in {e} |-> k])
    BY <1>4, <1>7
  <1> QED
    BY <1>1, <1>3, <1>6, <1>8, <1>9 DEF Net!Drop

\* Each step of the loop, of the others and of the user is a step of GossipNet,
\* or none.
LEMMA StepMaps ==
    ASSUME IInv, Next
    PROVE  NetStep
  <1>t. /\ Self \in Node /\ Self \notin Other /\ Other \subseteq Node
        /\ status \in [Node -> {"off", "listening", "up", "down"}]
    BY Basics DEF IInv, NetTypes
  <1>u. /\ pc \in {"off", "listen", "poll", "accept", "stdin", "hup", "serve", "read", "write", "done"}
        /\ pc \notin {"off", "listen", "done"} => status[Self] = "up"
        /\ pc = "listen" => status[Self] = "listening"
        /\ pc = "off" => status[Self] = "off"
    BY <1>t DEF IInv, TypeOK, Started
  <1>w. Net!End = End
    BY NetValues
  <1>x. ASSUME UNCHANGED <<data, queue, sock, outs, holds, hears, net>> PROVE NetStep
    BY <1>x, Unmoved DEF net, NetStep, Net!vars
  <1>1. CASE Listen
    <2>1. /\ status[Self] = "off" /\ status' = [status EXCEPT ![Self] = "listening"]
          /\ UNCHANGED <<data, queue, sock, outs, holds, hears, remote, typed, log, anc>>
      BY <1>1, <1>u DEF Listen, conns
    <2>2. Net!Listen(Self)
      BY <2>1, Unmoved DEF Net!Listen
    <2> QED
      BY <1>t, <2>2 DEF NetStep, Net!Next
  <1>2. CASE StartAlone
    <2>1. /\ status[Self] = "listening" /\ status' = [status EXCEPT ![Self] = "up"]
          /\ UNCHANGED <<data, queue, sock, outs, holds, hears, remote, typed, log, anc>>
      BY <1>2, <1>u DEF StartAlone, conns
    <2>2. Net!StartAlone(Self)
      BY <2>1, Unmoved DEF Net!StartAlone
    <2> QED
      BY <1>t, <2>2 DEF NetStep, Net!Next
  <1>3. CASE StartFails
    <2>1. /\ status[Self] = "listening" /\ status' = [status EXCEPT ![Self] = "down"]
          /\ ToSet(queue') = {}
          /\ UNCHANGED <<data, sock, outs, holds, hears, remote, typed, log, anc>>
      BY <1>3, <1>u DEF StartFails, ToSet
    <2>2. NetBacklog' = {e \in NetBacklog : Net!At(e) # Self} /\ NetPeers' = NetPeers
      BY <2>1, WhoseEnds DEF NetBacklog, NetPeers, Conns
    <2>3. NetStream' = NetStream /\ NetSent' = NetSent
      BY <2>1, SameText
    <2>4. Net!StartFails(Self)
      BY <2>1, <2>2, <2>3 DEF Net!StartFails
    <2> QED
      BY <1>t, <2>4 DEF NetStep, Net!Next
  <1>4. ASSUME NEW r \in Node, StartDial(r) PROVE NetStep
    <2>1. /\ EndsIn(data) = {} /\ EndsIn(data') = {DialEnd(Self)} /\ remote[Self] = None
          /\ status[Self] = "listening" /\ status[r] \in {"listening", "up"}
          /\ status' = [status EXCEPT ![Self] = "up"] /\ Joins(Self, r)
          /\ ToSet(queue') = ToSet(queue) \cup {e \in {AcceptEnd(Self)} : r = Self}
          /\ hears' = hears \cup {e \in {AcceptEnd(Self)} : r # Self}
          /\ \A e \in End : OutIn(data', e) = <<>>
          /\ UNCHANGED <<sock, outs, holds, reset, typed, log>>
      BY <1>4, SelfDialled
    <2>2. outs[DialEnd(Self)] = <<>>
      BY <1>t, <2>1, EndsOf, Fresh
    <2>3. \A e \in End : Waiting(e)' = Waiting(e)
      BY <2>1, <2>2 DEF Waiting, OutOf, Conns
    <2>4. NetPeers' = NetPeers \cup {DialEnd(Self)} /\ NetBacklog' = NetBacklog \cup {AcceptEnd(Self)}
      BY <2>1 DEF NetPeers, NetBacklog, Conns
    <2>5. Net!StartDial(Self, r)
      BY <1>t, <2>1, <2>3, <2>4, DialIsMade
    <2> QED
      BY <1>t, <2>5 DEF NetStep, Net!Next
  <1>5. CASE Stops
    <2>1. Net!Exit(Self)
      BY <1>5, LoopEnds
    <2> QED
      BY <1>t, <2>1 DEF NetStep, Net!Next
  <1>6. CASE Poll
    <2>1. UNCHANGED <<data, queue, sock, outs, holds, hears, net>>
      BY <1>6 DEF Poll, loop, conns
    <2> QED
      BY <2>1, <1>x
  <1>7. CASE AcceptPeer
    <2>1. PICK e \in End : e = Head(queue)
      BY <1>7, Accepted
    <2>2. /\ e \in ToSet(queue) /\ EndsIn(data') = EndsIn(data) \cup {e}
          /\ ToSet(queue') = ToSet(queue) \ {e} /\ pc = "accept"
          /\ \A x \in End : OutIn(data', x) = OutIn(data, x)
          /\ UNCHANGED <<sock, outs, holds, hears, reset, status, remote, anc>>
      BY <1>7, <2>1, Accepted
    <2>3. UNCHANGED <<typed, log>>
      BY <1>7 DEF AcceptPeer, net
    <2>4. /\ e \notin Conns /\ e \notin holds /\ e \notin hears /\ At(e) = Self /\ outs[e] = <<>>
          /\ data \in Seq(Peer) /\ Distinct(data)
      BY <2>2, WhoseEnds, Basics DEF IInv, Ends, Buffers
    <2>5. OutIn(data, e) = <<>>
      BY <2>4, OutType DEF Conns
    <2>6. \A x \in End : Waiting(x)' = Waiting(x)
      BY <2>2, <2>4, <2>5 DEF Waiting, OutOf, Conns
    <2>7. NetStream' = NetStream /\ NetSent' = NetSent
      BY <2>2, <2>6, StreamIs, NetValues
    <2>8. e \in NetBacklog /\ NetPeers' = NetPeers \cup {e} /\ NetBacklog' = NetBacklog \ {e}
      BY <2>2, <2>4 DEF NetPeers, NetBacklog, Conns
    <2>9. status[Net!At(e)] = "up"
      BY <1>u, <2>2, <2>4, WhoseEnds
    <2>10. Net!Accept(e)
      BY <2>2, <2>3, <2>7, <2>8, <2>9 DEF Net!Accept
    <2> QED
      BY <1>w, <2>10 DEF NetStep, Net!Next
  <1>8. CASE AcceptDone
    <2>1. UNCHANGED <<data, queue, sock, outs, holds, hears, net>>
      BY <1>8 DEF AcceptDone, loop, conns
    <2> QED
      BY <2>1, <1>x
  <1>9. CASE ReadStdin
    <2>1. /\ pc = "stdin" /\ pipe # <<>>
          /\ UNCHANGED <<conns, status, remote, anc>>
          /\ (SendLine(Append(input, Head(pipe))) \/ UNCHANGED <<data, log, typed>>)
      BY <1>9 DEF ReadStdin
    <2>2. CASE UNCHANGED <<data, log, typed>>
      BY <1>x, <2>1, <2>2 DEF conns, net
    <2>3. CASE SendLine(Append(input, Head(pipe)))
      <3>1. PICK len : len = Len(input) + 1
        OBVIOUS
      <3>2. /\ len \in 1..LineLen /\ Append(input, Head(pipe)) = Line(Self, typed[Self], len)
            /\ typed[Self] % LineLen = 0 /\ typed[Self] < plan.pieces[Self]
        BY <2>1, <3>1, TypedLine
      <3>3. SendLine(Line(Self, typed[Self], len))
        BY <2>3, <3>2
      <3>4. Net!TypeLine(Self)
        BY <1>u, <2>1, <3>2, <3>3, LineGoesOut
      <3> QED
        BY <1>t, <3>4 DEF NetStep, Net!Next
    <2> QED
      BY <2>1, <2>2, <2>3
  <1>10. CASE StdinEof
    <2>1. /\ pc \in {"stdin", "hup"} /\ UNCHANGED <<conns, status, remote, anc>>
          /\ ((input # <<>> /\ SendLine(input)) \/ UNCHANGED <<data, log, typed>>)
      BY <1>10 DEF StdinEof, HandleRemaining
    <2>2. CASE UNCHANGED <<data, log, typed>>
      BY <1>x, <2>1, <2>2 DEF conns, net
    <2>3. CASE input # <<>> /\ SendLine(input)
      <3>1. PICK len : len = Len(input)
        OBVIOUS
      <3>2. /\ len \in 1..LineLen /\ input = Line(Self, typed[Self], len)
            /\ typed[Self] % LineLen = 0 /\ typed[Self] < plan.pieces[Self]
        BY <2>3, <3>1, RestLine
      <3>3. SendLine(Line(Self, typed[Self], len))
        BY <2>3, <3>2
      <3>4. Net!TypeLine(Self)
        BY <1>u, <2>1, <3>2, <3>3, LineGoesOut
      <3> QED
        BY <1>t, <3>4 DEF NetStep, Net!Next
    <2> QED
      BY <2>1, <2>2, <2>3
  <1>11. CASE StdinEmpty
    <2>1. UNCHANGED <<data, queue, sock, outs, holds, hears, net>>
      BY <1>11 DEF StdinEmpty, loop, conns
    <2> QED
      BY <2>1, <1>x
  <1>12. CASE StdinFails
    <2>1. UNCHANGED <<data, queue, sock, outs, holds, hears, net>>
      BY <1>12 DEF StdinFails, loop, conns
    <2> QED
      BY <2>1, <1>x
  <1>13. CASE StdinHup
    <2>1. /\ pc \in {"stdin", "hup"} /\ UNCHANGED <<conns, status, remote, anc>>
          /\ ((input # <<>> /\ SendLine(input)) \/ UNCHANGED <<data, log, typed>>)
      BY <1>13 DEF StdinHup, HandleRemaining
    <2>2. CASE UNCHANGED <<data, log, typed>>
      BY <1>x, <2>1, <2>2 DEF conns, net
    <2>3. CASE input # <<>> /\ SendLine(input)
      <3>1. PICK len : len = Len(input)
        OBVIOUS
      <3>2. /\ len \in 1..LineLen /\ input = Line(Self, typed[Self], len)
            /\ typed[Self] % LineLen = 0 /\ typed[Self] < plan.pieces[Self]
        BY <2>3, <3>1, RestLine
      <3>3. SendLine(Line(Self, typed[Self], len))
        BY <2>3, <3>2
      <3>4. Net!TypeLine(Self)
        BY <1>u, <2>1, <3>2, <3>3, LineGoesOut
      <3> QED
        BY <1>t, <3>4 DEF NetStep, Net!Next
    <2> QED
      BY <2>1, <2>2, <2>3
  <1>14. CASE NextPeer
    <2>1. UNCHANGED <<data, queue, sock, outs, holds, hears, net>>
      BY <1>14 DEF NextPeer, loop, conns
    <2> QED
      BY <2>1, <1>x
  <1>15. CASE RoundDone
    <2>1. UNCHANGED <<data, queue, sock, outs, holds, hears, net>>
      BY <1>15 DEF RoundDone, loop, conns
    <2> QED
      BY <2>1, <1>x
  <1>16. CASE ReadPeer
    <2>1. Net!ReadPiece(Fd) /\ Fd \in End
      BY <1>16, PieceIsRead
    <2>2. PICK e \in End : e = Fd
      BY <2>1
    <2>3. Net!ReadPiece(e)
      BY <2>1, <2>2
    <2> QED
      BY <1>w, <2>3 DEF NetStep, Net!Next
  <1>17. CASE ReadDone
    <2>1. UNCHANGED <<data, queue, sock, outs, holds, hears, net>>
      BY <1>17 DEF ReadDone, loop, conns
    <2> QED
      BY <2>1, <1>x
  <1>18. CASE WritePeer
    <2>1. PICK e \in End : Net!WritePiece(e)
      BY <1>18, PieceIsWritten
    <2> QED
      BY <1>w, <2>1 DEF NetStep, Net!Next
  <1>19. CASE KeepPeer
    <2>1. UNCHANGED <<data, queue, sock, outs, holds, hears, net>>
      BY <1>19 DEF KeepPeer, loop, conns
    <2> QED
      BY <2>1, <1>x
  <1>20. CASE RemovePeer
    <2>1. PICK e \in End : Net!Drop(e)
      BY <1>20, PeerIsDropped
    <2> QED
      BY <1>w, <2>1 DEF NetStep, Net!Next
  <1>21. CASE UserTypes
    <2>1. UNCHANGED <<data, queue, sock, outs, holds, hears, net>>
      BY <1>21 DEF UserTypes, loop, conns
    <2> QED
      BY <2>1, <1>x
  <1>22. CASE UserEnds
    <2>1. UNCHANGED <<data, queue, sock, outs, holds, hears, net>>
      BY <1>22 DEF UserEnds, loop, conns
    <2> QED
      BY <2>1, <1>x
  <1>23. ASSUME NEW c \in Other, OtherListens(c) PROVE NetStep
    <2>1. /\ status[c] = "off" /\ status' = [status EXCEPT ![c] = "listening"]
          /\ UNCHANGED <<data, queue, sock, outs, holds, hears, remote, typed, log, anc>>
      BY <1>23 DEF OtherListens, loop, conns
    <2>2. Net!Listen(c)
      BY <2>1, Unmoved DEF Net!Listen
    <2> QED
      BY <1>t, <2>2 DEF NetStep, Net!Next
  <1>24. ASSUME NEW c \in Other, OtherStarts(c) PROVE NetStep
    <2>1. /\ status[c] = "listening" /\ status' = [status EXCEPT ![c] = "up"]
          /\ UNCHANGED <<data, queue, sock, outs, holds, hears, remote, typed, log, anc>>
      BY <1>24 DEF OtherStarts, loop, conns
    <2>2. Net!StartAlone(c)
      BY <2>1, Unmoved DEF Net!StartAlone
    <2> QED
      BY <1>t, <2>2 DEF NetStep, Net!Next
  <1>25. ASSUME NEW c \in Other, OtherDials(c) PROVE NetStep
    <2>1. /\ status[c] = "listening" /\ status[Self] \in {"listening", "up"}
          /\ status' = [status EXCEPT ![c] = "up"] /\ Joins(c, Self)
          /\ holds' = holds \cup {DialEnd(c)} /\ ToSet(queue') = ToSet(queue) \cup {AcceptEnd(c)}
          /\ remote[c] = None /\ c \in Node
          /\ UNCHANGED <<data, sock, outs, hears, reset, typed, log>>
      BY <1>25, OtherDialled DEF loop
    <2>2. \A e \in End : Waiting(e)' = Waiting(e)
      BY <2>1 DEF Waiting, OutOf, Conns
    <2>3. NetPeers' = NetPeers \cup {DialEnd(c)} /\ NetBacklog' = NetBacklog \cup {AcceptEnd(c)}
      BY <2>1 DEF NetPeers, NetBacklog, Conns
    <2>4. Net!StartDial(c, Self)
      BY <1>t, <2>1, <2>2, <2>3, DialIsMade
    <2> QED
      BY <1>t, <2>4 DEF NetStep, Net!Next
  <1>26. ASSUME NEW c \in Other, OtherTypes(c) PROVE NetStep
    <2>1. Net!TypeLine(c)
      BY <1>26, FarTypes
    <2> QED
      BY <1>t, <2>1 DEF NetStep, Net!Next
  <1>27. ASSUME NEW c \in Other, OtherExits(c) PROVE NetStep
    <2>1. Net!Exit(c) \/ Net!StartFails(c)
      BY <1>27, FarExits
    <2> QED
      BY <1>t, <2>1 DEF NetStep, Net!Next
  <1>28. ASSUME NEW e \in End, OtherAccepts(e) PROVE NetStep
    <2>1. /\ e \in hears /\ status[At(e)] = "up" /\ hears' = hears \ {e} /\ holds' = holds \cup {e}
          /\ UNCHANGED <<data, queue, sock, outs, net>>
      BY <1>28 DEF OtherAccepts, loop
    <2>2. NetStream' = NetStream /\ NetSent' = NetSent
      BY <2>1, SameText
    <2>3. e \in NetBacklog /\ NetPeers' = NetPeers \cup {e} /\ NetBacklog' = NetBacklog \ {e}
      BY <2>1, WhoseEnds DEF NetPeers, NetBacklog, Conns
    <2>4. status[Net!At(e)] = "up"
      BY <2>1, WhoseEnds
    <2>5. Net!Accept(e)
      BY <2>1, <2>2, <2>3, <2>4 DEF Net!Accept, net
    <2> QED
      BY <1>w, <2>5 DEF NetStep, Net!Next
  <1>29. ASSUME NEW e \in End, OtherWrites(e) PROVE NetStep
    <2>1. Net!WritePiece(e)
      BY <1>29, FarWrites
    <2> QED
      BY <1>w, <2>1 DEF NetStep, Net!Next
  <1>30. ASSUME NEW e \in End, OtherReads(e) PROVE NetStep
    <2>1. Net!ReadPiece(e)
      BY <1>30, FarReads
    <2> QED
      BY <1>w, <2>1 DEF NetStep, Net!Next
  <1>31. ASSUME NEW e \in End, OtherDrops(e) PROVE NetStep
    <2>1. Net!Drop(e)
      BY <1>31, FarDrops
    <2> QED
      BY <1>w, <2>1 DEF NetStep, Net!Next
  <1>32. ASSUME NEW e \in End, Resets(e) PROVE NetStep
    <2>1. UNCHANGED <<data, queue, sock, outs, holds, hears, net>>
      BY <1>32 DEF Resets, loop, conns
    <2> QED
      BY <2>1, <1>x
  <1> QED
    BY <1>1, <1>2, <1>3, <1>4, <1>5, <1>6, <1>7, <1>8, <1>9, <1>10, <1>11, <1>12, <1>13,
       <1>14, <1>15, <1>16, <1>17, <1>18, <1>19, <1>20, <1>21, <1>22, <1>23, <1>24, <1>25,
       <1>26, <1>27, <1>28, <1>29, <1>30, <1>31, <1>32
    DEF Stops, Next, LoopNext, OthersNext

\* The network starts with nobody listening and nothing sent.
LEMMA InitMaps == Init => Net!Init
  <1> SUFFICES ASSUME Init PROVE Net!Init
    OBVIOUS
  <1>1. Conns = {} /\ ToSet(queue) = {} /\ holds = {} /\ hears = {}
    BY DEF Init, Conns, EndsIn, ToSet
  <1>2. NetPeers = {} /\ NetBacklog = {} /\ Net!End = End
    BY <1>1 DEF NetPeers, NetBacklog, Net!End, End
  <1>3. NetStream = [e \in End |-> <<>>]
    <2>1. \A e \in End : sock[e] = <<>> /\ outs[e] = <<>>
      BY DEF Init
    <2>2. <<>> \o <<>> = <<>>
      OBVIOUS
    <2> QED
      BY <1>1, <2>1, <2>2 DEF NetStream
  <1>4. NetSent = [e \in End |-> 0]
    <2>1. \A e \in End : Len(sock[e]) = 0
      BY DEF Init
    <2> QED
      BY <2>1 DEF NetSent
  <1> QED
    BY <1>2, <1>3, <1>4 DEF Init, Net!Init

\* The loop, with its arrays and indices, among any number of processes that do
\* what GossipNet says, is one of them, whoever dials whom first: what it reads it
\* prints and passes on once, to every peer but the one it came from, what is
\* typed goes out once, and no peer's out buffer changes or is lost when another
\* is removed or accepted.
THEOREM IsOneProcess == Spec => IsGossipProcess
  <1>1. IInv /\ [Next]_vars => [Net!Next]_(Net!vars)
    <2>1. ASSUME IInv, Next PROVE [Net!Next]_(Net!vars)
      BY <2>1, StepMaps DEF NetStep
    <2>2. ASSUME UNCHANGED vars PROVE UNCHANGED (Net!vars)
      <3>1. UNCHANGED <<data, queue, sock, outs, holds, hears, net>>
        BY <2>2 DEF vars, loop, conns
      <3> QED
        BY <3>1, Unmoved DEF net, Net!vars
    <2> QED
      BY <2>1, <2>2
  <1> QED
    BY <1>1, InitMaps, Invariant, PTL DEF Spec, IsGossipProcess, Net!Spec
=============================================================================
