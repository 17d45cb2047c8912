------------------------------ MODULE LzwProofs ------------------------------
(***************************************************************************)
(* What lzw -x makes of what lzw -c has written, for every base, every      *)
(* number of characters and every file.                                     *)
(***************************************************************************)
EXTENDS Lzw, Measures, SequenceTheorems

-----------------------------------------------------------------------------
(* Digits.                                                                 *)

\* A factor that is not 0 may be taken away from both sides.
LEMMA Cancel ==
    ASSUME NEW m \in Nat \ {0}, NEW a \in Nat, NEW b \in Nat, m * a < m * b
    PROVE  a < b
  <1> SUFFICES ASSUME b <= a PROVE FALSE
    OBVIOUS
  <1>1. a - b \in Nat /\ a = b + (a - b)
    OBVIOUS
  <1>2. m * (b + (a - b)) = m * b + m * (a - b) /\ m * (a - b) \in Nat /\ m * b \in Nat
    BY <1>1
  <1> QED
    BY <1>1, <1>2

\* How many bytes and how many codes there are.
LEMMA Sizes ==
    /\ D \in Nat \ {0} /\ D * D \in Nat \ {0} /\ D * D * D \in Nat \ {0} /\ D * (D * D) = D * D * D
    /\ (D * D) * D = D * D * D
    /\ FirstCode \in Nat \ {0} /\ FirstCode <= D * D - 1 /\ D * D - 1 <= MAX_CODE
    /\ MAX_CODE \in Nat /\ MAX_CODE + 1 = D * D * D
  <1>1. D \in Nat \ {0} /\ FirstCode \in Byte \ {0}
    BY LzwAssumption
  <1>2. D * D \in Nat \ {0}
    BY <1>1
  <1>3. D * D * D \in Nat \ {0} /\ D * (D * D) = D * D * D /\ (D * D) * D = D * D * D
    BY <1>1, <1>2
  <1>4. D * D <= D * D * D
    <2> DEFINE B == D * D
    <2>1. B \in Nat /\ D - 1 \in Nat /\ D = (D - 1) + 1
      BY <1>1, <1>2
    <2> HIDE DEF B
    <2>2. B * D = B * (D - 1) + B /\ B * (D - 1) \in Nat
      BY <2>1, <1>1
    <2>3. B <= B * D
      BY <2>1, <2>2
    <2> QED
      BY <2>3 DEF B
  <1>5. MAX_CODE \in Nat /\ MAX_CODE + 1 = D * D * D
    BY <1>3 DEF MAX_CODE
  <1>6. D * D - 1 <= MAX_CODE
    BY <1>2, <1>3, <1>4, <1>5
  <1>7. FirstCode \in Nat \ {0} /\ FirstCode <= D * D - 1
    BY <1>1, <1>2 DEF Byte
  <1> QED
    BY <1>1, <1>2, <1>3, <1>5, <1>6, <1>7

\* Masking leaves three digits, and changes no code that has no more.
LEMMA MaskedCode ==
    ASSUME NEW c \in Nat
    PROVE  Masked(c) \in 0..MAX_CODE /\ (c <= MAX_CODE => Masked(c) = c)
  <1> DEFINE m == MAX_CODE + 1
  <1>1. m \in Nat \ {0} /\ MAX_CODE \in Nat /\ m - 1 = MAX_CODE
    BY Sizes
  <1>2. Masked(c) = c % m
    BY DEF Masked
  <1> HIDE DEF m
  <1>3. c % m \in 0..(m - 1)
    BY <1>1, DivMod
  <1>4. ASSUME c <= MAX_CODE PROVE c % m = c
    <2>1. c \in 0..(m - 1) /\ 0 \in Nat
      BY <1>1, <1>4
    <2>2. (m * 0 + c) % m = c
      BY <1>1, <2>1, DivModOf
    <2>3. m * 0 + c = c
      BY <1>1
    <2> QED
      BY <2>2, <2>3
  <1> QED
    BY <1>1, <1>2, <1>3, <1>4

\* A code of three digits is its first two and its last one, and its first and its
\* last two.
LEMMA Digits ==
    ASSUME NEW c \in 0..MAX_CODE
    PROVE  /\ c \div D \in Byte /\ c % D \in 0..(D - 1) /\ (c \div D) * D + (c % D) = c
           /\ c \div (D * D) \in 0..(D - 1) /\ c % (D * D) \in Byte
           /\ (c \div (D * D)) * (D * D) + (c % (D * D)) = c
  <1> DEFINE B == D * D
  <1>1. /\ D \in Nat \ {0} /\ B \in Nat \ {0} /\ D * B = MAX_CODE + 1 /\ B * D = MAX_CODE + 1
        /\ MAX_CODE \in Nat /\ c \in Nat /\ c < MAX_CODE + 1
    BY Sizes
  <1>2. Byte = 0..B - 1
    BY DEF Byte
  <1> HIDE DEF B
  <1>3. c = D * (c \div D) + (c % D) /\ c % D \in 0..(D - 1) /\ c \div D \in Nat
    BY <1>1, DivMod
  <1>4. c = B * (c \div B) + (c % B) /\ c % B \in 0..(B - 1) /\ c \div B \in Nat
    BY <1>1, DivMod
  <1>5. D * (c \div D) < D * B
    <2> DEFINE x == D * (c \div D)
    <2>1. x \in Nat /\ c % D \in Nat /\ c = x + (c % D)
      BY <1>1, <1>3
    <2> HIDE DEF x
    <2>2. x < MAX_CODE + 1
      BY <1>1, <2>1
    <2> QED
      BY <1>1, <2>2 DEF x
  <1>6. B * (c \div B) < B * D
    <2> DEFINE x == B * (c \div B)
    <2>1. x \in Nat /\ c % B \in Nat /\ c = x + (c % B)
      BY <1>1, <1>4
    <2> HIDE DEF x
    <2>2. x < MAX_CODE + 1
      BY <1>1, <2>1
    <2> QED
      BY <1>1, <2>2 DEF x
  <1>7. c \div D < B
    BY <1>1, <1>3, <1>5, Cancel
  <1>8. c \div B < D
    BY <1>1, <1>4, <1>6, Cancel
  <1>9. (c \div D) * D + (c % D) = c /\ (c \div B) * B + (c % B) = c
    BY <1>1, <1>3, <1>4
  <1> QED
    BY <1>1, <1>2, <1>3, <1>4, <1>7, <1>8, <1>9 DEF B

\* The middle byte of three has the last digit of one code and the first of the next.
LEMMA Middle ==
    ASSUME NEW q \in 0..(D - 1), NEW r \in 0..(D - 1)
    PROVE  q * D + r \in Byte /\ (q * D + r) \div D = q /\ (q * D + r) % D = r
  <1>1. D \in Nat \ {0} /\ D * D \in Nat \ {0} /\ q \in Nat /\ r \in Nat
    BY Sizes
  <1>2. q * D = D * q /\ D * q \in Nat
    BY <1>1
  <1>3. (D * q + r) \div D = q /\ (D * q + r) % D = r
    BY <1>1, DivModOf
  <1>4. D * q + r <= D * D - 1
    <2>1. D - 1 - q \in Nat /\ D = q + (D - 1 - q) + 1
      BY <1>1
    <2>2. D * D = D * q + D * (D - 1 - q) + D /\ D * (D - 1 - q) \in Nat
      BY <1>1, <2>1
    <2> QED
      BY <1>1, <1>2, <2>2
  <1> QED
    BY <1>1, <1>2, <1>3, <1>4 DEF Byte

-----------------------------------------------------------------------------
(* Packing and unpacking.                                                  *)

\* Two codes are three bytes.
LEMMA PairBack ==
    ASSUME NEW c \in 0..MAX_CODE, NEW d \in 0..MAX_CODE,
           NEW x, NEW y, NEW z, x = PackedPair(c, d)[1], y = PackedPair(c, d)[2], z = PackedPair(c, d)[3]
    PROVE  /\ x \in Byte /\ y \in Byte /\ z \in Byte
           /\ x * D + y \div D = c /\ (y % D) * D * D + z = d
  <1>1. x = c \div D /\ y = (c % D) * D + d \div (D * D) /\ z = d % (D * D)
    BY DEF PackedPair
  <1>2. /\ c \div D \in Byte /\ c % D \in 0..(D - 1) /\ (c \div D) * D + (c % D) = c
    BY Digits
  <1>3. /\ d \div (D * D) \in 0..(D - 1) /\ d % (D * D) \in Byte
        /\ (d \div (D * D)) * (D * D) + (d % (D * D)) = d
    BY Digits
  <1>4. y \in Byte /\ y \div D = c % D /\ y % D = d \div (D * D)
    BY <1>1, <1>2, <1>3, Middle
  <1>5. x * D + y \div D = c
    BY <1>1, <1>2, <1>4
  <1>6. (y % D) * D * D + z = d
    <2> DEFINE q == d \div (D * D)
    <2>1. q \in Nat /\ D \in Nat
      BY <1>3, Sizes
    <2>2. q * (D * D) + z = d /\ y % D = q
      BY <1>1, <1>3, <1>4
    <2> HIDE DEF q
    <2>3. q * D * D = q * (D * D)
      BY <2>1
    <2> QED
      BY <2>2, <2>3
  <1> QED
    BY <1>1, <1>2, <1>3, <1>4, <1>5, <1>6

\* One code is two.
LEMMA LastBack ==
    ASSUME NEW c \in 0..MAX_CODE, NEW x, NEW y, x = PackedLast(c)[1], y = PackedLast(c)[2]
    PROVE  x \in Byte /\ y \in Byte /\ x * D + y \div D = c
  <1>1. x = c \div D /\ y = (c % D) * D
    BY DEF PackedLast
  <1>2. c \div D \in Byte /\ c % D \in 0..(D - 1) /\ (c \div D) * D + (c % D) = c
    BY Digits
  <1>3. 0 \in 0..(D - 1) /\ (c % D) * D \in Nat
    BY Sizes, <1>2
  <1>4. y = (c % D) * D + 0
    BY <1>1, <1>3
  <1>5. y \in Byte /\ y \div D = c % D
    BY <1>2, <1>3, <1>4, Middle
  <1> QED
    BY <1>1, <1>2, <1>5

\* The bytes at their places in the file.
LEMMA Places ==
    ASSUME NEW cs \in Seq(Nat), NEW h \in Nat, NEW o \in {0, 1}, Len(cs) = 2 * h + o
    PROVE  /\ DOMAIN Pack(cs) = 1..3 * h + 2 * o
           /\ \A g \in 1..h : \A r \in 1..3 :
                 Pack(cs)[3 * g - 3 + r] = PackedPair(Masked(cs[2 * g - 1]), Masked(cs[2 * g]))[r]
           /\ o = 1 => \A r \in 1..2 : Pack(cs)[3 * h + r] = PackedLast(Masked(cs[2 * h + 1]))[r]
  <1>1. (3 * Len(cs) + 1) \div 2 = 3 * h + 2 * o
    OBVIOUS
  <1>2. DOMAIN Pack(cs) = 1..3 * h + 2 * o
    BY <1>1 DEF Pack
  <1>3. \A k \in 1..3 * h + 2 * o : Pack(cs)[k] = Written(cs, (k + 2) \div 3)[((k + 2) % 3) + 1]
    BY <1>1 DEF Pack
  <1>4. ASSUME NEW g \in 1..h, NEW r \in 1..3
        PROVE  Pack(cs)[3 * g - 3 + r] = PackedPair(Masked(cs[2 * g - 1]), Masked(cs[2 * g]))[r]
    <2> DEFINE k == 3 * g - 3 + r
    <2>1. k \in 1..3 * h + 2 * o /\ (k + 2) \div 3 = g /\ ((k + 2) % 3) + 1 = r /\ 2 * g <= Len(cs)
      OBVIOUS
    <2>2. Pack(cs)[k] = Written(cs, g)[r]
      BY <1>3, <2>1
    <2> QED
      BY <2>1, <2>2 DEF Written
  <1>5. ASSUME o = 1, NEW r \in 1..2
        PROVE  Pack(cs)[3 * h + r] = PackedLast(Masked(cs[2 * h + 1]))[r]
    <2> DEFINE k == 3 * h + r
    <2>1. k \in 1..3 * h + 2 * o /\ (k + 2) \div 3 = h + 1 /\ ((k + 2) % 3) + 1 = r
          /\ ~(2 * (h + 1) <= Len(cs)) /\ 2 * (h + 1) - 1 = 2 * h + 1
      BY <1>5
    <2>2. Pack(cs)[k] = Written(cs, h + 1)[r]
      BY <1>3, <2>1
    <2> QED
      BY <2>1, <2>2 DEF Written
  <1> QED
    BY <1>2, <1>4, <1>5

\* What is unpacked is what was packed, cut to three digits.
LEMMA Unpacked ==
    ASSUME NEW cs \in Seq(Nat)
    PROVE  Pack(cs) \in Seq(Byte) /\ Unpack(Pack(cs)) = [k \in 1..Len(cs) |-> Masked(cs[k])]
  <1> DEFINE n == Len(cs)
             b == Pack(cs)
             h == n \div 2
             o == n % 2
             M(k) == Masked(cs[k])
  <1>1. n \in Nat /\ h \in Nat /\ o \in {0, 1} /\ n = 2 * h + o
    BY LenProperties
  <1>2. \A k \in 1..n : cs[k] \in Nat /\ M(k) \in 0..MAX_CODE
    BY MaskedCode
  <1>3. /\ DOMAIN b = 1..3 * h + 2 * o
        /\ \A g \in 1..h : \A r \in 1..3 : b[3 * g - 3 + r] = PackedPair(M(2 * g - 1), M(2 * g))[r]
        /\ o = 1 => \A r \in 1..2 : b[3 * h + r] = PackedLast(M(2 * h + 1))[r]
    <2> HIDE DEF h, o
    <2> QED
      BY <1>1, Places
  <1> HIDE DEF n, b, h, o, M
  <1>4. ASSUME NEW g \in 1..h
        PROVE  /\ b[3 * g - 2] \in Byte /\ b[3 * g - 1] \in Byte /\ b[3 * g] \in Byte
               /\ b[3 * g - 2] * D + b[3 * g - 1] \div D = M(2 * g - 1)
               /\ (b[3 * g - 1] % D) * D * D + b[3 * g] = M(2 * g)
    <2>1. 2 * g - 1 \in 1..n /\ 2 * g \in 1..n /\ 3 * g - 3 + 1 = 3 * g - 2 /\ 3 * g - 3 + 2 = 3 * g - 1
          /\ 3 * g - 3 + 3 = 3 * g
      BY <1>1
    <2>2. M(2 * g - 1) \in 0..MAX_CODE /\ M(2 * g) \in 0..MAX_CODE
      BY <1>2, <2>1
    <2>3. /\ b[3 * g - 2] = PackedPair(M(2 * g - 1), M(2 * g))[1]
          /\ b[3 * g - 1] = PackedPair(M(2 * g - 1), M(2 * g))[2]
          /\ b[3 * g] = PackedPair(M(2 * g - 1), M(2 * g))[3]
      BY <1>3, <2>1
    <2> QED
      BY <2>2, <2>3, PairBack
  <1>5. ASSUME o = 1
        PROVE  /\ b[3 * h + 1] \in Byte /\ b[3 * h + 2] \in Byte
               /\ b[3 * h + 1] * D + b[3 * h + 2] \div D = M(2 * h + 1)
    <2>1. 2 * h + 1 \in 1..n
      BY <1>1, <1>5
    <2>2. b[3 * h + 1] = PackedLast(M(2 * h + 1))[1] /\ b[3 * h + 2] = PackedLast(M(2 * h + 1))[2]
      BY <1>3, <1>5
    <2> QED
      BY <1>2, <2>1, <2>2, LastBack
  <1>6. b \in Seq(Byte) /\ Len(b) = 3 * h + 2 * o
    <2>1. ASSUME NEW k \in 1..3 * h + 2 * o PROVE b[k] \in Byte
      <3>1. CASE k <= 3 * h
        <4> DEFINE g == (k + 2) \div 3
        <4>1. g \in 1..h /\ (k = 3 * g - 2 \/ k = 3 * g - 1 \/ k = 3 * g)
          BY <1>1, <3>1
        <4> QED
          BY <1>4, <4>1
      <3>2. CASE k > 3 * h
        <4>1. o = 1 /\ (k = 3 * h + 1 \/ k = 3 * h + 2)
          BY <1>1, <3>2
        <4> QED
          BY <1>5, <4>1
      <3> QED
        BY <1>1, <3>1, <3>2
    <2>2. b = [k \in 1..3 * h + 2 * o |-> b[k]]
      BY <1>3 DEF b, Pack
    <2>3. 3 * h + 2 * o \in Nat
      BY <1>1
    <2> QED
      BY <2>1, <2>2, <2>3
  <1>7. Len(b) \div 3 = h /\ (Len(b) % 3 = 2 <=> o = 1)
    BY <1>1, <1>6
  <1> DEFINE pairs == [i \in 1..2 * h |-> IF i % 2 = 1 THEN FirstCodeOf(b, 3 * (i \div 2) + 1)
                                                    ELSE SecondCodeOf(b, 3 * (i \div 2) - 2)]
  <1>8. ASSUME NEW i \in 1..2 * h PROVE pairs[i] = M(i)
    <2>1. CASE i % 2 = 1
      <3> DEFINE g == (i \div 2) + 1
      <3>1. g \in 1..h /\ i = 2 * g - 1 /\ 3 * (i \div 2) + 1 = 3 * g - 2 /\ (3 * g - 2) + 1 = 3 * g - 1
        BY <1>1, <2>1
      <3>2. pairs[i] = FirstCodeOf(b, 3 * g - 2)
        BY <2>1, <3>1
      <3> HIDE DEF g, pairs
      <3>3. FirstCodeOf(b, 3 * g - 2) = b[3 * g - 2] * D + b[3 * g - 1] \div D
        BY <3>1 DEF FirstCodeOf
      <3> QED
        BY <1>4, <3>1, <3>2, <3>3
    <2>2. CASE i % 2 # 1
      <3> DEFINE g == i \div 2
      <3>1. g \in 1..h /\ i = 2 * g /\ (3 * g - 2) + 1 = 3 * g - 1 /\ (3 * g - 2) + 2 = 3 * g
        BY <1>1, <2>2
      <3>2. pairs[i] = SecondCodeOf(b, 3 * g - 2)
        BY <2>2, <3>1
      <3> HIDE DEF g, pairs
      <3>3. SecondCodeOf(b, 3 * g - 2) = (b[3 * g - 1] % D) * D * D + b[3 * g]
        BY <3>1 DEF SecondCodeOf
      <3> QED
        BY <1>4, <3>1, <3>2, <3>3
    <2> QED
      BY <2>1, <2>2
  <1>9. Unpack(b) = IF o = 1 THEN Append(pairs, FirstCodeOf(b, 3 * h + 1)) ELSE pairs
    BY <1>7 DEF Unpack
  <1>10. pairs \in Seq(Nat) /\ Len(pairs) = 2 * h
    <2>1. \A i \in 1..2 * h : i \in 1..n
      BY <1>1
    <2>2. \A i \in 1..2 * h : pairs[i] \in Nat
      BY <1>2, <1>8, <2>1, Sizes
    <2>3. 2 * h \in Nat /\ pairs = [i \in 1..2 * h |-> pairs[i]]
      BY <1>1
    <2> HIDE DEF pairs
    <2> QED
      BY <2>2, <2>3
  <1> HIDE DEF pairs
  <1>11. Unpack(b) = [k \in 1..n |-> M(k)]
    <2>1. CASE o = 0
      <3>1. Unpack(b) = pairs /\ n = 2 * h
        BY <1>1, <1>9, <2>1
      <3>2. pairs = [k \in 1..2 * h |-> pairs[k]]
        BY <1>10
      <3> QED
        BY <1>8, <3>1, <3>2
    <2>2. CASE o = 1
      <3> DEFINE u == Append(pairs, M(n))
      <3>1. 3 * h + 1 + 1 = 3 * h + 2 /\ n = 2 * h + 1 /\ n \in 1..n
        BY <1>1, <2>2
      <3>2. FirstCodeOf(b, 3 * h + 1) = M(n)
        BY <1>5, <2>2, <3>1 DEF FirstCodeOf
      <3>3. Unpack(b) = u
        BY <1>9, <2>2, <3>2
      <3>4. M(n) \in Nat
        BY <1>2, <3>1, Sizes
      <3>5. u \in Seq(Nat) /\ Len(u) = n /\ u[n] = M(n) /\ \A k \in 1..2 * h : u[k] = pairs[k]
        BY <1>10, <3>1, <3>4
      <3> HIDE DEF u
      <3>6. u = [k \in 1..n |-> u[k]]
        BY <3>5
      <3>7. ASSUME NEW k \in 1..n PROVE u[k] = M(k)
        <4>1. k = n \/ k \in 1..2 * h
          BY <1>1, <3>1
        <4> QED
          BY <1>8, <3>5, <4>1
      <3> QED
        BY <3>3, <3>6, <3>7
    <2> QED
      BY <1>1, <2>1, <2>2
  <1> QED
    BY <1>6, <1>11 DEF b, n, M

-----------------------------------------------------------------------------
(* Strings and dictionaries.                                               *)

\* A string with one more character is a string, and begins as it did.
LEMMA Words ==
    ASSUME NEW s \in Seq(Byte \ {0}), NEW b \in Byte
    PROVE  /\ Str(b) \in Seq(Byte \ {0}) /\ Concat(s, b) \in Seq(Byte \ {0})
           /\ FirstOf(s) \in Byte /\ FirstOf(Str(b)) = b
           /\ FirstOf(Concat(s, b)) = IF s = <<>> THEN b ELSE FirstOf(s)
           /\ (s # <<>> => Concat(s, b) # <<>>) /\ (b # 0 => Str(b) # <<>> /\ Concat(s, b) = Append(s, b))
           /\ (b = 0 => Concat(s, b) = s)
  <1>1. Str(b) \in Seq(Byte \ {0})
    BY DEF Str
  <1>2. Concat(s, b) = IF b = 0 THEN s ELSE Append(s, b)
    <2>1. s \o <<>> = s
      BY ConcatEmptySeq
    <2>2. b # 0 => Append(s, b) = s \o <<b>>
      BY AppendIsConcat
    <2> QED
      BY <2>1, <2>2 DEF Concat, Str
  <1>3. 0 \in Byte
    BY Sizes DEF Byte
  <1>4. FirstOf(s) \in Byte
    BY <1>3 DEF FirstOf
  <1>5. FirstOf(Str(b)) = b
    BY DEF FirstOf, Str
  <1>6. FirstOf(Concat(s, b)) = IF s = <<>> THEN b ELSE FirstOf(s)
    BY <1>2 DEF FirstOf
  <1> QED
    BY <1>1, <1>2, <1>4, <1>5, <1>6 DEF Str

\* The first char of a string is a byte, and 0 if the string is empty.
LEMMA FirstType ==
    ASSUME NEW s \in Seq(Byte \ {0})
    PROVE  FirstOf(s) \in Byte /\ (FirstOf(s) = 0 <=> s = <<>>)
  <1>1. 0 \in Byte
    BY Sizes DEF Byte
  <1>2. s # <<>> => s[1] \in Byte \ {0}
    OBVIOUS
  <1> QED
    BY <1>1, <1>2 DEF FirstOf

\* The bytes of the file, and what the invariant says of codes as numbers.
LEMMA Typed ==
    ASSUME IInv
    PROVE  /\ input \in Seq(Byte) /\ Len(input) \in Nat /\ \A k \in 1..Len(input) : input[k] \in Byte
           /\ pos \in Nat /\ pos >= 1 /\ pos <= Len(input) + 1
           /\ next_code \in Nat /\ next_code >= FirstCode
           /\ codes \in Seq(Nat) /\ Len(codes) \in Nat
           /\ \A k \in 1..Len(codes) : codes[k] \in Nat /\ codes[k] <= next_code - 1 /\ codes[k] <= FirstCode + k - 2
           /\ Len(codes) <= Len(input) /\ (codes = <<>> <=> Len(codes) = 0)
  <1>1. input \in Seq(Byte) /\ codes \in Seq(0..next_code - 1) /\ next_code \in Nat /\ pos \in 1..Len(input) + 1
    BY LzwAssumption DEF IInv, TypeOK
  <1>2. Len(input) \in Nat /\ (\A k \in 1..Len(input) : input[k] \in Byte) /\ Len(codes) \in Nat
        /\ \A k \in 1..Len(codes) : codes[k] \in 0..next_code - 1
    BY <1>1
  <1>3. codes \in Seq(Nat)
    BY <1>1
  <1>4. FirstCode \in Nat /\ Len(codes) <= Len(input)
        /\ (\A k \in 1..Len(codes) : codes[k] <= FirstCode + k - 2)
        /\ Len(codes) = (next_code - FirstCode) + (IF Encoded /\ input # <<>> THEN 1 ELSE 0)
        /\ pc \in {"open", "encode", "pack", "unpack", "decode", "done", "crash"}
    BY Sizes DEF IInv, Counted, TypeOK
  <1>5. next_code >= FirstCode
    <2>1. FirstCode - 1 \in Singles
      BY Sizes DEF Singles
    <2>2. dict[Str(FirstCode - 1)] = FirstCode - 1 /\ Str(FirstCode - 1) \in DOMAIN dict
      BY <2>1 DEF IInv, Numbered
    <2>3. dict[Str(FirstCode - 1)] \in 0..next_code - 1
      BY <2>2 DEF IInv, TypeOK
    <2> QED
      BY <1>1, <1>4, <2>2, <2>3
  <1> QED
    BY <1>1, <1>2, <1>3, <1>4, <1>5

-----------------------------------------------------------------------------
(* Types.                                                                  *)

\* The string that the decoder takes for a code.
LEMMA ValueType ==
    ASSUME TypeOK, NEW c
    PROVE  Value(c) \in Seq(Byte \ {0})
  <1>1. prev_str \in Seq(Byte \ {0}) /\ \A x \in DOMAIN strings : strings[x] \in Seq(Byte \ {0})
    BY DEF TypeOK
  <1>2. Concat(prev_str, FirstOf(prev_str)) \in Seq(Byte \ {0})
    <2>1. FirstOf(prev_str) \in Byte
      BY <1>1, FirstType
    <2> QED
      BY <1>1, <2>1, Words
  <1> QED
    BY <1>1, <1>2 DEF Value

\* What the decoder begins with: the codes, of which the first is a character's.
LEMMA FirstUnpacked ==
    ASSUME IInv, pc = "unpack"
    PROVE  LET cs == Unpack(file) IN
           /\ cs = [k \in 1..Len(codes) |-> Masked(codes[k])]
           /\ cs \in Seq(0..MAX_CODE) /\ (cs = <<>> <=> codes = <<>>)
           /\ codes # <<>> => /\ cs[1] = codes[1] /\ cs[1] \in Singles /\ strings = [c \in Singles |-> Str(c)]
                              /\ strings[cs[1]] = Str(cs[1]) /\ strings[cs[1]] \in Seq(Byte \ {0})
  <1> DEFINE cs == Unpack(file)
  <1>t. codes \in Seq(Nat) /\ Len(codes) \in Nat /\ (codes = <<>> <=> Len(codes) = 0)
        /\ \A k \in 1..Len(codes) : codes[k] \in Nat /\ codes[k] <= FirstCode + k - 2
    BY Typed
  <1>1. file = Pack(codes)
    BY DEF IInv, Handed
  <1>2. cs = [k \in 1..Len(codes) |-> Masked(codes[k])]
    BY <1>t, <1>1, Unpacked
  <1> HIDE DEF cs
  <1>3. \A k \in 1..Len(codes) : Masked(codes[k]) \in 0..MAX_CODE
    BY <1>t, MaskedCode
  <1>4. cs \in Seq(0..MAX_CODE) /\ Len(cs) = Len(codes)
    BY <1>t, <1>2, <1>3
  <1>5. cs = <<>> <=> codes = <<>>
    BY <1>t, <1>4
  <1>6. ASSUME codes # <<>>
        PROVE  /\ cs[1] = codes[1] /\ cs[1] \in Singles /\ strings = [c \in Singles |-> Str(c)]
               /\ strings[cs[1]] = Str(cs[1]) /\ strings[cs[1]] \in Seq(Byte \ {0})
    <2>1. 1 \in 1..Len(codes)
      BY <1>t, <1>6
    <2>2. codes[1] \in Nat /\ codes[1] <= FirstCode - 1 /\ FirstCode \in Nat /\ FirstCode - 1 <= MAX_CODE
      BY <1>t, <2>1, Sizes
    <2>3. codes[1] \in Singles /\ codes[1] <= MAX_CODE
      BY <2>2, Sizes DEF Singles
    <2>4. cs[1] = codes[1]
      BY <1>2, <2>1, <2>2, <2>3, MaskedCode
    <2>5. strings = [c \in Singles |-> Str(c)]
      BY DEF IInv, Handed, Decoding
    <2>6. strings[cs[1]] = Str(cs[1])
      BY <2>3, <2>4, <2>5
    <2>7. strings[cs[1]] \in Seq(Byte \ {0})
      BY <2>3, <2>4, <2>5 DEF IInv, TypeOK
    <2> QED
      BY <2>3, <2>4, <2>5, <2>6, <2>7
  <1> QED
    BY <1>2, <1>4, <1>5, <1>6 DEF cs

\* Where the decoder stands.
LEMMA Position ==
    ASSUME IInv, pc = "decode"
    PROVE  /\ unpacked = [k \in 1..Len(codes) |-> Masked(codes[k])] /\ Len(unpacked) = Len(codes)
           /\ codes # <<>> /\ pos \in 1..Len(codes)
  <1>t. codes \in Seq(Nat) /\ Len(codes) \in Nat /\ (codes = <<>> <=> Len(codes) = 0) /\ pos \in Nat /\ pos >= 1
    BY Typed
  <1>1. unpacked = [k \in 1..Len(codes) |-> Masked(codes[k])]
    BY DEF IInv, Handed, LowDigitsKept
  <1>2. Len(unpacked) = Len(codes)
    BY <1>t, <1>1
  <1>3. codes # <<>> /\ pos <= Len(codes)
    BY DEF IInv, Handed, Decoding
  <1> QED
    BY <1>t, <1>1, <1>2, <1>3

\* Both programs keep their types; the decoder looks no code up that it has no string
\* for, because the first code is a character's.
LEMMA TypesKept ==
    ASSUME IInv, Next
    PROVE  TypeOK'
  <1>t. /\ input \in Seq(Byte) /\ Len(input) \in Nat /\ (\A k \in 1..Len(input) : input[k] \in Byte)
        /\ pos \in Nat /\ pos >= 1 /\ pos <= Len(input) + 1
        /\ next_code \in Nat /\ codes \in Seq(Nat) /\ Len(codes) \in Nat /\ Len(codes) <= Len(input)
    BY Typed
  <1>o. /\ TypeOK /\ prev \in Seq(Byte \ {0}) /\ codes \in Seq(0..next_code - 1)
        /\ \A s \in DOMAIN dict : s \in Seq(Byte \ {0}) /\ dict[s] \in 0..next_code - 1
    BY DEF IInv, TypeOK
  <1>1. CASE ReadFirst
    <2>1. CASE input = <<>>
      BY <1>1, <1>o, <2>1 DEF ReadFirst, TypeOK, decoder
    <2>2. CASE input # <<>>
      <3>1. 1 \in 1..Len(input)
        BY <1>t, <2>2
      <3>2. Str(input[1]) \in Seq(Byte \ {0}) /\ 2 \in 1..Len(input) + 1
        BY <1>t, <1>o, <3>1, Words
      <3> QED
        BY <1>1, <1>o, <2>2, <3>2 DEF ReadFirst, TypeOK, decoder
    <2> QED
      BY <2>1, <2>2
  <1>2. CASE Extend
    <2>1. pos \in 1..Len(input) /\ pos + 1 \in 1..Len(input) + 1
      BY <1>t, <1>2 DEF Extend
    <2>2. Concat(prev, input[pos]) \in Seq(Byte \ {0})
      BY <1>t, <1>o, <2>1, Words
    <2> QED
      BY <1>2, <1>o, <2>1, <2>2 DEF Extend, TypeOK, decoder
  <1>3. CASE Emit
    <2> DEFINE w == Concat(prev, input[pos])
    <2>1. pos \in 1..Len(input) /\ pos + 1 \in 1..Len(input) + 1
      BY <1>t, <1>3 DEF Emit
    <2>2. w \in Seq(Byte \ {0}) /\ Str(input[pos]) \in Seq(Byte \ {0})
      BY <1>t, <1>o, <2>1, Words
    <2>3. /\ dict' = Insert(dict, w, next_code) /\ next_code' = next_code + 1 /\ codes' = Append(codes, dict[prev])
          /\ prev' = Str(input[pos]) /\ pos' = pos + 1 /\ UNCHANGED <<pc, input, file, decoder>>
          /\ dict[prev] \in 0..next_code - 1
      BY <1>3, <1>o DEF Emit
    <2> HIDE DEF w
    <2>4. \A s \in DOMAIN dict' : s \in Seq(Byte \ {0}) /\ dict'[s] \in 0..next_code' - 1
      <3> SUFFICES ASSUME NEW s \in DOMAIN dict' PROVE s \in Seq(Byte \ {0}) /\ dict'[s] \in 0..next_code' - 1
        OBVIOUS
      <3>1. s \in DOMAIN dict \cup {w} /\ (s = w => dict'[s] = next_code) /\ (s # w => dict'[s] = dict[s])
        BY <2>3 DEF Insert
      <3>2. CASE s = w
        BY <1>t, <2>2, <2>3, <3>1, <3>2
      <3>3. CASE s # w
        <4>1. s \in Seq(Byte \ {0}) /\ dict[s] \in 0..next_code - 1
          BY <1>o, <3>1, <3>3
        <4> QED
          BY <1>t, <2>3, <3>1, <3>3, <4>1
      <3> QED
        BY <3>2, <3>3
    <2>5. codes' \in Seq(0..next_code' - 1)
      <3>1. codes' \in Seq(0..next_code - 1) /\ 0..next_code - 1 \subseteq 0..next_code' - 1
        BY <1>t, <1>o, <2>3
      <3> QED
        BY <3>1, SeqMonotonic
    <2>6. next_code' \in Nat /\ prev' \in Seq(Byte \ {0}) /\ pos' \in 1..Len(input) + 1
      BY <1>t, <2>1, <2>2, <2>3
    <2> QED
      BY <1>o, <2>3, <2>4, <2>5, <2>6 DEF TypeOK, decoder
  <1>4. CASE EmitLast
    <2>1. codes' \in Seq(0..next_code - 1)
      BY <1>4, <1>o DEF EmitLast
    <2> QED
      BY <1>4, <1>o, <2>1 DEF EmitLast, TypeOK, decoder
  <1>5. CASE Crash
    BY <1>5, <1>o DEF Crash, TypeOK, encoder, decoder
  <1>6. CASE WriteFile
    <2>1. Pack(codes) \in Seq(Byte)
      BY <1>t, Unpacked
    <2> QED
      BY <1>6, <1>o, <2>1 DEF WriteFile, TypeOK, encoder, decoder
  <1>7. CASE DecodeFirst
    <2> DEFINE cs == Unpack(file)
    <2>1. /\ unpacked' = cs /\ pos' = 1 /\ UNCHANGED <<input, encoder, file, strings, next>>
          /\ IF cs = <<>> THEN pc' = "done" /\ UNCHANGED <<prev_str, output>>
             ELSE pc' = "decode" /\ prev_str' = strings[cs[1]] /\ output' = strings[cs[1]]
      BY <1>7 DEF DecodeFirst
    <2>2. cs \in Seq(0..MAX_CODE) /\ (cs = <<>> <=> codes = <<>>)
          /\ (codes # <<>> => strings[cs[1]] \in Seq(Byte \ {0}))
      BY <1>7, FirstUnpacked DEF DecodeFirst
    <2> HIDE DEF cs
    <2>3. 1 \in 1..Len(input) + 1
      BY <1>t
    <2> QED
      BY <1>o, <2>1, <2>2, <2>3 DEF TypeOK, encoder
  <1>8. CASE Decode
    <2> DEFINE val == Value(unpacked[pos + 1])
               w == Concat(prev_str, FirstOf(val))
    <2>1. /\ pc = "decode" /\ output' = output \o val /\ strings' = Insert(strings, Masked(next), w)
          /\ prev_str' = val /\ next' = next + 1 /\ pos' = pos + 1 /\ pos < Len(unpacked)
          /\ UNCHANGED <<pc, input, encoder, file, unpacked>>
      BY <1>8 DEF Decode
    <2>2. val \in Seq(Byte \ {0})
      BY <1>o, ValueType
    <2> HIDE DEF val
    <2>3. w \in Seq(Byte \ {0})
      <3>1. FirstOf(val) \in Byte
        BY <2>2, FirstType
      <3> QED
        BY <1>o, <3>1, Words DEF TypeOK
    <2> HIDE DEF w
    <2>4. pos' \in 1..Len(input) + 1
      BY <1>t, <2>1, Position
    <2>5. next \in Nat /\ Masked(next) \in 0..MAX_CODE /\ output \in Seq(Byte \ {0})
      BY <1>o, MaskedCode DEF TypeOK
    <2>6. \A c \in DOMAIN strings' : c \in 0..MAX_CODE /\ strings'[c] \in Seq(Byte \ {0})
      <3> SUFFICES ASSUME NEW c \in DOMAIN strings' PROVE c \in 0..MAX_CODE /\ strings'[c] \in Seq(Byte \ {0})
        OBVIOUS
      <3>1. /\ c \in DOMAIN strings \cup {Masked(next)} /\ (c = Masked(next) => strings'[c] = w)
            /\ (c # Masked(next) => strings'[c] = strings[c])
        BY <2>1 DEF Insert
      <3> QED
        BY <1>o, <2>3, <2>5, <3>1 DEF TypeOK
    <2>7. next' \in Nat /\ output' \in Seq(Byte \ {0})
      BY <2>1, <2>2, <2>5
    <2> QED
      BY <1>o, <2>1, <2>2, <2>4, <2>6, <2>7 DEF TypeOK, encoder
  <1>9. CASE DecodeDone
    BY <1>9, <1>o DEF DecodeDone, TypeOK, encoder, decoder
  <1> QED
    BY <1>1, <1>2, <1>3, <1>4, <1>5, <1>6, <1>7, <1>8, <1>9 DEF Next

-----------------------------------------------------------------------------
(* Codes.                                                                  *)

\* A string that is new gets the one code that no string has.
LEMMA NumberedKept ==
    ASSUME IInv, Next
    PROVE  Numbered'
  <1>o. Numbered /\ next_code \in Nat /\ \A s \in DOMAIN dict : dict[s] \in 0..next_code - 1
    BY DEF IInv, TypeOK
  <1>1. CASE Emit
    <2> DEFINE w == Concat(prev, input[pos])
    <2>1. dict' = Insert(dict, w, next_code) /\ next_code' = next_code + 1 /\ w \notin DOMAIN dict
      BY <1>1 DEF Emit
    <2> HIDE DEF w
    <2>2. /\ DOMAIN dict' = DOMAIN dict \cup {w} /\ dict'[w] = next_code
          /\ \A x \in DOMAIN dict : dict'[x] = dict[x]
      BY <2>1 DEF Insert
    <2>3. ASSUME NEW s \in DOMAIN dict', NEW t \in DOMAIN dict', dict'[s] = dict'[t] PROVE s = t
      <3>1. \A x \in DOMAIN dict : dict'[x] # next_code
        BY <1>o, <2>2
      <3>2. CASE s = w \/ t = w
        BY <2>2, <2>3, <3>1, <3>2
      <3>3. CASE s # w /\ t # w
        BY <1>o, <2>2, <2>3, <3>3 DEF Numbered
      <3> QED
        BY <3>2, <3>3
    <2>4. ASSUME NEW c \in 0..next_code' - 1 PROVE \E s \in DOMAIN dict' : dict'[s] = c
      <3>1. CASE c = next_code
        BY <2>2, <3>1
      <3>2. CASE c # next_code
        <4>1. c \in 0..next_code - 1
          BY <1>o, <2>1, <3>2
        <4>2. PICK s \in DOMAIN dict : dict[s] = c
          BY <1>o, <4>1 DEF Numbered
        <4> QED
          BY <2>2, <4>2
      <3> QED
        BY <3>1, <3>2
    <2>5. ASSUME NEW b \in Singles PROVE Str(b) \in DOMAIN dict' /\ dict'[Str(b)] = b
      <3>1. Str(b) \in DOMAIN dict /\ dict[Str(b)] = b
        BY <1>o DEF Numbered
      <3> QED
        BY <2>2, <3>1
    <2> QED
      BY <2>3, <2>4, <2>5 DEF Numbered
  <1>2. CASE ReadFirst \/ Extend \/ EmitLast \/ Crash \/ WriteFile \/ DecodeFirst \/ Decode \/ DecodeDone
    <2>1. UNCHANGED <<dict, next_code>>
      BY <1>2 DEF ReadFirst, Extend, EmitLast, Crash, WriteFile, DecodeFirst, Decode, DecodeDone, encoder
    <2> QED
      BY <1>o, <2>1 DEF Numbered
  <1> QED
    BY <1>1, <1>2 DEF Next

\* One more code: it is not above the last one handed out.
LEMMA OneMore ==
    ASSUME IInv, NEW c \in 0..next_code - 1, codes' = Append(codes, c), ~Encoded
    PROVE  /\ Len(codes') = Len(codes) + 1 /\ codes'[Len(codes) + 1] = c
           /\ \A k \in 1..Len(codes) : codes'[k] = codes[k]
           /\ \A k \in 1..Len(codes') : codes'[k] <= FirstCode + k - 2
           /\ Len(codes) = next_code - FirstCode
  <1>t. /\ codes \in Seq(Nat) /\ Len(codes) \in Nat /\ next_code \in Nat /\ FirstCode \in Nat
        /\ \A k \in 1..Len(codes) : codes[k] <= FirstCode + k - 2
    BY Typed, Sizes
  <1>1. Len(codes) = next_code - FirstCode
    BY <1>t DEF IInv, Counted
  <1>2. c \in Nat
    BY <1>t
  <1>3. Len(codes') = Len(codes) + 1 /\ codes'[Len(codes) + 1] = c /\ \A k \in 1..Len(codes) : codes'[k] = codes[k]
    BY <1>t, <1>2
  <1>4. ASSUME NEW k \in 1..Len(codes') PROVE codes'[k] <= FirstCode + k - 2
    <2>1. CASE k \in 1..Len(codes)
      BY <1>t, <1>3, <2>1
    <2>2. CASE k = Len(codes) + 1
      BY <1>t, <1>1, <1>3, <2>2
    <2> QED
      BY <1>t, <1>3, <2>1, <2>2
  <1> QED
    BY <1>1, <1>3, <1>4

\* While it encodes, some of the file has been read.
LEMMA Reading ==
    ASSUME IInv, pc = "encode"
    PROVE  input # <<>> /\ pos >= 2 /\ ~Encoded /\ ~Decoding
  <1>t. Len(input) \in Nat /\ pos \in Nat /\ pos <= Len(input) + 1 /\ Len(codes) \in Nat
    BY Typed
  <1>1. Len(codes) <= pos - 2
    BY DEF IInv, Counted
  <1>2. pos >= 2 /\ Len(input) # 0
    BY <1>t, <1>1
  <1> QED
    BY <1>2, Len(<<>>) = 0 DEF Encoded, Decoding

\* A code is handed out for every code that is kept but the last.
LEMMA CountedKept ==
    ASSUME IInv, Next
    PROVE  Counted'
  <1>t. /\ Len(input) \in Nat /\ pos \in Nat /\ pos >= 1 /\ pos <= Len(input) + 1
        /\ next_code \in Nat /\ codes \in Seq(Nat) /\ Len(codes) \in Nat /\ Len(codes) <= Len(input)
        /\ FirstCode \in Nat
    BY Typed, Sizes
  <1>o. Counted /\ \A s \in DOMAIN dict : dict[s] \in 0..next_code - 1
    BY DEF IInv, TypeOK
  <1>1. CASE ReadFirst
    <2>1. /\ pc = "open" /\ codes = <<>> /\ codes' = codes /\ next_code' = next_code /\ input' = input
          /\ Len(codes) = next_code - FirstCode
      <3>1. pc = "open" /\ UNCHANGED <<codes, next_code, input>>
        BY <1>1 DEF ReadFirst
      <3>2. ~Encoded /\ codes = <<>>
        BY <1>o, <3>1 DEF Counted, Encoded
      <3>3. Len(codes) = next_code - FirstCode
        BY <1>t, <1>o, <3>2 DEF Counted
      <3> QED
        BY <3>1, <3>2, <3>3
    <2>2. CASE input = <<>>
      <3>1. pc' = "pack"
        BY <1>1, <2>2 DEF ReadFirst
      <3>2. ~(Encoded' /\ input' # <<>>)
        BY <2>1, <2>2
      <3> QED
        BY <1>t, <1>o, <2>1, <3>1, <3>2 DEF Counted
    <2>3. CASE input # <<>>
      <3>1. pc' = "encode" /\ pos' = 2
        BY <1>1, <2>3 DEF ReadFirst
      <3>2. ~Encoded' /\ Len(codes) = 0
        BY <2>1, <3>1 DEF Encoded
      <3> QED
        BY <1>t, <1>o, <2>1, <3>1, <3>2 DEF Counted
    <2> QED
      BY <2>2, <2>3
  <1>2. CASE Extend
    <2>1. pc = "encode" /\ pc' = pc /\ pos' = pos + 1 /\ UNCHANGED <<codes, next_code, input>>
      BY <1>2 DEF Extend
    <2>2. ~Encoded /\ ~Encoded'
      BY <2>1 DEF Encoded
    <2> QED
      BY <1>t, <1>o, <2>1, <2>2 DEF Counted
  <1>3. CASE Emit
    <2>1. /\ pc = "encode" /\ pc' = pc /\ pos' = pos + 1 /\ next_code' = next_code + 1 /\ input' = input
          /\ codes' = Append(codes, dict[prev]) /\ pos <= Len(input) /\ dict[prev] \in 0..next_code - 1
      BY <1>3, <1>o DEF Emit
    <2>2. ~Encoded /\ ~Encoded' /\ Len(codes) <= pos - 2
      BY <1>o, <2>1 DEF Encoded, Counted
    <2>3. /\ Len(codes') = Len(codes) + 1 /\ Len(codes) = next_code - FirstCode
          /\ \A k \in 1..Len(codes') : codes'[k] <= FirstCode + k - 2
      BY <2>1, <2>2, OneMore
    <2> QED
      BY <1>t, <2>1, <2>2, <2>3 DEF Counted
  <1>4. CASE EmitLast
    <2>1. /\ pc = "encode" /\ pc' = "pack" /\ UNCHANGED <<input, pos, next_code>>
          /\ codes' = Append(codes, dict[prev]) /\ pos > Len(input) /\ dict[prev] \in 0..next_code - 1
      BY <1>4, <1>o DEF EmitLast
    <2>2. ~Encoded /\ Encoded' /\ input # <<>> /\ Len(codes) <= pos - 2
      BY <1>o, <2>1, Reading DEF Encoded, Counted
    <2>3. /\ Len(codes') = Len(codes) + 1 /\ Len(codes) = next_code - FirstCode
          /\ \A k \in 1..Len(codes') : codes'[k] <= FirstCode + k - 2
      BY <2>1, <2>2, OneMore
    <2> QED
      BY <1>t, <2>1, <2>2, <2>3 DEF Counted
  <1>5. CASE Crash
    <2>1. pc = "encode" /\ pc' = "crash" /\ UNCHANGED <<input, codes, next_code>>
      BY <1>5 DEF Crash, encoder
    <2>2. ~Encoded /\ ~Encoded'
      BY <2>1 DEF Encoded
    <2> QED
      BY <1>o, <2>1, <2>2 DEF Counted
  <1>6. CASE WriteFile \/ DecodeFirst \/ Decode \/ DecodeDone
    <2>1. UNCHANGED <<input, codes, next_code>>
      BY <1>6 DEF WriteFile, DecodeFirst, Decode, DecodeDone, encoder
    <2>2. Encoded /\ Encoded' /\ pc' # "open" /\ pc' # "encode"
      BY <1>6 DEF WriteFile, DecodeFirst, Decode, DecodeDone, Encoded
    <2> QED
      BY <1>o, <2>1, <2>2 DEF Counted
  <1> QED
    BY <1>1, <1>2, <1>3, <1>4, <1>5, <1>6 DEF Next

\* The decoder is handed the file, and nothing else.
LEMMA HandedKept ==
    ASSUME IInv, Next
    PROVE  Handed'
  <1>o. Handed /\ pc \in {"open", "encode", "pack", "unpack", "decode", "done", "crash"}
    BY DEF IInv, TypeOK
  <1>1. CASE ReadFirst \/ Extend \/ Emit \/ EmitLast \/ Crash \/ WriteFile
    <2>1. UNCHANGED decoder /\ pc \in {"open", "encode", "pack"}
          /\ pc' \in {"encode", "pack", "crash", "unpack"}
          /\ (pc' = "unpack" => file' = Pack(codes) /\ codes' = codes)
      BY <1>1 DEF ReadFirst, Extend, Emit, EmitLast, Crash, WriteFile, encoder
    <2>2. ~Decoding /\ ~Decoding' /\ pc' \notin {"decode", "done"}
      BY <2>1 DEF Decoding
    <2>3. strings = [c \in Singles |-> Str(c)] /\ next = FirstCode /\ output = <<>>
      BY <1>o, <2>2 DEF Handed
    <2>4. strings' = [c \in Singles |-> Str(c)] /\ next' = FirstCode /\ output' = <<>>
      BY <2>1, <2>3 DEF decoder
    <2>5. LowDigitsKept'
      BY <2>2 DEF LowDigitsKept
    <2> QED
      BY <2>1, <2>2, <2>4, <2>5 DEF Handed
  <1>2. CASE DecodeFirst
    <2> DEFINE cs == Unpack(file)
    <2>1. /\ pc = "unpack" /\ unpacked' = cs /\ pos' = 1 /\ UNCHANGED <<input, encoder, file, strings, next>>
          /\ IF cs = <<>> THEN pc' = "done" /\ UNCHANGED <<prev_str, output>> ELSE pc' = "decode"
      BY <1>2 DEF DecodeFirst
    <2>2. cs = [k \in 1..Len(codes) |-> Masked(codes[k])] /\ (cs = <<>> <=> codes = <<>>)
      BY <2>1, FirstUnpacked
    <2> HIDE DEF cs
    <2>3. ~Decoding /\ codes' = codes
      BY <2>1 DEF Decoding, encoder
    <2>4. strings = [c \in Singles |-> Str(c)] /\ next = FirstCode /\ output = <<>>
      BY <1>o, <2>3 DEF Handed
    <2>5. LowDigitsKept'
      BY <2>1, <2>2, <2>3 DEF LowDigitsKept
    <2>6. CASE codes = <<>>
      BY <2>1, <2>2, <2>3, <2>4, <2>5, <2>6 DEF Handed, Decoding
    <2>7. CASE codes # <<>>
      <3>1. Decoding' /\ pc' = "decode" /\ pos' <= Len(codes')
        BY <2>1, <2>2, <2>3, <2>7, Typed DEF Decoding
      <3> QED
        BY <2>3, <2>5, <2>7, <3>1 DEF Handed
    <2> QED
      BY <2>6, <2>7
  <1>3. CASE Decode
    <2>1. pc = "decode" /\ pc' = pc /\ pos' = pos + 1 /\ pos < Len(unpacked) /\ UNCHANGED <<codes, unpacked>>
      BY <1>3 DEF Decode, encoder
    <2>2. codes # <<>> /\ Len(unpacked) = Len(codes) /\ pos \in 1..Len(codes) /\ Len(codes) \in Nat
      BY <2>1, Position, Typed
    <2>3. Decoding' /\ pos' <= Len(codes')
      BY <2>1, <2>2 DEF Decoding
    <2>4. LowDigitsKept'
      BY <1>o, <2>1 DEF Handed, LowDigitsKept
    <2> QED
      BY <2>1, <2>2, <2>3, <2>4 DEF Handed
  <1>4. CASE DecodeDone
    <2>1. pc = "decode" /\ pc' = "done" /\ pos = Len(unpacked) /\ UNCHANGED <<pos, codes, unpacked>>
      BY <1>4 DEF DecodeDone, encoder, decoder
    <2>2. codes # <<>> /\ Len(unpacked) = Len(codes)
      BY <2>1, Position
    <2>3. Decoding' /\ pos' <= Len(codes') /\ pos' = Len(codes')
      BY <2>1, <2>2, Typed DEF Decoding
    <2>4. LowDigitsKept'
      BY <1>o, <2>1 DEF Handed, LowDigitsKept
    <2> QED
      BY <2>1, <2>3, <2>4 DEF Handed
  <1> QED
    BY <1>1, <1>2, <1>3, <1>4 DEF Next

-----------------------------------------------------------------------------
(* Texts.                                                                  *)

\* A dictionary in which no two strings have one code has one string for a code.
LEMMA StringOf ==
    ASSUME NEW d, \A s, t \in DOMAIN d : d[s] = d[t] => s = t, NEW s \in DOMAIN d
    PROVE  StringIn(d, d[s]) = s
  <1> DEFINE t == CHOOSE t \in DOMAIN d : d[t] = d[s]
  <1>1. t \in DOMAIN d /\ d[t] = d[s]
    OBVIOUS
  <1>2. StringIn(d, d[s]) = t
    BY DEF StringIn
  <1> HIDE DEF t
  <1> QED
    BY <1>1, <1>2

\* The codes and the strings of the encoder.
LEMMA CodedIs ==
    ASSUME IInv
    PROVE  /\ \A s \in DOMAIN dict : s \in Seq(Byte \ {0}) /\ dict[s] \in 0..next_code - 1 /\ Coded(dict[s]) = s
           /\ \A c \in 0..next_code - 1 : Coded(c) \in DOMAIN dict /\ dict[Coded(c)] = c /\ Coded(c) \in Seq(Byte \ {0})
           /\ \A b \in Singles : Coded(b) = Str(b) /\ Str(b) \in DOMAIN dict
  <1>1. Numbered /\ \A s \in DOMAIN dict : s \in Seq(Byte \ {0}) /\ dict[s] \in 0..next_code - 1
    BY DEF IInv, TypeOK
  <1>2. \A s \in DOMAIN dict : Coded(dict[s]) = s
    BY <1>1, StringOf DEF Numbered, Coded
  <1>3. ASSUME NEW c \in 0..next_code - 1
        PROVE  Coded(c) \in DOMAIN dict /\ dict[Coded(c)] = c /\ Coded(c) \in Seq(Byte \ {0})
    <2>1. PICK s \in DOMAIN dict : dict[s] = c
      BY <1>1 DEF Numbered
    <2> QED
      BY <1>1, <1>2, <2>1
  <1>4. \A b \in Singles : Coded(b) = Str(b) /\ Str(b) \in DOMAIN dict
    BY <1>1, <1>2 DEF Numbered
  <1> QED
    BY <1>1, <1>2, <1>3, <1>4

\* The text of a sequence of codes grows with each of them.
LEMMA SaidIs ==
    ASSUME NEW d, NEW cs, Len(cs) \in Nat, \A k \in 1..Len(cs) : StringIn(d, cs[k]) \in Seq(Byte \ {0})
    PROVE  /\ \A k \in 0..Len(cs) : SaidIn(d, cs)[k] \in Seq(Byte \ {0})
           /\ SaidIn(d, cs)[0] = <<>>
           /\ \A k \in 1..Len(cs) : SaidIn(d, cs)[k] = SaidIn(d, cs)[k - 1] \o StringIn(d, cs[k])
  <1> DEFINE n == Len(cs)
             K == 0..n
             V == Seq(Byte \ {0})
             Body(g) == [k \in K |-> IF k = 0 THEN <<>> ELSE g[k - 1] \o StringIn(d, cs[k])]
             said == CHOOSE g : g = Body(g)
             S == [k \in 1..n |-> [v \in V |-> v \o StringIn(d, cs[k])]]
  <1>1. SaidIn(d, cs) = said
    BY DEF SaidIn
  <1>2. \A u, v \in V : u \o v \in V
    BY ConcatProperties
  <1>3. <<>> \in V
    OBVIOUS
  <1>4. \A k \in K : k # 0 => k \in 1..n /\ k - 1 \in K
    OBVIOUS
  <1>5. n \in Nat /\ \A k \in 1..n : StringIn(d, cs[k]) \in V
    OBVIOUS
  <1> HIDE DEF V, n
  <1>6. S \in [1..n -> [V -> V]]
    BY <1>2, <1>5
  <1>7. \E g : g = Body(g)
    <2>1. PICK g \in [0..n -> V] : Iterates(g, n, <<>>, S)
      <3> HIDE DEF S
      <3> QED
        BY <1>3, <1>5, <1>6, Iterate
    <2>2. ASSUME NEW k \in K PROVE g[k] = IF k = 0 THEN <<>> ELSE g[k - 1] \o StringIn(d, cs[k])
      <3>1. CASE k = 0
        BY <2>1, <3>1 DEF Iterates
      <3>2. CASE k # 0
        <4>1. k \in 1..n /\ g[k - 1] \in V
          BY <1>4, <2>1, <3>2
        <4>2. g[k] = S[k][g[k - 1]]
          BY <2>1, <4>1 DEF Iterates
        <4> QED
          BY <3>2, <4>1, <4>2
      <3> QED
        BY <3>1, <3>2
    <2>3. g = [k \in K |-> g[k]]
      BY <2>1
    <2>4. g = Body(g)
      <3> HIDE DEF K
      <3> QED
        BY <2>2, <2>3, Zenon
    <2> QED
      BY <2>4
  <1>8. said = Body(said)
    <2> HIDE DEF Body
    <2> QED
      BY <1>7, Zenon
  <1> HIDE DEF said
  <1>9. ASSUME NEW k \in K PROVE said[k] = IF k = 0 THEN <<>> ELSE said[k - 1] \o StringIn(d, cs[k])
    <2> HIDE DEF K
    <2> QED
      BY <1>8, Zenon
  <1> DEFINE T == {k \in K : said[k] \in V}
  <1>10. \A k \in 0..n : k \in T
    <2>1. 0 \in T
      BY <1>3, <1>5, <1>9
    <2>2. ASSUME NEW k \in 0..n, k \in T, k < n PROVE k + 1 \in T
      <3>1. k + 1 \in K /\ k + 1 # 0 /\ (k + 1) - 1 = k /\ k + 1 \in 1..n
        BY <1>5, <2>2
      <3>2. said[k + 1] = said[k] \o StringIn(d, cs[k + 1])
        BY <1>9, <3>1
      <3> QED
        BY <1>2, <1>5, <2>2, <3>1, <3>2
    <2> HIDE DEF T
    <2> QED
      BY <1>5, <2>1, <2>2, Climb
  <1>11. 0 \in K /\ \A k \in 1..n : k \in K /\ k # 0
    BY <1>5
  <1>12. said[0] = <<>>
    BY <1>9, <1>11
  <1>13. \A k \in 1..n : said[k] = said[k - 1] \o StringIn(d, cs[k])
    BY <1>9, <1>11
  <1> QED
    BY <1>1, <1>10, <1>12, <1>13 DEF n, V

\* What has been read of the file.
LEMMA HeardIs ==
    ASSUME input \in Seq(Byte)
    PROVE  /\ \A k \in 0..Len(input) : Heard[k] \in Seq(Byte \ {0})
           /\ Heard[0] = <<>>
           /\ \A k \in 1..Len(input) : Heard[k] = Concat(Heard[k - 1], input[k])
  <1> DEFINE n == Len(input)
             K == 0..n
             V == Seq(Byte \ {0})
             Body(g) == [k \in K |-> IF k = 0 THEN <<>>
                                     ELSE IF input[k] = 0 THEN g[k - 1] ELSE Append(g[k - 1], input[k])]
             heard == CHOOSE g : g = Body(g)
             S == [k \in 1..n |-> [v \in V |-> IF input[k] = 0 THEN v ELSE Append(v, input[k])]]
  <1>1. Heard = heard
    BY DEF Heard
  <1>2. n \in Nat /\ \A k \in 1..n : input[k] \in Byte
    OBVIOUS
  <1>3. <<>> \in V
    OBVIOUS
  <1>4. \A k \in K : k # 0 => k \in 1..n /\ k - 1 \in K
    BY <1>2
  <1>5. \A k \in 1..n, v \in V : (IF input[k] = 0 THEN v ELSE Append(v, input[k])) \in V
                                 /\ (IF input[k] = 0 THEN v ELSE Append(v, input[k])) = Concat(v, input[k])
    <2> SUFFICES ASSUME NEW k \in 1..n, NEW v \in V
                 PROVE  (IF input[k] = 0 THEN v ELSE Append(v, input[k])) \in V
                        /\ (IF input[k] = 0 THEN v ELSE Append(v, input[k])) = Concat(v, input[k])
      OBVIOUS
    <2>1. input[k] \in Byte /\ v \in Seq(Byte \ {0})
      BY <1>2
    <2>2. /\ Concat(v, input[k]) \in V /\ (input[k] = 0 => Concat(v, input[k]) = v)
          /\ (input[k] # 0 => Concat(v, input[k]) = Append(v, input[k]))
      BY <2>1, Words
    <2> QED
      BY <2>2
  <1> HIDE DEF V, n
  <1>6. S \in [1..n -> [V -> V]]
    BY <1>5
  <1>7. \E g : g = Body(g)
    <2>1. PICK g \in [0..n -> V] : Iterates(g, n, <<>>, S)
      <3> HIDE DEF S
      <3> QED
        BY <1>2, <1>3, <1>6, Iterate
    <2>2. ASSUME NEW k \in K
          PROVE  g[k] = IF k = 0 THEN <<>>
                        ELSE IF input[k] = 0 THEN g[k - 1] ELSE Append(g[k - 1], input[k])
      <3>1. CASE k = 0
        BY <2>1, <3>1 DEF Iterates
      <3>2. CASE k # 0
        <4>1. k \in 1..n /\ g[k - 1] \in V
          BY <1>4, <2>1, <3>2
        <4>2. g[k] = S[k][g[k - 1]]
          BY <2>1, <4>1 DEF Iterates
        <4> QED
          BY <3>2, <4>1, <4>2
      <3> QED
        BY <3>1, <3>2
    <2>3. g = [k \in K |-> g[k]]
      BY <2>1
    <2>4. g = Body(g)
      <3> HIDE DEF K
      <3> QED
        BY <2>2, <2>3, Zenon
    <2> QED
      BY <2>4
  <1>8. heard = Body(heard)
    <2> HIDE DEF Body
    <2> QED
      BY <1>7, Zenon
  <1> HIDE DEF heard
  <1>9. ASSUME NEW k \in K
        PROVE  heard[k] = IF k = 0 THEN <<>>
                          ELSE IF input[k] = 0 THEN heard[k - 1] ELSE Append(heard[k - 1], input[k])
    <2> HIDE DEF K
    <2> QED
      BY <1>8, Zenon
  <1> DEFINE T == {k \in K : heard[k] \in V}
  <1>10. \A k \in 0..n : k \in T
    <2>1. 0 \in T
      BY <1>2, <1>3, <1>9
    <2>2. ASSUME NEW k \in 0..n, k \in T, k < n PROVE k + 1 \in T
      <3>1. k + 1 \in K /\ k + 1 # 0 /\ (k + 1) - 1 = k /\ k + 1 \in 1..n
        BY <1>2, <2>2
      <3>2. heard[k + 1] = IF input[k + 1] = 0 THEN heard[k] ELSE Append(heard[k], input[k + 1])
        BY <1>9, <3>1
      <3> QED
        BY <1>5, <2>2, <3>1, <3>2
    <2> HIDE DEF T
    <2> QED
      BY <1>2, <2>1, <2>2, Climb
  <1>11. 0 \in K /\ \A k \in 1..n : k \in K /\ k # 0 /\ k - 1 \in 0..n
    BY <1>2
  <1>12. heard[0] = <<>>
    BY <1>9, <1>11
  <1>13. ASSUME NEW k \in 1..n PROVE heard[k] = Concat(heard[k - 1], input[k])
    <2>1. heard[k - 1] \in V
      BY <1>10, <1>11
    <2>2. heard[k] = IF input[k] = 0 THEN heard[k - 1] ELSE Append(heard[k - 1], input[k])
      BY <1>9, <1>11
    <2> QED
      BY <1>5, <2>1, <2>2
  <1> QED
    BY <1>1, <1>10, <1>12, <1>13 DEF n, V

\* The text of the first codes depends on their strings alone.
LEMMA SaidSame ==
    ASSUME NEW d, NEW cs, Len(cs) \in Nat, \A k \in 1..Len(cs) : StringIn(d, cs[k]) \in Seq(Byte \ {0}),
           NEW e, NEW es, Len(es) \in Nat, \A k \in 1..Len(es) : StringIn(e, es[k]) \in Seq(Byte \ {0}),
           NEW n \in Nat, n <= Len(cs), n <= Len(es), \A k \in 1..n : StringIn(d, cs[k]) = StringIn(e, es[k])
    PROVE  SaidIn(d, cs)[n] = SaidIn(e, es)[n]
  <1> DEFINE a == SaidIn(d, cs)
             b == SaidIn(e, es)
             T == {k \in 0..n : a[k] = b[k]}
  <1>1. a[0] = <<>> /\ \A k \in 1..Len(cs) : a[k] = a[k - 1] \o StringIn(d, cs[k])
    BY SaidIs
  <1>2. b[0] = <<>> /\ \A k \in 1..Len(es) : b[k] = b[k - 1] \o StringIn(e, es[k])
    BY SaidIs
  <1> HIDE DEF a, b
  <1>3. 0 \in T
    BY <1>1, <1>2
  <1>4. ASSUME NEW k \in 0..n, k \in T, k < n PROVE k + 1 \in T
    <2>1. k + 1 \in 1..Len(cs) /\ k + 1 \in 1..Len(es) /\ k + 1 \in 1..n /\ (k + 1) - 1 = k
      BY <1>4
    <2>2. a[k + 1] = a[k] \o StringIn(d, cs[k + 1]) /\ b[k + 1] = b[k] \o StringIn(e, es[k + 1])
      BY <1>1, <1>2, <2>1
    <2>3. a[k] = b[k] /\ StringIn(d, cs[k + 1]) = StringIn(e, es[k + 1]) /\ k + 1 \in 0..n
      BY <1>4, <2>1
    <2>4. a[k + 1] = b[k + 1]
      BY <2>2, <2>3
    <2> QED
      BY <2>3, <2>4
  <1>5. \A k \in 0..n : k \in T
    <2> HIDE DEF T
    <2> QED
      BY <1>3, <1>4, Climb
  <1>6. n \in T
    BY <1>5
  <1> QED
    BY <1>6 DEF a, b

\* The text of the first codes is the beginning of the text of all.
LEMMA SaidPrefix ==
    ASSUME NEW d, NEW cs, Len(cs) \in Nat, \A k \in 1..Len(cs) : StringIn(d, cs[k]) \in Seq(Byte \ {0}),
           NEW n \in 0..Len(cs)
    PROVE  IsPrefix(SaidIn(d, cs)[n], SaidIn(d, cs)[Len(cs)])
  <1> DEFINE a == SaidIn(d, cs)
             V == Seq(Byte \ {0})
             m == Len(cs) - n
             T == {k \in 0..m : \E u \in V : a[n + k] = a[n] \o u}
  <1>1. (\A k \in 0..Len(cs) : a[k] \in V) /\ \A k \in 1..Len(cs) : a[k] = a[k - 1] \o StringIn(d, cs[k])
    BY SaidIs
  <1>2. \A u, v, w \in V : u \o v \in V /\ (u \o v) \o w = u \o (v \o w)
    BY ConcatProperties, ConcatAssociative
  <1>3. \A u \in V : u \o <<>> = u
    BY ConcatEmptySeq
  <1>4. <<>> \in V /\ m \in Nat /\ n + m = Len(cs) /\ n \in Nat
    OBVIOUS
  <1>5. \A k \in 1..Len(cs) : StringIn(d, cs[k]) \in V
    OBVIOUS
  <1> HIDE DEF a, V, m
  <1>6. 0 \in T
    <2>1. n + 0 = n /\ a[n] \in V /\ 0 \in 0..m
      BY <1>1, <1>4
    <2>2. a[n + 0] = a[n] \o <<>>
      BY <1>3, <2>1
    <2> QED
      BY <1>4, <2>1, <2>2
  <1>7. ASSUME NEW k \in 0..m, k \in T, k < m PROVE k + 1 \in T
    <2>1. PICK u \in V : a[n + k] = a[n] \o u
      BY <1>7
    <2>2. n + (k + 1) \in 1..Len(cs) /\ (n + (k + 1)) - 1 = n + k /\ k + 1 \in 0..m
      BY <1>4, <1>7
    <2>3. a[n + (k + 1)] = (a[n] \o u) \o StringIn(d, cs[n + (k + 1)])
      BY <1>1, <2>1, <2>2
    <2>4. StringIn(d, cs[n + (k + 1)]) \in V /\ a[n] \in V
      BY <1>1, <1>5, <2>2
    <2>5. a[n + (k + 1)] = a[n] \o (u \o StringIn(d, cs[n + (k + 1)])) /\ u \o StringIn(d, cs[n + (k + 1)]) \in V
      BY <1>2, <2>3, <2>4
    <2> QED
      BY <2>2, <2>5
  <1>8. \A k \in 0..m : k \in T
    <2> HIDE DEF T
    <2> QED
      BY <1>4, <1>6, <1>7, Climb
  <1>9. PICK u \in V : a[Len(cs)] = a[n] \o u
    <2>1. m \in T
      BY <1>4, <1>8
    <2> QED
      BY <1>4, <2>1
  <1>10. ASSUME NEW s \in V, NEW v \in V PROVE IsPrefix(s, s \o v)
    <2>1. s \in Seq(Byte \ {0}) /\ v \in Seq(Byte \ {0})
      BY DEF V
    <2>2. Len(s) \in Nat /\ Len(v) \in Nat /\ Len(s \o v) = Len(s) + Len(v) /\ s \o v \in Seq(Byte \ {0})
      BY <2>1, ConcatProperties, LenProperties
    <2>3. SubSeq(s, 1, Len(s)) = SubSeq(s \o v, 1, Len(s))
      <3>1. CASE s = <<>>
        BY <2>1, <2>2, <3>1
      <3>2. CASE s # <<>>
        <4>1. 1 \in 1..Len(s) /\ Len(s) \in 1..Len(s)
          BY <2>1, <2>2, <3>2
        <4> QED
          BY <2>1, <4>1, SubSeqOfConcat1
      <3> QED
        BY <3>1, <3>2
    <2> QED
      BY <2>2, <2>3 DEF IsPrefix
  <1> QED
    BY <1>1, <1>9, <1>10 DEF a

-----------------------------------------------------------------------------
(* The encoder has said what it has heard.                                 *)

\* What the codes say, and what the file says.
LEMMA Texts ==
    ASSUME IInv
    PROVE  /\ \A k \in 1..Len(codes) : Coded(codes[k]) \in Seq(Byte \ {0})
           /\ \A k \in 0..Len(codes) : Said[k] \in Seq(Byte \ {0})
           /\ Said[0] = <<>> /\ \A k \in 1..Len(codes) : Said[k] = Said[k - 1] \o Coded(codes[k])
           /\ \A k \in 0..Len(codes) : IsPrefix(Said[k], Said[Len(codes)])
           /\ \A k \in 0..Len(input) : Heard[k] \in Seq(Byte \ {0})
           /\ Heard[0] = <<>> /\ \A k \in 1..Len(input) : Heard[k] = Concat(Heard[k - 1], input[k])
  <1>t. /\ input \in Seq(Byte) /\ Len(codes) \in Nat /\ next_code \in Nat
        /\ \A k \in 1..Len(codes) : codes[k] \in Nat /\ codes[k] <= next_code - 1
    BY Typed
  <1>1. \A k \in 1..Len(codes) : codes[k] \in 0..next_code - 1
    BY <1>t
  <1>2. \A k \in 1..Len(codes) : Coded(codes[k]) \in Seq(Byte \ {0})
    BY <1>1, CodedIs
  <1>3. \A k \in 1..Len(codes) : StringIn(dict, codes[k]) \in Seq(Byte \ {0})
    BY <1>2 DEF Coded
  <1>4. /\ \A k \in 0..Len(codes) : Said[k] \in Seq(Byte \ {0})
        /\ Said[0] = <<>> /\ \A k \in 1..Len(codes) : Said[k] = Said[k - 1] \o Coded(codes[k])
    BY <1>t, <1>3, SaidIs DEF Said, Coded
  <1>5. \A k \in 0..Len(codes) : IsPrefix(Said[k], Said[Len(codes)])
    BY <1>t, <1>3, SaidPrefix DEF Said
  <1>6. /\ \A k \in 0..Len(input) : Heard[k] \in Seq(Byte \ {0})
        /\ Heard[0] = <<>> /\ \A k \in 1..Len(input) : Heard[k] = Concat(Heard[k - 1], input[k])
    BY <1>t, HeardIs
  <1> QED
    BY <1>2, <1>4, <1>5, <1>6

\* One more code: what has been said grows by its string, and each string that came
\* with a code before begins as it did.
LEMMA SaidMore ==
    ASSUME IInv, NEW c \in 0..next_code - 1, codes' = Append(codes, c), ~Encoded,
           \A x \in 0..next_code - 1 : Coded(x)' = Coded(x)
    PROVE  /\ Len(codes') = Len(codes) + 1 /\ Said'[Len(codes')] = Said[Len(codes)] \o Coded(c)
           /\ StringIn(dict', codes'[Len(codes) + 1]) = Coded(c)
           /\ \A k \in 1..Len(codes) : Coded(codes[k])' = Coded(codes[k])
  <1> DEFINE n == Len(codes)
  <1>t. /\ n \in Nat /\ next_code \in Nat
        /\ \A k \in 1..n : codes[k] \in Nat /\ codes[k] <= next_code - 1
    BY Typed
  <1>1. Len(codes') = n + 1 /\ codes'[n + 1] = c /\ \A k \in 1..n : codes'[k] = codes[k]
    BY OneMore
  <1> HIDE DEF n
  <1>2. \A k \in 1..n : codes[k] \in 0..next_code - 1
    BY <1>t
  <1>3. \A x \in 0..next_code - 1 : StringIn(dict', x) = Coded(x) /\ Coded(x) \in Seq(Byte \ {0})
    BY CodedIs DEF Coded
  <1>4. StringIn(dict', codes'[n + 1]) = Coded(c)
    BY <1>1, <1>3
  <1>5. \A k \in 1..n : StringIn(dict', codes'[k]) = Coded(codes[k]) /\ StringIn(dict, codes[k]) = Coded(codes[k])
    BY <1>1, <1>2, <1>3 DEF Coded
  <1>6. \A k \in 1..n + 1 : StringIn(dict', codes'[k]) \in Seq(Byte \ {0})
    <2> SUFFICES ASSUME NEW k \in 1..n + 1 PROVE StringIn(dict', codes'[k]) \in Seq(Byte \ {0})
      OBVIOUS
    <2>1. k = n + 1 \/ k \in 1..n
      BY <1>t
    <2>2. \A l \in 1..n : Coded(codes[l]) \in Seq(Byte \ {0})
      BY <1>2, <1>3
    <2> QED
      BY <1>3, <1>4, <1>5, <2>1, <2>2
  <1>7. \A k \in 1..n : StringIn(dict, codes[k]) \in Seq(Byte \ {0})
    BY <1>2, <1>3, <1>5
  <1>8. SaidIn(dict', codes')[n + 1] = SaidIn(dict', codes')[n] \o Coded(c)
    <2>1. n + 1 \in 1..Len(codes') /\ (n + 1) - 1 = n /\ Len(codes') \in Nat
      BY <1>t, <1>1
    <2>2. \A k \in 1..Len(codes') : StringIn(dict', codes'[k]) \in Seq(Byte \ {0})
      BY <1>1, <1>6
    <2>3. SaidIn(dict', codes')[n + 1] = SaidIn(dict', codes')[(n + 1) - 1] \o StringIn(dict', codes'[n + 1])
      BY <2>1, <2>2, SaidIs
    <2> QED
      BY <1>4, <2>1, <2>3
  <1>9. SaidIn(dict', codes')[n] = SaidIn(dict, codes)[n]
    <2>1. n <= Len(codes') /\ n <= Len(codes) /\ Len(codes) = n /\ Len(codes') \in Nat
      BY <1>t, <1>1 DEF n
    <2>2. \A k \in 1..Len(codes') : StringIn(dict', codes'[k]) \in Seq(Byte \ {0})
      BY <1>1, <1>6
    <2>3. \A k \in 1..Len(codes) : StringIn(dict, codes[k]) \in Seq(Byte \ {0})
      BY <1>7, <2>1
    <2>4. \A k \in 1..n : StringIn(dict', codes'[k]) = StringIn(dict, codes[k])
      BY <1>5
    <2>5. n \in Nat /\ Len(codes') \in Nat /\ Len(codes) \in Nat
      BY <1>t, <2>1
    <2> DEFINE d == dict'
               cs == codes'
               e == dict
               es == codes
    <2>6. /\ n \in Nat /\ Len(cs) \in Nat /\ Len(es) \in Nat /\ n <= Len(cs) /\ n <= Len(es)
          /\ \A k \in 1..Len(cs) : StringIn(d, cs[k]) \in Seq(Byte \ {0})
          /\ \A k \in 1..Len(es) : StringIn(e, es[k]) \in Seq(Byte \ {0})
          /\ \A k \in 1..n : StringIn(d, cs[k]) = StringIn(e, es[k])
      BY <2>1, <2>2, <2>3, <2>4, <2>5
    <2> HIDE DEF d, cs, e, es
    <2>7. SaidIn(d, cs)[n] = SaidIn(e, es)[n]
      BY <2>6, SaidSame
    <2> QED
      BY <2>7 DEF d, cs, e, es
  <1> QED
    BY <1>1, <1>4, <1>5, <1>8, <1>9 DEF Said, Coded, n

\* What has been encoded is what has been read, after each byte.
LEMMA GrownKept ==
    ASSUME IInv, Next
    PROVE  Grown'
  <1>t. /\ input \in Seq(Byte) /\ Len(input) \in Nat /\ (\A k \in 1..Len(input) : input[k] \in Byte)
        /\ pos \in Nat /\ pos >= 1 /\ pos <= Len(input) + 1
        /\ next_code \in Nat /\ next_code >= FirstCode /\ FirstCode \in Nat
        /\ codes \in Seq(Nat) /\ Len(codes) \in Nat /\ (codes = <<>> <=> Len(codes) = 0)
        /\ \A k \in 1..Len(codes) : codes[k] \in Nat /\ codes[k] <= next_code - 1
    BY Typed, Sizes
  <1>i. input' = input
    BY DEF Next, ReadFirst, Extend, Emit, EmitLast, Crash, WriteFile, DecodeFirst, Decode, DecodeDone
  <1> SUFFICES ASSUME Ascii
               PROVE  /\ pc' # "crash"
                      /\ pc' = "encode" => /\ prev' \in DOMAIN dict'
                                           /\ codes' # <<>> => prev' # <<>>
                                           /\ Said'[Len(codes')] \o prev' = Heard'[pos' - 1]
                      /\ Encoded' => Said'[Len(codes')] = Text'
                      /\ \A k \in 1..next_code' - FirstCode :
                            /\ Coded(codes[k])' # <<>>
                            /\ Coded(FirstCode + k - 1)' =
                                  Concat(Coded(codes[k])', FirstOf(IF k < Len(codes') THEN Coded(codes[k + 1])' ELSE prev'))
    BY <1>i DEF Grown, Ascii
  <1>h. Heard' = Heard /\ Text' = Text /\ Text = Heard[Len(input)]
    BY <1>i DEF Heard, Text
  <1>g. /\ pc = "encode" => /\ prev \in DOMAIN dict
                            /\ codes # <<>> => prev # <<>>
                            /\ Said[Len(codes)] \o prev = Heard[pos - 1]
        /\ Encoded => Said[Len(codes)] = Text
        /\ \A k \in 1..next_code - FirstCode :
              /\ Coded(codes[k]) # <<>>
              /\ Coded(FirstCode + k - 1) =
                    Concat(Coded(codes[k]), FirstOf(IF k < Len(codes) THEN Coded(codes[k + 1]) ELSE prev))
    BY DEF IInv, Grown
  <1>x. /\ Said[0] = <<>> /\ Heard[0] = <<>> /\ \A k \in 1..Len(input) : Heard[k] = Concat(Heard[k - 1], input[k])
        /\ \A k \in 0..Len(input) : Heard[k] \in Seq(Byte \ {0})
        /\ \A k \in 0..Len(codes) : Said[k] \in Seq(Byte \ {0})
    BY Texts
  <1>s. \A k \in 1..Len(input) : input[k] \in Singles
    BY <1>t, Sizes DEF Ascii, Singles, Byte
  <1>p. prev \in Seq(Byte \ {0})
    BY DEF IInv, TypeOK
  <1>a. \A u, v, w \in Seq(Byte \ {0}) : (u \o v) \o w = u \o (v \o w)
    BY ConcatAssociative
  <1>1. CASE ReadFirst
    <2>1. pc = "open" /\ UNCHANGED <<codes, dict, next_code>>
      BY <1>1 DEF ReadFirst
    <2>2. codes = <<>> /\ ~Encoded
      BY <2>1 DEF IInv, Counted, Encoded
    <2>3. next_code = FirstCode /\ Len(codes) = 0
      BY <1>t, <2>2 DEF IInv, Counted
    <2>4. Said' = Said /\ Said'[Len(codes')] = <<>>
      BY <1>x, <2>1, <2>3 DEF Said
    <2>5. CASE input = <<>>
      <3>1. pc' = "pack" /\ Text = <<>>
        BY <1>1, <1>h, <1>x, <2>5 DEF ReadFirst
      <3> QED
        BY <1>h, <1>t, <2>1, <2>3, <2>4, <3>1
    <2>6. CASE input # <<>>
      <3>1. pc' = "encode" /\ prev' = Str(input[1]) /\ pos' = 2
        BY <1>1, <2>6 DEF ReadFirst
      <3>2. 1 \in 1..Len(input) /\ 1 - 1 = 0 /\ 2 - 1 = 1
        BY <1>t, <2>6
      <3>3. prev' \in DOMAIN dict
        BY <1>s, <3>1, <3>2, CodedIs
      <3>4. Heard[1] = <<>> \o prev'
        BY <1>x, <3>1, <3>2 DEF Concat
      <3>5. ~Encoded'
        BY <3>1 DEF Encoded
      <3>6. Said'[Len(codes')] \o prev' = Heard'[pos' - 1]
        BY <1>h, <2>4, <3>1, <3>2, <3>4
      <3>7. next_code' - FirstCode = 0 /\ codes' = <<>>
        BY <1>t, <2>1, <2>2, <2>3
      <3> QED
        BY <2>1, <3>1, <3>3, <3>5, <3>6, <3>7
    <2> QED
      BY <2>5, <2>6
  <1>2. CASE Extend
    <2> DEFINE b == input[pos]
               w == Concat(prev, b)
    <2>1. /\ pc = "encode" /\ pc' = pc /\ pos' = pos + 1 /\ pos <= Len(input) /\ w \in DOMAIN dict /\ prev' = w
          /\ UNCHANGED <<codes, dict, next_code>>
      BY <1>2 DEF Extend
    <2>2. b \in Byte /\ pos \in 1..Len(input) /\ pos - 1 \in 0..Len(input) /\ (pos + 1) - 1 = pos
      BY <1>t, <2>1
    <2>3. prev # <<>> => w # <<>> /\ FirstOf(w) = FirstOf(prev)
      BY <1>p, <2>2, Words
    <2>4. Said' = Said /\ ~Encoded /\ ~Encoded' /\ (\A k : Coded(codes[k])' = Coded(codes[k]))
          /\ (\A k : Coded(k)' = Coded(k))
      BY <2>1 DEF Said, Coded, Encoded
    <2>5. Said[Len(codes)] \o w = Heard[pos]
      <3>1. Str(b) \in Seq(Byte \ {0})
        BY <1>p, <2>2, Words
      <3>2. Said[Len(codes)] \in Seq(Byte \ {0})
        BY <1>t, <1>x
      <3>4. Said[Len(codes)] \o (prev \o Str(b)) = (Said[Len(codes)] \o prev) \o Str(b)
        BY <1>a, <1>p, <3>1, <3>2
      <3>3. Heard[pos] = Heard[pos - 1] \o Str(b)
        BY <1>x, <2>2 DEF Concat
      <3> QED
        BY <1>g, <2>1, <3>4, <3>3 DEF Concat
    <2>6. next_code - FirstCode = Len(codes)
      BY <1>t, <2>4 DEF IInv, Counted
    <2> HIDE DEF w, b
    <2>7. ASSUME NEW k \in 1..next_code - FirstCode
          PROVE  /\ Coded(codes[k]) # <<>>
                 /\ Coded(FirstCode + k - 1) =
                       Concat(Coded(codes[k]), FirstOf(IF k < Len(codes) THEN Coded(codes[k + 1]) ELSE w))
      <3>1. codes # <<>>
        BY <1>t, <2>6, <2>7
      <3>2. FirstOf(w) = FirstOf(prev)
        BY <1>g, <2>1, <2>3, <3>1
      <3> QED
        BY <1>g, <3>2
    <2>8. \A k \in 1..next_code' - FirstCode :
             /\ Coded(codes[k])' # <<>>
             /\ Coded(FirstCode + k - 1)' =
                   Concat(Coded(codes[k])', FirstOf(IF k < Len(codes') THEN Coded(codes[k + 1])' ELSE prev'))
      BY <2>1, <2>4, <2>7
    <2>9. prev' \in DOMAIN dict' /\ (codes' # <<>> => prev' # <<>>)
      BY <1>g, <2>1, <2>3
    <2>10. Said'[Len(codes')] \o prev' = Heard'[pos' - 1]
      BY <1>h, <2>1, <2>2, <2>4, <2>5
    <2> QED
      BY <2>1, <2>4, <2>8, <2>9, <2>10
  <1>3. CASE Emit
    <2> DEFINE b == input[pos]
               w == Concat(prev, b)
               n == Len(codes)
    <2>1. /\ pc = "encode" /\ pc' = pc /\ pos' = pos + 1 /\ pos <= Len(input) /\ w \notin DOMAIN dict
          /\ prev \in DOMAIN dict /\ prev' = Str(b) /\ next_code' = next_code + 1
          /\ codes' = Append(codes, dict[prev]) /\ dict' = Insert(dict, w, next_code)
      BY <1>3 DEF Emit
    <2>2. b \in Byte /\ pos \in 1..Len(input) /\ pos - 1 \in 0..Len(input) /\ (pos + 1) - 1 = pos /\ b \in Singles
      BY <1>t, <1>s, <2>1
    <2>3. Str(b) \in DOMAIN dict /\ Coded(dict[prev]) = prev /\ dict[prev] \in 0..next_code - 1
      BY <2>1, <2>2, CodedIs
    <2>4. b # 0 /\ prev # <<>> /\ Str(b) # <<>> /\ FirstOf(Str(b)) = b
      <3>1. b # 0
        BY <1>p, <2>1, <2>2, Words
      <3>2. prev # <<>>
        <4>1. prev = <<>> => w = Str(b)
          <5>1. <<>> \o Str(b) = Str(b)
            BY <2>2, <1>p, Words, ConcatEmptySeq
          <5> QED
            BY <5>1 DEF Concat
        <4> QED
          BY <2>1, <2>3, <4>1
      <3> QED
        BY <1>p, <2>2, <3>1, <3>2, Words
    <2>5. ~Encoded /\ ~Encoded'
      BY <2>1 DEF Encoded
    <2>6. next_code - FirstCode = n /\ FirstCode + (n + 1) - 1 = next_code
      BY <1>t, <2>5 DEF IInv, Counted
    <2> HIDE DEF w, b
    <2>7. \A s, t \in DOMAIN dict' : dict'[s] = dict'[t] => s = t
      <3>1. Numbered'
        BY NumberedKept
      <3> QED
        BY <3>1 DEF Numbered
    <2>8. DOMAIN dict' = DOMAIN dict \cup {w} /\ dict'[w] = next_code /\ \A x \in DOMAIN dict : dict'[x] = dict[x]
      BY <2>1 DEF Insert
    <2>9. \A x \in 0..next_code - 1 : Coded(x)' = Coded(x)
      <3> SUFFICES ASSUME NEW x \in 0..next_code - 1 PROVE StringIn(dict', x) = Coded(x)
        BY DEF Coded
      <3>1. Coded(x) \in DOMAIN dict /\ dict[Coded(x)] = x
        BY CodedIs
      <3>2. Coded(x) \in DOMAIN dict' /\ dict'[Coded(x)] = x
        BY <2>8, <3>1
      <3>3. StringIn(dict', dict'[Coded(x)]) = Coded(x)
        BY <2>7, <3>2, StringOf
      <3> QED
        BY <3>2, <3>3
    <2>10. StringIn(dict', next_code) = w
      <3>1. StringIn(dict', dict'[w]) = w
        BY <2>7, <2>8, StringOf
      <3> QED
        BY <2>8, <3>1
    <2>11. /\ Len(codes') = n + 1 /\ Said'[n + 1] = Said[n] \o prev /\ StringIn(dict', codes'[n + 1]) = prev
           /\ \A k \in 1..n : StringIn(dict', codes'[k]) = Coded(codes[k])
      BY <2>1, <2>3, <2>5, <2>9, SaidMore DEF Coded
    <2>12. Said'[Len(codes')] \o prev' = Heard'[pos' - 1]
      <3>1. Heard[pos] = Heard[pos - 1] \o Str(b)
        BY <1>x, <2>2 DEF Concat, b
      <3>2. Said[n] \o prev = Heard[pos - 1]
        BY <1>g, <2>1
      <3> QED
        BY <1>h, <2>1, <2>2, <2>11, <3>1, <3>2
    <2>13. ASSUME NEW k \in 1..n + 1
           PROVE  /\ StringIn(dict', codes'[k]) # <<>>
                  /\ StringIn(dict', FirstCode + k - 1) =
                        Concat(StringIn(dict', codes'[k]),
                               FirstOf(IF k < n + 1 THEN StringIn(dict', codes'[k + 1]) ELSE Str(b)))
      <3>1. CASE k = n + 1
        <4>1. FirstCode + k - 1 = next_code /\ ~(k < n + 1)
          BY <1>t, <2>6, <3>1
        <4>2. StringIn(dict', codes'[k]) = prev
          BY <2>11, <3>1
        <4>3. w = Concat(prev, b)
          BY DEF w
        <4> QED
          BY <2>4, <2>10, <4>1, <4>2, <4>3
      <3>2. CASE k \in 1..n
        <4>1. FirstCode + k - 1 \in 0..next_code - 1 /\ k < n + 1 /\ k \in 1..next_code - FirstCode
          BY <1>t, <2>6, <3>2
        <4>2. StringIn(dict', FirstCode + k - 1) = Coded(FirstCode + k - 1)
          BY <2>9, <4>1 DEF Coded
        <4>3. StringIn(dict', codes'[k]) = Coded(codes[k])
          BY <2>11, <3>2
        <4>4. StringIn(dict', codes'[k + 1]) = IF k < n THEN Coded(codes[k + 1]) ELSE prev
          <5>1. CASE k < n
            <6>1. k + 1 \in 1..n
              BY <1>t, <3>2, <5>1
            <6> QED
              BY <2>11, <5>1, <6>1
          <5>2. CASE ~(k < n)
            <6>1. k = n
              BY <1>t, <3>2, <5>2
            <6> QED
              BY <2>11, <5>2, <6>1
          <5> QED
            BY <5>1, <5>2
        <4>5. Coded(codes[k]) # <<>>
              /\ Coded(FirstCode + k - 1) =
                    Concat(Coded(codes[k]), FirstOf(IF k < n THEN Coded(codes[k + 1]) ELSE prev))
          BY <1>g, <4>1
        <4> QED
          BY <4>1, <4>2, <4>3, <4>4, <4>5
      <3> QED
        BY <1>t, <3>1, <3>2
    <2>14. next_code' - FirstCode = n + 1 /\ Len(codes') = n + 1
      BY <1>t, <2>1, <2>6, <2>11
    <2>15. \A k \in 1..next_code' - FirstCode :
              /\ Coded(codes[k])' # <<>>
              /\ Coded(FirstCode + k - 1)' =
                    Concat(Coded(codes[k])', FirstOf(IF k < Len(codes') THEN Coded(codes[k + 1])' ELSE prev'))
      BY <2>1, <2>13, <2>14 DEF Coded
    <2> QED
      BY <2>1, <2>3, <2>4, <2>5, <2>8, <2>12, <2>15
  <1>4. CASE EmitLast
    <2> DEFINE n == Len(codes)
    <2>1. /\ pc = "encode" /\ pc' = "pack" /\ pos > Len(input) /\ prev \in DOMAIN dict
          /\ codes' = Append(codes, dict[prev]) /\ UNCHANGED <<dict, next_code, prev>>
      BY <1>4 DEF EmitLast
    <2>2. Coded(dict[prev]) = prev /\ dict[prev] \in 0..next_code - 1
      BY <2>1, CodedIs
    <2>3. ~Encoded /\ pos - 1 = Len(input)
      BY <1>t, <2>1 DEF Encoded
    <2>4. next_code - FirstCode = n
      BY <1>t, <2>3 DEF IInv, Counted
    <2>5. \A x : Coded(x)' = Coded(x)
      BY <2>1 DEF Coded
    <2>6. /\ Len(codes') = n + 1 /\ Said'[n + 1] = Said[n] \o prev /\ StringIn(dict', codes'[n + 1]) = prev
          /\ \A k \in 1..n : StringIn(dict', codes'[k]) = Coded(codes[k])
      BY <2>1, <2>2, <2>3, <2>5, SaidMore DEF Coded
    <2>7. Said'[Len(codes')] = Text'
      BY <1>g, <1>h, <2>1, <2>3, <2>6
    <2> HIDE DEF n
    <2>8. ASSUME NEW k \in 1..n
          PROVE  /\ StringIn(dict', codes'[k]) # <<>>
                 /\ StringIn(dict', FirstCode + k - 1) =
                       Concat(StringIn(dict', codes'[k]), FirstOf(StringIn(dict', codes'[k + 1])))
      <3>1. StringIn(dict', codes'[k]) = Coded(codes[k]) /\ StringIn(dict', FirstCode + k - 1) = Coded(FirstCode + k - 1)
        BY <2>1, <2>6 DEF Coded
      <3>2. StringIn(dict', codes'[k + 1]) = IF k < n THEN Coded(codes[k + 1]) ELSE prev
        <4>1. CASE k < n
          <5>1. k + 1 \in 1..n
            BY <1>t, <4>1 DEF n
          <5> QED
            BY <2>6, <4>1, <5>1
        <4>2. CASE ~(k < n)
          <5>1. k = n
            BY <1>t, <4>2 DEF n
          <5> QED
            BY <2>6, <4>2, <5>1
        <4> QED
          BY <4>1, <4>2
      <3>3. Coded(codes[k]) # <<>>
            /\ Coded(FirstCode + k - 1) =
                  Concat(Coded(codes[k]), FirstOf(IF k < n THEN Coded(codes[k + 1]) ELSE prev))
        BY <1>g, <2>4 DEF n
      <3> QED
        BY <3>1, <3>2, <3>3
    <2>9. \A k \in 1..next_code' - FirstCode :
             /\ Coded(codes[k])' # <<>>
             /\ Coded(FirstCode + k - 1)' =
                   Concat(Coded(codes[k])', FirstOf(IF k < Len(codes') THEN Coded(codes[k + 1])' ELSE prev'))
      <3>1. n \in Nat /\ next_code' - FirstCode = n /\ \A k \in 1..n : k < Len(codes')
        BY <1>t, <2>1, <2>4, <2>6 DEF n
      <3> QED
        BY <2>8, <3>1 DEF Coded
    <2> QED
      BY <2>1, <2>7, <2>9
  <1>5. CASE Crash
    BY <1>5, <1>g DEF Crash
  <1>6. CASE WriteFile \/ DecodeFirst \/ Decode \/ DecodeDone
    <2>1. UNCHANGED <<codes, dict, next_code, prev>>
      BY <1>6 DEF WriteFile, DecodeFirst, Decode, DecodeDone, encoder
    <2>2. Encoded /\ pc' # "crash" /\ pc' # "encode"
      BY <1>6 DEF WriteFile, DecodeFirst, Decode, DecodeDone, Encoded
    <2>3. Said' = Said /\ \A x : StringIn(dict', x) = Coded(x)
      BY <2>1 DEF Said, Coded
    <2>4. \A k \in 1..next_code' - FirstCode :
             /\ Coded(codes[k])' # <<>>
             /\ Coded(FirstCode + k - 1)' =
                   Concat(Coded(codes[k])', FirstOf(IF k < Len(codes') THEN Coded(codes[k + 1])' ELSE prev'))
      BY <1>g, <2>1 DEF Coded
    <2> QED
      BY <1>g, <1>h, <2>1, <2>2, <2>3, <2>4
  <1> QED
    BY <1>1, <1>2, <1>3, <1>4, <1>5, <1>6 DEF Next

-----------------------------------------------------------------------------
(* The decoder follows the encoder.                                        *)

\* Where the decoder is, in the encoder's numbers.
LEMMA Behind ==
    ASSUME IInv, Fits, Decoding
    PROVE  /\ Len(codes) = next_code - FirstCode + 1 /\ pos \in 1..Len(codes) /\ Len(codes) \in Nat
           /\ FirstCode + pos - 1 \in 0..next_code /\ next_code <= MAX_CODE + 1
           /\ \A k \in 1..Len(codes) : codes[k] \in 0..MAX_CODE /\ Masked(codes[k]) = codes[k]
  <1>t. /\ pos \in Nat /\ pos >= 1 /\ next_code \in Nat /\ next_code >= FirstCode
        /\ Len(codes) \in Nat /\ Len(codes) <= Len(input) /\ Len(input) \in Nat
        /\ (codes = <<>> <=> Len(codes) = 0)
        /\ (\A k \in 1..Len(codes) : codes[k] \in Nat /\ codes[k] <= next_code - 1)
        /\ FirstCode \in Nat /\ MAX_CODE \in Nat /\ next_code <= MAX_CODE + 1
    BY Typed, Sizes DEF Fits
  <1>1. Encoded /\ codes # <<>>
    BY DEF Decoding, Encoded
  <1>2. input # <<>>
    <2>1. Len(input) # 0
      BY <1>t, <1>1
    <2> QED
      BY <2>1, Len(<<>>) = 0
  <1>3. Len(codes) = next_code - FirstCode + 1
    BY <1>t, <1>1, <1>2 DEF IInv, Counted
  <1>4. pos <= Len(codes)
    BY DEF IInv, Handed
  <1>5. ASSUME NEW k \in 1..Len(codes) PROVE codes[k] \in 0..MAX_CODE /\ Masked(codes[k]) = codes[k]
    <2>1. codes[k] \in 0..MAX_CODE
      BY <1>t
    <2> QED
      BY <2>1, MaskedCode
  <1> QED
    BY <1>t, <1>3, <1>4, <1>5

\* The string of each code is the encoder's, and so is that of the next one.
LEMMA FollowedKept ==
    ASSUME IInv, Next
    PROVE  Followed'
  <1> SUFFICES ASSUME Ascii', Fits', Decoding'
               PROVE  /\ next' = FirstCode + pos' - 1
                      /\ DOMAIN strings' = 0..next' - 1
                      /\ \A c \in DOMAIN strings' : strings'[c] = Coded(c)'
                      /\ prev_str' = Coded(codes[pos])'
                      /\ output' = Said'[pos']
    BY DEF Followed
  <1>1. CASE ReadFirst \/ Extend \/ Emit \/ EmitLast \/ Crash \/ WriteFile
    <2>1. pc' \notin {"decode", "done"}
      BY <1>1 DEF ReadFirst, Extend, Emit, EmitLast, Crash, WriteFile
    <2> QED
      BY <2>1 DEF Decoding
  <1>2. CASE DecodeFirst \/ Decode \/ DecodeDone
    <2>1. UNCHANGED <<input, codes, dict, next_code>>
      BY <1>2 DEF DecodeFirst, Decode, DecodeDone, encoder
    <2>2. Ascii /\ Fits /\ codes # <<>>
      BY <2>1 DEF Ascii, Fits, Decoding
    <2>3. Said' = Said /\ \A x : StringIn(dict', x) = Coded(x)
      BY <2>1 DEF Said, Coded
    <2>4. Coded(codes[pos])' = Coded(codes[pos'])
      BY <2>1, <2>3 DEF Coded
    <2>5. \A c : Coded(c)' = Coded(c)
      BY <2>1 DEF Coded
    <2>6. /\ Len(codes) \in Nat /\ Len(codes) # 0 /\ FirstCode \in Nat /\ FirstCode >= 1
          /\ (\A k \in 1..Len(codes) : codes[k] \in Nat /\ codes[k] <= FirstCode + k - 2)
      BY <2>2, Typed, Sizes
    <2>7. /\ \A k \in 1..Len(codes) : Coded(codes[k]) \in Seq(Byte \ {0})
          /\ Said[0] = <<>> /\ \A k \in 1..Len(codes) : Said[k] = Said[k - 1] \o Coded(codes[k])
      BY Texts
    <2>8. CASE DecodeFirst
      <3> DEFINE cs == Unpack(file)
      <3>1. pc = "unpack" /\ pos' = 1 /\ UNCHANGED <<strings, next>>
            /\ (cs # <<>> => prev_str' = strings[cs[1]] /\ output' = strings[cs[1]])
        BY <2>8 DEF DecodeFirst
      <3>2. cs # <<>> /\ cs[1] = codes[1] /\ cs[1] \in Singles /\ strings[cs[1]] = Str(cs[1])
        BY <2>2, <3>1, FirstUnpacked
      <3> HIDE DEF cs
      <3>3. strings = [c \in Singles |-> Str(c)] /\ next = FirstCode
        <4>1. ~Decoding
          BY <3>1 DEF Decoding
        <4> QED
          BY <4>1 DEF IInv, Handed
      <3>4. \A c \in Singles : Coded(c) = Str(c)
        BY CodedIs
      <3>5. Said[1] = Coded(codes[1])
        <4>1. 1 \in 1..Len(codes) /\ 1 - 1 = 0
          BY <2>6
        <4> QED
          BY <2>7, <4>1, ConcatEmptySeq
      <3>6. FirstCode = FirstCode + 1 - 1 /\ Singles = 0..FirstCode - 1
        BY <2>6 DEF Singles
      <3>7. prev_str' = Coded(codes[1]) /\ output' = Coded(codes[1])
        BY <3>1, <3>2, <3>4
      <3> QED
        BY <2>3, <2>4, <2>5, <3>1, <3>3, <3>4, <3>5, <3>6, <3>7
    <2>9. CASE Decode
      <3> DEFINE val == Value(unpacked[pos + 1])
                 c == codes[pos + 1]
                 x == Coded(codes[pos])
      <3>1. /\ pc = "decode" /\ pos < Len(unpacked) /\ output' = output \o val
            /\ strings' = Insert(strings, Masked(next), Concat(prev_str, FirstOf(val)))
            /\ prev_str' = val /\ next' = next + 1 /\ pos' = pos + 1
        BY <2>9 DEF Decode
      <3>2. Decoding
        BY <2>2, <3>1 DEF Decoding
      <3>3. /\ next = FirstCode + pos - 1 /\ DOMAIN strings = 0..next - 1
            /\ (\A e \in DOMAIN strings : strings[e] = Coded(e))
            /\ prev_str = x /\ output = Said[pos]
        BY <2>2, <3>2 DEF IInv, Followed
      <3>4. /\ Len(codes) = next_code - FirstCode + 1 /\ pos \in 1..Len(codes) /\ next_code <= MAX_CODE + 1
            /\ next_code \in Nat /\ MAX_CODE \in Nat
            /\ (\A k \in 1..Len(codes) : Masked(codes[k]) = codes[k])
        BY <2>2, <3>2, Behind, Typed, Sizes
      <3>5. unpacked = [k \in 1..Len(codes) |-> Masked(codes[k])] /\ Len(unpacked) = Len(codes)
        BY <3>1, Position
      <3>6. /\ pos + 1 \in 1..Len(codes) /\ pos \in 1..next_code - FirstCode /\ pos < Len(codes)
            /\ (pos + 1) - 1 = pos /\ next \in Nat /\ next <= next_code - 1 /\ next \in 0..MAX_CODE
        BY <2>6, <3>1, <3>3, <3>4, <3>5
      <3>7. c \in Nat /\ c <= next
        BY <2>6, <3>3, <3>6
      <3>8. unpacked[pos + 1] = c
        BY <3>4, <3>5, <3>6
      <3>9. Masked(next) = next
        BY <3>6, MaskedCode
      <3>10. /\ x # <<>> /\ x \in Seq(Byte \ {0}) /\ Coded(c) \in Seq(Byte \ {0})
             /\ Coded(next) = Concat(x, FirstOf(Coded(c)))
        <4>1. /\ Coded(codes[pos]) # <<>>
              /\ Coded(FirstCode + pos - 1) =
                    Concat(Coded(codes[pos]), FirstOf(IF pos < Len(codes) THEN Coded(codes[pos + 1]) ELSE prev))
          BY <2>2, <3>6 DEF IInv, Grown
        <4> QED
          BY <2>7, <3>3, <3>4, <3>6, <4>1
      <3>11. val = Coded(c)
        <4>1. CASE c < next
          <5>1. c \in DOMAIN strings
            BY <3>3, <3>6, <3>7, <4>1
          <5> QED
            BY <3>3, <3>8, <5>1 DEF Value
        <4>2. CASE c = next
          <5>1. c \notin DOMAIN strings
            BY <3>3, <3>6, <4>2
          <5>2. val = Concat(x, FirstOf(x))
            BY <3>3, <3>8, <5>1 DEF Value
          <5>3. FirstOf(Coded(c)) \in Byte
            BY <3>10, FirstType
          <5>4. FirstOf(Concat(x, FirstOf(Coded(c)))) = FirstOf(x)
            BY <3>10, <5>3, Words
          <5> QED
            BY <3>10, <4>2, <5>2, <5>4
        <4> QED
          BY <3>6, <3>7, <4>1, <4>2
      <3> HIDE DEF val, c, x
      <3>12. DOMAIN strings' = 0..next' - 1
        <4>1. DOMAIN strings' = DOMAIN strings \cup {next}
          BY <3>1, <3>9 DEF Insert
        <4>2. DOMAIN strings = 0..next - 1 /\ next' = next + 1 /\ next \in Nat
          BY <3>1, <3>3, <3>6
        <4>3. (0..next - 1) \cup {next} = 0..(next + 1) - 1
          BY <4>2
        <4> QED
          BY <4>1, <4>2, <4>3
      <3>13. ASSUME NEW e \in DOMAIN strings' PROVE strings'[e] = Coded(e)
        <4>1. CASE e = next
          <5>1. strings'[e] = Concat(prev_str, FirstOf(val))
            BY <3>1, <3>9, <4>1 DEF Insert
          <5> QED
            BY <3>3, <3>10, <3>11, <4>1, <5>1
        <4>2. CASE e # next
          <5>1. e \in DOMAIN strings /\ strings'[e] = strings[e]
            BY <3>1, <3>9, <4>2 DEF Insert
          <5> QED
            BY <3>3, <5>1
        <4> QED
          BY <4>1, <4>2
      <3>14. prev_str' = Coded(codes[pos']) /\ output' = Said[pos']
        BY <2>7, <3>1, <3>3, <3>6, <3>11 DEF c
      <3>15. next' = FirstCode + pos' - 1
        BY <2>6, <3>1, <3>3, <3>4
      <3> QED
        BY <2>3, <2>4, <2>5, <3>12, <3>13, <3>14, <3>15
    <2>10. CASE DecodeDone
      <3>1. pc = "decode" /\ UNCHANGED <<pos, next, strings, prev_str, output>>
        BY <2>10 DEF DecodeDone, decoder
      <3>2. Decoding
        BY <2>2, <3>1 DEF Decoding
      <3>3. /\ next = FirstCode + pos - 1 /\ DOMAIN strings = 0..next - 1
            /\ (\A e \in DOMAIN strings : strings[e] = Coded(e))
            /\ prev_str = Coded(codes[pos]) /\ output = Said[pos]
        BY <2>2, <3>2 DEF IInv, Followed
      <3> QED
        BY <2>3, <2>4, <2>5, <3>1, <3>3
    <2> QED
      BY <1>2, <2>8, <2>9, <2>10
  <1> QED
    BY <1>1, <1>2 DEF Next

-----------------------------------------------------------------------------
(* The specification.                                                      *)

\* Before the file is opened nothing is encoded, and each character has its code.
LEMMA InitKeeps ==
    ASSUME Init
    PROVE  IInv
  <1>1. /\ pc = "open" /\ input \in Inputs /\ pos = 1 /\ prev = <<>> /\ next_code = FirstCode /\ codes = <<>>
        /\ dict = [s \in {Str(b) : b \in Singles} |-> FirstOf(s)]
        /\ file = <<>> /\ unpacked = <<>> /\ prev_str = <<>> /\ strings = [c \in Singles |-> Str(c)]
        /\ next = FirstCode /\ output = <<>>
    BY DEF Init
  <1>2. /\ FirstCode \in Nat /\ FirstCode >= 1 /\ FirstCode <= MAX_CODE /\ MAX_CODE \in Nat /\ Singles \subseteq Byte
        /\ Singles = 0..FirstCode - 1 /\ Singles \subseteq 0..MAX_CODE
    BY Sizes DEF Singles, Byte
  <1>3. input \in Seq(Byte) /\ Len(input) \in Nat
    BY <1>1, LzwAssumption
  <1>4. <<>> \in Seq(Byte \ {0}) /\ \A b \in Singles : Str(b) \in Seq(Byte \ {0}) /\ FirstOf(Str(b)) = b
    <2>1. <<>> \in Seq(Byte \ {0})
      OBVIOUS
    <2>2. \A b \in Byte : Str(b) \in Seq(Byte \ {0}) /\ FirstOf(Str(b)) = b
      BY <2>1, Words
    <2> QED
      BY <1>2, <2>1, <2>2
  <1>5. /\ DOMAIN dict = {Str(b) : b \in Singles}
        /\ \A b \in Singles : Str(b) \in DOMAIN dict /\ dict[Str(b)] = b
    BY <1>1, <1>4
  <1>6. \A s \in DOMAIN dict : s \in Seq(Byte \ {0}) /\ dict[s] \in 0..FirstCode - 1 /\ Str(dict[s]) = s
    <2> SUFFICES ASSUME NEW s \in DOMAIN dict
                 PROVE  s \in Seq(Byte \ {0}) /\ dict[s] \in 0..FirstCode - 1 /\ Str(dict[s]) = s
      OBVIOUS
    <2>1. PICK b \in Singles : s = Str(b)
      BY <1>5
    <2> QED
      BY <1>2, <1>4, <1>5, <2>1
  <1>7. TypeOK
    <2>1. \A c \in DOMAIN strings : c \in 0..MAX_CODE /\ strings[c] \in Seq(Byte \ {0})
      BY <1>1, <1>2, <1>4
    <2> QED
      BY <1>1, <1>2, <1>3, <1>4, <1>6, <2>1 DEF TypeOK
  <1>8. Numbered
    <2>1. \A s, t \in DOMAIN dict : dict[s] = dict[t] => s = t
      BY <1>6
    <2>2. \A c \in 0..next_code - 1 : \E s \in DOMAIN dict : dict[s] = c
      BY <1>1, <1>2, <1>5
    <2> QED
      BY <1>5, <2>1, <2>2 DEF Numbered
  <1>9. Counted
    BY <1>1, <1>2, <1>3 DEF Counted, Encoded
  <1>10. Handed
    BY <1>1 DEF Handed, LowDigitsKept, Decoding
  <1>11. Grown
    BY <1>1, <1>2 DEF Grown, Encoded
  <1>12. Followed
    BY <1>1 DEF Followed, Decoding
  <1> QED
    BY <1>7, <1>8, <1>9, <1>10, <1>11, <1>12 DEF IInv

\* lzw.c: what each step keeps.
LEMMA NextKeeps ==
    ASSUME IInv, [Next]_vars
    PROVE  IInv'
  <1>1. CASE Next
    BY <1>1, TypesKept, NumberedKept, CountedKept, HandedKept, GrownKept, FollowedKept DEF IInv
  <1>2. CASE UNCHANGED vars
    <2>1. UNCHANGED <<pc, input, pos, prev, dict, next_code, codes, file, unpacked, prev_str, strings, next, output>>
      BY <1>2 DEF vars, encoder, decoder
    <2>2. TypeOK' /\ Numbered' /\ Counted'
      BY <2>1 DEF IInv, TypeOK, Numbered, Counted, Encoded
    <2>3. Handed'
      BY <2>1 DEF IInv, Handed, LowDigitsKept, Decoding
    <2>4. /\ Heard' = Heard /\ Text' = Text /\ Said' = Said /\ Ascii' = Ascii /\ Encoded' = Encoded
          /\ Decoding' = Decoding /\ Fits' = Fits /\ \A x : Coded(x)' = Coded(x)
      BY <2>1 DEF Heard, Text, Said, Coded, Ascii, Encoded, Decoding, Fits
    <2>5. Grown'
      BY <2>1, <2>4 DEF IInv, Grown, Coded
    <2>6. Followed'
      BY <2>1, <2>4 DEF IInv, Followed, Coded
    <2> QED
      BY <2>2, <2>3, <2>5, <2>6 DEF IInv
  <1> QED
    BY <1>1, <1>2

\* lzw.c, main: the inductive invariant, for every base, every number of
\* characters and every file.
THEOREM Invariant == Spec => []IInv
  <1>1. Init => IInv
    BY InitKeeps
  <1>2. IInv /\ [Next]_vars => IInv'
    BY NextKeeps
  <1> QED
    BY <1>1, <1>2, PTL DEF Spec

\* lzw.c: the variables of both programs keep their types; no string holds a byte 0.
THEOREM TypeCorrect == Spec => []TypeOK
  <1>1. IInv => TypeOK
    BY DEF IInv
  <1> QED
    BY <1>1, Invariant, PTL

\* lzw.c, write_codes and read_codes: what is unpacked is the low three digits of
\* each code that was packed, for every number of codes.
THEOREM LowDigits == Spec => []LowDigitsKept
  <1>1. IInv => LowDigitsKept
    BY DEF IInv, Handed
  <1> QED
    BY <1>1, Invariant, PTL

\* lzw.c, decode: on an ASCII file for which the codes suffice the decoder has written
\* the beginning of the text, and its dictionary is the encoder's.
THEOREM DecoderInStep == Spec => []InStep
  <1>1. ASSUME IInv PROVE InStep
    <2> SUFFICES ASSUME Ascii, Fits, pc = "decode"
                 PROVE  /\ IsPrefix(output, Text) /\ DOMAIN strings = 0..next - 1
                        /\ \A c \in DOMAIN strings : strings[c] \in DOMAIN dict /\ dict[strings[c]] = c
      BY DEF InStep
    <2>1. Decoding /\ Encoded
      BY <1>1, Position DEF Decoding, Encoded
    <2>2. /\ next = FirstCode + pos - 1 /\ DOMAIN strings = 0..next - 1
          /\ (\A c \in DOMAIN strings : strings[c] = Coded(c)) /\ output = Said[pos]
      BY <1>1, <2>1 DEF IInv, Followed
    <2>3. Said[Len(codes)] = Text
      BY <1>1, <2>1 DEF IInv, Grown
    <2>4. pos \in 0..Len(codes) /\ FirstCode + pos - 1 \in 0..next_code /\ next_code \in Nat
      BY <1>1, <2>1, Behind, Typed
    <2>5. IsPrefix(output, Text)
      BY <1>1, <2>2, <2>3, <2>4, Texts
    <2>6. \A c \in DOMAIN strings : c \in 0..next_code - 1
      BY <2>2, <2>4
    <2> QED
      BY <1>1, <2>2, <2>5, <2>6, CodedIs
  <1>2. IInv => InStep
    BY <1>1
  <1> QED
    BY <1>2, Invariant, PTL

\* lzw.c: an ASCII file never makes -c fail, and if the codes suffice, -x writes what
\* -c read, without its bytes 0.
THEOREM ComesBack == Spec => []RoundTrip
  <1>1. ASSUME IInv PROVE RoundTrip
    <2> SUFFICES ASSUME Ascii PROVE pc # "crash" /\ (pc = "done" /\ Fits => output = Text)
      BY DEF RoundTrip
    <2>1. pc # "crash"
      BY <1>1 DEF IInv, Grown
    <2>2. ASSUME pc = "done", Fits PROVE output = Text
      <3>1. Said[Len(codes)] = Text
        BY <1>1, <2>2 DEF IInv, Grown, Encoded
      <3>2. CASE codes = <<>>
        <4>1. output = <<>>
          BY <1>1, <3>2 DEF IInv, Handed, Decoding
        <4>2. Len(codes) = 0 /\ Said[0] = <<>>
          BY <1>1, <3>2, Texts
        <4> QED
          BY <3>1, <4>1, <4>2
      <3>3. CASE codes # <<>>
        <4>1. Decoding
          BY <2>2, <3>3 DEF Decoding
        <4>2. pos = Len(codes)
          BY <1>1, <2>2, <4>1 DEF IInv, Handed
        <4>3. output = Said[pos]
          BY <1>1, <2>2, <4>1 DEF IInv, Followed
        <4> QED
          BY <3>1, <4>2, <4>3
      <3> QED
        BY <3>2, <3>3
    <2> QED
      BY <2>1, <2>2
  <1>2. IInv => RoundTrip
    BY <1>1
  <1> QED
    BY <1>2, Invariant, PTL

=============================================================================
